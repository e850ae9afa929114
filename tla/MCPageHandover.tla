--------------------------- MODULE MCPageHandover ---------------------------
(***************************************************************************)
(* Programs for PageHandover: instructions of different ops, one after     *)
(* another.                                                                *)
(***************************************************************************)
EXTENDS PageHandover, TileOps, MatmulOps

\* The same instruction in every CTA.
Both(op(_)) == [c \in CTAS |-> op(c)]

Noops == Both(LAMBDA c : NoopOp)
Unary(tiles) == Both(LAMBDA c : ElementwiseOp(c, "same", 1, tiles))
Binary(tiles) == Both(LAMBDA c : ElementwiseOp(c, "same", 2, tiles))
Ternary(tiles) == Both(LAMBDA c : ElementwiseOp(c, "same", 3, tiles))

\* A copy to elements twice as wide ("wide") or half as wide ("narrow").  In no
\* program below: PagesIntact fails for it, as the warps store rows over rows
\* that others have yet to load.
Converting(types) == Both(LAMBDA c : ElementwiseOp(c, types, 1, 1))

Rmsnorm == Both(LAMBDA c : RmsnormOp(c))
Rms == Both(LAMBDA c : RmsOp(c))

\* Every tile op before another one, and most before themselves.  The
\* programs of a run have a definition of their own: TLC evaluates it once.
TileTable ==
  <<<<Noops, Unary(2)>>, <<Unary(2), Unary(2)>>, <<Unary(2), Binary(2)>>,
    <<Binary(2), Binary(2)>>, <<Binary(2), Ternary(1)>>,
    <<Ternary(1), Ternary(1)>>, <<Ternary(1), Rmsnorm>>, <<Rmsnorm, Rmsnorm>>,
    <<Rmsnorm, Rms>>, <<Rms, Binary(1)>>, <<Unary(1), Rmsnorm, Unary(1)>>>>
TilePrograms == TileTable

---------------------------------------------------------------------------
Gemm(iters) == Both(LAMBDA c : GemmOp(c, iters))
GateSilu(iters) == Both(LAMBDA c : GateSiluOp(c, iters))
UpMatmul(iters) == Both(LAMBDA c : UpMatmulOp(c, iters))

\* The second instruction starts on the pages in the first one's order.
MatmulTable ==
  <<<<Gemm(2), UpMatmul(2)>>, <<GateSilu(6)>>>>
MatmulPrograms == MatmulTable

TensorTable == <<<<Gemm(1), Gemm(1)>>>>
TensorPrograms == TensorTable
====
