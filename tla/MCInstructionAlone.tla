------------------------- MODULE MCInstructionAlone -------------------------
(***************************************************************************)
(* The instructions that InstructionAlone is checked for.                  *)
(***************************************************************************)
EXTENDS InstructionAlone, TileOps, MatmulOps

\* The same instruction in every CTA.
Both(op(_)) == [c \in CTAS |-> op(c)]

Gemm(iters) == Both(LAMBDA c : GemmOp(c, iters))

\* A multiplication with fewer iterations than stages, which leaves pages
\* unused, and one with more, which uses stages again; up_matmul, whose gates
\* go into pages of its inputs; and two ops on tiles.
Table ==
  <<Gemm(2), Gemm(6), Both(LAMBDA c : UpMatmulOp(c, 1)),
    Both(LAMBDA c : ElementwiseOp(c, "same", 1, 1)), Both(LAMBDA c : RmsnormOp(c))>>
Alone == Table
====
