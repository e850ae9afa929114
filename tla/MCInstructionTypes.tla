------------------------- MODULE MCInstructionTypes -------------------------
(***************************************************************************)
(* Small programs of every instruction type: single ops whose operands are *)
(* whole tensors, slices, layers and batches, and pairs of ops.            *)
(***************************************************************************)
EXTENDS InstructionTypes

MCSmCount == 10

NoArgs == [none |-> TRUE]
Plus(range, shape) == [shape |-> shape, range |-> range]
Whole(shape) == Buffer(shape)
Sliced(shape, dim, start, end) ==
  Plus(FromSlice(shape, "slice", dim, start, end), shape)

\* The general types.
X == Whole(<<256, 384>>)
Xs == {X, Whole(<<128, 192>>), Whole(<<2, 1, 128, 128>>),
       Sliced(<<384, 256>>, 0, 128, 384), Sliced(<<256, 512>>, 1, 128, 512),
       Sliced(<<3, 128, 64>>, 0, 1, 3)}

Copies == {MakeOp("copy", [from |-> a, to |-> b], <<x>>) :
             a \in {2, 4}, b \in {2, 4}, x \in Xs}
Unaries == {MakeOp("elementwise_unary", [bytes |-> b], <<x>>) : b \in {2, 4}, x \in Xs}
Binaries ==
  {MakeOp("elementwise_binary", [bytes |-> 2], xs) :
     xs \in {<<X, X>>, <<X>>, <<X, Sliced(<<384, 384>>, 0, 128, 384)>>,
             <<X, Whole(<<128, 384>>)>>, <<Whole(<<2, 128, 128>>), Whole(<<2, 128, 128>>)>>}}

Norms ==
  {MakeOp("rmsnorm", NoArgs, <<x, Whole(<<Dim(x, 1)>>)>>) :
     x \in {Whole(<<20, 4096>>), Whole(<<2, 3, 9, 4096>>), Whole(<<40, 2048>>),
            Whole(<<16, 8192>>), Whole(<<256, 128>>), Sliced(<<24, 4096>>, 0, 4, 20),
            Sliced(<<16, 4096>>, 1, 0, 2048)}}
Sums == {MakeOp("reduce", NoArgs, <<x>>) :
           x \in {X, Whole(<<2, 3, 128, 64>>), Sliced(<<256, 64>>, 1, 16, 48),
                  Whole(<<130, 64>>), Whole(<<128>> \o <<16>>)}}

\* The matrix types.
Gemm(ta, tb, a, b) == MakeOp("gemm", [ta |-> ta, tb |-> tb], <<a, b>>)
Gemms ==
  {Gemm(FALSE, FALSE, Whole(<<1024, 64>>), Whole(<<64, 2560>>)),
   Gemm(TRUE, FALSE, Whole(<<128, 1536>>), Whole(<<128, 256>>)),
   Gemm(FALSE, TRUE, Whole(<<2, 512, 64>>), Whole(<<2, 512, 64>>)),
   Gemm(TRUE, TRUE, Whole(<<64, 1024>>), Whole(<<4352, 64>>)),
   Gemm(FALSE, FALSE, Sliced(<<1024, 64>>, 0, 512, 1024), Whole(<<64, 512>>)),
   Gemm(FALSE, FALSE, Whole(<<512, 128>>), Sliced(<<128, 512>>, 1, 256, 512)),
   Gemm(FALSE, FALSE, Whole(<<2, 512, 64>>), Whole(<<1, 64, 512>>)),
   Gemm(FALSE, FALSE, Whole(<<256, 64>>), Whole(<<64, 256>>))}

Attend(causal, q, k) == MakeOp("attention", [causal |-> causal], <<q, k, k>>)
Attentions ==
  {Attend(c, Whole(shape), Whole(shape)) :
     c \in BOOLEAN, shape \in {<<1, 1024, 2, 128>>, <<2, 512, 3, 128>>}}
  \cup {Attend(TRUE, Whole(<<1, 33792, 3, 128>>), Whole(<<1, 33792, 3, 128>>)),
        Attend(FALSE, Sliced(<<1, 1536, 2, 128>>, 1, 512, 1536), Whole(<<1, 512, 2, 128>>)),
        Attend(FALSE, Whole(<<1, 1024, 1, 128>>), Sliced(<<1, 1024, 2, 128>>, 2, 1, 2)),
        Attend(FALSE, Whole(<<1, 512, 2, 128>>), Sliced(<<1, 1024, 2, 128>>, 1, 0, 512)),
        Attend(TRUE, Whole(<<1, 256, 1, 128>>), Whole(<<1, 512, 1, 128>>))}

Increments == {MakeOp("pos_id_increment", NoArgs, <<Whole(<<n>>)>>) : n \in {1, 4}}

\* llama70b.
Layers(n, k, l) == Sliced(<<2, n, k>>, 0, l, l + 1)
Gates == {MakeOp("gate_silu", NoArgs, <<x, w>>) :
            x \in {Whole(<<1024, 128>>), Whole(<<512, 128>>), Sliced(<<1024, 128>>, 0, 512, 1024)},
            w \in {Layers(512, 128, 0), Layers(512, 128, 1), Whole(<<1, 300, 128>>)}}
         \cup {MakeOp("gate_silu", NoArgs, <<Whole(<<512, 64>>), Whole(<<1, 28672, 64>>)>>)}
Ups == {MakeOp("up_matmul", NoArgs, <<Whole(<<m, 128>>), Layers(512, 128, l), Whole(<<m, 512>>)>>) :
          m \in {512, 1024}, l \in {0, 1}}
       \cup {MakeOp("up_matmul", NoArgs,
               <<Whole(<<512, 64>>), Whole(<<1, 28672, 64>>), Whole(<<512, 28672>>)>>)}
LmHeads == {MakeOp("lm_head", NoArgs, <<Whole(<<1024, 64>>), Whole(<<1, 768, 64>>)>>),
            MakeOp("lm_head", NoArgs, <<Whole(<<512, 64>>), Whole(<<1, 512, 128>>)>>)}
OProj(rows, m, n, k) ==
  MakeOp(IF rows = 512 THEN "o_proj_residual" ELSE "o_proj_residual_half_tmem", NoArgs,
         <<Whole(<<m, n>>), Whole(<<m, k>>), Layers(n, k, 1)>>)
OProjs == {OProj(512, 1024, 8192, 64), OProj(512, 512, 1024, 128), OProj(256, 512, 8192, 64),
           OProj(256, 256, 512, 64), OProj(512, 512, 300, 64)}
Rope == Whole(<<64, 128>>)
Cache(pages) == Whole(<<pages, 128, 8, 128>>)
Qkvs == {MakeOp("qkv_rope_append", NoArgs,
           <<Whole(<<m, 8192>>), Layers(10240, 8192, l), Rope, Rope, Whole(<<1>>),
             Whole(<<m>>), Cache(4 * m), Cache(4 * m)>>) : m \in {512, 1024}, l \in {0, 1}}
SeventyDecode(k, v) ==
  MakeOp("attention_decode", NoArgs, <<Whole(<<512, 8192>>), k, v, Whole(<<1>>), Whole(<<1>>)>>)
Layer4(b, l) == Sliced(<<4 * b, 128, 8, 128>>, 0, 2 * b * l, 2 * b * (l + 1))
Decodes == {MakeOp("attention_decode", NoArgs,
              <<Whole(<<4, 8192>>), Layer4(4, l), Layer4(4, l), Whole(<<1>>), Whole(<<1>>)>>) :
              l \in {0, 1}}
RmsOp(rows, width, l) ==
  MakeOp("rms", NoArgs, <<Whole(<<rows, width>>), Sliced(<<2, width>>, 0, l, l + 1), Whole(<<1>>)>>)
Rmss == {RmsOp(rows, 128, l) : rows \in {4, 25, 256, 512}, l \in {0, 1}}

\* llama1b: 512 wide, heads of 64, two key heads.
One1 == Whole(<<512>>)
Weights(n, k) == Sliced(<<2, n, k>>, 0, 1, 2)
Norm1 == Sliced(<<2, 512>>, 0, 1, 2)
Cache1 == Whole(<<2, 32, 2, 64>>)
LayerCache == Sliced(<<2, 32, 2, 64>>, 0, 1, 2)
MatVec(x, rows) ==
  MakeOp("mat_vec_adds", NoArgs, <<Whole(<<rows>>), x, Weights(rows, Dim(x, 1))>>)
MatVecs == {MatVec(One1, 512), MatVec(Whole(<<1024>>), 512), MatVec(Whole(<<2048>>), 512),
            MatVec(Sliced(<<2048>>, 0, 0, 512), 512), MatVec(One1, 96)}
Partials == {MakeOp("attention_partial", NoArgs,
               <<One1, LayerCache, LayerCache, Whole(<<1>>), Whole(<<1>>)>>),
             MakeOp("attention_partial_multi", NoArgs,
               <<One1, Cache1, Cache1, Whole(<<1>>), Whole(<<1>>)>>)}
Reductions == {MakeOp("attention_reduction", NoArgs, <<Whole(<<8, 16>>), Whole(<<8, 16, 64>>)>>),
               MakeOp("attention_reduction", NoArgs, <<Whole(<<8, 1>>), Whole(<<8, 1, 64>>)>>)}
Appends == {MakeOp("rms_qkv_rope_append", NoArgs,
              <<One1, Norm1, Weights(768, 512), Whole(<<32, 64>>), Whole(<<32, 64>>),
                Cache1, Cache1, Whole(<<1>>), Whole(<<1>>)>>)}
Upgates == {MakeOp("rms_upgate_silu", NoArgs,
              <<One1, Norm1, Weights(n, 512), Weights(n, 512), Whole(<<1>>)>>) :
              n \in {1024, 2048}}
Logits == {MakeOp("rms_lm_head", NoArgs,
             <<One1, Whole(<<512>>), Whole(<<n, 512>>), Whole(<<1>>)>>) : n \in {64, 1008}}

Ops == UNION {Copies, Unaries, Binaries, Norms, Sums, Gemms, Attentions, Increments,
              Gates, Ups, LmHeads, OProjs, Qkvs, Decodes, Rmss, MatVecs, Partials,
              Reductions, Appends, Upgates, Logits}

\* Two ops, and the operand of the second that may be a result of the first:
\* the same tensor, or a view of as many elements.
Small == {op \in Ops : \A t \in DOMAIN op.dst : Numel(op.dst[t].shape) <= 300000}
Feeds(from, to) ==
  \/ from.shape = to.shape
  \/ /\ Numel(from.shape) = Numel(to.shape) /\ Numel(from.shape) <= 100000
     /\ IsFull(from.range, from.shape) /\ IsFull(to.range, to.shape)

Pairs ==
  {[ops |-> <<pair[1], pair[2]>>, edge |-> <<pair[3], pair[4]>>] :
     pair \in {p \in Small \X Small \X (1 .. 3) \X (1 .. 9) :
                 /\ Built(p[1]) /\ Built(p[2])
                 /\ p[3] \in DOMAIN p[1].dst /\ p[4] \in DOMAIN p[2].src
                 /\ Feeds(p[1].dst[p[3]], p[2].src[p[4]])}}

\* The keys that a layer's qkv appends, and the decode that reads them.
Append70b ==
  LET layer == Sliced(<<2048, 128, 8, 128>>, 0, 1024, 2048) IN
  {[ops |-> <<qkv, SeventyDecode(layer, layer)>>, edge |-> <<2, 2>>] :
     qkv \in {q \in Qkvs : Last(Front(Seen(q.src[1]))) = 512 /\ Start(q.src[2], 3) = 1}}

MCPrograms ==
  {[ops |-> <<op>>, edge |-> << >>] : op \in {o \in Ops : Built(o)}}
    \cup Pairs \cup Append70b
====
