--------------------------- MODULE Llama70bTypes ---------------------------
(***************************************************************************)
(* The instruction types of itypes/llama70b.  The definitions are as in    *)
(* TileTypes; the matrix types' instructions are run by a pair of CTAs.    *)
(* Parameters the resolvers take from the operands (m, n, k, batch) are    *)
(* those of what torch sees, so they are computed from it here.            *)
(***************************************************************************)
EXTENDS AccessRegions

M_INST == 512
K_BLOCK == 64
CHUNK_COLS == 32

\* x @ w[0].T: rows, columns and depth of the operands as torch sees them.
MatmulM(op) == Last(Front(Seen(op.src[1])))
MatmulK(op) == Last(Seen(op.src[1]))
MatmulN(op) == Last(Front(Seen(op.src[2])))
MatmulOutputs(src) == <<Buffer(<<Last(Front(Seen(src[1]))), Last(Front(Seen(src[2])))>>)>>

\* What the matmul types share: a block of rows of x and the whole depth of
\* nb rows of a layer's weights, to an M_INST by nb block of the result.
MatmulNum(op, nb) ==
  2 * (Extent(op.dst[1], 2) \div M_INST) * (Extent(op.dst[1], 1) \div nb)

MatmulBlocks(op, layer, nb) ==
  LET out == op.dst[1]
      m0  == Start(out, 2) \div M_INST
      n0  == Start(out, 1) \div nb
      at  == Counters(<<(Stop(out, 2) \div M_INST) - m0, (Stop(out, 1) \div nb) - n0>>)
  IN Twice([i \in DOMAIN at |-> <<layer, m0 + at[i][1], n0 + at[i][2]>>])

Rows(index) == Tile(index[2], M_INST)
OutBox(index, nb) == <<Rows(index), Tile(index[3], nb)>>
WeightBox(op, index, nb) ==
  <<One(index[1]), Tile(index[3], nb), <<0, Dim(op.src[1], 1)>>>>
XBox(op, index) == <<Rows(index), <<0, Dim(op.src[1], 1)>>>>

MatmulOk(op, nb) ==
  LET x == op.src[1]  w == op.src[2]  out == op.dst[1] IN
  /\ Extent(w, 1) = Extent(x, 1)
  /\ Extent(out, 2) = Extent(x, 2) /\ Extent(out, 1) = Extent(w, 2)
  /\ Extent(x, 2) % M_INST = 0 /\ Extent(w, 2) % nb = 0 /\ Extent(x, 1) % K_BLOCK = 0
  /\ Extent(x, 2) = MatmulM(op) /\ Extent(w, 2) = MatmulN(op) /\ Extent(x, 1) = MatmulK(op)

---------------------------------------------------------------------------
\* _resolve_nb refuses an N that nb does not divide.
GateNb(op) == IF MatmulM(op) = 512 /\ MatmulN(op) = 28672 THEN 224 ELSE 256
GateOutputs(args, src) == MatmulOutputs(src)
GateBuilt(op) == MatmulN(op) % GateNb(op) = 0
GateSpecs(op) ==
  [src |-> <<<<M_INST, K_BLOCK>>, <<1, GateNb(op), K_BLOCK>>>>,
   dst |-> <<<<M_INST, GateNb(op)>>>>]
GateNum(op) == MatmulNum(op, GateNb(op))
GateBlocks(op) == MatmulBlocks(op, Start(op.src[2], 3), GateNb(op))
GateRegions(op, index) ==
  [src |-> <<<<XBox(op, index)>>, <<WeightBox(op, index, GateNb(op))>>>>,
   dst |-> <<<<OutBox(index, GateNb(op))>>>>]
GateOk(op) == MatmulOk(op, GateNb(op))

\* As gate_silu, multiplied by its result.
UpNb(op) == IF MatmulM(op) = 512 /\ MatmulN(op) = 28672 THEN 224 ELSE 256
UpOutputs(args, src) == MatmulOutputs(src)
UpBuilt(op) == MatmulN(op) % UpNb(op) = 0
UpSpecs(op) ==
  [src |-> <<<<M_INST, K_BLOCK>>, <<1, UpNb(op), K_BLOCK>>, <<M_INST, UpNb(op)>>>>,
   dst |-> <<<<M_INST, UpNb(op)>>>>]
UpNum(op) == MatmulNum(op, UpNb(op))
UpBlocks(op) == MatmulBlocks(op, Start(op.src[2], 3), UpNb(op))

UpRegions(op, index) ==
  [src |-> <<<<XBox(op, index)>>, <<WeightBox(op, index, UpNb(op))>>,
             <<OutBox(index, UpNb(op))>>>>,
   dst |-> <<<<OutBox(index, UpNb(op))>>>>]

UpOk(op) ==
  LET gate == op.src[3] IN
  /\ MatmulOk(op, UpNb(op))
  /\ Extent(gate, 2) = Extent(op.src[1], 2) /\ Extent(gate, 1) = Extent(op.src[2], 2)

\* The weights have one layer.
LM_NB == 256
LmHeadOutputs(args, src) == MatmulOutputs(src)
LmHeadSpecs(op) ==
  [src |-> <<<<M_INST, K_BLOCK>>, <<1, LM_NB, K_BLOCK>>>>, dst |-> <<<<M_INST, LM_NB>>>>]
LmHeadNum(op) == MatmulNum(op, LM_NB)
LmHeadBlocks(op) == MatmulBlocks(op, 0, LM_NB)
LmHeadRegions(op, index) ==
  [src |-> <<<<XBox(op, index)>>, <<WeightBox(op, index, LM_NB)>>>>,
   dst |-> <<<<OutBox(index, LM_NB)>>>>]
LmHeadOk(op) == MatmulOk(op, LM_NB)

---------------------------------------------------------------------------
\* o_proj_residual: hidden += attn @ w[0].T.  For one number of rows the
\* columns are cut in blocks of 224 and a tail of 128, of which an instruction
\* has an instruction type of its own (block_itype).  The half_tmem variant has
\* the same code for instructions of half as many rows.
OProjRows(op) == IF op.type = "o_proj_residual" THEN M_INST ELSE M_INST \div 2
MIXED_NB == 224
TAIL_NB == 128

OProjMixed(op) ==
  Last(Front(Seen(op.src[1]))) = 2 * OProjRows(op) /\ Last(Seen(op.src[1])) = 8192
OProjNb(op) == IF OProjMixed(op) THEN MIXED_NB ELSE 256
OProjOutputs(args, src) == <<Buffer(src[1].shape)>>
OProjInplace == {<<1, 1>>}
OProjBuilt(op) == OProjMixed(op) \/ Last(Seen(op.src[1])) % OProjNb(op) = 0
OProjSpecs(op) ==
  LET rows == OProjRows(op) IN
  [src |-> <<<<rows, CHUNK_COLS>>, <<rows, K_BLOCK>>, <<1, CHUNK_COLS, K_BLOCK>>>>,
   dst |-> <<<<rows, CHUNK_COLS>>>>]

\* The column blocks of a row block, as their widths and numbers.
OProjColumns(op) ==
  LET out   == op.dst[1]
      nb    == OProjNb(op)
      main  == Dim(out, 1) \div nb
      tail  == Dim(out, 1) - main * nb
      In(n, width) == Start(out, 1) <= n * width /\ (n + 1) * width <= Stop(out, 1)
  IN IF OProjMixed(op)
     THEN FlattenSeq([n \in 1 .. main |->
                        IF In(n - 1, nb) THEN <<<<nb, n - 1>>>> ELSE << >>])
          \o (IF tail > 0 /\ In((main * nb) \div tail, tail)
              THEN <<<<tail, (main * nb) \div tail>>>> ELSE << >>)
     ELSE [n \in 1 .. (Stop(out, 1) \div nb) - (Start(out, 1) \div nb) |->
             <<nb, (Start(out, 1) \div nb) + n - 1>>]

OProjBlocks(op) ==
  LET out   == op.dst[1]
      rows  == OProjRows(op)
      m0    == Start(out, 2) \div rows
      cols  == OProjColumns(op)
      at    == Counters(<<(Stop(out, 2) \div rows) - m0, Len(cols)>>)
  IN Twice([i \in DOMAIN at |->
              <<Start(op.src[3], 3), m0 + at[i][1], cols[at[i][2] + 1][2]>>])

OProjNum(op) == Len(OProjBlocks(op))

\* Mutants: the tail is taken for a block like the others; the whole rows are
\* read of the tensor worked on in place.
OProjWidthMain(op, index) == OProjNb(op)

\* block_itype: the width of an instruction's block.
OProjWidth(op, index) ==
  LET nb   == OProjNb(op)
      main == Dim(op.dst[1], 1) \div nb
      tail == Dim(op.dst[1], 1) - main * nb
  IN IF OProjMixed(op) /\ tail > 0 /\ index[3] = (main * nb) \div tail
     THEN TAIL_NB ELSE nb

OProjRegionsRows(op, index) ==
  LET rows   == Tile(index[2], OProjRows(op))
      cols   == Tile(index[3], OProjWidth(op, index))
      depth  == <<0, Dim(op.src[2], 1)>>
  IN [src |-> <<<<<<rows, <<0, Dim(op.src[1], 1)>>>>>>, <<<<rows, depth>>>>,
                <<<<One(index[1]), cols, depth>>>>>>,
      dst |-> <<<<<<rows, cols>>>>>>]

OProjRegions(op, index) ==
  LET rows   == Tile(index[2], OProjRows(op))
      cols   == Tile(index[3], OProjWidth(op, index))
      depth  == <<0, Dim(op.src[2], 1)>>
  IN [src |-> <<<<<<rows, cols>>>>, <<<<rows, depth>>>>, <<<<One(index[1]), cols, depth>>>>>>,
      dst |-> <<<<<<rows, cols>>>>>>]

OProjOk(op) ==
  LET hidden == op.src[1]  attn == op.src[2]  w == op.src[3]  out == op.dst[1] IN
  /\ Extent(attn, 2) = Extent(out, 2) /\ Extent(w, 2) = Extent(out, 1)
  /\ Extent(w, 1) = Extent(attn, 1)
  /\ Extent(out, 2) % OProjRows(op) = 0 /\ Extent(out, 1) % CHUNK_COLS = 0
  /\ Extent(out, 1) % OProjNb(op) = 0 \/ OProjMixed(op)
  /\ Extent(attn, 1) % K_BLOCK = 0
  /\ Extent(out, 2) = Last(Front(Seen(hidden))) /\ Extent(out, 1) = Last(Seen(hidden))
  /\ Extent(attn, 1) = Last(Seen(attn))

HalfTmemOutputs(args, src) == OProjOutputs(args, src)
HalfTmemInplace == OProjInplace
HalfTmemBuilt(op) == OProjBuilt(op)
HalfTmemSpecs(op) == OProjSpecs(op)
HalfTmemBlocks(op) == OProjBlocks(op)
HalfTmemNum(op) == Len(HalfTmemBlocks(op))
HalfTmemRegions(op, index) == OProjRegions(op, index)
HalfTmemOk(op) == OProjOk(op)

---------------------------------------------------------------------------
\* qkv_rope_append: x @ w[layer].T, a column block of which may hold parts of
\* the queries, the keys and the values; keys and values go to the pages of
\* the rows' sequences.  src: x, weights, two rope tables, pos_ids,
\* append_ids, k_cache, v_cache.
Q_DIM == 8192
KV_DIM == 1024
QKV_DIM == Q_DIM + 2 * KV_DIM
KV_HEADS == 8
HEAD_DIM == 128
KV_PAGE == 128

QkvNb(op) == IF MatmulM(op) = 512 THEN 160 ELSE 256
QkvOutputs(args, src) == <<Buffer(Seen(src[1])), Buffer(src[7].shape), Buffer(src[8].shape)>>
QkvInplace == {<<2, 7>>, <<3, 8>>}
QkvSpecs(op) ==
  [src |-> <<<<M_INST, K_BLOCK>>, <<1, QkvNb(op), K_BLOCK>>, <<1, HEAD_DIM>>,
             <<1, HEAD_DIM>>, <<1>>, <<M_INST>>, <<1, 1, 1, HEAD_DIM>>, <<1, 1, 1, HEAD_DIM>>>>,
   dst |-> <<<<M_INST, CHUNK_COLS>>, <<1, 1, 1, CHUNK_COLS>>, <<1, 1, 1, CHUNK_COLS>>>>]

\* Tensors of all layers: the pages of one.
LayerPages(op) == Dim(op.src[7], 4) \div Dim(op.src[2], 3)

QkvNum(op) == 2 * (Extent(op.dst[1], 2) \div M_INST) * (QKV_DIM \div QkvNb(op))

QkvBlocks(op) ==
  LET layer == Start(op.src[2], 3)
      m0    == Start(op.dst[1], 2) \div M_INST
      at    == Counters(<<(Stop(op.dst[1], 2) \div M_INST) - m0, QKV_DIM \div QkvNb(op)>>)
  IN Twice([i \in DOMAIN at |->
              <<layer, layer * LayerPages(op), m0 + at[i][1], at[i][2]>>])

\* The chunks of 32 columns that start between `from` and `to`, cut there.
QkvChunks(op, n, from, to) ==
  LET starts == [c \in 1 .. CeilDiv(QkvNb(op), CHUNK_COLS) |->
                   n * QkvNb(op) + (c - 1) * CHUNK_COLS]
      cuts   == [c \in DOMAIN starts |->
                   <<starts[c], Min({starts[c] + CHUNK_COLS, (n + 1) * QkvNb(op), to})>>]
  IN SelectSeq(cuts, LAMBDA cut : from <= cut[1] /\ cut[1] < cut[2])

\* A chunk of the keys or values, head by head.
QkvHeads(pages, cut) ==
  LET first == cut[1] \div HEAD_DIM IN
  [h \in 1 .. CeilDiv(cut[2], HEAD_DIM) - first |->
     LET head == first + h - 1 IN
     <<pages, <<0, KV_PAGE>>, One(head),
       <<Max({cut[1] - head * HEAD_DIM, 0}), Min({cut[2] - head * HEAD_DIM, HEAD_DIM})>>>>]

QkvRegions(op, i) ==
  LET rows    == Tile(i[3], M_INST)
      perSeq  == LayerPages(op) \div Dim(op.dst[1], 2)
      pages   == <<i[2] + rows[1] * perSeq, i[2] + rows[2] * perSeq>>
      rope    == <<<<0, Dim(op.src[3], 2)>>, <<0, HEAD_DIM>>>>
      queries == QkvChunks(op, i[4], 0, Q_DIM)
      Cached(from) ==
        LET cuts == QkvChunks(op, i[4], from, from + KV_DIM) IN
        AtLeastEmpty(FlattenSeq([c \in DOMAIN cuts |->
                       QkvHeads(pages, <<cuts[c][1] - from, cuts[c][2] - from>>)]), 4)
  IN [src |-> <<<<<<rows, <<0, Q_DIM>>>>>>,
                <<<<One(i[1]), Tile(i[4], QkvNb(op)), <<0, Q_DIM>>>>>>,
                <<rope>>, <<rope>>, <<<<<<0, 1>>>>>>, <<<<rows>>>>,
                <<EmptyBox(4)>>, <<EmptyBox(4)>>>>,
      dst |-> <<AtLeastEmpty([c \in DOMAIN queries |-> <<rows, queries[c]>>], 2),
                Cached(Q_DIM), Cached(Q_DIM + KV_DIM)>>]

QkvOk(op) ==
  LET B == Extent(op.src[1], 2) IN
  /\ Extent(op.src[1], 1) = Q_DIM
  /\ Extent(op.src[2], 2) = QKV_DIM /\ Extent(op.src[2], 1) = Q_DIM
  /\ Extent(op.src[3], 1) = HEAD_DIM /\ Extent(op.src[4], 1) = HEAD_DIM
  /\ Extent(op.src[5], 1) = 1 /\ Extent(op.src[6], 1) = B
  /\ Effective(op.src[7]) = Effective(op.src[8])
  /\ Tail(Effective(op.src[7])) = <<KV_PAGE, KV_HEADS, HEAD_DIM>>
  /\ Extent(op.dst[1], 2) = B /\ Extent(op.dst[1], 1) = Q_DIM
  /\ LayerPages(op) % B = 0 /\ B % M_INST = 0
  /\ B = MatmulM(op)

---------------------------------------------------------------------------
\* attention_decode: a row of queries, and the pages of its sequence.  src: q,
\* k_cache, v_cache, pos_id, scale.
DecodeOutputs(args, src) == <<Buffer(Seen(src[1]))>>
DecodeSpecs(op) ==
  [src |-> <<<<1, HEAD_DIM>>, <<1, 16, 1, HEAD_DIM>>, <<1, 16, 1, HEAD_DIM>>, <<1>>, <<1>>>>,
   dst |-> <<<<1, HEAD_DIM>>>>]
DecodeNum(op) == Extent(op.dst[1], 2)
DecodeBlocks(op) ==
  [i \in 1 .. Extent(op.dst[1], 2) |-> <<Start(op.src[2], 4), Start(op.dst[1], 2) + i - 1>>]

DecodeRegions(op, i) ==
  LET row    == <<One(i[2]), <<0, Q_DIM>>>>
      perSeq == Seen(op.src[2])[1] \div Last(Front(Seen(op.src[1])))
      pages  == <<<<i[1] + i[2] * perSeq, i[1] + (i[2] + 1) * perSeq>>,
                  <<0, KV_PAGE>>, <<0, KV_HEADS>>, <<0, HEAD_DIM>>>>
  IN [src |-> <<<<row>>, <<pages>>, <<pages>>, <<<<<<0, 1>>>>>>, <<<<<<0, 1>>>>>>>>,
      dst |-> <<<<row>>>>]

DecodeOk(op) ==
  LET q == op.src[1]  k == op.src[2]  out == op.dst[1] IN
  /\ Extent(q, 1) = Q_DIM
  /\ Extent(out, 2) = Extent(q, 2) /\ Extent(out, 1) = Extent(q, 1)
  /\ Effective(k) = Effective(op.src[3])
  /\ Tail(Effective(k)) = <<KV_PAGE, KV_HEADS, HEAD_DIM>>
  /\ Extent(k, 4) % Extent(q, 2) = 0
  /\ Extent(op.src[4], 1) = 1 /\ Extent(op.src[5], 1) = 1
  /\ Extent(q, 2) = Last(Front(Seen(q))) /\ Extent(k, 4) = Seen(k)[1]

---------------------------------------------------------------------------
\* rms: the rows divided among the SMs, at most MAX_ROWS to an instruction.
MAX_ROWS == 2 * (PAGES - 1)

RmsInsts(rows) ==
  IF rows <= SM_COUNT THEN rows ELSE SM_COUNT * CeilDiv(rows, MAX_ROWS * SM_COUNT)

RmsOutputs(args, src) == <<Buffer(Seen(src[1]))>>
RmsSpecs(op) == [src |-> <<<<1, 64>>, <<64>>, <<1>>>>, dst |-> <<<<1, 64>>>>]
RmsNum(op) == RmsInsts(Extent(op.src[1], 2))

RmsBlocks(op) ==
  LET x == op.src[1]
      n == RmsInsts(Extent(x, 2))
      At(i) == Share(i, Extent(x, 2), n)
  IN [i \in 1 .. n |->
        <<Start(op.src[2], 2), 0, Start(x, 2) + At(i - 1), At(i) - At(i - 1)>>]

RmsRegions(op, i) ==
  LET width == <<0, Dim(op.src[1], 1)>>
      rows  == [d \in 1 .. Len(op.src[1].shape) - 2 |-> <<0, 1>>]
                 \o <<<<i[3], i[3] + i[4]>>, width>>
  IN [src |-> <<<<rows>>, <<<<One(i[1]), width>>>>, <<<<<<0, 1>>>>>>>>, dst |-> <<<<rows>>>>]

RmsOk(op) ==
  LET rows == Extent(op.src[1], 2) IN
  /\ Dim(op.src[1], 1) = Last(Seen(op.src[1]))
  /\ CeilDiv(rows, RmsInsts(rows)) <= MAX_ROWS
====
