---------------------------- MODULE Llama1bTypes ----------------------------
(***************************************************************************)
(* The instruction types of itypes/llama1b: vectors and matrices cut in    *)
(* blocks of 16 rows that are divided among the SMs.  The definitions are  *)
(* as in TileTypes.                                                        *)
(***************************************************************************)
EXTENDS AccessRegions

BLOCK == 16

Blocks16(interval) == <<interval[1] * BLOCK, interval[2] * BLOCK>>
Scalar == <<<<<<0, 1>>>>>>

\* The i-th of `parts` shares of the blocks of an interval.
Shares(interval, i, parts) ==
  LET first == interval[1] \div BLOCK
      n     == (interval[2] \div BLOCK) - first
  IN <<first + Share(i - 1, n, parts), first + Share(i, n, parts)>>

---------------------------------------------------------------------------
\* mat_vec_adds: residual += w[0] @ x, in chunks of n columns, which add into
\* the same rows.  src: residual, x, weights.
MatVecN(op) == Last(Seen(op.src[1]))
MatVecOutputs(args, src) == <<Buffer(src[1].shape)>>
MatVecInplace == {<<1, 1>>}
MatVecSpecs(op) == [src |-> <<<<BLOCK>>, <<1>>, <<1, 16, 512>>>>, dst |-> <<<<BLOCK>>>>]
MatVecChunks(op) == Extent(op.src[2], 1) \div MatVecN(op)
MatVecPerChunk(op, blocks) ==
  Min({Max({SM_COUNT \div MatVecChunks(op), 1}), blocks})

MatVecNum(op) ==
  MatVecPerChunk(op, Extent(op.dst[1], 1) \div BLOCK) * MatVecChunks(op)

MatVecBlocks(op) ==
  LET out == Of(op.dst[1], 1)
      per == MatVecPerChunk(op, (out[2] \div BLOCK) - (out[1] \div BLOCK))
      at  == Counters(<<MatVecChunks(op), per>>)
  IN [i \in DOMAIN at |->
        <<Start(op.src[3], 3)>> \o Shares(out, at[i][2] + 1, per)
          \o <<Start(op.src[2], 1) + at[i][1] * MatVecN(op)>>]

MatVecRegions(op, i) ==
  LET rows == Blocks16(<<i[2], i[3]>>)
      cols == <<i[4], i[4] + MatVecN(op)>>
  IN [src |-> <<<<<<rows>>>>, <<<<cols>>>>, <<<<One(i[1]), rows, cols>>>>>>,
      dst |-> <<<<<<rows>>>>>>]

MatVecOk(op) == Extent(op.src[2], 1) % MatVecN(op) = 0

---------------------------------------------------------------------------
\* attention_partial: the group of query heads of a key head.  src: q,
\* k_cache, v_cache, pos_id, scale.  `multi` leaves a partial result and its
\* log-sum per head, and takes all layers for its own.
PARTIAL_HEAD == 64
GQA == 4

PartialOutputs(args, src) == <<Buffer(Seen(src[1]))>>
PartialSpecs(op) ==
  LET cache == <<1, 1, 1, PARTIAL_HEAD>> IN
  [src |-> <<<<1>>, cache, cache, <<1>>, <<1>>>>, dst |-> <<<<PARTIAL_HEAD>>>>]
PartialNum(op) == Extent(op.src[2], 2)
PartialBlocks(op) ==
  LET k == op.src[2] IN
  [i \in 1 .. Extent(k, 2) |-> <<Start(k, 4), Start(k, 2) + i - 1>>]

PartialGroup(i) == <<Tile(i[2], GQA * PARTIAL_HEAD)>>

PartialRegions(op, i) ==
  LET cache == <<One(i[1]), <<0, op.src[2].shape[2]>>, One(i[2]), <<0, PARTIAL_HEAD>>>>
  IN [src |-> <<<<PartialGroup(i)>>, <<cache>>, <<cache>>, Scalar, Scalar>>,
      dst |-> <<<<PartialGroup(i)>>>>]

MultiOutputs(args, src) ==
  LET cache == Seen(src[2])
      heads == cache[3] * (Seen(src[1])[1] \div (cache[3] * cache[4]))
  IN <<Buffer(<<heads, 1, cache[4]>>), Buffer(<<heads, 1>>)>>
MultiSpecs(op) == [PartialSpecs(op) EXCEPT !.dst = <<<<1, 1, 1>>, <<1, 1>>>>]
MultiNum(op) == Extent(op.src[2], 2)
MultiBlocks(op) == PartialBlocks(op)

MultiRegions(op, i) ==
  LET shape == op.src[2].shape
      cache == <<<<0, shape[1]>>, <<0, shape[2]>>, One(i[2]), <<0, PARTIAL_HEAD>>>>
      heads == Tile(i[2], GQA)
      parts == <<0, op.dst[1].shape[2]>>
  IN [src |-> <<<<PartialGroup(i)>>, <<cache>>, <<cache>>, Scalar, Scalar>>,
      dst |-> <<<<<<heads, parts, <<0, PARTIAL_HEAD>>>>>>, <<<<heads, parts>>>>>>]

\* attention_reduction: four heads' partial results.  src: log-sums, partials.
ReductionOutputs(args, src) ==
  LET o == Seen(src[2]) IN <<Buffer(<<o[1] * o[3]>>)>>
ReductionSpecs(op) ==
  [src |-> <<<<GQA, BLOCK>>, <<GQA, 1, PARTIAL_HEAD>>>>, dst |-> <<<<PARTIAL_HEAD>>>>]
ReductionNum(op) == Extent(op.src[1], 2) \div GQA
ReductionBlocks(op) ==
  LET lse == op.src[1] IN
  [i \in 1 .. CeilDiv(Extent(lse, 2), GQA) |->
     <<0, Start(lse, 2) + (i - 1) * GQA, Extent(op.src[2], 2)>>]

ReductionRegions(op, i) ==
  LET heads == <<i[2], i[2] + GQA>> IN
  [src |-> <<<<<<heads, <<0, op.src[1].shape[2]>>>>>>,
             <<<<heads, <<0, i[3]>>, <<0, PARTIAL_HEAD>>>>>>>>,
   dst |-> <<<<<<<<heads[1] * PARTIAL_HEAD, heads[2] * PARTIAL_HEAD>>>>>>>>]

---------------------------------------------------------------------------
\* rms_qkv_rope_append: the rows of the queries, keys and values divided among
\* the SMs.  src: hidden, norm, qkv weights, two rope tables, k_cache,
\* v_cache, pos_id, eps.
AppendOutputs(args, src) ==
  LET kv == src[6].shape[3] * src[6].shape[4] IN
  <<Buffer(<<Last(Front(Seen(src[3]))) - 2 * kv>>), Buffer(src[6].shape), Buffer(src[7].shape)>>
AppendInplace == {<<2, 6>>, <<3, 7>>}
AppendSpecs(op) ==
  LET head == Dim(op.src[4], 1) IN
  [src |-> <<<<1>>, <<1, 1>>, <<1, 16, 512>>, <<1, head>>, <<1, head>>,
             <<1, 1, 1, 16>>, <<1, 1, 1, 16>>, <<1>>, <<1>>>>,
   dst |-> <<<<16>>, <<1, 1, 1, 16>>, <<1, 1, 1, 16>>>>]
AppendNum(op) == SM_COUNT
AppendBlocks(op) ==
  [sm \in 1 .. SM_COUNT |->
     <<Start(op.src[3], 3)>> \o Shares(Of(op.src[3], 2), sm, SM_COUNT)]

\* Cut an interval at the multiples of `size`: the groups it touches.
Touched(interval, size) ==
  IF interval[2] <= interval[1] THEN << >>
  ELSE LET first == interval[1] \div size IN
       [g \in 1 .. CeilDiv(interval[2], size) - first |-> first + g - 1]

AppendRegions(op, i) ==
  LET n        == op.src[1].shape[1]
      seq      == <<0, op.src[4].shape[1]>>
      head     == op.src[4].shape[2]
      kvHeads  == op.src[6].shape[3]
      heads    == n \div head
      perHead  == head \div BLOCK
      perGroup == perHead * (heads \div kvHeads)
      keys     == (heads * head) \div BLOCK
      values   == keys + kvHeads * perHead
      q        == <<i[2], Min({i[3], keys})>>
      groups   == Touched(q, perGroup)
      Cached(from, to) ==
        LET hs == Touched(<<Max({i[2], from}) - from, to - from>>, perHead) IN
        AtLeastEmpty([h \in DOMAIN hs |-> <<One(i[1]), seq, One(hs[h]), <<0, head>>>>], 4)
  IN [src |-> <<<<<<<<0, n>>>>>>, <<<<One(i[1]), <<0, n>>>>>>,
                <<<<One(i[1]), Blocks16(<<i[2], i[3]>>), <<0, n>>>>>>,
                <<<<seq, <<0, head>>>>>>, <<<<seq, <<0, head>>>>>>,
                <<EmptyBox(4)>>, <<EmptyBox(4)>>, Scalar, Scalar>>,
      dst |-> <<AtLeastEmpty([g \in DOMAIN groups |->
                  <<Blocks16(<<Max({q[1], groups[g] * perGroup}),
                               Min({q[2], (groups[g] + 1) * perGroup})>>)>>], 1),
                Cached(keys, Min({i[3], values})), Cached(values, i[3])>>]

AppendOk(op) == op.src[1].shape[1] = Last(Seen(op.src[1]))

---------------------------------------------------------------------------
\* rms_upgate_silu: SM i takes every SM_COUNT-th block of rows.  Its result's
\* regions are whole pieces of n rows, the chunks mat_vec_adds reads.  src: x,
\* norm, up and gate weights, eps.
UpgateOutputs(args, src) == <<Buffer(<<src[3].shape[2]>>)>>
UpgateSpecs(op) ==
  [src |-> <<<<1>>, <<1, 1>>, <<1, 16, 512>>, <<1, 16, 512>>, <<1>>>>, dst |-> <<<<16>>>>]
UpgateNum(op) == Min({SM_COUNT, Extent(op.dst[1], 1) \div BLOCK})
UpgateBlocks(op) ==
  [i \in 1 .. UpgateNum(op) |->
     <<Start(op.src[3], 3), i - 1, SM_COUNT, Extent(op.dst[1], 1) \div BLOCK>>]

UpgateRegions(op, i) ==
  LET n       == op.src[1].shape[1]
      piece   == n \div BLOCK
      steps   == CeilDiv(i[4] - i[2], i[3])
      pieces  == SetToSortSeq({(i[2] + s * i[3]) \div piece : s \in 0 .. steps - 1},
                              LAMBDA a, b : a < b)
      weights == <<One(i[1]), <<0, op.dst[1].shape[1]>>, <<0, n>>>>
  IN [src |-> <<<<<<<<0, n>>>>>>, <<<<One(i[1]), <<0, n>>>>>>, <<weights>>, <<weights>>, Scalar>>,
      dst |-> <<[p \in DOMAIN pieces |-> <<Tile(pieces[p], piece * BLOCK)>>]>>]

UpgateOk(op) == op.src[1].shape[1] = Last(Seen(op.src[1]))

\* rms_lm_head.  src: x, norm, weights, eps.
LogitsOutputs(args, src) == <<Buffer(<<src[3].shape[1]>>)>>
LogitsSpecs(op) == [src |-> <<<<1>>, <<1>>, <<16, 512>>, <<1>>>>, dst |-> <<<<16>>>>]
LogitsNum(op) == Min({SM_COUNT, Extent(op.dst[1], 1) \div BLOCK})
LogitsBlocks(op) ==
  LET out == Of(op.dst[1], 1)
      n   == Min({SM_COUNT, (out[2] \div BLOCK) - (out[1] \div BLOCK)})
  IN [i \in 1 .. n |-> Shares(out, i, n)]

LogitsRegions(op, i) ==
  LET n == <<0, op.src[1].shape[1]>>  rows == Blocks16(i) IN
  [src |-> <<<<<<n>>>>, <<<<n>>>>, <<<<rows, n>>>>, Scalar>>, dst |-> <<<<<<rows>>>>>>]

LogitsOk(op) == op.src[1].shape[1] = Last(Seen(op.src[1]))
====
