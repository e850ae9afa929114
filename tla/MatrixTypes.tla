---------------------------- MODULE MatrixTypes ----------------------------
(***************************************************************************)
(* Gemm and Attention, whose instructions are run by a pair of CTAs, and   *)
(* PosIdIncrement.  The definitions are as in TileTypes.                   *)
(***************************************************************************)
EXTENDS AccessRegions

TILE_M == 512
TILE_N == 256
TILE_K == 64
SUPERGROUP == 8

\* args: whether an operand is stored transposed.  torch sees it as it is
\* multiplied.
GemmOutputs(args, src) ==
  LET a == Seen(src[1])  b == Seen(src[2])
      rows == IF args.ta THEN Last(a) ELSE Last(Front(a))
      cols == IF args.tb THEN Last(Front(b)) ELSE Last(b)
  IN <<Buffer(Front(Front(a)) \o <<rows, cols>>)>>

GemmSpecs(op) ==
  [src |-> <<IF op.args.ta THEN <<TILE_K, TILE_M>> ELSE <<TILE_M, TILE_K>>,
             IF op.args.tb THEN <<TILE_N, TILE_K>> ELSE <<TILE_K, TILE_N>>>>,
   dst |-> <<<<TILE_M, TILE_N>>>>]

\* Eight columns of tiles at a time, the rows up and down; then what is left.
SwizzledTiles(rows, cols) ==
  LET wide == (cols \div SUPERGROUP) * SUPERGROUP IN
  [i \in 1 .. rows * cols |->
     LET n     == i - 1
         group == n \div (rows * SUPERGROUP)
         left  == n - rows * wide
         at    == IF n < rows * wide
                  THEN <<(n % (rows * SUPERGROUP)) \div SUPERGROUP,
                         group * SUPERGROUP + (n % SUPERGROUP)>>
                  ELSE <<left \div (cols - wide), wide + (left % (cols - wide))>>
     IN IF group % 2 = 1 THEN <<rows - at[1] - 1, at[2]>> ELSE at]

\* get_gemm_dims: of the whole tensors.
GemmM(op) == Dim(op.src[1], IF op.args.ta THEN 1 ELSE 2)
GemmK(op) == Dim(op.src[1], IF op.args.ta THEN 2 ELSE 1)
GemmN(op) == Dim(op.src[2], IF op.args.tb THEN 2 ELSE 1)

GemmNum(op) ==
  LET d == op.dst[1] IN
  Extent(d, 4) * Extent(d, 3) * (Extent(d, 2) \div TILE_M)
    * (Extent(d, 1) \div TILE_N) * 2

GemmBlocks(op) ==
  LET a     == op.src[1]
      b     == op.src[2]
      d     == op.dst[1]
      batch == Counters(<<Extent(d, 4), Extent(d, 3)>>)
      tiles == SwizzledTiles(Extent(d, 2) \div TILE_M, Extent(d, 1) \div TILE_N)
      Lead(tensor, at) == <<Start(tensor, 4) + at[1], Start(tensor, 3) + at[2]>>
      Index(at, tile) ==
        Lead(a, at) \o <<(Start(a, IF op.args.ta THEN 1 ELSE 2) \div TILE_M) + tile[1]>>
        \o Lead(b, at) \o <<(Start(b, IF op.args.tb THEN 2 ELSE 1) \div TILE_N) + tile[2]>>
        \o Lead(d, at) \o <<(Start(d, 2) \div TILE_M) + tile[1],
                            (Start(d, 1) \div TILE_N) + tile[2]>>
  IN Twice(FlattenSeq([i \in DOMAIN batch |->
                         [j \in DOMAIN tiles |-> Index(batch[i], tiles[j])]]))

GemmRegions(op, i) ==
  LET depth == <<0, GemmK(op)>>
      Turned(box, turned) == IF turned THEN <<box[1], box[2], box[4], box[3]>> ELSE box
  IN [src |-> <<<<Turned(<<One(i[1]), One(i[2]), Tile(i[3], TILE_M), depth>>, op.args.ta)>>,
                <<Turned(<<One(i[4]), One(i[5]), depth, Tile(i[6], TILE_N)>>, op.args.tb)>>>>,
      dst |-> <<<<<<One(i[7]), One(i[8]), Tile(i[9], TILE_M), Tile(i[10], TILE_N)>>>>>>]

GemmOk(op) ==
  /\ Of(op.src[1], IF op.args.ta THEN 2 ELSE 1) = <<0, GemmK(op)>>
  /\ Of(op.src[2], IF op.args.tb THEN 1 ELSE 2) = <<0, GemmK(op)>>
  /\ Extent(op.dst[1], 2) = GemmM(op)
  /\ Extent(op.dst[1], 1) = GemmN(op)

---------------------------------------------------------------------------
\* Attention over (batch, sequence, head, 128) tensors, 512 rows of the
\* sequence to an instruction.
HEAD == 128
SEQ_BLOCK == 512
L2_BYTES == 50 * 1024 * 1024

AttentionOutputs(args, src) == <<Buffer(Seen(src[1]))>>
AttentionSpecs(op) ==
  LET block == <<1, SEQ_BLOCK, 1, HEAD>> IN
  [src |-> <<block, block, block>>, dst |-> <<block>>]

AttentionNum(op) ==
  LET q == op.src[1] IN
  Extent(q, 4) * Extent(q, 2) * (Extent(q, 3) \div SEQ_BLOCK) * 2

\* The order of (batch, head, block).  Causal: the heads that fit in the L2
\* together, for each the last, longest, block first.
PlainOrder(q) == Counters(<<Extent(q, 4), Extent(q, 2), Extent(q, 3) \div SEQ_BLOCK>>)

\* Mutant: the last, incomplete group of heads is as wide as the others.
CausalOrderWide(q) ==
  LET heads   == Extent(q, 2)
      blocks  == Extent(q, 3) \div SEQ_BLOCK
      fitting == L2_BYTES \div (Extent(q, 3) * 2 * HEAD * 2)
      swizzle == Max({1} \cup {2 ^ k : k \in {k \in 0 .. 20 : 2 ^ k <= fitting}})
  IN [i \in 1 .. heads * Extent(q, 4) * blocks |->
        LET n     == (i - 1) % (swizzle * blocks)
            which == ((i - 1) \div (swizzle * blocks)) * swizzle + (n % swizzle)
        IN <<which \div heads, which % heads, blocks - 1 - (n \div swizzle)>>]

CausalOrder(q) ==
  LET heads   == Extent(q, 2)
      blocks  == Extent(q, 3) \div SEQ_BLOCK
      fitting == L2_BYTES \div (Extent(q, 3) * 2 * HEAD * 2)
      swizzle == Max({1} \cup {2 ^ k : k \in {k \in 0 .. 20 : 2 ^ k <= fitting}})
      all     == heads * Extent(q, 4)
  IN [i \in 1 .. all * blocks |->
        LET group == (i - 1) \div (swizzle * blocks)
            n     == (i - 1) % (swizzle * blocks)
            last  == group >= all \div swizzle
            width == IF last THEN Max({1, all % swizzle}) ELSE swizzle
            which == group * swizzle + (n % width)
        IN <<which \div heads, which % heads, blocks - 1 - (n \div width)>>]

AttentionBlocks(op) ==
  LET q  == op.src[1]
      at == IF op.args.causal THEN CausalOrder(q) ELSE PlainOrder(q)
      Group(tensor, i) == <<Start(tensor, 4) + at[i][1], Start(tensor, 2) + at[i][2]>>
      Block(tensor, i) ==
        <<Start(tensor, 4) + at[i][1], (Start(tensor, 3) \div SEQ_BLOCK) + at[i][3],
          Start(tensor, 2) + at[i][2]>>
  IN Twice([i \in DOMAIN at |->
              Block(q, i) \o Group(op.src[2], i) \o Group(op.src[3], i) \o Block(op.dst[1], i)])

AttentionRegions(op, i) ==
  LET Block(b, m, h) == <<One(b), Tile(m, SEQ_BLOCK), One(h), <<0, HEAD>>>>
      Whole(b, t, h) == <<One(b), <<0, op.src[t].shape[2]>>, One(h), <<0, HEAD>>>>
  IN [src |-> <<<<Block(i[1], i[2], i[3])>>, <<Whole(i[4], 2, i[5])>>, <<Whole(i[6], 3, i[7])>>>>,
      dst |-> <<<<Block(i[8], i[9], i[10])>>>>]

AttentionOk(op) ==
  LET q == op.src[1]  k == op.src[2]  v == op.src[3]  o == op.dst[1] IN
  /\ Dim(q, 1) = HEAD
  /\ \A t \in {q, k, v, o} : Covers(t, 1)
  /\ \A t \in {k, v} : Covers(t, 3)
  /\ Effective(q) = Effective(o) /\ Effective(k) = Effective(v)
  /\ Extent(q, 4) = Extent(k, 4) /\ Extent(q, 2) = Extent(k, 2)

---------------------------------------------------------------------------
\* One instruction that adds one to the first number of its operand, in place.
IncrementOutputs(args, src) == <<Buffer(src[1].shape)>>
IncrementSpecs(op) == [src |-> <<<<1>>>>, dst |-> <<<<1>>>>]
IncrementInplace == {<<1, 1>>}
IncrementNum(op) == 1
IncrementBlocks(op) == <<<<0>>>>
IncrementRegions(op, index) == [src |-> <<<<<<<<0, 1>>>>>>>>, dst |-> <<<<<<<<0, 1>>>>>>>>]
====
