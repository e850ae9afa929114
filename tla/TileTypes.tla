----------------------------- MODULE TileTypes -----------------------------
(***************************************************************************)
(* The general instruction types of itypes/: granularities of the operands *)
(* and results (Specs), number of instructions (Num), their block indices  *)
(* (Blocks), the regions each reads and writes (Regions) and the checks of *)
(* validate beyond those of the base class (Ok).                           *)
(***************************************************************************)
EXTENDS AccessRegions

TILE_ROWS == 128
MAX_TILES == 2

TileCols(bytes) == PAGE_BYTES \div (TILE_ROWS * bytes)

\* Copy and the elementwise types: up to `per` tiles of 128 rows in a row, in
\* the same place of every operand's range and of the result's.
TileGrid(op, cols) ==
  LET to == op.dst[1].range IN
  <<Size(to[1]), Size(to[2]), Size(to[3]) \div TILE_ROWS, Size(to[4]) \div cols>>

\* Mutant: an incomplete last instruction of a row is not counted.
TileNumWhole(op, cols, per) ==
  LET grid == TileGrid(op, cols) IN
  grid[1] * grid[2] * grid[3] * (grid[4] \div per)

TileNum(op, cols, per) ==
  LET grid == TileGrid(op, cols) IN
  grid[1] * grid[2] * grid[3] * CeilDiv(grid[4], per)

TileBlocks(op, cols, per) ==
  LET grid    == TileGrid(op, cols)
      at      == Counters([grid EXCEPT ![4] = CeilDiv(@, per)])
      Tensors == op.src \o op.dst
      Corner(range, i) ==
        <<range[1][1] + at[i][1], range[2][1] + at[i][2],
          (range[3][1] \div TILE_ROWS) + at[i][3],
          (range[4][1] \div cols) + per * at[i][4]>>
  IN [i \in DOMAIN at |->
        FlattenSeq([t \in DOMAIN Tensors |-> Corner(Tensors[t].range, i)])
          \o <<Min({per, grid[4] - per * at[i][4]})>>]

TileBox(index, t, cols) ==
  LET at == SubSeq(index, 4 * t - 3, 4 * t) IN
  <<One(at[1]), One(at[2]), Tile(at[3], TILE_ROWS),
    <<at[4] * cols, (at[4] + Last(index)) * cols>>>>

TileRegions(op, index, cols) ==
  [src |-> [t \in DOMAIN op.src |-> <<TileBox(index, t, cols)>>],
   dst |-> <<<<TileBox(index, Len(op.src) + 1, cols)>>>>]

SameShapes(op) ==
  \A t \in DOMAIN op.src : Effective(op.src[t]) = Effective(op.dst[1])

---------------------------------------------------------------------------
\* args: the sizes in bytes of the two element types.
CopyCols(op) == TileCols(Max({op.args.from, op.args.to}))
CopyOutputs(args, src) == <<Buffer(Seen(src[1]))>>
CopySpecs(op) ==
  [src |-> <<<<TILE_ROWS, CopyCols(op)>>>>, dst |-> <<<<TILE_ROWS, CopyCols(op)>>>>]
CopyNum(op) == TileNum(op, CopyCols(op), MAX_TILES)
CopyBlocks(op) == TileBlocks(op, CopyCols(op), MAX_TILES)
CopyRegions(op, index) == TileRegions(op, index, CopyCols(op))
CopyOk(op) == SameShapes(op)

\* args: the size in bytes of the element type.
UnaryCols(op) == TileCols(op.args.bytes)
UnaryOutputs(args, src) == <<Buffer(Seen(src[1]))>>
UnarySpecs(op) ==
  [src |-> <<<<TILE_ROWS, UnaryCols(op)>>>>, dst |-> <<<<TILE_ROWS, UnaryCols(op)>>>>]
UnaryNum(op) == TileNum(op, UnaryCols(op), MAX_TILES)
UnaryBlocks(op) == TileBlocks(op, UnaryCols(op), MAX_TILES)
UnaryRegions(op, index) == TileRegions(op, index, UnaryCols(op))
UnaryOk(op) == SameShapes(op)

\* One operator and two operands: validate refuses more.
BinaryCols(op) == TileCols(op.args.bytes)
BinaryTiles == Min({PAGES \div 2, MAX_TILES})
BinaryOutputs(args, src) == <<Buffer(Seen(src[1]))>>
BinarySpecs(op) ==
  LET tile == <<TILE_ROWS, BinaryCols(op)>> IN [src |-> <<tile, tile>>, dst |-> <<tile>>]
BinaryNum(op) == TileNum(op, BinaryCols(op), BinaryTiles)
BinaryBlocks(op) == TileBlocks(op, BinaryCols(op), BinaryTiles)
BinaryRegions(op, index) == TileRegions(op, index, BinaryCols(op))
BinaryOk(op) == SameShapes(op)

---------------------------------------------------------------------------
\* RMSNorm: as many whole rows as fit in a page.
RowBytes(cols) == CeilDiv(cols * 2, 128) * 128
RowsPerInst(op) == PAGE_BYTES \div RowBytes(Extent(op.src[1], 1))

RmsnormOutputs(args, src) == <<Buffer(Seen(src[1]))>>
RmsnormSpecs(op) == [src |-> <<<<1, 64>>, <<64>>>>, dst |-> <<<<1, 64>>>>]

RmsnormNum(op) ==
  LET x == op.src[1] IN
  Extent(x, 4) * Extent(x, 3) * CeilDiv(Extent(x, 2), RowsPerInst(op))

RmsnormBlocks(op) ==
  LET x    == op.src[1]
      rows == RowsPerInst(op)
      at   == Counters(<<Extent(x, 4), Extent(x, 3), CeilDiv(Extent(x, 2), rows)>>)
      Corner(tensor, i) ==
        <<Start(tensor, 4) + at[i][1], Start(tensor, 3) + at[i][2],
          Start(tensor, 2) + rows * at[i][3]>>
  IN [i \in DOMAIN at |->
        Corner(x, i) \o Corner(op.dst[1], i)
          \o <<Min({rows, Extent(x, 2) - rows * at[i][3]})>>]

RmsnormRegions(op, index) ==
  LET width == Dim(op.src[1], 1)
      Rows(at) == <<One(at[1]), One(at[2]), <<at[3], at[3] + index[7]>>, <<0, width>>>>
  IN [src |-> <<<<Rows(SubSeq(index, 1, 3))>>, <<<<<<0, width>>>>>>>>,
      dst |-> <<<<Rows(SubSeq(index, 4, 6))>>>>]

RmsnormOk(op) ==
  LET x == op.src[1]  width == Dim(x, 1) IN
  /\ op.src[2].shape = <<width>> /\ IsFull(op.src[2].range, op.src[2].shape)
  /\ Covers(x, 1) /\ Covers(op.dst[1], 1)
  /\ Effective(x) = Effective(op.dst[1])
  /\ width <= 256 \/ (width * 2) % 128 = 0
  /\ RowBytes(width) <= PAGE_BYTES

---------------------------------------------------------------------------
\* Reduce: 128 rows to 128 numbers; the result has a dimension less.
ReduceOutputs(args, src) == <<Buffer(Front(Seen(src[1])))>>
ReduceSpecs(op) == [src |-> <<<<TILE_ROWS, 16>>>>, dst |-> <<<<TILE_ROWS>>>>]

ReduceNum(op) ==
  LET x == op.src[1] IN
  Extent(x, 4) * Extent(x, 3) * CeilDiv(Extent(x, 2), TILE_ROWS)

ReduceBlocks(op) ==
  LET x  == op.src[1]
      y  == op.dst[1]
      at == Counters(<<Extent(x, 4), Extent(x, 3), CeilDiv(Extent(x, 2), TILE_ROWS)>>)
  IN [i \in DOMAIN at |->
        LET b == at[i][1]  d == at[i][2]  r == at[i][3] * TILE_ROWS IN
        <<Start(x, 4) + b, Start(x, 3) + d, Start(x, 2) + r, Start(x, 1),
          Start(y, 4), Start(y, 3) + b, Start(y, 2) + d, Start(y, 1) + r,
          Min({TILE_ROWS, Extent(x, 2) - r}), Extent(x, 1)>>]

ReduceRegions(op, i) ==
  [src |-> <<<<<<One(i[1]), One(i[2]), <<i[3], i[3] + i[9]>>, <<i[4], i[4] + i[10]>>>>>>>>,
   dst |-> <<<<<<One(i[5]), One(i[6]), One(i[7]), <<i[8], i[8] + i[9]>>>>>>>>]

ReduceOk(op) ==
  /\ Len(op.src[1].shape) >= 2
  /\ Effective(op.dst[1]) = <<1>> \o Front(Effective(op.src[1]))
====
