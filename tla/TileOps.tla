------------------------------ MODULE TileOps ------------------------------
(***************************************************************************)
(* Scripts of the ops whose consumers work on pages in place or not at     *)
(* all: csrc/itypes/noop.cuh, reduce.cuh, pos_id_increment.cuh, copy.cuh,  *)
(* elementwise_unary.cuh, elementwise_binary.cuh, rmsnorm.cuh and          *)
(* llama70b/rms_pipeline.cuh.  Two consumers stand for the group of        *)
(* consumer warps; its elected leader is part of consumer 0.               *)
(***************************************************************************)
EXTENDS PageSteps, TLC

\* The pages of an SM (Config::NUM_PAGES).
Lids == 0 .. 6
PageCount == 7

\* One lane for all the pages in turn, or a lane for each.
OneLane(first) == [k \in 1 .. PageCount - first |-> {first + k - 1}]

LanePerPage(lids) == <<lids>>

---------------------------------------------------------------------------
\* noop.cuh; reduce.cuh and pos_id_increment.cuh use no page either.
NoopOp ==
  [release |-> [query \in Lids |-> query],
   semaphores |-> << >>,
   lanes |-> LanePerPage(Lids),
   script |-> [loader |-> Nothing, launcher |-> PassTensor,
               consumer0 |-> Nothing, consumer1 |-> Nothing,
               storer |-> Nothing]]

---------------------------------------------------------------------------
(* elementwise_binary.cuh: a tile has a page for each of its `inputs`      *)
(* operands, the first of which takes the result.  With one operand it is  *)
(* elementwise_unary.cuh, and copy.cuh, where the element types may        *)
(* differ: "wide" if the result's is the larger, "narrow" if the smaller.  *)

\* A bug in the operator below: the first operands are counted among the rest.
CountsFirstOperand(inputs, tiles) ==
  LET unused == PageCount - tiles * inputs
  IN  [query \in Lids |->
         LET used == query - unused IN
         IF query < unused THEN tiles * inputs + query
         ELSE IF used < tiles * (inputs - 1)
         THEN ((used \div inputs) * inputs) + (used % inputs) + 1
         ELSE (used - tiles * (inputs - 1)) * inputs]

\* The pages without a use first, then the second and third operands, which
\* are done with when a tile is computed, then the results.
ElementwiseRelease(inputs, tiles) ==
  LET unused == PageCount - tiles * inputs
      others == inputs - 1
  IN  [query \in Lids |->
         LET used == query - unused IN
         IF query < unused THEN tiles * inputs + query
         ELSE IF used < tiles * others
         THEN ((used \div others) * inputs) + (used % others) + 1
         ELSE (used - tiles * others) * inputs]

\* The loader's leader: one load after the other, tile by tile.
ElementwiseLoader(c, inputs, tiles) ==
  [k \in 1 .. tiles * inputs |->
     LET t == (k - 1) \div inputs
         i == (k - 1) % inputs
     IN  [Step EXCEPT
            !.pages = {k - 1},
            !.signals = IF i = 0 THEN {Expect(c, "inputs_arrived", t, inputs)} ELSE {},
            !.loads = {LoadTo(Page(k - 1), i, c, "inputs_arrived", t)}]]

\* The halves of a page with the rows of consumer w: as they are loaded, and
\* as they are written.
SrcHalf(types, w) == IF types = "wide" THEN 0 ELSE w
DstHalf(types, w) == IF types = "narrow" THEN 0 ELSE w

\* The results the leader's TMA stores are reading, after t tiles.
OUT == 9
Storing(types, inputs, t) ==
  {[lid |-> u * inputs, part |-> DstHalf(types, w), tag |-> OUT] :
     u \in 0 .. t - 1, w \in {0, 1}}

\* Bugs in the operators below: the leader does not wait for the others, and
\* finishes the page it is about to store from.
HastyTile(c, types, w, inputs, t) ==
  LET leads == w = 0
      storing == IF leads THEN Storing(types, inputs, t) ELSE {}
      rows == {[lid |-> t * inputs + i, part |-> SrcHalf(types, w), tag |-> i] :
                 i \in 0 .. inputs - 1}
  IN  <<[Step EXCEPT !.holds = storing, !.waits = {Wait("inputs_arrived", t, 0)}],
        [Step EXCEPT !.holds = storing \cup rows,
                     !.puts = {[lid |-> t * inputs, part |-> DstHalf(types, w),
                                tag |-> OUT]},
                     !.finishes = IF leads THEN {t * inputs + i : i \in 1 .. inputs - 1}
                                  ELSE {}]>>

\* A consumer reads its rows of all operands, writes them in the first, and
\* meets the others; then the leader finishes the other operands and stores.
ElementwiseTile(c, types, w, inputs, t) ==
  LET leads == w = 0
      storing == IF leads THEN Storing(types, inputs, t) ELSE {}
      rows == {[lid |-> t * inputs + i, part |-> SrcHalf(types, w), tag |-> i] :
                 i \in 0 .. inputs - 1}
  IN  <<[Step EXCEPT !.holds = storing, !.waits = {Wait("inputs_arrived", t, 0)}],
        [Step EXCEPT !.holds = storing \cup rows,
                     !.puts = {[lid |-> t * inputs, part |-> DstHalf(types, w),
                                tag |-> OUT]},
                     !.signals = {Arrival(c, "sync", t)}],
        [Step EXCEPT !.holds = storing, !.waits = {Wait("sync", t, 0)},
                     !.finishes = IF leads THEN {t * inputs + i : i \in 1 .. inputs - 1}
                                  ELSE {}]>>

\* MAX_TILES_PER_INST is two.
ElementwiseTiles(c, types, w, inputs, tiles) ==
  ElementwiseTile(c, types, w, inputs, 0)
  \o (IF tiles = 1 THEN << >> ELSE ElementwiseTile(c, types, w, inputs, 1))

\* store_async_wait, then the pages the stores were reading.
FinishStores(types, inputs, tiles) ==
  <<[Step EXCEPT !.holds = Storing(types, inputs, tiles),
                 !.finishes = {t * inputs : t \in 0 .. tiles - 1}]>>

ElementwiseOp(c, types, inputs, tiles) ==
  [release |-> ElementwiseRelease(inputs, tiles),
   semaphores |-> Counts("inputs_arrived", 0 .. tiles - 1, 1)
                  @@ Counts("sync", 0 .. tiles - 1, 2),
   lanes |-> OneLane(tiles * inputs),
   script |-> [loader |-> ElementwiseLoader(c, inputs, tiles),
               launcher |-> PassTensor,
               consumer0 |-> ElementwiseTiles(c, types, 0, inputs, tiles)
                             \o FinishStores(types, inputs, tiles),
               consumer1 |-> ElementwiseTiles(c, types, 1, inputs, tiles),
               storer |-> Nothing]]

---------------------------------------------------------------------------
(* rmsnorm.cuh: rows in page 0, normalised in place.                       *)

RotateOnce == [query \in Lids |-> IF query < PageCount - 1 THEN query + 1 ELSE 0]

RmsnormRows(c, w) ==
  <<[Step EXCEPT !.waits = {Wait("inputs_arrived", 0, 0)}],
    [Step EXCEPT !.holds = Tagged(Part(0, w), 0),
                 !.puts = Tagged(Part(0, w), OUT),
                 !.signals = {Arrival(c, "sync", 0)}]>>

RmsnormOp(c) ==
  [release |-> RotateOnce,
   semaphores |-> Counts("inputs_arrived", {0}, 1) @@ Counts("sync", {0}, 2),
   lanes |-> OneLane(1),
   script |->
     [loader |->
        <<[Step EXCEPT !.pages = {0},
                       !.signals = {Expect(c, "inputs_arrived", 0, 1)},
                       !.loads = {LoadTo(Page(0), 0, c, "inputs_arrived", 0)}]>>,
      launcher |-> PassTensor,
      consumer0 |-> RmsnormRows(c, 0)
                    \o <<[Step EXCEPT !.waits = {Wait("sync", 0, 0)}],
                         [Step EXCEPT !.holds = Tagged(Page(0), OUT),
                                      !.finishes = {0}]>>,
      consumer1 |-> RmsnormRows(c, 1) \o <<[Step EXCEPT !.waits = {Wait("sync", 0, 0)}]>>,
      storer |-> Nothing]]

---------------------------------------------------------------------------
(* llama70b/rms_pipeline.cuh: weights in page 0, behind them a line of     *)
(* scratch per row where the warps exchange their partial sums.            *)

PARTIAL == 8
Line(row, w) == Part(0, 2 + 2 * row + w)
Lines(row) == Line(row, 0) \cup Line(row, 1)

\* rms_norm: every warp writes its sum, all meet, every warp reads all sums
\* and its weights.
RmsRow(c, w, row) ==
  <<[Step EXCEPT !.puts = Tagged(Line(row, w), PARTIAL),
                 !.signals = {Arrival(c, "partial_sums", row)}],
    [Step EXCEPT !.waits = {Wait("partial_sums", row, 0)}],
    [Step EXCEPT !.holds = Tagged(Lines(row), PARTIAL) \cup Tagged(Part(0, 0), 0)]>>

RmsConsumer(c, w) ==
  <<[Step EXCEPT !.waits = {Wait("weights_arrived", 0, 0)}]>>
  \o RmsRow(c, w, 0) \o RmsRow(c, w, 1)
  \o <<[Step EXCEPT !.signals = {Arrival(c, "sync", 0)}],
       [Step EXCEPT !.waits = {Wait("sync", 0, 0)},
                    !.finishes = IF w = 0 THEN {0} ELSE {}]>>

RmsOp(c) ==
  [release |-> RotateOnce,
   semaphores |-> Counts("weights_arrived", {0}, 1) @@ Counts("sync", {0}, 2)
                  @@ Counts("partial_sums", {0, 1}, 2),
   lanes |-> LanePerPage(Lids \ {0}),
   script |->
     [loader |->
        <<[Step EXCEPT !.pages = {0},
                       !.signals = {Expect(c, "weights_arrived", 0, 1)},
                       !.loads = {LoadTo(Part(0, 0), 0, c, "weights_arrived", 0)}]>>,
      launcher |-> PassTensor,
      consumer0 |-> RmsConsumer(c, 0),
      consumer1 |-> RmsConsumer(c, 1),
      storer |-> Nothing]]

====
