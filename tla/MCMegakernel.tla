---------------------------- MODULE MCMegakernel ----------------------------
(***************************************************************************)
(* Graphs for Megakernel.  Tensors have two cells; an op has an            *)
(* instruction per cell or one for the whole tensor.                       *)
(***************************************************************************)
EXTENDS Megakernel

Input ==
  [kind |-> "input", type |-> "none", ins |-> << >>, outs |-> <<1>>,
   inplace |-> << >>, insts |-> <<[reads |-> << >>, writes |-> <<{1, 2}>>]>>]

Output(sources) ==
  [kind |-> "output", type |-> "none",
   ins |-> [i \in DOMAIN sources |-> <<sources[i], 1>>], outs |-> << >>,
   inplace |-> << >>, insts |-> << >>]

Op(type, sources, inplace, insts) ==
  [kind |-> "compute", type |-> type,
   ins |-> [i \in DOMAIN sources |-> <<sources[i], 1>>], outs |-> <<1>>,
   inplace |-> inplace, insts |-> insts]

Tile(sources) ==
  Op("tile", sources, << >>,
     [i \in 1 .. 2 |-> [reads |-> [e \in DOMAIN sources |-> {i}],
                        writes |-> <<{i}>>]])

Whole(type, sources) ==
  Op(type, sources, << >>,
     <<[reads |-> [e \in DOMAIN sources |-> {1, 2}], writes |-> <<{1, 2}>>]>>)

InPlace(sources) == [Tile(sources) EXCEPT !.inplace = <<1>>]
Increment(source) == [Whole("increment", <<source>>) EXCEPT !.inplace = <<1>>]

\* The last op gets the storage of the first, whose reader is on another SM;
\* nothing but the release barrier orders the two.
Reuses(type) ==
  <<Input, Whole("tile", <<1>>), Whole("tile", <<2>>), Whole("tile", <<1>>),
    Whole("tile", <<1>>), Whole(type, <<4>>), Output(<<3, 5, 6>>)>>

\* A tensor with another reader is mutated (tests/test_inplace.py).
Mutates ==
  <<Input, Tile(<<1>>), Whole("tile", <<2>>), InPlace(<<2>>), Output(<<3, 4>>)>>

\* A result nobody reads, whose storage is used again; an operand twice.
Unread ==
  <<Input, Whole("tile", <<1>>), Tile(<<1>>), Tile(<<3, 3>>), Output(<<4>>)>>

\* The graph's input is incremented when all have read it.
Increments ==
  <<Input, Whole("tile", <<1>>), Tile(<<1>>), Increment(1), Output(<<2, 3, 4>>)>>

MCGraphs == <<Reuses("rms"), Mutates, Unread, Increments>>
PairGraphs == <<Reuses("tile"), Mutates, Unread>>
ReduceGraphs == <<Reuses("reduce")>>
====
