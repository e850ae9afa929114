---------------------------- MODULE MCScheduler ----------------------------
(***************************************************************************)
(* DAGs for Scheduler: an input, NUM_OPS ops of six shapes, each reading   *)
(* one or both of the last two tensors before it, and an output node.      *)
(* Tensors have two cells.                                                 *)
(***************************************************************************)
EXTENDS Scheduler

CONSTANTS NUM_OPS

\* Instruction i of an op with `edges` edges that reads and writes cell i.
Tile(edges) ==
  [i \in 1 .. 2 |-> [reads |-> [e \in 1 .. edges |-> {i}], writes |-> <<{i}>>]]

\* One instruction for the whole tensor.
Whole == <<[reads |-> <<{1, 2}>>, writes |-> <<{1, 2}>>]>>

\* One instruction that writes to a part of the tensor.
Part == <<[reads |-> <<{1}>>, writes |-> <<{1}>>]>>

\* Two instructions, each with a cell of either of two output slots.
Split == [i \in 1 .. 2 |-> [reads |-> <<{i}>>, writes |-> <<{i}, {i}>>]]

Op(ins, outs, inplace, insts) ==
  [kind |-> "compute", type |-> "tile", ins |-> ins, outs |-> outs,
   inplace |-> inplace, insts |-> insts]

InputNode ==
  [kind |-> "input", type |-> "none", ins |-> << >>, outs |-> <<1>>,
   inplace |-> << >>, insts |-> <<[reads |-> << >>, writes |-> <<{1, 2}>>]>>]

OutputNode(sources) ==
  [kind |-> "output", type |-> "none", ins |-> sources,
   outs |-> << >>, inplace |-> << >>, insts |-> << >>]

\* The tensors of a graph, in the order of their nodes.
Tensors(d) ==
  FlattenSeq([n \in DOMAIN d |-> [s \in DOMAIN d[n].outs |-> <<n, s>>]])

LastTensor(d) == Tensors(d)[Len(Tensors(d))]

\* The ops that may come next: an elementwise op, one with a single
\* instruction, one that mutates its input, one that mutates a part of it (as
\* an append to a cache does), one with two operands, one with two results.
NextOps(d) ==
  LET sources == {Tensors(d)[i] : i \in {x \in DOMAIN Tensors(d) :
                                           x > Len(Tensors(d)) - 2}} IN
  {Op(<<t>>, <<1>>, << >>, Tile(1)) : t \in sources}
  \cup {Op(<<t>>, <<1>>, << >>, Whole) : t \in sources}
  \cup {Op(<<t>>, <<1>>, <<1>>, Tile(1)) : t \in sources}
  \cup {Op(<<t>>, <<1>>, <<1>>, Part) : t \in sources}
  \cup {Op(<<LastTensor(d), t>>, <<1>>, << >>, Tile(2)) : t \in sources}
  \cup {Op(<<LastTensor(d)>>, <<1, 1>>, << >>, Split)}

\* Functionalised graphs: nothing reads a tensor after it was mutated.
MutatesLast(d) ==
  \A n \in DOMAIN d : \A s \in DOMAIN d[n].inplace :
    \A m \in DOMAIN d :
      d[n].ins[d[n].inplace[s]] \in ToSet(d[m].ins) => m <= n

\* The last version of a tensor that may have been mutated.
LastVersion(d, tensor) ==
  FoldLeftDomain(
    LAMBDA t, n : IF \E s \in DOMAIN d[n].inplace :
                       d[n].ins[d[n].inplace[s]] = t
                  THEN <<n, 1>> ELSE t,
    tensor, d)

\* A graph returns its last tensor, and its input if it mutates it.
WithOutput(d) ==
  LET input == LastVersion(d, <<1, 1>>) IN
  Append(d, OutputNode(IF input \in {<<1, 1>>, LastTensor(d)}
                       THEN <<LastTensor(d)>> ELSE <<input, LastTensor(d)>>))

MCDags ==
  LET graphs[k \in 1 .. NUM_OPS + 1] ==
        IF k = 1 THEN {<<InputNode>>}
        ELSE UNION {{g \in {Append(d, op) : op \in NextOps(d)} :
                       MutatesLast(g)} : d \in graphs[k - 1]} IN
  {WithOutput(g) : g \in graphs[NUM_OPS + 1]}
====
