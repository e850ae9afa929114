-------------------------- MODULE ScheduledProgram --------------------------
(***************************************************************************)
(* What the scheduler relies on, of a graph, and what it promises of the   *)
(* program it returns; the kernel relies on the promises, whatever order   *)
(* the SMs run the rows in.  A program p is what Program of Scheduling     *)
(* returns.                                                                *)
(***************************************************************************)
EXTENDS Scheduling

---------------------------------------------------------------------------
(* Graphs.                                                                 *)

\* The tensors of the nodes before node n.
TensorsBefore(d, n) == UNION {{m} \X DOMAIN d[m].outs : m \in 1 .. n - 1}

IsSeq(s) == s \in Seq(ToSet(s))

\* Nodes are sorted and read what earlier ones write; in-place slots name an
\* edge; an op has instructions.
Shaped(d) ==
  /\ IsSeq(d)
  /\ \A n \in DOMAIN d :
       /\ d[n].kind \in {"input", "compute", "output"}
       /\ IsSeq(d[n].outs) /\ IsSeq(d[n].insts)
       /\ d[n].ins \in Seq(TensorsBefore(d, n))
       /\ \A s \in DOMAIN d[n].inplace :
            s \in DOMAIN d[n].outs /\ d[n].inplace[s] \in DOMAIN d[n].ins
       /\ d[n].kind = "compute" => d[n].insts # << >>
       /\ d[n].kind # "compute" => DOMAIN d[n].inplace = {}
       /\ d[n].kind = "input" => Len(d[n].outs) = 1 /\ d[n].ins = << >>
       /\ d[n].kind = "output" => d[n].outs = << >>

\* Functionalised: a tensor is mutated by one slot of one node, and nobody
\* reads it afterwards or returns it.
Functionalised(d) ==
  \A n \in DOMAIN d : \A s \in DOMAIN d[n].inplace :
    LET tensor == d[n].ins[d[n].inplace[s]] IN
    /\ \A m \in DOMAIN d :
         tensor \in ToSet(d[m].ins) => m <= n /\ d[m].kind # "output"
    /\ \A t \in DOMAIN d[n].inplace :
         d[n].ins[d[n].inplace[t]] = tensor => t = s

\* The instructions of an op, among which there is no order, store to
\* different cells, and not to what another one reads of a mutated tensor.
InstructionsApart(d) ==
  \A n \in DOMAIN d : \A i, j \in DOMAIN d[n].insts : i # j =>
    \A s \in DOMAIN d[n].outs :
      /\ d[n].insts[i].writes[s] \cap d[n].insts[j].writes[s] = {}
      /\ s \in DOMAIN d[n].inplace =>
           \A e \in DOMAIN d[n].ins : d[n].ins[e] = d[n].ins[d[n].inplace[s]]
             => d[n].insts[i].writes[s] \cap d[n].insts[j].reads[e] = {}

\* The caller fills what is read of an input.
InputsFilled(d) ==
  \A n \in DOMAIN d : \A e \in DOMAIN d[n].ins :
    LET source == d[n].ins[e] IN
    d[source[1]].kind = "input" =>
      \A i \in DOMAIN d[n].insts :
        d[n].insts[i].reads[e] \subseteq
          UNION {d[source[1]].insts[j].writes[source[2]] :
                   j \in DOMAIN d[source[1]].insts}

\* Per node, the slots that are one of the caller's tensors: an input, or a
\* mutated version of one.
CallersSlots(d) ==
  LET slots[n \in DOMAIN d] ==
        IF d[n].kind = "input" THEN DOMAIN d[n].outs
        ELSE {s \in DOMAIN d[n].inplace :
                LET source == d[n].ins[d[n].inplace[s]] IN
                source[2] \in slots[source[1]]}
  IN slots

\* The graph returns the last version of an input that it mutates: each version
\* is returned or mutated again.
MutationsReturned(d) ==
  \A n \in DOMAIN d : d[n].kind # "input" => \A s \in CallersSlots(d)[n] :
    \E m \in DOMAIN d :
      /\ <<n, s>> \in ToSet(d[m].ins)
      /\ \/ d[m].kind = "output"
         \/ \E t \in DOMAIN d[m].inplace : d[m].ins[d[m].inplace[t]] = <<n, s>>

\* What the passes before the scheduler, and the instruction types, provide.
Schedulable(d) ==
  /\ Shaped(d) /\ Functionalised(d)
  /\ InstructionsApart(d) /\ InputsFilled(d)

---------------------------------------------------------------------------
(* Programs.                                                               *)

RowsOf(p) == DOMAIN p.instructions

\* The rows that arrive at a barrier of the set.
Arrivers(p, barriers) ==
  {k \in RowsOf(p) : ToSet(p.instructions[k].arrivals) \cap barriers # {}}

\* The rows a row waits for before it starts to store: before it starts to
\* load, an instruction waits for its data barriers only.
Awaited(p, k) == Arrivers(p, ToSet(p.instructions[k].inputs)
                             \cup ToSet(p.instructions[k].reuses))

\* Per row, the rows that have completed before it starts to store: those it
\* waits for, and whatever these have waited for.
CompletedBefore(p) ==
  LET completed[k \in RowsOf(p)] ==
        UNION {{j} \cup completed[j] : j \in {x \in Awaited(p, k) : x < k}}
  IN completed

\* Per row, the rows that have completed before it starts to load.
LoadedAfter(p, completed) ==
  [k \in RowsOf(p) |->
     UNION {{j} \cup completed[j] :
              j \in {x \in Arrivers(p, ToSet(p.instructions[k].inputs)) :
                       x < k}}]

\* The rows that store to a cell, those that store `data` to it.
Writers(p, cell) ==
  {k \in RowsOf(p) : \E w \in p.instructions[k].writes : w.cell = cell}
WritersOf(p, r) == {k \in RowsOf(p) : r \in p.instructions[k].writes}

\* When row k loads r the data has been stored there, everything stored there
\* before is complete, and nothing is stored there before k completes.
ReadSafe(p, completed, loadedAfter, k, r) ==
  /\ WritersOf(p, r) \subseteq loadedAfter[k]
  /\ \A x \in Writers(p, r.cell) \ (WritersOf(p, r) \cup {k}) :
       \/ k \in completed[x]
       \/ WritersOf(p, r) # {} /\ \A j \in WritersOf(p, r) : x \in completed[j]

\* Rows that store to one cell do so one after the other.
WriteSafe(p, completed, k, w) ==
  \A x \in Writers(p, w.cell) \ {k} : k \in completed[x] \/ x \in completed[k]

NoRaces(p) ==
  LET completed == CompletedBefore(p)
      loadedAfter == LoadedAfter(p, completed) IN
  \A k \in RowsOf(p) :
    /\ \A r \in p.instructions[k].reads :
         ReadSafe(p, completed, loadedAfter, k, r)
    /\ \A w \in p.instructions[k].writes : WriteSafe(p, completed, k, w)

\* The arrivals at a barrier: a row, and a place in its list.
ArrivalsAt(p, b) ==
  {a \in RowsOf(p) \X (1 .. MAX_DST_BARRIERS) :
     /\ a[2] \in DOMAIN p.instructions[a[1]].arrivals
     /\ p.instructions[a[1]].arrivals[a[2]] = b}

\* Every barrier gets as many arrivals as its waiters expect.
ExactTargets(p) ==
  \A b \in DOMAIN p.target : p.target[b] = Cardinality(ArrivalsAt(p, b))

\* Whatever is stored in a cell of an output is the output, or stored before.
OutputsLast(p) ==
  LET completed == CompletedBefore(p) IN
  \A out \in p.outputs :
    \A x \in Writers(p, out.cell) \ WritersOf(p, out) :
      /\ WritersOf(p, out) # {}
      /\ \A j \in WritersOf(p, out) : x \in completed[j]

\* A row has one thing to store in a cell; what is read, or returned, is
\* stored by some row or one of the caller's tensors, which do not overlap.
Consistent(p) ==
  /\ \A k \in RowsOf(p) : \A v, w \in p.instructions[k].writes :
       v.cell = w.cell => v = w
  /\ \A k \in RowsOf(p) : \A r \in p.instructions[k].reads :
       WritersOf(p, r) # {} \/ r \in p.inputs
  /\ \A out \in p.outputs : WritersOf(p, out) # {} \/ out \in p.inputs
  /\ \A v, w \in p.inputs : v.cell = w.cell => v = w

\* The instructions of the ops of a graph, and the one a row holds.
InstructionsOf(d) ==
  UNION {{<<n, i>> : i \in DOMAIN d[n].insts} :
           n \in {x \in DOMAIN d : d[x].kind = "compute"}}
InstructionAt(p, k) == <<p.instructions[k].node, p.instructions[k].index>>

\* The nodes that read a tensor.
ReadersOf(d, source) ==
  {m \in DOMAIN d : \E e \in DOMAIN d[m].ins : d[m].ins[e] = source}

\* The caller has filled a cell of a tensor, or a row of `done` computes it.
Filled(p, d, done, source, c) ==
  \/ /\ d[source[1]].kind = "input"
     /\ \E i \in DOMAIN d[source[1]].insts :
          c \in d[source[1]].insts[i].writes[source[2]]
  \/ \E j \in done :
       /\ p.instructions[j].node = source[1]
       /\ c \in d[source[1]].insts[p.instructions[j].index].writes[source[2]]

\* Every instruction of the graph d has one row.  Before it stores, what it
\* reads has been computed, and so have the other readers of the tensors it
\* mutates in place.
FollowsGraph(p, d) ==
  LET completed == CompletedBefore(p)
      rows == {k \in RowsOf(p) : p.instructions[k] # Noop} IN
  /\ {InstructionAt(p, k) : k \in rows} = InstructionsOf(d)
  /\ \A j, k \in rows : InstructionAt(p, j) = InstructionAt(p, k) => j = k
  /\ \A k \in rows :
       LET n == p.instructions[k].node
           i == p.instructions[k].index IN
       /\ \A e \in DOMAIN d[n].ins : \A c \in d[n].insts[i].reads[e] :
            Filled(p, d, completed[k] \cap rows, d[n].ins[e], c)
       /\ \A s \in DOMAIN d[n].inplace : \A j \in rows :
            p.instructions[j].node \in ReadersOf(d, d[n].ins[d[n].inplace[s]]) \ {n}
              => j \in completed[k]

\* Ops have their instructions in whole clusters; a row waits for, and
\* arrives at, barriers of the program.
WellFormed(p) ==
  /\ Len(p.instructions) \in Nat /\ RowsOf(p) = 1 .. Len(p.instructions)
  /\ Len(p.instructions) % CLUSTER_SIZE = 0
  /\ \A k \in RowsOf(p) :
       {p.instructions[k].inputs, p.instructions[k].reuses,
        p.instructions[k].arrivals} \subseteq Seq(DOMAIN p.target)
====
