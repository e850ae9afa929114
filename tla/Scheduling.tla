----------------------------- MODULE Scheduling -----------------------------
(***************************************************************************)
(* The scheduler (megakittens/scheduler.py) as operators on a DAG: how     *)
(* tensors share storage, which barriers the instructions of a DAG arrive  *)
(* at and wait for, and the flat instruction list.                         *)
(*                                                                         *)
(* A DAG is a topologically sorted sequence of nodes.  A node is a record  *)
(*   kind     "input", "compute" or "output"                               *)
(*   type     the instruction type of a compute node                       *)
(*   ins      its edges: a sequence of <<source node, output slot>>        *)
(*   outs     the size of the tensor of each output slot                   *)
(*   inplace  inplace_mapping: a function from output slots to edges       *)
(*   insts    per instruction of the node, the cells it reads of every     *)
(*            edge and the cells it writes of every output slot (of an     *)
(*            input node, one entry: the cells the caller fills)           *)
(* A cell is a unit region: two instructions touch the same part of a      *)
(* tensor exactly if they share a cell of it (access_regions).             *)
(***************************************************************************)
EXTENDS Integers, Sequences, FiniteSets, SequencesExt

CONSTANTS
  SM_COUNT,              \* get_sm_count()
  CLUSTER_SIZE,          \* instructions of an op come in multiples of it
  MAX_SRC_TENSORS,
  MAX_DST_TENSORS,
  MAX_SRC_BARRIERS,
  MAX_DST_BARRIERS,      \* what the instruction format has room for
  MAX_TENSOR_ALLOCATIONS \* what a tensor index can name

ASSUME SchedulingAssumption ==
  /\ CLUSTER_SIZE \in {1, 2}
  /\ SM_COUNT \in Nat \ {0} /\ SM_COUNT % CLUSTER_SIZE = 0
  /\ {MAX_SRC_TENSORS, MAX_DST_TENSORS, MAX_SRC_BARRIERS, MAX_DST_BARRIERS,
      MAX_TENSOR_ALLOCATIONS} \subseteq Nat

---------------------------------------------------------------------------
(* Phase 1: get_instruction_count_and_offset.                              *)

IsCompute(d, n) == d[n].kind = "compute"

InstCount(d, n) == IF IsCompute(d, n) THEN Len(d[n].insts) ELSE 0

\* The tensors of every op fit the instruction format.
TensorsFit(d) ==
  \A n \in DOMAIN d :
    IsCompute(d, n) => /\ Len(d[n].ins) <= MAX_SRC_TENSORS
                       /\ Len(d[n].outs) <= MAX_DST_TENSORS

\* A count, rounded up to whole clusters.
Padded(count) == count + ((-count) % CLUSTER_SIZE)

\* Where the instructions of every node start in the flat list.
InstOffset(d) ==
  LET offset[n \in DOMAIN d] ==
        IF n = 1 THEN 0 ELSE offset[n - 1] + Padded(InstCount(d, n - 1))
  IN offset

---------------------------------------------------------------------------
(* Phase 2: assign_tensors.                                                *)

\* The edges from slot s of node n, each with its consumer.
Edges(d, n, s) ==
  UNION {{<<m, e>> : e \in {x \in DOMAIN d[m].ins : d[m].ins[x] = <<n, s>>}} :
           m \in DOMAIN d}

\* The consumers of some edges, each once per edge.
Consumers(edges) ==
  LET seq == SetToSeq(edges) IN [x \in DOMAIN seq |-> seq[x][1]]

\* node.out_nodes[slot]
OutNodes(d, n, s) == Consumers(Edges(d, n, s))

\* The state of the pass: the storage of every output slot seen so far, the
\* storages that may be reused, the release barriers, and a counter.
NothingAssigned ==
  [storage |-> << >>, pool |-> << >>, releases |-> << >>, allocated |-> 0]

WithStorage(st, n, s, storage) ==
  [st EXCEPT !.storage = [tensor \in DOMAIN @ \cup {<<n, s>>} |->
                            IF tensor = <<n, s>> THEN storage ELSE @[tensor]]]

WithRelease(st, ids, count, reuser) ==
  [st EXCEPT !.releases = Append(@, [ids |-> ids, count |-> count,
                                     reuser |-> reuser])]

\* A bug in the operator below: the padding is counted.
CountPadding(d, ids) ==
  LET sum[x \in 0 .. Len(ids)] ==
        IF x = 0 THEN 0 ELSE sum[x - 1] + Padded(InstCount(d, ids[x]))
  IN sum[Len(ids)]

\* The arrivals a release barrier gets: one per instruction of the nodes.
ReleaseTarget(d, ids) ==
  LET sum[x \in 0 .. Len(ids)] ==
        IF x = 0 THEN 0 ELSE sum[x - 1] + InstCount(d, ids[x])
  IN sum[Len(ids)]

\* A bug in the operator below: only the producer is waited for.
ProducerOnly(d, n, source) ==
  IF IsCompute(d, source[1]) THEN <<source[1]>> ELSE << >>

\* Everybody an in-place node n must let finish before it overwrites
\* `source`: its producer and its other readers.
OtherUsers(d, n, source) ==
  (IF IsCompute(d, source[1]) THEN <<source[1]>> ELSE << >>)
  \o Consumers({x \in Edges(d, source[1], source[2]) :
                  x[1] # n /\ d[x[1]].kind # "output"})

\* Slot s of node n aliases one of the node's inputs.
Alias(d, st, n, s) ==
  LET source == d[n].ins[d[n].inplace[s]]
      others == OtherUsers(d, n, source)
      aliased == WithStorage(st, n, s, st.storage[source]) IN
  IF others = << >> THEN aliased
  ELSE WithRelease(aliased, others, ReleaseTarget(d, others), n)

\* A bug in the test below: any storage of the size will do.
FitsAnywhere(d, entry, n, s) == entry.size = d[n].outs[s]

\* A storage of the pool fits slot s of node n if it has the size and its
\* last user is at least one wave of the SMs before the node.
Fits(d, entry, n, s) ==
  /\ entry.size = d[n].outs[s]
  /\ InstOffset(d)[n] - entry.last >= SM_COUNT

Reuse(d, st, n, s, i) ==
  LET entry == st.pool[i]
      taken == [st EXCEPT !.pool = RemoveAt(@, i)] IN
  WithRelease(WithStorage(taken, n, s, entry.storage),
              entry.ids, entry.count, n)

\* A bug in the operator below: the new storage is not recorded.
AllocateForgotten(st, n, s) == WithStorage(st, n, s, st.allocated + 1)

\* A storage of its own.
Allocate(st, n, s) ==
  WithStorage([st EXCEPT !.allocated = @ + 1], n, s, st.allocated + 1)

\* The first of the entries of the pool that fit, else a storage of its own.
PlaceApart(d, st, n, s, fitting) ==
  IF d[n].kind # "input" /\ fitting # {} THEN Reuse(d, st, n, s, Min(fitting))
  ELSE Allocate(st, n, s)

\* The storage of slot s of node n.
Place(d, st, n, s) ==
  IF d[n].kind # "input" /\ s \in DOMAIN d[n].inplace THEN Alias(d, st, n, s)
  ELSE PlaceApart(d, st, n, s, {i \in DOMAIN st.pool : Fits(d, st.pool[i], n, s)})

\* A bug in the test below: a tensor that is mutated is not held back.
MayReuseMutated(d, n, s) ==
  d[n].kind # "input" /\ \A m \in ToSet(OutNodes(d, n, s)) : d[m].kind # "output"

\* May the storage of slot s of node n be reused once its readers are done?
\* Not that of a graph input, of a graph output, or one that is mutated.
MayReuse(d, n, s) ==
  /\ d[n].kind # "input"
  /\ \A m \in ToSet(OutNodes(d, n, s)) :
       /\ d[m].kind # "output"
       /\ \A t \in DOMAIN d[m].inplace : d[m].ins[d[m].inplace[t]] # <<n, s>>

\* The nodes that must be done before the storage is written again.
Users(d, n, s) == <<n>> \o OutNodes(d, n, s)

\* Where a storage's last user ends in the flat list.
LastInst(d, ids) ==
  Max({InstOffset(d)[m] + Padded(InstCount(d, m)) : m \in ToSet(ids)})

\* What the pool remembers of a storage with the users ids.
PoolEntry(d, n, s, ids, storage) ==
  [size |-> d[n].outs[s], ids |-> ids, last |-> LastInst(d, ids),
   count |-> ReleaseTarget(d, ids), storage |-> storage]

\* The storage of a slot that has been placed goes into the pool.
Offer(d, st, n, s) ==
  IF ~MayReuse(d, n, s) THEN st
  ELSE [st EXCEPT !.pool =
          Append(@, PoolEntry(d, n, s, Users(d, n, s), st.storage[<<n, s>>]))]

AssignSlot(d, st, n, s) == Offer(d, Place(d, st, n, s), n, s)

\* One node of the pass.  The output node gets no tensors of its own.
AssignNode(d, st, n) ==
  IF d[n].kind = "output" THEN st
  ELSE LET after[s \in 0 .. Len(d[n].outs)] ==
             IF s = 0 THEN st ELSE AssignSlot(d, after[s - 1], n, s)
       IN after[Len(d[n].outs)]

\* The pass fails at node n: a second output node, an input node with more
\* than one tensor, too many tensors.
AssignFails(d, st, n) ==
  \/ d[n].kind = "output"
     /\ \E m \in 1 .. n - 1 : d[m].kind = "output" /\ d[m].ins # << >>
  \/ d[n].kind = "input" /\ Len(d[n].outs) # 1
  \/ AssignNode(d, st, n).allocated > MAX_TENSOR_ALLOCATIONS

AssignTensors(d) ==
  LET after[n \in 0 .. Len(d)] ==
        IF n = 0 THEN NothingAssigned ELSE AssignNode(d, after[n - 1], n)
  IN after[Len(d)]

---------------------------------------------------------------------------
(* Phase 3: assign_barriers.  A barrier is named by what it stands for:    *)
(* <<"input", producer, its instructions that arrive>> or                  *)
(* <<"reuse", number of the release, {}>>.                                 *)

\* The instructions of the producer of edge e of node n that write a cell
\* instruction i of n reads.
Dependencies(d, n, i, e) ==
  LET source == d[n].ins[e] IN
  {j \in DOMAIN d[source[1]].insts :
     d[source[1]].insts[j].writes[source[2]] \cap d[n].insts[i].reads[e] # {}}

\* "Matching producer region not found": a cell is read that no instruction
\* of its producer writes.
Unmatched(d, n) ==
  \E e \in DOMAIN d[n].ins, i \in DOMAIN d[n].insts :
    LET source == d[n].ins[e] IN
    /\ IsCompute(d, source[1])
    /\ ~(d[n].insts[i].reads[e] \subseteq
           UNION {d[source[1]].insts[j].writes[source[2]] :
                    j \in DOMAIN d[source[1]].insts})

\* The data barriers instruction i of node n waits for, one per edge from a
\* compute node: two edges may name the same barrier.
InputBarriers(d, n, i) ==
  LET waits(e) == IsCompute(d, d[n].ins[e][1]) /\ Dependencies(d, n, i, e) # {}
      edges == SetToSeq({e \in DOMAIN d[n].ins : waits(e)}) IN
  [x \in DOMAIN edges |->
     <<"input", d[n].ins[edges[x]][1], Dependencies(d, n, i, edges[x])>>]

AllInputBarriers(d) ==
  UNION {UNION {ToSet(InputBarriers(d, n, i)) : i \in 1 .. InstCount(d, n)} :
           n \in DOMAIN d}

ReuseBarrier(k) == <<"reuse", k, {}>>

\* The release barriers a node's instructions wait for.
ReuseBarriers(releases, n) ==
  {ReuseBarrier(k) : k \in {x \in DOMAIN releases : releases[x].reuser = n}}

\* How many arrivals end the wait for a barrier.
Target(releases, b) ==
  IF b[1] = "input" THEN Cardinality(b[3]) ELSE releases[b[2]].count

\* Where node n is listed among those that a release waits for.
Listed(releases, n) ==
  UNION {{<<k, x>> : x \in {y \in DOMAIN releases[k].ids : releases[k].ids[y] = n}} :
           k \in DOMAIN releases}

\* The barriers instruction i of node n arrives at, first the data barriers;
\* at a release barrier once per time its node is listed.
Arrivals(inputBarriers, releases, n, i) ==
  LET listed == SetToSeq(Listed(releases, n)) IN
  SetToSeq({b \in inputBarriers : b[2] = n /\ i \in b[3]})
  \o [y \in DOMAIN listed |-> ReuseBarrier(listed[y][1])]

---------------------------------------------------------------------------
(* Phase 4: generate_instructions.                                         *)

Noop == [node |-> 0, index |-> 0, type |-> "noop", inputs |-> << >>,
         reuses |-> << >>, arrivals |-> << >>, reads |-> {}, writes |-> {}]

\* Instruction i of node n.  What it reads and writes are cells of storage,
\* each with the tensor (the node and slot) whose data it is to hold.
Instruction(d, st, inputBarriers, n, i) ==
  LET inst == d[n].insts[i] IN
  [node |-> n,
   index |-> i,
   type |-> d[n].type,
   inputs |-> InputBarriers(d, n, i),
   reuses |-> SetToSeq(ReuseBarriers(st.releases, n)),
   arrivals |-> Arrivals(inputBarriers, st.releases, n, i),
   reads |-> UNION {{[cell |-> <<st.storage[d[n].ins[e]], c>>,
                      data |-> d[n].ins[e]] : c \in inst.reads[e]} :
                    e \in DOMAIN d[n].ins},
   writes |-> UNION {{[cell |-> <<st.storage[<<n, s>>], c>>,
                       data |-> <<n, s>>] : c \in inst.writes[s]} :
                     s \in DOMAIN d[n].outs}]

\* The instructions of all nodes, each padded to whole clusters with Noops.
GenerateInstructions(d, st) ==
  LET inputBarriers == AllInputBarriers(d)
      padded(n) == [i \in 1 .. Padded(InstCount(d, n)) |->
                      IF i <= InstCount(d, n)
                      THEN Instruction(d, st, inputBarriers, n, i) ELSE Noop] IN
  FlattenSeq([n \in DOMAIN d |-> padded(n)])

\* All the cells that are read have a producer.
AllMatched(d) == \A n \in DOMAIN d : IsCompute(d, n) => ~Unmatched(d, n)

\* The instructions respect the limits of the instruction format.
WithinLimits(instructions) ==
  \A k \in DOMAIN instructions :
    /\ Len(instructions[k].arrivals) <= MAX_DST_BARRIERS
    /\ Len(instructions[k].inputs) + Len(instructions[k].reuses)
         <= MAX_SRC_BARRIERS

\* The cells of the tensors of some <<node, slot>> pairs, with their data.
Holding(d, st, sources) ==
  UNION {{[cell |-> <<st.storage[source], c>>, data |-> source] :
            c \in UNION {d[source[1]].insts[i].writes[source[2]] :
                            i \in DOMAIN d[source[1]].insts}} :
           source \in sources}

\* What schedule returns, given the state at the end of the tensor pass.
Program(d, st) ==
  LET instructions == GenerateInstructions(d, st)
      barriers == UNION {ToSet(instructions[k].inputs) \cup
                         ToSet(instructions[k].reuses) \cup
                         ToSet(instructions[k].arrivals) :
                           k \in DOMAIN instructions}
      inputs == {n \in DOMAIN d : d[n].kind = "input"}
      outputs == {n \in DOMAIN d : d[n].kind = "output"} IN
  [instructions |-> instructions,
   target |-> [b \in barriers |-> Target(st.releases, b)],
   inputs |-> Holding(d, st, {<<n, 1>> : n \in inputs}),
   outputs |-> Holding(d, st, UNION {ToSet(d[n].ins) : n \in outputs})]

\* schedule
Schedule(d) == Program(d, AssignTensors(d))

====
