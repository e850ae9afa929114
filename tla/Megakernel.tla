----------------------------- MODULE Megakernel -----------------------------
(***************************************************************************)
(* A compiled graph at work: the dispatcher launches the kernel            *)
(* (megakittens/dispatcher.py), the SMs take the rows of the schedule, and *)
(* the warps of an SM run the op kernels (csrc/itypes) on global memory,   *)
(* synchronised across SMs by the barriers alone (csrc/utils.cuh).         *)
(*                                                                         *)
(* A warp takes the instructions of its SM in order, at most LEAD ahead of *)
(* the slowest warp of every CTA of its cluster: this is what              *)
(* InstructionStream promises.                                             *)
(***************************************************************************)
EXTENDS ScheduledProgram

CONSTANTS
  GRAPHS,              \* the graphs kernels are compiled for: a sequence
  GLOBAL_WORK_QUEUE,   \* rows are claimed by CLC, not assigned to SMs
  LEAD,                \* INSTRUCTION_PIPE_STAGES
  WORKERS              \* the warps that touch global memory

ASSUME MegakernelAssumption ==
  /\ GLOBAL_WORK_QUEUE \in BOOLEAN /\ LEAD \in Nat \ {0}
  /\ WORKERS \subseteq {"loader", "consumer", "storer"}

SMS == 0 .. SM_COUNT - 1
CLUSTERS == 0 .. SM_COUNT \div CLUSTER_SIZE - 1
ClusterOf(sm) == sm \div CLUSTER_SIZE

\* What the scheduler made of every graph it accepts.
Programs == [g \in DOMAIN GRAPHS |-> Schedule(GRAPHS[g])]
Accepted(g) ==
  /\ TensorsFit(GRAPHS[g])
  /\ AssignTensors(GRAPHS[g]).allocated <= MAX_TENSOR_ALLOCATIONS
  /\ AllMatched(GRAPHS[g]) /\ WithinLimits(Programs[g].instructions)

\* The op kernels that are modelled.  Those that store before all their loads
\* have arrived do not write over an operand (itypes/llama70b/rms.py and
\* itypes/reduce.py have no inplace_mapping).
ModelledOps(d) ==
  \A n \in DOMAIN d : IsCompute(d, n) =>
    /\ d[n].type \in {"tile", "rms", "reduce", "increment"}
    /\ d[n].type \in {"rms", "reduce"} => DOMAIN d[n].inplace = {}

ASSUME GraphsAssumption ==
  \A g \in DOMAIN GRAPHS : Schedulable(GRAPHS[g]) /\ ModelledOps(GRAPHS[g])

VARIABLES
  graph,      \* the graph the kernel was compiled for
  phase,      \* "created", "running" or "returned"
  next,       \* rows handed out so far (with a work queue)
  claimed,    \* per cluster, the first row of every instruction it got
  retired,    \* per SM and warp, how many instructions it has finished
  step,       \* per SM and warp, how many steps of the next it has taken
  barrier,    \* the barriers in global memory
  memory,     \* per cell, the tensor it holds
  loading,    \* rows whose loads are in flight
  loaded,     \* rows whose loads have arrived
  completed   \* rows whose stores are complete

dispatchVars == <<graph, phase>>
memoryVars == <<memory, loading, loaded, completed>>
vars == <<dispatchVars, next, claimed, retired, step, barrier, memoryVars>>

Rows == Programs[graph].instructions

\* Memory that holds nothing of this launch, that is being stored to by a row.
STALE == <<0, 0>>
Torn(row) == <<0, row>>

---------------------------------------------------------------------------
(* What the warps do with an instruction: a sequence of steps <<op, barrier>>. *)

Each(op, barriers) == [i \in DOMAIN barriers |-> <<op, barriers[i]>>]
Do(op) == <<<<op, "none">>>>

\* all_input_barrier_wait, all_reuse_barrier_wait, all_barrier_arrive
InputWaits(inst) == Each("wait", inst.inputs)
ReuseWaits(inst) == Each("wait", inst.reuses)
Arrives(inst) == Each("arrive", inst.arrivals)

\* A bug in the operator below: the loads do not wait for the data.
TileLoaderEager(inst) == Do("load")

\* copy.cuh, elementwise_unary.cuh and elementwise_binary.cuh
TileLoader(inst) == InputWaits(inst) \o Do("load")

\* A bug in the operator below: the store does not wait.
TileConsumerEager(inst) ==
  Do("loaded") \o Do("store") \o Do("stored") \o Arrives(inst)

TileConsumer(inst) ==
  Do("loaded") \o ReuseWaits(inst) \o Do("store") \o Do("stored")
  \o Arrives(inst)

\* rms_pipeline.cuh: the loader waits for everything before it loads the
\* weights; the consumers load and store the activations row by row.
RmsLoader(inst) == InputWaits(inst) \o ReuseWaits(inst) \o Do("load")
RmsConsumer(inst) ==
  Do("loaded") \o Do("load") \o Do("store") \o Do("loaded") \o Do("stored")
  \o Arrives(inst)

\* reduce.cuh: the consumers load, and store as they go.
ReduceConsumer(inst) ==
  InputWaits(inst) \o Do("load") \o Do("store") \o Do("loaded")
  \o Do("stored") \o ReuseWaits(inst) \o Arrives(inst)

\* A bug in the operator below: the other readers are not waited for.
IncrementStorerEager(inst) ==
  InputWaits(inst) \o Do("load") \o Do("loaded") \o Do("store") \o Do("stored")
  \o Arrives(inst)

\* pos_id_increment.cuh: one thread of the storer does it all.
IncrementStorer(inst) ==
  InputWaits(inst) \o ReuseWaits(inst) \o Do("load") \o Do("loaded")
  \o Do("store") \o Do("stored") \o Arrives(inst)

\* dispatch_instruction: what a warp does with an instruction.
Script(inst, w) ==
  CASE inst.type = "tile" /\ w = "loader" -> TileLoader(inst)
    [] inst.type = "tile" /\ w = "consumer" -> TileConsumer(inst)
    [] inst.type = "rms" /\ w = "loader" -> RmsLoader(inst)
    [] inst.type = "rms" /\ w = "consumer" -> RmsConsumer(inst)
    [] inst.type = "reduce" /\ w = "consumer" -> ReduceConsumer(inst)
    [] inst.type = "increment" /\ w = "storer" -> IncrementStorer(inst)
    [] OTHER -> << >>

---------------------------------------------------------------------------
(* The dispatcher.                                                         *)

Zeroed == [b \in DOMAIN Programs[graph].target |-> 0]

\* A bug in the operator below: the barriers are not reset.
KeptBarriers == barrier

\* _launch: barrier_tensor.zero_()
ResetBarriers == Zeroed

\* The memory a launch starts with: the caller's tensors.
Inputs ==
  [cell \in {x.cell : x \in Programs[graph].inputs} |->
     (CHOOSE x \in Programs[graph].inputs : x.cell = cell).data]
Cells ==
  (UNION {{x.cell : x \in Rows[k].reads \cup Rows[k].writes} : k \in DOMAIN Rows})
  \cup DOMAIN Inputs
FreshMemory ==
  [cell \in Cells |-> IF cell \in DOMAIN Inputs THEN Inputs[cell] ELSE STALE]

\* A static schedule has at least one wave; the SMs left over get Noops.
Waves == IF Rows = << >> THEN 1 ELSE (Len(Rows) + SM_COUNT - 1) \div SM_COUNT

\* A bug in the operator below: rows counted from zero.
StaticRowsFromZero(cluster) ==
  [wave \in 1 .. Waves |-> (wave - 1) * SM_COUNT + cluster * CLUSTER_SIZE]

\* _pack_instructions_per_sm: the rows of a cluster, wave by wave.
StaticRows(cluster) ==
  [wave \in 1 .. Waves |->
     (wave - 1) * SM_COUNT + cluster * CLUSTER_SIZE + 1]

\* With a work queue the grid has a cluster per CLUSTER_SIZE rows.  The first
\* clusters go to the SMs at once.
FirstRows(cluster) ==
  IF cluster * CLUSTER_SIZE < Len(Rows)
  THEN <<cluster * CLUSTER_SIZE + 1>> ELSE << >>

Init ==
  /\ graph \in {g \in DOMAIN GRAPHS : Accepted(g)}
  /\ phase = "created"
  /\ next = 0
  /\ claimed = [cluster \in CLUSTERS |-> << >>]
  /\ retired = [sm \in SMS |-> [w \in WORKERS |-> 0]]
  /\ step = [sm \in SMS |-> [w \in WORKERS |-> 0]]
  /\ barrier = Zeroed
  /\ memory = FreshMemory
  /\ loading = {} /\ loaded = {} /\ completed = {}

\* Dispatcher.call
Launch ==
  /\ phase # "running"
  /\ phase' = "running"
  /\ claimed' = [cluster \in CLUSTERS |->
                   IF GLOBAL_WORK_QUEUE THEN FirstRows(cluster)
                   ELSE StaticRows(cluster)]
  /\ next' = IF Len(Rows) < SM_COUNT THEN Len(Rows) ELSE SM_COUNT
  /\ retired' = [sm \in SMS |-> [w \in WORKERS |-> 0]]
  /\ step' = [sm \in SMS |-> [w \in WORKERS |-> 0]]
  /\ barrier' = ResetBarriers
  /\ memory' = FreshMemory
  /\ loading' = {} /\ loaded' = {} /\ completed' = {}
  /\ UNCHANGED graph

---------------------------------------------------------------------------
(* The kernel.                                                             *)

CtasOf(cluster) == {sm \in SMS : ClusterOf(sm) = cluster}

\* The ring of SM sm has a slot for the n-th instruction.
HasSlot(sm, n) == \A w \in WORKERS : retired[sm][w] >= n - LEAD

\* The n-th instruction of the cluster has been issued in all its CTAs.
Issued(sm, n) ==
  /\ n <= Len(claimed[ClusterOf(sm)])
  /\ \A cta \in CtasOf(ClusterOf(sm)) : HasSlot(cta, n)

RowOf(sm, n) == claimed[ClusterOf(sm)][n] + (sm % CLUSTER_SIZE)

InstructionOf(row) == IF row <= Len(Rows) THEN Rows[row] ELSE Noop

\* The row warp w of SM sm is at, and what it does with it.
Row(sm, w) == RowOf(sm, retired[sm][w] + 1)
Steps(sm, w) == Script(InstructionOf(Row(sm, w)), w)

\* The warp has been issued its next instruction, and is about to do `op`.
At(sm, w, op) ==
  /\ Issued(sm, retired[sm][w] + 1)
  /\ step[sm][w] < Len(Steps(sm, w))
  /\ Steps(sm, w)[step[sm][w] + 1][1] = op

\* The barrier of that step.
Barrier(sm, w) == Steps(sm, w)[step[sm][w] + 1][2]

Advance(sm, w) == step' = [step EXCEPT ![sm][w] = @ + 1]

\* The controller of rank 0 asks for the next cluster of the grid.
Claim(cluster) ==
  /\ phase = "running" /\ GLOBAL_WORK_QUEUE
  /\ next < Len(Rows)
  /\ claimed[cluster] # << >>
  /\ HasSlot(cluster * CLUSTER_SIZE, Len(claimed[cluster]) + 1)
  /\ claimed' = [claimed EXCEPT ![cluster] = Append(@, next + 1)]
  /\ next' = next + CLUSTER_SIZE
  /\ UNCHANGED <<dispatchVars, retired, step, barrier, memoryVars>>

\* barrier_wait: the barrier equals the target.
Wait(sm, w) ==
  /\ phase = "running" /\ At(sm, w, "wait")
  /\ barrier[Barrier(sm, w)] = Programs[graph].target[Barrier(sm, w)]
  /\ Advance(sm, w)
  /\ UNCHANGED <<dispatchVars, next, claimed, retired, barrier, memoryVars>>

\* barrier_arrive: an atomic add.
Arrive(sm, w) ==
  /\ phase = "running" /\ At(sm, w, "arrive")
  /\ barrier' = [barrier EXCEPT ![Barrier(sm, w)] = @ + 1]
  /\ Advance(sm, w)
  /\ UNCHANGED <<dispatchVars, next, claimed, retired, memoryVars>>

\* load_async: from now on the cells are being read,
Load(sm, w) ==
  /\ phase = "running" /\ At(sm, w, "load")
  /\ loading' = loading \cup {Row(sm, w)}
  /\ loaded' = loaded \ {Row(sm, w)}
  /\ Advance(sm, w)
  /\ UNCHANGED <<dispatchVars, next, claimed, retired, barrier, memory,
                 completed>>

\* until the data has arrived.
Deliver(row) ==
  /\ row \in loading
  /\ loading' = loading \ {row} /\ loaded' = loaded \cup {row}
  /\ UNCHANGED <<dispatchVars, next, claimed, retired, step, barrier, memory,
                 completed>>

\* The consumers wait for inputs_arrived.
Loaded(sm, w) ==
  /\ phase = "running" /\ At(sm, w, "loaded") /\ Row(sm, w) \in loaded
  /\ Advance(sm, w)
  /\ UNCHANGED <<dispatchVars, next, claimed, retired, barrier, memoryVars>>

CellsWritten(row) == {x.cell : x \in Rows[row].writes}

\* What a row stores in a cell.
DataOf(row, cell) == (CHOOSE x \in Rows[row].writes : x.cell = cell).data

\* store_async: until the wait for its end anything may be in the cells.
Store(sm, w) ==
  /\ phase = "running" /\ At(sm, w, "store")
  /\ memory' = [c \in DOMAIN memory |->
                  IF c \in CellsWritten(Row(sm, w)) THEN Torn(Row(sm, w))
                  ELSE memory[c]]
  /\ Advance(sm, w)
  /\ UNCHANGED <<dispatchVars, next, claimed, retired, barrier, loading,
                 loaded, completed>>

\* store_async_wait.  Stores that overlap leave the cells torn.
Stored(sm, w) ==
  /\ phase = "running" /\ At(sm, w, "stored")
  /\ memory' = [c \in DOMAIN memory |->
                  IF c \in CellsWritten(Row(sm, w)) /\ memory[c] = Torn(Row(sm, w))
                  THEN DataOf(Row(sm, w), c) ELSE memory[c]]
  /\ completed' = completed \cup {Row(sm, w)}
  /\ Advance(sm, w)
  /\ UNCHANGED <<dispatchVars, next, claimed, retired, barrier, loading,
                 loaded>>

\* The warp is through with the instruction and takes the next.
Finish(sm, w) ==
  /\ phase = "running" /\ Issued(sm, retired[sm][w] + 1)
  /\ step[sm][w] = Len(Steps(sm, w))
  /\ retired' = [retired EXCEPT ![sm][w] = @ + 1]
  /\ step' = [step EXCEPT ![sm][w] = 0]
  /\ UNCHANGED <<dispatchVars, next, claimed, barrier, memoryVars>>

\* All rows are handed out and all warps are through.
Return ==
  /\ phase = "running"
  /\ GLOBAL_WORK_QUEUE => next >= Len(Rows)
  /\ \A sm \in SMS, w \in WORKERS :
       retired[sm][w] = Len(claimed[ClusterOf(sm)])
  /\ phase' = "returned"
  /\ UNCHANGED <<graph, next, claimed, retired, step, barrier, memoryVars>>

Worker(sm, w) ==
  \/ Wait(sm, w) \/ Arrive(sm, w) \/ Load(sm, w) \/ Loaded(sm, w)
  \/ Store(sm, w) \/ Stored(sm, w) \/ Finish(sm, w)

Next ==
  \/ Launch \/ Return
  \/ \E cluster \in CLUSTERS : Claim(cluster)
  \/ \E sm \in SMS, w \in WORKERS : Worker(sm, w)
  \/ \E row \in loading : Deliver(row)

Spec == Init /\ [][Next]_vars

\* Every warp and every load in flight makes progress; the host may stop.
Fairness ==
  /\ WF_vars(Return)
  /\ \A cluster \in CLUSTERS : WF_vars(Claim(cluster))
  /\ \A sm \in SMS, w \in WORKERS : WF_vars(Worker(sm, w))
  /\ WF_vars(\E row \in loading : Deliver(row))

FairSpec == Spec /\ Fairness

---------------------------------------------------------------------------
(* Properties.                                                             *)

TypeOK ==
  /\ graph \in DOMAIN GRAPHS
  /\ phase \in {"created", "running", "returned"}
  /\ next \in 0 .. Len(Rows)
  /\ DOMAIN claimed = CLUSTERS
  /\ \A cluster \in CLUSTERS : \A n \in DOMAIN claimed[cluster] :
       claimed[cluster][n] \in Nat \ {0}
  /\ retired \in [SMS -> [WORKERS -> 0 .. Len(Rows) + 1]]
  /\ \A sm \in SMS, w \in WORKERS : step[sm][w] \in Nat
  /\ DOMAIN barrier = DOMAIN Zeroed
  /\ DOMAIN memory = Cells
  /\ loading \subseteq DOMAIN Rows /\ loaded \subseteq DOMAIN Rows
  /\ completed \subseteq DOMAIN Rows

\* While an instruction loads a cell, the cell holds the tensor it wants:
\* computed in this launch, and not yet overwritten by another node that was
\* given the same storage (scheduler.py assign_tensors, assign_barriers).
ReadsSettled ==
  \A row \in loading : \A x \in Rows[row].reads : memory[x.cell] = x.data

\* barrier_wait spins until the barrier EQUALS the target (utils.cuh:42): a
\* barrier that got past it would be waited for forever.
BarriersNeverPass ==
  \A b \in DOMAIN barrier : barrier[b] <= Programs[graph].target[b]

\* When the kernel has returned the graph's outputs are in memory, and every
\* barrier has had all its arrivals.
ResultsReady ==
  phase = "returned" =>
    /\ \A x \in Programs[graph].outputs : memory[x.cell] = x.data
    /\ barrier = Programs[graph].target

\* A kernel that is launched returns.
Terminates == (phase = "running") ~> (phase = "returned")

\* The launch does what the graph says.
Promise ==
  INSTANCE Dataflow WITH
    executed <- {<<Rows[row].node, Rows[row].index>> : row \in completed}
ImplementsDataflow == Promise!Spec
====
