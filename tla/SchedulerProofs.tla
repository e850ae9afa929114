------------------------------ MODULE SchedulerProofs -----------------------
(***************************************************************************)
(* The invariants of Scheduler, for every graph the passes before it may   *)
(* hand over (DagsAssumption) and every value of the limits.  The state of *)
(* the tensor pass satisfies PassInv at every node, so a finished program  *)
(* is one of those that SchedulingProofs is about.                         *)
(***************************************************************************)
EXTENDS Scheduler, SchedulingProofs

\* What the tensor pass maintains while it runs; the program is the graph's.
IInv ==
  /\ dag \in DAGS
  /\ phase \in {"count", "tensors", "barriers", "done", "error"}
  /\ node \in 1 .. Len(dag) + 1
  /\ PassInv(dag, TensorsBefore(dag, node), assigned)
  /\ phase \in {"barriers", "done"} => node = Len(dag) + 1
  /\ phase = "done" =>
       /\ AllMatched(dag) /\ WithinLimits(GenerateInstructions(dag, assigned))
       /\ program = Program(dag, assigned)

LEMMA GraphAssumed ==
  ASSUME NEW d \in DAGS
  PROVE  /\ Schedulable(d) /\ MutationsReturned(d) /\ Shaped(d) /\ Functionalised(d)
         /\ Len(d) \in Nat /\ DOMAIN d = 1 .. Len(d)
  <1>1. Schedulable(d) /\ MutationsReturned(d)
    BY DagsAssumption
  <1>2. Shaped(d) /\ Functionalised(d)
    BY <1>1 DEF Schedulable
  <1>3. QED
    BY <1>1, <1>2, GraphShape

LEMMA IInvStarts ==
  ASSUME Init
  PROVE  IInv
  <1>1. dag \in DAGS /\ phase = "count" /\ node = 1 /\ assigned = NothingAssigned
    BY DEF Init
  <1>2. Len(dag) \in Nat
    BY <1>1, GraphAssumed
  <1>3. PassInv(dag, TensorsBefore(dag, node), assigned)
    BY <1>1, PassStarts
  <1>4. QED
    BY <1>1, <1>2, <1>3 DEF IInv

LEMMA IInvKept ==
  ASSUME IInv, [Next]_vars
  PROVE  IInv'
  <1>1. Len(dag) \in Nat /\ DOMAIN dag = 1 .. Len(dag) /\ Shaped(dag) /\ Functionalised(dag)
    BY GraphAssumed DEF IInv
  <1>2. CASE Count
    BY <1>2 DEF IInv, Count
  <1>3. CASE Assign
    <2>1. /\ node' = node + 1 /\ assigned' = AssignNode(dag, assigned, node)
          /\ dag' = dag /\ phase' = phase /\ phase = "tensors" /\ node <= Len(dag)
      BY <1>3 DEF Assign
    <2>2. node \in DOMAIN dag /\ node' \in 1 .. Len(dag) + 1
      BY <1>1, <2>1 DEF IInv
    <2>3. PassInv(dag, TensorsBefore(dag, node), assigned)
      BY DEF IInv
    <2>4. PassInv(dag, TensorsBefore(dag, node + 1), AssignNode(dag, assigned, node))
      BY <1>1, <2>2, <2>3, NodeKeeps
    <2>5. PassInv(dag', TensorsBefore(dag', node'), assigned')
      BY <2>1, <2>4
    <2>6. QED
      BY <2>1, <2>2, <2>5 DEF IInv
  <1>4. CASE AssignFail
    BY <1>4 DEF IInv, AssignFail
  <1>5. CASE Assigned
    <2>1. /\ dag' = dag /\ node' = node /\ assigned' = assigned /\ node > Len(dag)
          /\ phase' \in {"barriers", "error"}
      BY <1>5 DEF Assigned
    <2>2. node = Len(dag) + 1
      BY <1>1, <2>1 DEF IInv
    <2>3. QED
      BY <2>1, <2>2 DEF IInv
  <1>6. CASE Reject
    BY <1>6 DEF IInv, Reject
  <1>7. CASE Generate
    BY <1>7 DEF IInv, Generate
  <1>8. CASE UNCHANGED vars
    BY <1>8 DEF IInv, vars
  <1>9. QED
    BY <1>2, <1>3, <1>4, <1>5, <1>6, <1>7, <1>8 DEF Next

LEMMA IInvHolds == Spec => []IInv
  <1>1. Init => IInv
    BY IInvStarts
  <1>2. IInv /\ [Next]_vars => IInv'
    BY IInvKept
  <1>3. QED
    BY <1>1, <1>2, PTL DEF Spec

\* A finished program is one that the lemmas of SchedulingProofs are about.
LEMMA DoneScheduled ==
  ASSUME IInv, phase = "done"
  PROVE  /\ Scheduled(dag, assigned, program) /\ MutationsReturned(dag)
         /\ WithinLimits(program.instructions)
  <1>1. dag \in DAGS /\ PassInv(dag, TensorsBefore(dag, node), assigned)
        /\ node = Len(dag) + 1 /\ AllMatched(dag)
        /\ WithinLimits(GenerateInstructions(dag, assigned))
        /\ program = Program(dag, assigned)
    BY DEF IInv
  <1>2. Schedulable(dag) /\ MutationsReturned(dag)
        /\ Len(dag) \in Nat /\ DOMAIN dag = 1 .. Len(dag)
    BY <1>1, GraphAssumed
  <1>3. TensorsBefore(dag, node) = TensorsOf(dag)
    <2>1. 1 .. node - 1 = DOMAIN dag
      BY <1>1, <1>2
    <2>2. QED
      BY <2>1 DEF TensorsBefore, TensorsOf
  <1>4. Scheduled(dag, assigned, program)
    BY <1>1, <1>2, <1>3 DEF Scheduled
  <1>5. program.instructions = GenerateInstructions(dag, assigned)
    BY <1>1 DEF Program
  <1>6. QED
    BY <1>1, <1>2, <1>4, <1>5

LEMMA IInvTypes ==
  ASSUME IInv
  PROVE  TypeOK
  <1> DEFINE D == TensorsBefore(dag, node)
             st == assigned
  <1>1. /\ phase \in {"count", "tensors", "barriers", "done", "error"}
        /\ node \in 1 .. Len(dag) + 1 /\ Shaped(dag)
        /\ Len(dag) \in Nat /\ DOMAIN dag = 1 .. Len(dag)
    BY GraphAssumed DEF IInv
  <1>2. StorageInv(D, st) /\ PoolInv(dag, D, st)
    BY DEF IInv, PassInv
  <1>3. D \subseteq (1 .. node - 1) \X (Nat \ {0})
    <2>1. ASSUME NEW m \in 1 .. node - 1
          PROVE  DOMAIN dag[m].outs \subseteq Nat \ {0}
      <3>1. m \in DOMAIN dag
        BY <1>1
      <3>2. QED
        BY <1>1, <3>1, GraphShape
    <2>2. QED
      BY <2>1 DEF TensorsBefore
  <1> HIDE DEF D
  <1>4. DOMAIN st.storage = D /\ \A t \in D : st.storage[t] \in 1 .. st.allocated
    BY <1>2 DEF StorageInv
  <1>5. ToSet(st.storage) \subseteq 1 .. st.allocated
    BY <1>4 DEF ToSet
  <1>6. ASSUME NEW k \in DOMAIN st.pool
        PROVE  st.pool[k].storage \in 1 .. st.allocated
    <2>1. PICK w \in D : Entry(dag, D, st, st.pool[k], w)
      BY <1>2 DEF PoolInv
    <2>2. QED
      BY <1>4, <2>1 DEF Entry
  <1>7. QED
    BY <1>1, <1>3, <1>4, <1>5, <1>6 DEF TypeOK

\* The scheduler's state keeps its type: only tensors of the nodes done have
\* storage, and what they have or the pool offers has been allocated
\* (assign_tensors, scheduler.py:91-186).
THEOREM TypeCorrect == Spec => []TypeOK
  <1>1. IInv => TypeOK
    BY IInvTypes
  <1>2. QED
    BY <1>1, IInvHolds, PTL

\* In a finished program the rows that store to a cell are ordered by the
\* barriers they wait for, directly or through other rows; so are those that
\* load it, each after the row that the graph says computes it and before
\* anything else is stored there: the release and data barriers of
\* scheduler.py:110-142 and 323-352 are enough, whatever order the SMs run the
\* rows in.
THEOREM ProgramsRaceFree == Spec => []RaceFree
  <1>1. IInv => RaceFree
    <2>1. ASSUME IInv, phase = "done"
          PROVE  /\ WellFormed(program) /\ Consistent(program)
                 /\ NoRaces(program) /\ FollowsGraph(program, dag)
      <3>1. Scheduled(dag, assigned, program)
        BY <2>1, DoneScheduled
      <3>2. QED
        BY <3>1, ProgramWellFormed, ScheduledConsistent, ScheduledNoRaces, ScheduledFollows
    <2>2. QED
      BY <2>1 DEF RaceFree
  <1>2. QED
    BY <1>1, IInvHolds, PTL

\* The target that the rows wait for at a barrier is the number of arrivals it
\* gets: an equality wait ends, and not before all have arrived
\* (scheduler.py:117, 331, 340-352).
THEOREM TargetsMatch == Spec => []TargetsExact
  <1>1. IInv => TargetsExact
    <2>1. ASSUME IInv, phase = "done"
          PROVE  ExactTargets(program)
      BY <2>1, DoneScheduled, ScheduledTargets
    <2>2. QED
      BY <2>1 DEF TargetsExact
  <1>2. QED
    BY <1>1, IInvHolds, PTL

\* A row waits for rows before it only, so SMs that take the rows in order
\* cannot wait in a circle (nodes are sorted, and Fits of scheduler.py:120-123
\* takes storage only from ops before the node).
THEOREM WaitsGoBack == Spec => []WaitsForEarlierRows
  <1>1. IInv => WaitsForEarlierRows
    <2>1. ASSUME IInv, phase = "done", NEW k \in RowsOf(program), NEW j \in Awaited(program, k)
          PROVE  j < k
      <3>1. Scheduled(dag, assigned, program)
        BY <2>1, DoneScheduled
      <3>2. QED
        BY <2>1, <3>1, WaitsForEarlier
    <2>2. QED
      BY <2>1 DEF WaitsForEarlierRows
  <1>2. QED
    BY <1>1, IInvHolds, PTL

\* Whatever else is stored in a cell of an output is stored before the output,
\* and only rows of ops that mutate in place store to the caller's tensors
\* (scheduler.py:155-163 keeps both out of the pool).
THEOREM OutputsStay == Spec => []OutputsKept
  <1>1. IInv => OutputsKept
    <2>1. ASSUME IInv, phase = "done"
          PROVE  /\ OutputsLast(program)
                 /\ \A in \in program.inputs : \A x \in Writers(program, in.cell) :
                      DOMAIN dag[program.instructions[x].node].inplace # {}
      <3>1. Scheduled(dag, assigned, program) /\ MutationsReturned(dag)
        BY <2>1, DoneScheduled
      <3>2. QED
        BY <3>1, ScheduledOutputsLast, InputsKept
    <2>2. QED
      BY <2>1 DEF OutputsKept
  <1>2. QED
    BY <1>1, IInvHolds, PTL

====
