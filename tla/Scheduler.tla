----------------------------- MODULE Scheduler -----------------------------
(***************************************************************************)
(* The scheduler at work on one DAG (megakittens/scheduler.py, schedule):  *)
(* the tensor pass node by node, the barriers, the instruction list, and   *)
(* the errors that end it.  The operators of each phase are those of       *)
(* Scheduling; what is promised of its result is stated in ScheduledProgram.*)
(***************************************************************************)
EXTENDS ScheduledProgram

CONSTANTS DAGS     \* the DAGs the backend may hand over

ASSUME DagsAssumption ==
  \A d \in DAGS : Schedulable(d) /\ MutationsReturned(d)

VARIABLES
  dag,             \* the DAG being scheduled
  phase,           \* "count", "tensors", "barriers", "done" or "error"
  node,            \* the next node of the tensor pass
  assigned,        \* the state of the tensor pass
  program          \* what schedule returns

vars == <<dag, phase, node, assigned, program>>

NoProgram == [instructions |-> << >>, target |-> << >>, inputs |-> {},
              outputs |-> {}]

Init ==
  /\ dag \in DAGS
  /\ phase = "count"
  /\ node = 1
  /\ assigned = NothingAssigned
  /\ program = NoProgram

\* get_instruction_count_and_offset
Count ==
  /\ phase = "count"
  /\ phase' = IF TensorsFit(dag) THEN "tensors" ELSE "error"
  /\ UNCHANGED <<dag, node, assigned, program>>

\* assign_tensors: one node.
Assign ==
  /\ phase = "tensors" /\ node <= Len(dag)
  /\ ~AssignFails(dag, assigned, node)
  /\ assigned' = AssignNode(dag, assigned, node)
  /\ node' = node + 1
  /\ UNCHANGED <<dag, phase, program>>

\* assign_tensors fails at a node.
AssignFail ==
  /\ phase = "tensors" /\ node <= Len(dag)
  /\ AssignFails(dag, assigned, node)
  /\ phase' = "error"
  /\ UNCHANGED <<dag, node, assigned, program>>

\* assign_tensors: at the end, a graph needs an input and an output node.
Assigned ==
  /\ phase = "tensors" /\ node > Len(dag)
  /\ phase' = IF \A kind \in {"input", "output"} :
                   \E n \in DOMAIN dag : dag[n].kind = kind
                THEN "barriers" ELSE "error"
  /\ UNCHANGED <<dag, node, assigned, program>>

\* assign_barriers fails.
Reject ==
  /\ phase = "barriers"
  /\ \/ ~AllMatched(dag)
     \/ ~WithinLimits(GenerateInstructions(dag, assigned))
  /\ phase' = "error"
  /\ UNCHANGED <<dag, node, assigned, program>>

\* assign_barriers and generate_instructions.
Generate ==
  /\ phase = "barriers"
  /\ AllMatched(dag)
  /\ WithinLimits(GenerateInstructions(dag, assigned))
  /\ program' = Program(dag, assigned)
  /\ phase' = "done"
  /\ UNCHANGED <<dag, node, assigned>>

Next == Count \/ Assign \/ AssignFail \/ Assigned \/ Reject \/ Generate

Spec == Init /\ [][Next]_vars

---------------------------------------------------------------------------
(* Properties.                                                             *)

TypeOK ==
  /\ phase \in {"count", "tensors", "barriers", "done", "error"}
  /\ node \in 1 .. Len(dag) + 1
  /\ DOMAIN assigned.storage \subseteq (1 .. node - 1) \X (Nat \ {0})
  /\ ToSet(assigned.storage) \subseteq 1 .. assigned.allocated
  /\ \A k \in DOMAIN assigned.pool :
       assigned.pool[k].storage \in 1 .. assigned.allocated

\* Whatever order the SMs run the instructions in: when an instruction loads
\* a cell, the barriers alone guarantee that the data it wants has been
\* stored there, that everything stored there before is complete, and that
\* nothing is stored there afterwards before the instruction completes.  The
\* rows are the instructions of the graph, in an order that follows it.
RaceFree ==
  phase = "done" =>
    /\ WellFormed(program) /\ Consistent(program)
    /\ NoRaces(program) /\ FollowsGraph(program, dag)

\* A wait spins until the barrier EQUALS its target (utils.cuh barrier_wait):
\* every barrier gets exactly as many arrivals as its waiters expect.
TargetsExact == phase = "done" => ExactTargets(program)

\* An instruction waits only for instructions of earlier rows, so that warps
\* which run their rows in order cannot wait for each other in a circle.
WaitsForEarlierRows ==
  phase = "done" =>
    \A k \in RowsOf(program) : \A j \in Awaited(program, k) : j < k

\* When everything has completed the graph's outputs are still in memory:
\* whatever else is ever stored in their cells is stored before them.  A cell
\* of a graph input is stored to only by nodes that mutate it in place.
OutputsKept ==
  phase = "done" =>
    /\ OutputsLast(program)
    /\ \A in \in program.inputs :
         \A x \in Writers(program, in.cell) :
           DOMAIN dag[program.instructions[x].node].inplace # {}
====
