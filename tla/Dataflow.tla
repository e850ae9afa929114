------------------------------ MODULE Dataflow ------------------------------
(***************************************************************************)
(* What a launch of the compiled kernel promises: every instruction of the *)
(* graph takes effect exactly once, after the tensors it reads have been   *)
(* computed where it reads them, and after everybody else who reads a      *)
(* tensor it mutates in place.  Nothing is said of SMs, memory, barriers.  *)
(***************************************************************************)
EXTENDS Integers, Sequences, FiniteSets

CONSTANTS GRAPHS    \* a sequence of DAGs, as in Scheduling

VARIABLES
  graph,            \* the graph the kernel was compiled for
  phase,            \* "created", "running" or "returned"
  executed          \* the instructions <<node, index>> that have taken effect

dataflowVars == <<graph, phase, executed>>

Dag == GRAPHS[graph]

Instructions ==
  UNION {{<<n, i>> : i \in DOMAIN Dag[n].insts} :
           n \in {x \in DOMAIN Dag : Dag[x].kind = "compute"}}

\* The cells of a tensor that have been computed.
Computed(source) ==
  UNION {Dag[source[1]].insts[i].writes[source[2]] :
           i \in {x \in DOMAIN Dag[source[1]].insts :
                    \/ Dag[source[1]].kind = "input"
                    \/ <<source[1], x>> \in executed}}

\* All other readers of the tensors node n mutates have taken effect.
Unread(n) ==
  \A s \in DOMAIN Dag[n].inplace :
    LET source == Dag[n].ins[Dag[n].inplace[s]] IN
    \A inst \in Instructions :
      (\E e \in DOMAIN Dag[inst[1]].ins : Dag[inst[1]].ins[e] = source)
        => inst[1] = n \/ inst \in executed

Init == graph \in DOMAIN GRAPHS /\ phase = "created" /\ executed = {}

Launch ==
  /\ phase # "running"
  /\ phase' = "running" /\ executed' = {}
  /\ UNCHANGED graph

Execute(n, i) ==
  /\ phase = "running" /\ <<n, i>> \notin executed
  /\ \A e \in DOMAIN Dag[n].ins :
       Dag[n].insts[i].reads[e] \subseteq Computed(Dag[n].ins[e])
  /\ Unread(n)
  /\ executed' = executed \cup {<<n, i>>}
  /\ UNCHANGED <<graph, phase>>

Return ==
  /\ phase = "running" /\ executed = Instructions
  /\ phase' = "returned"
  /\ UNCHANGED <<graph, executed>>

Next == Launch \/ Return \/ \E inst \in Instructions : Execute(inst[1], inst[2])

Spec == Init /\ [][Next]_dataflowVars
====
