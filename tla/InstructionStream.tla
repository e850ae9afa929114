------------------------- MODULE InstructionStream -------------------------
(***************************************************************************)
(* What the instruction pipeline of a cluster promises: each CTA has a     *)
(* stream of instructions that ends with STOP; every worker of the CTA     *)
(* takes and retires every instruction of that stream, in order; a stream  *)
(* runs at most LEAD instructions ahead of the CTA's slowest worker; no    *)
(* worker takes its n-th instruction before all CTAs have issued theirs.   *)
(***************************************************************************)
EXTENDS Integers, Sequences

CONSTANTS CTAS, WORKERS, LEAD, INSTRUCTION_ROWS, STOP, UNSET

VARIABLES
  stream,    \* per CTA: the rows issued so far
  taken,     \* per CTA and worker: how many instructions it has begun
  retired,   \* per CTA and worker: how many it has finished
  current    \* per CTA and worker: the row it took last

streamVars == <<stream, taken, retired, current>>

Ended(c) == stream[c] # << >> /\ stream[c][Len(stream[c])] = STOP

Init ==
  /\ stream = [c \in CTAS |-> << >>]
  /\ taken = [c \in CTAS |-> [w \in WORKERS |-> 0]]
  /\ retired = [c \in CTAS |-> [w \in WORKERS |-> 0]]
  /\ current = [c \in CTAS |-> [w \in WORKERS |-> UNSET]]

Issue(c) ==
  /\ ~Ended(c)
  /\ \A w \in WORKERS : Len(stream[c]) < retired[c][w] + LEAD
  /\ \E row \in INSTRUCTION_ROWS \cup {STOP} :
       stream' = [stream EXCEPT ![c] = Append(@, row)]
  /\ UNCHANGED <<taken, retired, current>>

Take(c, w) ==
  /\ taken[c][w] = retired[c][w]
  /\ \A d \in CTAS : Len(stream[d]) > taken[c][w]
  /\ taken' = [taken EXCEPT ![c][w] = @ + 1]
  /\ current' = [current EXCEPT ![c][w] = stream[c][taken[c][w] + 1]]
  /\ UNCHANGED <<stream, retired>>

Retire(c, w) ==
  /\ taken[c][w] = retired[c][w] + 1
  /\ current[c][w] # STOP
  /\ retired' = [retired EXCEPT ![c][w] = @ + 1]
  /\ UNCHANGED <<stream, taken, current>>

Next ==
  \/ \E c \in CTAS : Issue(c)
  \/ \E c \in CTAS, w \in WORKERS : Take(c, w) \/ Retire(c, w)

Spec == Init /\ [][Next]_streamVars

====
