-------------------------- MODULE InstructionAlone --------------------------
(***************************************************************************)
(* One instruction by itself: the machine of OpProtocol as a specification.*)
(* What TLC finds of every instruction here is what the theorems about     *)
(* PageHandover ask of the instructions of a program.                      *)
(***************************************************************************)
EXTENDS OpProtocol

CONSTANTS INSTRUCTIONS   \* instructions, each per CTA

ASSUME InstructionsAssumption ==
  \A i \in DOMAIN INSTRUCTIONS : WellFormed(INSTRUCTIONS[i])

VARIABLES
  which,   \* the instruction
  st       \* its state

vars == <<which, st>>

inst == INSTRUCTIONS[which]

Init == which \in DOMAIN INSTRUCTIONS /\ st = Start(INSTRUCTIONS[which])

Progress == Goes(inst, st, st') /\ UNCHANGED which

\* The cluster is behind the instruction, and nothing is in flight.
Exit ==
  /\ \A c \in CTAS : Behind(st, c)
  /\ st.loading = {} /\ Multiplying(st) = {}
  /\ UNCHANGED vars

Next == Progress \/ Exit

Spec == Init /\ [][Next]_vars

---------------------------------------------------------------------------
(* Properties.                                                             *)

\* The loader's lanes, its leader, the consumers and the storer of an op share
\* out seven pages between them: whoever is how fast, each page is waited for
\* before it is finished and finished once, nothing touches a page that was not
\* waited for or is finished already, a warp's access, a load and a
\* multiplication in flight included, and no CTA that is behind the instruction
\* is signalled on its behalf.  The CTAs pass the pages on in one order.
Disciplined == PassesPagesOn(inst) /\ InTurn(inst, st)

\* The op's own semaphores order the loads, stores and reads of its warps: what
\* a warp, or a multiplication in flight, reads is what the instruction last
\* put there, and has not been loaded or stored over.
AloneIntact == ReadsIntact(inst, st)

\* A consumer that reads sums in tensor memory finds them complete, and no warp
\* of its CTA has passed tensor memory on.
TensorAlone ==
  \A c \in CTAS, w \in WARPS : Inside(inst, st, c, w) =>
    \A x \in At(inst, st, c, w).tensorHolds :
      /\ [cta |-> c, part |-> x.part, tag |-> x.tag] \in st.tensor
      /\ c \notin st.tensorFinished
====
