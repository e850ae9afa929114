------------------------------ MODULE PagePool ------------------------------
(***************************************************************************)
(* What the page protocol of an SM promises (csrc/schema.cuh): each shared *)
(* memory page goes from instruction to instruction, every instruction has *)
(* it exactly once, and only the instruction that has it touches it.       *)
(***************************************************************************)
EXTENDS Integers

CONSTANTS PAGES

VARIABLES
  holder,   \* per page, the number of the instruction that has it
  uses      \* pairs of a page and an instruction that is touching it

poolVars == <<holder, uses>>

Init == holder = [p \in PAGES |-> 0] /\ uses = {}

Keep(p) == holder'[p] = holder[p]

\* The instruction is done with the page; the next one may begin at once.
HandOver(p) == holder'[p] = holder[p] + 1

\* Accesses begin and end, but only ever by the instruction that has the page.
Next ==
  /\ DOMAIN holder' = PAGES
  /\ \A p \in PAGES : Keep(p) \/ HandOver(p)
  /\ uses' \subseteq {<<p, holder'[p]>> : p \in PAGES}

Spec == Init /\ [][Next]_poolVars

====
