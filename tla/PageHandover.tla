---------------------------- MODULE PageHandover ----------------------------
(***************************************************************************)
(* The op kernels inside the SMs of a cluster (csrc/itypes): how the warps *)
(* of consecutive instructions share the pages of shared memory and the    *)
(* tensor memory through page_wait, page_finish, tensor_wait and           *)
(* tensor_finish (csrc/schema.cuh), and the warps of one instruction       *)
(* through its dynamic semaphores.                                         *)
(*                                                                         *)
(* What an instruction does in the meantime is OpProtocol's: instructions  *)
(* are data, a script of steps for each warp, translated from the op's     *)
(* kernel.  An instruction's waits on other SMs belong to Megakernel and   *)
(* are left out.                                                           *)
(***************************************************************************)
EXTENDS OpProtocol

CONSTANTS
  LEAD,        \* INSTRUCTION_PIPE_STAGES
  PROGRAMS     \* programs: sequences of instructions, each per CTA

\* The static_assert of schema.cuh: the parities of page_wait and tensor_wait
\* tell two instructions apart.
ASSUME HandoverAssumption ==
  /\ LEAD \in {1, 2}
  /\ \A i \in DOMAIN PROGRAMS :
       /\ IsSequence(PROGRAMS[i])
       /\ \A k \in DOMAIN PROGRAMS[i] : WellFormed(PROGRAMS[i][k])

VARIABLES
  program,         \* which program this launch runs
  issued,          \* per CTA, how many the controller has published
  order,           \* per CTA and slot, pid_order
  semaphore,       \* per CTA and slot, the dynamic semaphores
  retired,         \* per CTA and warp, how many instructions are behind it
  at,              \* per CTA and warp, how many steps of the next it has done
  passed,          \* per CTA, the pages the loader's other lanes have passed on
  pageFinished,    \* per CTA and page, the phase of page_finished
  tensorFinished,  \* per CTA, the phase of tensor_finished
  page,            \* per CTA, page and part: what it holds
  tensor,          \* per CTA and part of tensor memory: what it holds
  loading,         \* loads in flight
  mmas             \* matrix multiplications in flight, in order

progressVars == <<program, issued, order, retired>>
contentVars == <<page, tensor>>
vars == <<progressVars, semaphore, at, passed, pageFinished, tensorFinished,
          contentVars, loading, mmas>>

\* What instruction n put there; what no one may look at.
Content(n, tag) == <<n, tag>>
TORN == <<-1, 0>>

Slot(n) == n % LEAD

Instructions == PROGRAMS[program]
Instruction(c, n) == Instructions[n + 1][c]
Script(c, w) == Instruction(c, retired[c][w]).script[w]

\* The controllers have published the warp's next instruction.
Arrived(c, w) ==
  /\ retired[c][w] < Len(Instructions)
  /\ \A d \in CTAS : issued[d] > retired[c][w]

\* The warp is inside that instruction, and its next step is NextStep(c, w).
Running(c, w) == Arrived(c, w) /\ at[c][w] < Len(Script(c, w))
NextStep(c, w) == Script(c, w)[at[c][w] + 1]

lid_to_pid(c, n, lid) == order[c][Slot(n)][lid]

---------------------------------------------------------------------------
(* Waiting.  A wait names the parity of the phase it wants to see ended.   *)

\* Bugs in the operators below: no wait; the parity of the instruction after.
NoPageWait(c, n, lid) == TRUE
SwappedPageWait(c, n, lid) == pageFinished[c][lid_to_pid(c, n, lid)] % 2 = n % 2

page_wait(c, n, lid) == pageFinished[c][lid_to_pid(c, n, lid)] % 2 # n % 2

tensor_wait(c, n) == tensorFinished[c] % 2 # n % 2

semaphore_wait(c, n, wait) == WaitOver(semaphore[c][Slot(n)], wait)

\* The semaphores of all CTAs after signals sent on behalf of instruction n.
AfterSignalling(n, signals) ==
  [c \in CTAS |->
     IF c \in Signalled(signals)
     THEN [semaphore[c] EXCEPT ![Slot(n)] =
             Signal(@, Instruction(c, n).semaphores, c, signals)]
     ELSE semaphore[c]]

---------------------------------------------------------------------------
(* The controller.                                                         *)

Identity == [lid \in LIDS |-> lid]

Init ==
  /\ program \in DOMAIN PROGRAMS
  /\ issued = [c \in CTAS |-> 0]
  /\ order = [c \in CTAS |-> [s \in 0 .. LEAD - 1 |-> Identity]]
  /\ semaphore = [c \in CTAS |-> [s \in 0 .. LEAD - 1 |-> << >>]]
  /\ retired = [c \in CTAS |-> [w \in WARPS |-> 0]]
  /\ at = [c \in CTAS |-> [w \in WARPS |-> 0]]
  /\ passed = [c \in CTAS |-> {}]
  /\ pageFinished = [c \in CTAS |-> [p \in LIDS |-> 1]]
  /\ tensorFinished = [c \in CTAS |-> 1]
  /\ page = [c \in CTAS |-> [p \in LIDS |-> [h \in PARTS |-> TORN]]]
  /\ tensor = [c \in CTAS |-> [h \in PARTS |-> TORN]]
  /\ loading = {}
  /\ mmas = << >>

\* The pages in the order the instruction before lets them go.
PidOrder(c, n) ==
  IF n = 0 THEN Identity
  ELSE [lid \in LIDS |->
          order[c][Slot(n - 1)][Instruction(c, n - 1).release[lid]]]

\* A bug in the operator below: the slot is not waited for.
AlwaysFree(c, n) == TRUE

\* instruction_finished: the slot's last instruction is behind every warp.
SlotFree(c, n) == \A w \in WARPS : retired[c][w] > n - LEAD

\* An iteration of controller_loop that finds an instruction.
Issue(c) ==
  LET n == issued[c] IN
  /\ n < Len(Instructions)
  /\ SlotFree(c, n)
  /\ issued' = [issued EXCEPT ![c] = n + 1]
  /\ order' = [order EXCEPT ![c][Slot(n)] = PidOrder(c, n)]
  /\ semaphore' = [semaphore EXCEPT ![c][Slot(n)] =
                     FreshSemaphores(Instruction(c, n).semaphores)]
  /\ UNCHANGED <<program, retired, at, passed, pageFinished, tensorFinished,
                 contentVars, loading, mmas>>

---------------------------------------------------------------------------
(* The warps.                                                              *)

\* Each of these pages, and its mbarrier's only arrival ends a phase.
page_finish(c, n, lids) ==
  LET pids == {lid_to_pid(c, n, lid) : lid \in lids}
  IN  IF lids = {} THEN pageFinished
      ELSE [pageFinished EXCEPT ![c] =
         [p \in LIDS |-> IF p \in pids THEN @[p] + 1 ELSE @[p]]]

tensor_finish(c) == [tensorFinished EXCEPT ![c] = @ + 1]

\* What instruction n has in flight, by the page numbers of the SM: a load of
\* CTA c leaves the regions torn until it arrives; a multiplication reads the
\* same page in both CTAs, whatever the other's pid_order says.
Load(c, n, x) ==
  [n |-> n, cta |-> x.cta, tag |-> x.tag, signal |-> x.signal,
   places |-> {<<lid_to_pid(c, n, r[1]), r[2]>> : r \in x.places}]

Mma(c, n, x) ==
  [n |-> n, tag |-> x.tag, ctas |-> x.ctas, part |-> x.part, signals |-> x.signals,
   reads |-> {[pid |-> lid_to_pid(c, n, r.lid), part |-> r.part, tag |-> r.tag] :
                r \in x.reads}]

\* The page contents after a step that writes and starts loads.
AfterStep(c, n, s) ==
  LET torn == {<<lid_to_pid(c, n, r[1]), r[2]>> : r \in TornBy(s)}
      put == {<<lid_to_pid(c, n, r[1]), r[2]>> : r \in PutBy(s)}
      Tag(p, h) ==
        (CHOOSE x \in s.puts : lid_to_pid(c, n, x.lid) = p /\ x.part = h).tag
  IN  IF s.puts = {} /\ s.loads = {} THEN page
      ELSE [page EXCEPT ![c] =
         [p \in LIDS |-> [h \in PARTS |->
            IF <<p, h>> \in torn THEN TORN
            ELSE IF <<p, h>> \in put THEN Content(n, Tag(p, h))
            ELSE @[p][h]]]]

\* What tensor memory holds after a step that starts to multiply.
TensorAfterStep(s) ==
  IF s.mmas = << >> THEN tensor
  ELSE [d \in CTAS |-> [h \in PARTS |->
     IF \E i \in DOMAIN s.mmas : d \in s.mmas[i].ctas /\ h = s.mmas[i].part
     THEN TORN
     ELSE tensor[d][h]]]

\* With its last step a warp is done and arrives on instruction_finished; only
\* the loader's leader meets the other lanes first.
AfterAdvance(c, w) ==
  IF w # "loader" /\ at[c][w] + 1 = Len(Script(c, w))
  THEN /\ retired' = [retired EXCEPT ![c][w] = @ + 1]
       /\ at' = [at EXCEPT ![c][w] = 0]
  ELSE /\ at' = [at EXCEPT ![c][w] = @ + 1]
       /\ UNCHANGED retired

\* A warp gets through the waits that end its step, and does what follows.
Advance(c, w) ==
  LET n == retired[c][w]
      s == NextStep(c, w)
  IN
  /\ Running(c, w)
  /\ \A lid \in s.pages : page_wait(c, n, lid)
  /\ s.tensor => tensor_wait(c, n)
  /\ \A wait \in s.waits : semaphore_wait(c, n, wait)
  /\ AfterAdvance(c, w)
  /\ pageFinished' = page_finish(c, n, s.finishes)
  /\ tensorFinished' = IF s.tensorFinish THEN tensor_finish(c) ELSE tensorFinished
  /\ semaphore' = AfterSignalling(n, s.signals)
  /\ page' = AfterStep(c, n, s)
  /\ tensor' = TensorAfterStep(s)
  /\ loading' = loading \cup {Load(c, n, x) : x \in LoadsOf(c, s)}
  /\ mmas' = mmas \o [i \in DOMAIN s.mmas |-> Mma(c, n, MmasOf(s)[i])]
  /\ UNCHANGED <<program, issued, order, passed>>

\* The pages the loader's other lanes now wait for.
Waiting(c) == Awaited(Instruction(c, retired[c]["loader"]).lanes, passed[c])

\* Another lane of the loader waits for a page the op has no use for and
\* finishes it.  A loop over pages is a sequence of singletons, one lane per
\* page a set.
PassOn(c, lid) ==
  LET n == retired[c]["loader"] IN
  /\ Arrived(c, "loader")
  /\ lid \in Waiting(c)
  /\ page_wait(c, n, lid)
  /\ pageFinished' = page_finish(c, n, {lid})
  /\ passed' = [passed EXCEPT ![c] = @ \cup {lid}]
  /\ UNCHANGED <<progressVars, semaphore, at, tensorFinished, contentVars,
                 loading, mmas>>

LanesDone(c) == Waiting(c) = {}

\* The lanes of the loader meet, or a warp has nothing to do in this
\* instruction, and it arrives on instruction_finished.
Retire(c, w) ==
  /\ Arrived(c, w)
  /\ at[c][w] = Len(Script(c, w))
  /\ w = "loader" => LanesDone(c)
  /\ retired' = [retired EXCEPT ![c][w] = @ + 1]
  /\ at' = [at EXCEPT ![c][w] = 0]
  /\ passed' = IF w = "loader" THEN [passed EXCEPT ![c] = {}] ELSE passed
  /\ UNCHANGED <<program, issued, order, semaphore, pageFinished,
                 tensorFinished, contentVars, loading, mmas>>

---------------------------------------------------------------------------
(* What is in flight.                                                      *)

\* A load arrives and counts its bytes down.
Deliver(x) ==
  /\ page' = [page EXCEPT ![x.cta] =
                [p \in LIDS |-> [h \in PARTS |->
                   IF <<p, h>> \in x.places THEN Content(x.n, x.tag)
                   ELSE @[p][h]]]]
  /\ semaphore' = AfterSignalling(x.n, {x.signal})
  /\ loading' = loading \ {x}
  /\ UNCHANGED <<progressVars, at, passed, pageFinished, tensorFinished,
                 tensor, mmas>>

\* The oldest multiplication, or commit, is done.
Multiplied ==
  /\ mmas # << >>
  /\ LET x == Head(mmas) IN
     /\ tensor' = [d \in CTAS |-> [h \in PARTS |->
                     IF d \in x.ctas /\ h = x.part THEN Content(x.n, x.tag)
                     ELSE tensor[d][h]]]
     /\ semaphore' = AfterSignalling(x.n, x.signals)
  /\ mmas' = Tail(mmas)
  /\ UNCHANGED <<progressVars, at, passed, pageFinished, tensorFinished, page,
                 loading>>

Finished == \A c \in CTAS, w \in WARPS : retired[c][w] = Len(Instructions)

\* The kernel has nothing more to do.
Exit == Finished /\ loading = {} /\ mmas = << >> /\ UNCHANGED vars

Next ==
  \/ \E c \in CTAS : Issue(c)
  \/ \E c \in CTAS, w \in WARPS : Advance(c, w) \/ Retire(c, w)
  \/ \E c \in CTAS, lid \in LIDS : PassOn(c, lid)
  \/ \E x \in loading : Deliver(x)
  \/ Multiplied
  \/ Exit

Spec == Init /\ [][Next]_vars

\* Resident warps run, and what is in flight arrives.
Fairness ==
  /\ \A c \in CTAS : WF_vars(Issue(c))
  /\ \A c \in CTAS, w \in WARPS : WF_vars(Advance(c, w) \/ Retire(c, w))
  /\ \A c \in CTAS, lid \in LIDS : WF_vars(PassOn(c, lid))
  /\ WF_vars(\E x \in loading : Deliver(x)) /\ WF_vars(Multiplied)

FairSpec == Spec /\ Fairness

---------------------------------------------------------------------------
(* Properties.                                                             *)

TypeOK ==
  /\ program \in DOMAIN PROGRAMS
  /\ issued \in [CTAS -> 0 .. Len(Instructions)]
  /\ retired \in [CTAS -> [WARPS -> 0 .. Len(Instructions)]]
  /\ \A c \in CTAS, w \in WARPS : at[c][w] \in Nat
  /\ passed \in [CTAS -> SUBSET LIDS]
  /\ \A c \in CTAS : \A s \in 0 .. LEAD - 1 :
       /\ {order[c][s][lid] : lid \in LIDS} = LIDS
       /\ \A sem \in DOMAIN semaphore[c][s] :
            semaphore[c][s][sem].left \in Nat
  /\ pageFinished \in [CTAS -> [LIDS -> Nat \ {0}]]
  /\ tensorFinished \in [CTAS -> Nat \ {0}]
  /\ \A c \in CTAS : \A p \in LIDS : \A h \in PARTS :
       page[c][p][h][1] \in -1 .. Len(Instructions) - 1

\* What a warp reads from a page, or has the TMA store, and what a
\* multiplication in flight reads in any CTA, is what the same instruction
\* put there, from the first to the last moment of the access.
PagesIntact ==
  /\ \A c \in CTAS, w \in WARPS : Running(c, w) =>
       \A x \in NextStep(c, w).holds :
         page[c][lid_to_pid(c, retired[c][w], x.lid)][x.part]
           = Content(retired[c][w], x.tag)
  /\ \A i \in DOMAIN mmas : \A r \in mmas[i].reads, c \in mmas[i].ctas :
       page[c][r.pid][r.part] = Content(mmas[i].n, r.tag)

\* The same of what a warp reads from tensor memory.
TensorIntact ==
  \A c \in CTAS, w \in WARPS : Running(c, w) =>
    \A x \in NextStep(c, w).tensorHolds :
      tensor[c][x.part] = Content(retired[c][w], x.tag)

\* page_wait looks at a parity.  While a lane waits, the phase is the one
\* before the one it waits for, or that one: it never passes on an old phase
\* nor misses the one it wants.
PageWaitsExact ==
  \A c \in CTAS, w \in WARPS : Arrived(c, w) =>
    \A lid \in (IF Running(c, w) THEN NextStep(c, w).pages ELSE {})
                 \cup (IF w = "loader" THEN Waiting(c) ELSE {}) :
      pageFinished[c][lid_to_pid(c, retired[c][w], lid)] - retired[c][w]
        \in {0, 1}

\* Loads and commits signal the semaphores of the instruction they belong to:
\* the controller does not reuse the slot under them.
NoLateSignal ==
  /\ \A x \in loading : issued[x.signal.cta] \in x.n + 1 .. x.n + LEAD
  /\ \A i \in DOMAIN mmas : \A g \in mmas[i].signals :
       issued[g.cta] \in mmas[i].n + 1 .. mmas[i].n + LEAD

\* The kernel gets through every program: nothing waits for ever, and at the
\* end every page is free for the instruction that would come next.
Terminates ==
  <>(/\ Finished /\ loading = {} /\ mmas = << >>
     /\ \A c \in CTAS, p \in LIDS : pageFinished[c][p] = Len(Instructions) + 1
     /\ \A c \in CTAS : tensorFinished[c] = Len(Instructions) + 1)

\* Who touches which page: warps, loads on their way, multiplications.
WarpUses ==
  UNION {{<<<<c, lid_to_pid(c, retired[c][w], x.lid)>>, retired[c][w]>> :
            x \in IF Running(c, w) THEN NextStep(c, w).holds ELSE {}} :
           c \in CTAS, w \in WARPS}
LoadUses == UNION {{<<<<x.cta, r[1]>>, x.n>> : r \in x.places} : x \in loading}
MmaUses ==
  UNION {{<<<<c, r.pid>>, mmas[i].n>> : c \in mmas[i].ctas, r \in mmas[i].reads} :
           i \in DOMAIN mmas}
Uses == WarpUses \cup LoadUses \cup MmaUses

\* Pages are handed from instruction to instruction as PagePool says.
Pool ==
  INSTANCE PagePool WITH
    PAGES <- CTAS \X LIDS,
    holder <- [p \in CTAS \X LIDS |-> pageFinished[p[1]][p[2]] - 1],
    uses <- Uses
ImplementsPool == Pool!Spec
====
