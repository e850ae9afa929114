----------------------------- MODULE OpProtocol -----------------------------
(***************************************************************************)
(* What one instruction does in the CTAs of a cluster: the steps of its    *)
(* warps, its dynamic semaphores, and what it has in flight, as a machine  *)
(* whose states are values.  It never waits for a page or for tensor       *)
(* memory: when those are to be had is for the other instructions to say,  *)
(* and what must hold of an instruction holds whenever it gets them.       *)
(*                                                                         *)
(* PageHandover puts instructions one after another, and InstructionAlone  *)
(* checks what is required of each.                                        *)
(***************************************************************************)
EXTENDS Integers, Sequences, FiniteSets, FiniteSetsExt

CONSTANTS
  CLUSTER_SIZE,
  NUM_PAGES,
  PARTS,       \* the parts of a page, and of tensor memory, told apart
  WARPS        \* the warps that do something in the programs

CTAS == 0 .. CLUSTER_SIZE - 1
LIDS == 0 .. NUM_PAGES - 1

ASSUME ClusterAssumption ==
  /\ CLUSTER_SIZE \in {1, 2} /\ NUM_PAGES \in Nat \ {0}
  /\ "loader" \in WARPS

---------------------------------------------------------------------------
(* Instructions are data: per CTA a record of its release order, the counts *)
(* of its semaphores, the lanes of the loader and a script of steps for    *)
(* every warp (see PageSteps).                                             *)

IsSequence(q) == q \in Seq({q[i] : i \in DOMAIN q})

WellFormedStep(s) ==
  /\ s.pages \subseteq LIDS
  /\ \A x \in s.puts : x.lid \in LIDS /\ x.part \in PARTS
  /\ \A x \in s.loads : x.cta \in CTAS /\ x.regions \subseteq LIDS \X PARTS
  /\ \A g \in s.signals : g.cta \in CTAS
  /\ IsSequence(s.mmas) /\ \A i \in DOMAIN s.mmas : s.mmas[i].ctas \subseteq CTAS

WellFormed(inst) ==
  \A c \in CTAS :
    /\ DOMAIN inst[c].release = LIDS
    /\ \A k \in DOMAIN inst[c].lanes : inst[c].lanes[k] \subseteq LIDS
    /\ \A w \in WARPS :
         /\ w \in DOMAIN inst[c].script /\ IsSequence(inst[c].script[w])
         /\ \A k \in DOMAIN inst[c].script[w] : WellFormedStep(inst[c].script[w][k])

---------------------------------------------------------------------------
(* Dynamic semaphores: mbarriers that count arrivals and bytes.            *)

FreshSemaphores(counts) ==
  [sem \in DOMAIN counts |-> [phase |-> 0, left |-> counts[sem], bytes |-> 0]]

\* What arrivals and bytes do to an mbarrier: with both at zero a phase ends.
AfterSignals(b, count, signals) ==
  LET left == b.left - MapThenSumSet(LAMBDA g : g.arrivals, signals)
      bytes == b.bytes + MapThenSumSet(LAMBDA g : g.bytes, signals)
  IN  IF left = 0 /\ bytes = 0
      THEN [b EXCEPT !.phase = @ + 1, !.left = count, !.bytes = 0]
      ELSE [b EXCEPT !.left = left, !.bytes = bytes]

\* The semaphores of a CTA after those of the signals that are for it.
Signal(semaphores, counts, c, signals) ==
  [sem \in DOMAIN semaphores |->
     LET mine == {g \in signals : g.cta = c /\ g.sem = sem}
     IN  IF mine = {} THEN semaphores[sem]
         ELSE AfterSignals(semaphores[sem], counts[sem], mine)]

Signalled(signals) == {g.cta : g \in signals}

\* A wait names the parity of the phase it wants to see ended.
WaitOver(semaphores, wait) == semaphores[wait.sem].phase % 2 # wait.parity

---------------------------------------------------------------------------
(* What a step starts, in terms of the instruction's own page numbers.     *)

LoadsOf(c, s) ==
  {[cta |-> c, tag |-> x.tag, places |-> x.regions,
    signal |-> [cta |-> x.cta, sem |-> x.sem, arrivals |-> 0,
                bytes |-> -x.bytes]] : x \in s.loads}

\* A multiplication by two CTAs writes tensor memory and signals in both.
MmasOf(s) ==
  [i \in DOMAIN s.mmas |->
     LET x == s.mmas[i] IN
     [tag |-> x.tag, ctas |-> x.ctas, part |-> x.part, reads |-> x.reads,
      signals |-> {[cta |-> d, sem |-> sem, arrivals |-> 1, bytes |-> 0] :
                     d \in x.ctas, sem \in x.commits}]]

\* The regions its loads leave torn, until they arrive, and those it writes.
TornBy(s) == UNION {x.regions : x \in s.loads}
PutBy(s) == {<<x.lid, x.part>> : x \in s.puts}

\* The pages the loader's other lanes now wait for, when some have passed.
Awaited(lanes, passed) ==
  UNION {lanes[k] \ passed : k \in {i \in DOMAIN lanes :
           \A j \in 1 .. i - 1 : lanes[j] \subseteq passed}}

---------------------------------------------------------------------------
(* The machine.  `inst` is the instruction, per CTA; a state is a record.  *)

Start(inst) ==
  [at |-> [c \in CTAS |-> [w \in WARPS |-> 0]],
   done |-> [c \in CTAS |-> [w \in WARPS |-> FALSE]],
   passed |-> [c \in CTAS |-> {}],
   semaphore |-> [c \in CTAS |-> FreshSemaphores(inst[c].semaphores)],
   given |-> [c \in CTAS |-> {}],      \* the pages that were waited for
   finished |-> [c \in CTAS |-> {}],   \* the pages that were finished
   contents |-> {},                    \* what is known to be in the pages
   tensor |-> {},                      \* and in tensor memory
   tensorFinished |-> {},              \* the CTAs that finished it
   loading |-> {},                     \* loads in flight
   mmas |-> << >>,                     \* the multiplications started
   multiplied |-> 0]                   \* and how many of them are done

\* Warp w of CTA c is inside the instruction, and its next step is At(..).
Inside(inst, st, c, w) ==
  ~st.done[c][w] /\ st.at[c][w] < Len(inst[c].script[w])
At(inst, st, c, w) == inst[c].script[w][st.at[c][w] + 1]

\* The step is the last, with which a warp is done; only the loader's leader
\* meets the other lanes first.
IsLast(inst, st, c, w) ==
  w # "loader" /\ st.at[c][w] + 1 = Len(inst[c].script[w])

SignalAll(inst, st, signals) ==
  [c \in CTAS |->
     IF c \in Signalled(signals)
     THEN Signal(st.semaphore[c], inst[c].semaphores, c, signals)
     ELSE st.semaphore[c]]

Written(contents, c, s) ==
  {f \in contents : f.cta = c => <<f.lid, f.part>> \notin TornBy(s) \cup PutBy(s)}
  \cup {[cta |-> c, lid |-> x.lid, part |-> x.part, tag |-> x.tag] :
          x \in {y \in s.puts : <<y.lid, y.part>> \notin TornBy(s)}}

Overwritten(tensor, mmas) ==
  {f \in tensor : \A i \in DOMAIN mmas :
                    f.cta \in mmas[i].ctas => f.part # mmas[i].part}

CanAdvance(inst, st, c, w) ==
  /\ Inside(inst, st, c, w)
  /\ \A wait \in At(inst, st, c, w).waits : WaitOver(st.semaphore[c], wait)

Advanced(inst, st, c, w) ==
  LET s == At(inst, st, c, w)
      last == IsLast(inst, st, c, w)
  IN [at |-> [st.at EXCEPT ![c][w] = IF last THEN 0 ELSE @ + 1],
      done |-> [st.done EXCEPT ![c][w] = last],
      passed |-> st.passed,
      semaphore |-> SignalAll(inst, st, s.signals),
      given |-> [st.given EXCEPT ![c] = @ \cup s.pages],
      finished |-> [st.finished EXCEPT ![c] = @ \cup s.finishes],
      contents |-> Written(st.contents, c, s),
      tensor |-> Overwritten(st.tensor, s.mmas),
      tensorFinished |-> IF s.tensorFinish THEN st.tensorFinished \cup {c}
                         ELSE st.tensorFinished,
      loading |-> st.loading \cup LoadsOf(c, s),
      mmas |-> st.mmas \o MmasOf(s),
      multiplied |-> st.multiplied]

CanPassOn(inst, st, c, lid) ==
  ~st.done[c]["loader"] /\ lid \in Awaited(inst[c].lanes, st.passed[c])

PassedOn(st, c, lid) ==
  [st EXCEPT !.passed[c] = @ \cup {lid}, !.given[c] = @ \cup {lid},
             !.finished[c] = @ \cup {lid}]

CanRetire(inst, st, c, w) ==
  /\ ~st.done[c][w] /\ st.at[c][w] = Len(inst[c].script[w])
  /\ w = "loader" => Awaited(inst[c].lanes, st.passed[c]) = {}

Retired(st, c, w) ==
  [st EXCEPT !.at[c][w] = 0, !.done[c][w] = TRUE,
             !.passed[c] = IF w = "loader" THEN {} ELSE @]

Delivered(inst, st, x) ==
  [st EXCEPT !.semaphore = SignalAll(inst, st, {x.signal}),
             !.contents =
               {f \in @ : f.cta = x.cta => <<f.lid, f.part>> \notin x.places}
               \cup {[cta |-> x.cta, lid |-> r[1], part |-> r[2], tag |-> x.tag] :
                       r \in x.places},
             !.loading = @ \ {x}]

CanMultiply(st) == st.multiplied < Len(st.mmas)

MultipliedOnce(inst, st) ==
  LET x == st.mmas[st.multiplied + 1] IN
  [st EXCEPT !.semaphore = SignalAll(inst, st, x.signals),
             !.tensor = Overwritten(@, <<x>>)
               \cup {[cta |-> d, part |-> x.part, tag |-> x.tag] : d \in x.ctas},
             !.multiplied = @ + 1]

\* From state st the instruction may go to state t.
Goes(inst, st, t) ==
  \/ \E c \in CTAS, w \in WARPS :
       \/ CanAdvance(inst, st, c, w) /\ t = Advanced(inst, st, c, w)
       \/ CanRetire(inst, st, c, w) /\ t = Retired(st, c, w)
  \/ \E c \in CTAS, lid \in LIDS :
       CanPassOn(inst, st, c, lid) /\ t = PassedOn(st, c, lid)
  \/ \E x \in st.loading : t = Delivered(inst, st, x)
  \/ CanMultiply(st) /\ t = MultipliedOnce(inst, st)

---------------------------------------------------------------------------
(* What is required of an instruction.                                     *)

\* CTA c is behind the instruction.
Behind(st, c) == \A w \in WARPS : st.done[c][w]

Owns(st, c, lid) == lid \in st.given[c] \ st.finished[c]

\* Multiplications in flight.
Multiplying(st) == {st.mmas[i] : i \in st.multiplied + 1 .. Len(st.mmas)}

\* A step, once its waits are over, finishes, writes and loads only pages that
\* were waited for and not finished, each region once, and signals no CTA that
\* is behind the instruction.
StepInTurn(inst, st, c, w) ==
  LET s == At(inst, st, c, w)
      own == (st.given[c] \cup s.pages) \ st.finished[c]
  IN  /\ s.finishes \subseteq own
      /\ \A r \in PutBy(s) : r[1] \in own
      /\ \A x, y \in s.puts : x.lid = y.lid /\ x.part = y.part => x = y
      /\ \A r \in TornBy(s) : r[1] \in own \ s.finishes
      /\ \A g \in s.signals : ~Behind(st, g.cta)

\* Every page is waited for before it is finished, never after; it is finished
\* once, before the CTA is behind the instruction; and all that touches a page
\* or signals a semaphore, at once or later, does so in the meantime.
InTurn(inst, st) ==
  /\ \A c \in CTAS :
       /\ st.finished[c] \subseteq st.given[c]
       /\ Behind(st, c) => st.finished[c] = LIDS
       /\ ~st.done[c]["loader"] =>
            Awaited(inst[c].lanes, st.passed[c]) \cap st.finished[c] = {}
       /\ \A sem \in DOMAIN st.semaphore[c] : st.semaphore[c][sem].left \in Nat
  /\ \A c \in CTAS, w \in WARPS :
       /\ Inside(inst, st, c, w) =>
            /\ At(inst, st, c, w).pages \cap st.finished[c] = {}
            /\ \A x \in At(inst, st, c, w).holds : Owns(st, c, x.lid)
       /\ CanAdvance(inst, st, c, w) => StepInTurn(inst, st, c, w)
  /\ \A x \in st.loading :
       /\ \A r \in x.places : Owns(st, x.cta, r[1])
       /\ ~Behind(st, x.signal.cta)
  /\ \A x \in Multiplying(st) :
       /\ \A c \in x.ctas, r \in x.reads : Owns(st, c, r.lid)
       /\ \A g \in x.signals : ~Behind(st, g.cta)

\* What a warp, or a multiplication in flight, reads in a page is what the
\* instruction put there.
ReadsIntact(inst, st) ==
  /\ \A c \in CTAS, w \in WARPS : Inside(inst, st, c, w) =>
       \A x \in At(inst, st, c, w).holds :
         [cta |-> c, lid |-> x.lid, part |-> x.part, tag |-> x.tag] \in st.contents
  /\ \A x \in Multiplying(st) : \A c \in x.ctas, r \in x.reads :
       [cta |-> c, lid |-> r.lid, part |-> r.part, tag |-> r.tag] \in st.contents

\* The controllers of a cluster hand the pages on in one order.
PassesPagesOn(inst) ==
  /\ \A c, d \in CTAS : inst[c].release = inst[d].release
  /\ \A c \in CTAS : /\ inst[c].release \in [LIDS -> LIDS]
                     /\ {inst[c].release[lid] : lid \in LIDS} = LIDS

\* A set of states the instruction does not leave, all of them as required.
Closed(inst, states) ==
  /\ Start(inst) \in states
  /\ \A st \in states :
       /\ InTurn(inst, st) /\ ReadsIntact(inst, st)
       /\ \A t : Goes(inst, st, t) => t \in states

Sound(inst) == PassesPagesOn(inst) /\ \E states : Closed(inst, states)
====
