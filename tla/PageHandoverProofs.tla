------------------------- MODULE PageHandoverProofs -------------------------
(***************************************************************************)
(* Theorems about PageHandover, for programs of any length, in a cluster   *)
(* of one or two CTAs, provided that every instruction of them is sound by *)
(* itself: that is the hypothesis SoundPrograms of every theorem.  A sound *)
(* instruction has a set of states it does not leave (Closed in            *)
(* OpProtocol), in all of which it uses pages between page_wait and        *)
(* page_finish and reads what it put there.  Such a set is what TLC        *)
(* enumerates for an instruction of InstructionAlone.                      *)
(*                                                                         *)
(* The inductive invariant IInv says that the instructions of a program do *)
(* run as if each were alone.  There are L, P and K such that L[n] is a    *)
(* state of instruction n by itself, from its own set; P[n] is its page    *)
(* order; K[i] tells which of its instruction's multiplications is the     *)
(* i-th in flight; and the state of the cluster is what they make of it.   *)
(* The phase of a page's mbarrier says whose turn it is (Handed), so of    *)
(* two instructions at most one owns a page, and what one of them keeps in *)
(* a page it owns nobody else touches (Kept).                              *)
(***************************************************************************)
EXTENDS PageHandover, MatmulProofs, FiniteSetTheorems

\* Every instruction of every program is sound.
SoundPrograms ==
  \A i \in DOMAIN PROGRAMS : \A k \in DOMAIN PROGRAMS[i] : Sound(PROGRAMS[i][k])

---------------------------------------------------------------------------
(* One instruction: the form of its states.                                *)

LoadShaped(y) ==
  /\ y = [cta |-> y.cta, tag |-> y.tag, places |-> y.places, signal |-> y.signal]
  /\ y.cta \in CTAS /\ y.signal.cta \in CTAS /\ y.places \subseteq LIDS \X PARTS

FactShaped(x, f) ==
  f.cta \in CTAS /\ f.part \in PARTS /\ f.lid \in x.given[f.cta]

MmaShaped(y) == y.ctas \subseteq CTAS /\ \A g \in y.signals : g.cta \in CTAS

FIELDS ==
  {"at", "done", "passed", "semaphore", "given", "finished", "contents",
   "tensor", "tensorFinished", "loading", "mmas", "multiplied"}
Fields(x) == x = [field \in FIELDS |-> x[field]]

ProgressShaped(x) ==
  /\ x.at \in [CTAS -> [WARPS -> Nat]]
  /\ x.done \in [CTAS -> [WARPS -> BOOLEAN]]
  /\ x.passed \in [CTAS -> SUBSET LIDS]
  /\ x.semaphore = [c \in CTAS |-> x.semaphore[c]]
  /\ x.given \in [CTAS -> SUBSET LIDS]
  /\ x.finished \in [CTAS -> SUBSET LIDS]

QueueShaped(x) ==
  /\ IsSequence(x.mmas) /\ \A i \in DOMAIN x.mmas : MmaShaped(x.mmas[i])
  /\ x.multiplied \in 0 .. Len(x.mmas)

Shaped(x) ==
  /\ Fields(x) /\ ProgressShaped(x) /\ QueueShaped(x)
  /\ \A f \in x.contents : FactShaped(x, f)
  /\ \A y \in x.loading : LoadShaped(y)

---------------------------------------------------------------------------
\* A sequence, of whatever elements, has a length.
LEMMA SequenceLength ==
  ASSUME NEW q, IsSequence(q)
  PROVE  Len(q) \in Nat /\ DOMAIN q = 1 .. Len(q)
BY DEF IsSequence

\* What a concatenation of two sequences consists of.
LEMMA ConcatenationShaped ==
  ASSUME NEW q, NEW r, IsSequence(q), IsSequence(r)
  PROVE  /\ IsSequence(q \o r) /\ Len(q \o r) = Len(q) + Len(r)
         /\ \A i \in 1 .. Len(q) : (q \o r)[i] = q[i]
         /\ \A i \in 1 .. Len(r) : (q \o r)[Len(q) + i] = r[i]
<1> DEFINE Q == {q[i] : i \in DOMAIN q} R == {r[i] : i \in DOMAIN r}
<1>1. q \in Seq(Q \cup R) /\ r \in Seq(Q \cup R)
  <2>1. q \in Seq(Q) /\ r \in Seq(R)
    BY DEF IsSequence
  <2>2. \A S, T : S \subseteq T => Seq(S) \subseteq Seq(T)
    OBVIOUS
  <2> QED BY <2>1, <2>2
<1>2. /\ Len(q) \in Nat /\ Len(r) \in Nat
      /\ Len(q \o r) = Len(q) + Len(r) /\ q \o r \in Seq(Q \cup R)
      /\ \A i \in 1 .. Len(q) : (q \o r)[i] = q[i]
      /\ \A i \in 1 .. Len(r) : (q \o r)[Len(q) + i] = r[i]
  <2> HIDE DEF Q, R
  <2> QED BY <1>1
<1>3. IsSequence(q \o r)
  <2> DEFINE z == q \o r
  <2>1. z \in Seq(Q \cup R) BY <1>2
  <2> HIDE DEF z, Q, R
  <2>2. z \in [1 .. Len(z) -> {z[i] : i \in DOMAIN z}] /\ Len(z) \in Nat
    BY <2>1
  <2>3. z \in Seq({z[i] : i \in DOMAIN z})
    BY <2>2
  <2> QED BY <2>3 DEF z, IsSequence
<1> QED BY <1>2, <1>3

\* A function on 1 .. n is a sequence of length n.
LEMMA TabulationShaped ==
  ASSUME NEW n \in Nat, NEW z, z = [i \in 1 .. n |-> z[i]]
  PROVE  IsSequence(z) /\ Len(z) = n
<1>1. z \in [1 .. n -> {z[j] : j \in DOMAIN z}]
  <2>1. DOMAIN z = 1 .. n OBVIOUS
  <2> QED BY <2>1
<1> QED BY <1>1 DEF IsSequence

---------------------------------------------------------------------------
(* One instruction: every state it gets to has that form.                  *)

\* An instruction starts in a state of that form.
LEMMA StartShaped ==
  ASSUME NEW inst
  PROVE  Shaped(Start(inst))
<1> DEFINE x == Start(inst)
<1>1. Fields(x) BY DEF Start, Fields, FIELDS
<1>2. ProgressShaped(x) BY DEF Start, ProgressShaped
<1>3. QueueShaped(x)
  <2>1. x.mmas = << >> /\ x.multiplied = 0 BY DEF Start
  <2>2. IsSequence(<< >>) BY DEF IsSequence
  <2> QED BY <2>1, <2>2 DEF QueueShaped
<1>4. x.contents = {} /\ x.loading = {} BY DEF Start
<1> QED BY <1>1, <1>2, <1>3, <1>4 DEF Shaped

\* The next step of a warp inside an instruction is one of its script.
LEMMA StepForm ==
  ASSUME NEW inst, WellFormed(inst), NEW st, NEW c \in CTAS, NEW w \in WARPS,
         Shaped(st), Inside(inst, st, c, w)
  PROVE  /\ WellFormedStep(At(inst, st, c, w))
         /\ Len(inst[c].script[w]) \in Nat
<1>1. st.at[c][w] \in Nat BY DEF Shaped, ProgressShaped
<1>2. IsSequence(inst[c].script[w]) BY DEF WellFormed
<1>3. Len(inst[c].script[w]) \in Nat /\ DOMAIN inst[c].script[w] = 1 .. Len(inst[c].script[w])
  BY <1>2, SequenceLength
<1>4. st.at[c][w] + 1 \in DOMAIN inst[c].script[w]
  BY <1>1, <1>3 DEF Inside
<1> QED BY <1>3, <1>4 DEF WellFormed, At

\* The loads a step starts are loads by its own CTA.
LEMMA LoadsShaped ==
  ASSUME NEW s, WellFormedStep(s), NEW c \in CTAS, NEW y \in LoadsOf(c, s)
  PROVE  LoadShaped(y) /\ y.cta = c
         /\ \E x \in s.loads : y.tag = x.tag /\ y.places = x.regions
<1>1. PICK x \in s.loads :
        y = [cta |-> c, tag |-> x.tag, places |-> x.regions,
             signal |-> [cta |-> x.cta, sem |-> x.sem, arrivals |-> 0,
                         bytes |-> -x.bytes]]
  BY DEF LoadsOf
<1>2. x.cta \in CTAS /\ x.regions \subseteq LIDS \X PARTS BY DEF WellFormedStep
<1> QED BY <1>1, <1>2 DEF LoadShaped

\* The multiplications a step starts, in the order of the script.
LEMMA MmasShaped ==
  ASSUME NEW s, WellFormedStep(s)
  PROVE  /\ IsSequence(MmasOf(s)) /\ Len(MmasOf(s)) = Len(s.mmas)
         /\ \A i \in 1 .. Len(s.mmas) : MmaShaped(MmasOf(s)[i])
<1> DEFINE z == MmasOf(s)
<1>1. IsSequence(s.mmas) BY DEF WellFormedStep
<1>2. Len(s.mmas) \in Nat /\ DOMAIN s.mmas = 1 .. Len(s.mmas) BY <1>1, SequenceLength
<1>3. z = [i \in 1 .. Len(s.mmas) |-> z[i]] BY <1>2 DEF MmasOf
<1>4. IsSequence(z) /\ Len(z) = Len(s.mmas)
  <2> HIDE DEF z
  <2> QED BY <1>2, <1>3, TabulationShaped
<1>5. ASSUME NEW i \in 1 .. Len(s.mmas) PROVE MmaShaped(z[i])
  <2>1. z[i].ctas = s.mmas[i].ctas
        /\ z[i].signals = {[cta |-> d, sem |-> sem, arrivals |-> 1, bytes |-> 0] :
                             d \in s.mmas[i].ctas, sem \in s.mmas[i].commits}
    BY <1>2 DEF MmasOf
  <2>2. s.mmas[i].ctas \subseteq CTAS BY <1>2 DEF WellFormedStep
  <2>3. \A g \in z[i].signals : g.cta \in CTAS BY <2>1, <2>2
  <2> QED BY <2>1, <2>2, <2>3 DEF MmaShaped
<1> QED BY <1>4, <1>5

\* A step of a warp keeps the form,
LEMMA AdvancedShaped ==
  ASSUME NEW inst, WellFormed(inst), NEW st, Shaped(st), InTurn(inst, st),
         NEW c \in CTAS, NEW w \in WARPS, CanAdvance(inst, st, c, w)
  PROVE  Shaped(Advanced(inst, st, c, w))
<1> DEFINE t == Advanced(inst, st, c, w)
           s == At(inst, st, c, w)
<1>1. WellFormedStep(s) /\ Inside(inst, st, c, w)
  BY StepForm DEF CanAdvance
<1>2. StepInTurn(inst, st, c, w) BY DEF InTurn
<1>3. Fields(t) BY DEF Fields, FIELDS, Advanced
<1>4. ProgressShaped(t)
  <2>1. ProgressShaped(st) BY DEF Shaped
  <2>2. t.at = [st.at EXCEPT ![c][w] = IF IsLast(inst, st, c, w) THEN 0 ELSE @ + 1]
        /\ t.done = [st.done EXCEPT ![c][w] = IsLast(inst, st, c, w)]
        /\ t.passed = st.passed
    BY DEF Advanced
  <2>3. t.semaphore = SignalAll(inst, st, s.signals)
        /\ t.given = [st.given EXCEPT ![c] = @ \cup s.pages]
        /\ t.finished = [st.finished EXCEPT ![c] = @ \cup s.finishes]
    BY DEF Advanced
  <2>4. IsLast(inst, st, c, w) \in BOOLEAN BY DEF IsLast
  <2>5. t.at \in [CTAS -> [WARPS -> Nat]] BY <2>1, <2>2 DEF ProgressShaped
  <2>6. t.done \in [CTAS -> [WARPS -> BOOLEAN]]
    <3> DEFINE last == IsLast(inst, st, c, w)
    <3>1. t.done = [st.done EXCEPT ![c] = [st.done[c] EXCEPT ![w] = last]] BY <2>2
    <3>2. last \in BOOLEAN BY <2>4
    <3> HIDE DEF last, t
    <3>3. [st.done[c] EXCEPT ![w] = last] \in [WARPS -> BOOLEAN]
      BY <2>1, <3>2, Zenon DEF ProgressShaped
    <3> QED BY <2>1, <3>1, <3>3, Zenon DEF ProgressShaped
  <2>7. s.pages \subseteq LIDS BY <1>1 DEF WellFormedStep
  <2>8. s.finishes \subseteq LIDS
    <3>1. st.given[c] \subseteq LIDS BY <2>1 DEF ProgressShaped
    <3> QED BY <1>2, <2>7, <3>1 DEF StepInTurn
  <2>9. t.given \in [CTAS -> SUBSET LIDS] /\ t.finished \in [CTAS -> SUBSET LIDS]
    BY <2>1, <2>3, <2>7, <2>8 DEF ProgressShaped
  <2>10. t.semaphore = [d \in CTAS |-> t.semaphore[d]]
    BY <2>3 DEF SignalAll
  <2> QED BY <2>1, <2>2, <2>5, <2>6, <2>9, <2>10 DEF ProgressShaped
<1>5. QueueShaped(t)
  <2> DEFINE new == MmasOf(s)
  <2>1. t.mmas = st.mmas \o new /\ t.multiplied = st.multiplied BY DEF Advanced
  <2>2. QueueShaped(st) BY DEF Shaped
  <2>3. /\ IsSequence(new) /\ IsSequence(st.mmas)
        /\ \A i \in 1 .. Len(new) : MmaShaped(new[i])
        /\ \A i \in 1 .. Len(st.mmas) : MmaShaped(st.mmas[i])
        /\ st.multiplied \in 0 .. Len(st.mmas)
    <3>1. IsSequence(st.mmas) /\ DOMAIN st.mmas = 1 .. Len(st.mmas)
      BY <2>2, SequenceLength DEF QueueShaped
    <3> QED BY <1>1, <2>2, <3>1, MmasShaped DEF QueueShaped
  <2> HIDE DEF new
  <2> DEFINE q == st.mmas
  <2>4. Len(q) \in Nat /\ Len(new) \in Nat BY <2>3, SequenceLength
  <2>5. /\ IsSequence(q \o new) /\ Len(q \o new) = Len(q) + Len(new)
        /\ \A i \in 1 .. Len(q) : (q \o new)[i] = q[i]
        /\ \A i \in 1 .. Len(new) : (q \o new)[Len(q) + i] = new[i]
    BY <2>3, ConcatenationShaped
  <2>6. DOMAIN (q \o new) = 1 .. Len(q) + Len(new) BY <2>5, SequenceLength
  <2>7. ASSUME NEW i \in 1 .. Len(q) + Len(new) PROVE MmaShaped((q \o new)[i])
    <3>1. CASE i <= Len(q)
      <4>1. i \in 1 .. Len(q) BY <2>4, <3>1
      <4> QED BY <2>3, <2>5, <4>1
    <3>2. CASE i > Len(q)
      <4> DEFINE j == i - Len(q)
      <4>1. j \in 1 .. Len(new) /\ i = Len(q) + j BY <2>4, <3>2
      <4> HIDE DEF j
      <4> QED BY <2>3, <2>5, <4>1
    <3> QED BY <2>4, <3>1, <3>2
  <2>8. st.multiplied \in 0 .. Len(q \o new) BY <2>3, <2>4, <2>5
  <2> HIDE DEF t
  <2> QED BY <2>1, <2>5, <2>6, <2>7, <2>8 DEF QueueShaped
<1>6. ASSUME NEW f \in t.contents PROVE FactShaped(t, f)
  <2>1. t.contents = Written(st.contents, c, s)
        /\ t.given = [st.given EXCEPT ![c] = @ \cup s.pages]
    BY DEF Advanced
  <2>2. st.given \in [CTAS -> SUBSET LIDS] BY DEF Shaped, ProgressShaped
  <2>3. \A d \in CTAS : st.given[d] \subseteq t.given[d]
    BY <2>1, <2>2
  <2>4. CASE f \in st.contents
    BY <2>3, <2>4 DEF Shaped, FactShaped
  <2>5. CASE f \notin st.contents
    <3>1. PICK x \in s.puts : f = [cta |-> c, lid |-> x.lid, part |-> x.part, tag |-> x.tag]
      BY <2>1, <2>5 DEF Written
    <3>2. <<x.lid, x.part>> \in PutBy(s) BY DEF PutBy
    <3>3. x.lid \in st.given[c] \cup s.pages BY <1>2, <3>2 DEF StepInTurn
    <3>4. x.part \in PARTS BY <1>1 DEF WellFormedStep
    <3>5. t.given[c] = st.given[c] \cup s.pages BY <2>1, <2>2
    <3> HIDE DEF t
    <3> QED BY <3>1, <3>3, <3>4, <3>5 DEF FactShaped
  <2> QED BY <2>4, <2>5
<1>7. ASSUME NEW y \in t.loading PROVE LoadShaped(y)
  <2>1. t.loading = st.loading \cup LoadsOf(c, s) BY DEF Advanced
  <2> QED BY <1>1, <2>1, LoadsShaped DEF Shaped
<1> QED BY <1>3, <1>4, <1>5, <1>6, <1>7 DEF Shaped

\* so does a lane that passes a page on,
LEMMA PassedOnShaped ==
  ASSUME NEW inst, NEW st, Shaped(st), NEW c \in CTAS, NEW lid \in LIDS
  PROVE  Shaped(PassedOn(st, c, lid))
<1> DEFINE t == PassedOn(st, c, lid)
<1>1. Fields(st) /\ ProgressShaped(st) BY DEF Shaped
<1>2. /\ Fields(t)
      /\ t.passed = [st.passed EXCEPT ![c] = @ \cup {lid}]
      /\ t.given = [st.given EXCEPT ![c] = @ \cup {lid}]
      /\ t.finished = [st.finished EXCEPT ![c] = @ \cup {lid}]
      /\ t.at = st.at /\ t.done = st.done /\ t.semaphore = st.semaphore
      /\ t.contents = st.contents /\ t.loading = st.loading
      /\ t.mmas = st.mmas /\ t.multiplied = st.multiplied
  BY <1>1 DEF Fields, FIELDS, PassedOn
<1> HIDE DEF t
<1>3. ProgressShaped(t) BY <1>1, <1>2 DEF ProgressShaped
<1>4. QueueShaped(t) BY <1>2 DEF Shaped, QueueShaped
<1>5. \A d \in CTAS : st.given[d] \subseteq t.given[d]
  BY <1>1, <1>2 DEF ProgressShaped
<1>6. \A f \in t.contents : FactShaped(t, f)
  BY <1>2, <1>5 DEF Shaped, FactShaped
<1>7. \A y \in t.loading : LoadShaped(y) BY <1>2 DEF Shaped
<1>8. Shaped(t) BY <1>2, <1>3, <1>4, <1>6, <1>7 DEF Shaped
<1> QED BY <1>8 DEF t

\* a warp that is done,
LEMMA RetiredShaped ==
  ASSUME NEW inst, NEW st, Shaped(st), NEW c \in CTAS, NEW w \in WARPS
  PROVE  Shaped(Retired(st, c, w))
<1> DEFINE t == Retired(st, c, w)
<1>1. Fields(st) /\ ProgressShaped(st) BY DEF Shaped
<1>2. /\ Fields(t)
      /\ t.passed = [st.passed EXCEPT ![c] = IF w = "loader" THEN {} ELSE @]
      /\ t.at = [st.at EXCEPT ![c][w] = 0] /\ t.done = [st.done EXCEPT ![c][w] = TRUE]
      /\ t.given = st.given /\ t.finished = st.finished /\ t.semaphore = st.semaphore
      /\ t.contents = st.contents /\ t.loading = st.loading
      /\ t.mmas = st.mmas /\ t.multiplied = st.multiplied
  BY <1>1 DEF Fields, FIELDS, Retired
<1> HIDE DEF t
<1>3. ProgressShaped(t)
  <2>1. t.done \in [CTAS -> [WARPS -> BOOLEAN]]
    <3>1. t.done = [st.done EXCEPT ![c] = [st.done[c] EXCEPT ![w] = TRUE]] BY <1>2
    <3>2. [st.done[c] EXCEPT ![w] = TRUE] \in [WARPS -> BOOLEAN]
      BY <1>1, Zenon DEF ProgressShaped
    <3> QED BY <1>1, <3>1, <3>2, Zenon DEF ProgressShaped
  <2>2. t.at \in [CTAS -> [WARPS -> Nat]] BY <1>1, <1>2 DEF ProgressShaped
  <2>3. t.passed \in [CTAS -> SUBSET LIDS] BY <1>1, <1>2 DEF ProgressShaped
  <2> QED BY <1>1, <1>2, <2>1, <2>2, <2>3 DEF ProgressShaped
<1>4. QueueShaped(t) BY <1>2 DEF Shaped, QueueShaped
<1>5. \A f \in t.contents : FactShaped(t, f) BY <1>2 DEF Shaped, FactShaped
<1>6. \A y \in t.loading : LoadShaped(y) BY <1>2 DEF Shaped
<1>7. Shaped(t) BY <1>2, <1>3, <1>4, <1>5, <1>6 DEF Shaped
<1> QED BY <1>7 DEF t

\* a load that arrives,
LEMMA DeliveredShaped ==
  ASSUME NEW inst, NEW st, Shaped(st), InTurn(inst, st), NEW x \in st.loading
  PROVE  Shaped(Delivered(inst, st, x))
<1> DEFINE t == Delivered(inst, st, x)
<1>1. Fields(st) /\ ProgressShaped(st) BY DEF Shaped
<1>2. /\ Fields(t)
      /\ t.semaphore = SignalAll(inst, st, {x.signal})
      /\ t.contents =
           {f \in st.contents : f.cta = x.cta => <<f.lid, f.part>> \notin x.places}
           \cup {[cta |-> x.cta, lid |-> r[1], part |-> r[2], tag |-> x.tag] :
                   r \in x.places}
      /\ t.loading = st.loading \ {x}
      /\ t.passed = st.passed /\ t.at = st.at /\ t.done = st.done
      /\ t.given = st.given /\ t.finished = st.finished
      /\ t.mmas = st.mmas /\ t.multiplied = st.multiplied
  BY <1>1 DEF Fields, FIELDS, Delivered
<1> HIDE DEF t
<1>3. ProgressShaped(t)
  <2>1. t.semaphore = [d \in CTAS |-> t.semaphore[d]] BY <1>2 DEF SignalAll
  <2> QED BY <1>1, <1>2, <2>1 DEF ProgressShaped
<1>4. QueueShaped(t) BY <1>2 DEF Shaped, QueueShaped
<1>5. ASSUME NEW f \in t.contents PROVE FactShaped(t, f)
  <2>1. CASE f \in st.contents BY <1>2, <2>1 DEF Shaped, FactShaped
  <2>2. CASE f \notin st.contents
    <3>1. PICK r \in x.places :
            f = [cta |-> x.cta, lid |-> r[1], part |-> r[2], tag |-> x.tag]
      BY <1>2, <2>2
    <3>2. LoadShaped(x) BY DEF Shaped
    <3>3. r[2] \in PARTS /\ x.cta \in CTAS BY <3>2 DEF LoadShaped
    <3>4. r[1] \in st.given[x.cta] BY DEF InTurn, Owns
    <3> QED BY <1>2, <3>1, <3>3, <3>4 DEF FactShaped
  <2> QED BY <2>1, <2>2
<1>6. \A y \in t.loading : LoadShaped(y) BY <1>2 DEF Shaped
<1>7. Shaped(t) BY <1>2, <1>3, <1>4, <1>5, <1>6 DEF Shaped
<1> QED BY <1>7 DEF t

\* and a multiplication that completes.
LEMMA MultipliedShaped ==
  ASSUME NEW inst, NEW st, Shaped(st), CanMultiply(st)
  PROVE  Shaped(MultipliedOnce(inst, st))
<1> DEFINE t == MultipliedOnce(inst, st)
           x == st.mmas[st.multiplied + 1]
<1>1. Fields(st) /\ ProgressShaped(st) /\ QueueShaped(st) BY DEF Shaped
<1>2. /\ Fields(t)
      /\ t.semaphore = SignalAll(inst, st, x.signals)
      /\ t.multiplied = st.multiplied + 1
      /\ t.contents = st.contents /\ t.loading = st.loading
      /\ t.passed = st.passed /\ t.at = st.at /\ t.done = st.done
      /\ t.given = st.given /\ t.finished = st.finished /\ t.mmas = st.mmas
  BY <1>1 DEF Fields, FIELDS, MultipliedOnce
<1> HIDE DEF t
<1>3. ProgressShaped(t)
  <2>1. t.semaphore = [d \in CTAS |-> t.semaphore[d]] BY <1>2 DEF SignalAll
  <2> QED BY <1>1, <1>2, <2>1 DEF ProgressShaped
<1>4. QueueShaped(t)
  <2>1. Len(st.mmas) \in Nat BY <1>1, SequenceLength DEF QueueShaped
  <2>2. st.multiplied + 1 \in 0 .. Len(st.mmas)
    BY <1>1, <2>1 DEF QueueShaped, CanMultiply
  <2> QED BY <1>1, <1>2, <2>2 DEF QueueShaped
<1>5. \A f \in t.contents : FactShaped(t, f) BY <1>2 DEF Shaped, FactShaped
<1>6. \A y \in t.loading : LoadShaped(y) BY <1>2 DEF Shaped
<1>7. Shaped(t) BY <1>2, <1>3, <1>4, <1>5, <1>6 DEF Shaped
<1> QED BY <1>7 DEF t

Allowed(inst) == CHOOSE states : Closed(inst, states)

Ins(n) == Instructions[n + 1]
Numbers == 0 .. Len(Instructions) - 1

\* A sound instruction has such a set; Allowed is one.
LEMMA AllowedClosed ==
  ASSUME NEW inst, Sound(inst)
  PROVE  Closed(inst, Allowed(inst))
BY DEF Sound, Allowed

\* In the states of that set the instruction is as it is required to be,
LEMMA AllowedInTurn ==
  ASSUME NEW inst, Sound(inst), NEW st \in Allowed(inst)
  PROVE  InTurn(inst, st) /\ ReadsIntact(inst, st)
BY AllowedClosed DEF Closed

\* and a step of it, with or without the others, leads to another of them.
LEMMA AllowedStep ==
  ASSUME NEW inst, Sound(inst), WellFormed(inst),
         NEW st \in Allowed(inst), Shaped(st), NEW t, Goes(inst, st, t)
  PROVE  /\ t \in Allowed(inst) /\ Shaped(t)
         /\ InTurn(inst, t) /\ ReadsIntact(inst, t)
<1>1. t \in Allowed(inst) BY AllowedClosed DEF Closed
<1>2. InTurn(inst, st) BY AllowedInTurn
<1>3. Shaped(t)
  <2>1. CASE \E c \in CTAS, w \in WARPS :
               CanAdvance(inst, st, c, w) /\ t = Advanced(inst, st, c, w)
    BY <1>2, <2>1, AdvancedShaped
  <2>2. CASE \E c \in CTAS, w \in WARPS :
               CanRetire(inst, st, c, w) /\ t = Retired(st, c, w)
    BY <2>2, RetiredShaped
  <2>3. CASE \E c \in CTAS, lid \in LIDS :
               CanPassOn(inst, st, c, lid) /\ t = PassedOn(st, c, lid)
    BY <2>3, PassedOnShaped
  <2>4. CASE \E x \in st.loading : t = Delivered(inst, st, x)
    BY <1>2, <2>4, DeliveredShaped
  <2>5. CASE CanMultiply(st) /\ t = MultipliedOnce(inst, st)
    BY <2>5, MultipliedShaped
  <2> QED BY <2>1, <2>2, <2>3, <2>4, <2>5 DEF Goes
<1> QED BY <1>1, <1>3, AllowedInTurn

---------------------------------------------------------------------------
(* The inductive invariant.                                                *)

Counted ==
  /\ program \in DOMAIN PROGRAMS
  /\ issued \in [CTAS -> 0 .. Len(Instructions)]
  /\ retired \in [CTAS -> [WARPS -> 0 .. Len(Instructions)]]
  /\ at \in [CTAS -> [WARPS -> Nat]]
  /\ passed \in [CTAS -> SUBSET LIDS]
  /\ pageFinished \in [CTAS -> [LIDS -> Nat \ {0}]]
  /\ tensorFinished \in [CTAS -> Nat \ {0}]

\* No warp is ahead of a controller, no controller LEAD ahead of a warp.
Windowed ==
  \A c, d \in CTAS, w \in WARPS :
    retired[c][w] <= issued[d] /\ issued[c] <= retired[c][w] + LEAD

SLOTS == 0 .. LEAD - 1

RingShaped ==
  /\ order \in [CTAS -> [SLOTS -> [LIDS -> LIDS]]]
  /\ \A c \in CTAS : \A s \in SLOTS : {order[c][s][lid] : lid \in LIDS} = LIDS
  /\ semaphore = [c \in CTAS |-> [s \in SLOTS |-> semaphore[c][s]]]
  /\ \A c \in CTAS : \A s \in SLOTS : \A sem \in DOMAIN semaphore[c][s] :
       semaphore[c][s][sem].left \in Nat

PageShaped ==
  /\ page = [c \in CTAS |-> [p \in LIDS |-> [h \in PARTS |-> page[c][p][h]]]]
  /\ \A c \in CTAS : \A p \in LIDS : \A h \in PARTS :
       page[c][p][h][1] \in -1 .. Len(Instructions) - 1

\* L[n] is the state of instruction n by itself.
Local(L) == \A n \in Numbers : L[n] \in Allowed(Ins(n)) /\ Shaped(L[n])

Tracks(x, n) ==
  /\ \A c \in CTAS, w \in WARPS :
       /\ x.done[c][w] <=> retired[c][w] > n
       /\ x.at[c][w] = IF retired[c][w] = n THEN at[c][w] ELSE 0
  /\ \A c \in CTAS :
       x.passed[c] = IF retired[c]["loader"] = n THEN passed[c] ELSE {}

\* CTA c has instruction n in its ring.
InRing(c, n) == issued[c] \in n + 1 .. n + LEAD

Signals(x, n) ==
  \A c \in CTAS : InRing(c, n) => x.semaphore[c] = semaphore[c][Slot(n)]

Aligned(L) ==
  \A n \in Numbers :
    /\ Tracks(L[n], n) /\ Signals(L[n], n)
    /\ (\E c \in CTAS : issued[c] <= n) => L[n] = Start(Ins(n))

\* P[n] is the page order of instruction n, in all CTAs.
Permutation(f) ==
  /\ f \in [LIDS -> LIDS]
  /\ \A p \in LIDS : \E lid \in LIDS : f[lid] = p
  /\ \A lid, lid2 \in LIDS : f[lid] = f[lid2] => lid = lid2

Ordered(P) ==
  /\ \A n \in Nat : Permutation(P[n])
  /\ P[0] = Identity
  /\ \A n \in Nat, c \in CTAS : issued[c] > n + 1 =>
       P[n + 1] = [lid \in LIDS |-> P[n][Ins(n)[c].release[lid]]]
  /\ \A n \in Numbers, c \in CTAS : InRing(c, n) => order[c][Slot(n)] = P[n]

\* A page's phase says which instruction has it.
Handed(P, L) ==
  \A n \in Numbers, c \in CTAS, lid \in LIDS :
    /\ lid \in L[n].finished[c] <=> pageFinished[c][P[n][lid]] >= n + 2
    /\ lid \in L[n].given[c] => pageFinished[c][P[n][lid]] >= n + 1

Kept(P, L) ==
  \A n \in Numbers : \A f \in L[n].contents :
    Owns(L[n], f.cta, f.lid) =>
      page[f.cta][P[n][f.lid]][f.part] = Content(n, f.tag)

LoadOf(P, n, x) ==
  [n |-> n, cta |-> x.cta, tag |-> x.tag, signal |-> x.signal,
   places |-> {<<P[n][r[1]], r[2]>> : r \in x.places}]

Loading(P, L) ==
  /\ \A y \in loading : \E n \in Numbers : \E x \in L[n].loading : y = LoadOf(P, n, x)
  /\ \A n \in Numbers : \A x \in L[n].loading : LoadOf(P, n, x) \in loading

MmaOf(P, n, x) ==
  [n |-> n, tag |-> x.tag, ctas |-> x.ctas, part |-> x.part, signals |-> x.signals,
   reads |-> {[pid |-> P[n][r.lid], part |-> r.part, tag |-> r.tag] : r \in x.reads}]

\* K[i] is the place of the i-th multiplication in its instruction's queue.
QueueOf(q, numbers, P, L, K) ==
  /\ IsSequence(q)
  /\ \A i \in DOMAIN q :
       /\ q[i].n \in numbers
       /\ K[i] \in L[q[i].n].multiplied + 1 .. Len(L[q[i].n].mmas)
       /\ q[i] = MmaOf(P, q[i].n, L[q[i].n].mmas[K[i]])
  /\ \A i, j \in DOMAIN q : i < j /\ q[i].n = q[j].n => K[i] < K[j]
  /\ \A n \in numbers : \A k \in L[n].multiplied + 1 .. Len(L[n].mmas) :
       \E i \in DOMAIN q : q[i].n = n /\ K[i] = k

Queued(P, L, K) == QueueOf(mmas, Numbers, P, L, K)

HInv(P, L, K) ==
  /\ Counted /\ Windowed /\ RingShaped /\ PageShaped
  /\ Local(L) /\ Aligned(L) /\ Ordered(P) /\ Handed(P, L) /\ Kept(P, L)
  /\ Loading(P, L) /\ Queued(P, L, K)

IInv == \E P, L, K : HInv(P, L, K)

---------------------------------------------------------------------------
\* The instructions of a program are finitely many, sound and well formed.
LEMMA InstructionFacts ==
  ASSUME SoundPrograms, program \in DOMAIN PROGRAMS
  PROVE  /\ Len(Instructions) \in Nat /\ DOMAIN Instructions = 1 .. Len(Instructions)
         /\ \A n \in Numbers : Sound(Ins(n)) /\ WellFormed(Ins(n))
<1>1. IsSequence(Instructions) BY HandoverAssumption DEF Instructions
<1>2. Len(Instructions) \in Nat /\ DOMAIN Instructions = 1 .. Len(Instructions)
  BY <1>1, SequenceLength
<1>3. ASSUME NEW n \in Numbers PROVE Sound(Ins(n)) /\ WellFormed(Ins(n))
  <2>1. n + 1 \in DOMAIN Instructions BY <1>2 DEF Numbers
  <2> QED BY <2>1, HandoverAssumption DEF SoundPrograms, Ins, Instructions
<1> QED BY <1>2, <1>3

\* Of the LEAD instructions in a ring, no two have the same slot.
LEMMA LeadFacts ==
  /\ LEAD \in Nat /\ LEAD >= 1 /\ LEAD <= 2
  /\ \A n \in Nat : Slot(n) \in SLOTS
  /\ \A n, m, i \in Nat :
       i \in n + 1 .. n + LEAD /\ i \in m + 1 .. m + LEAD /\ Slot(n) = Slot(m) => n = m
BY HandoverAssumption DEF Slot, SLOTS

\* The program does not change, nor what is derived from it.
LEMMA SameProgram ==
  ASSUME program' = program
  PROVE  Instructions' = Instructions /\ Numbers' = Numbers /\ \A n : Ins(n)' = Ins(n)
BY DEF Instructions, Numbers, Ins

Put(L, n, t) == [m \in Nat |-> IF m = n THEN t ELSE L[m]]

\* Only instruction n takes another state.
LEMMA PutFacts ==
  ASSUME SoundPrograms, program \in DOMAIN PROGRAMS, NEW L, NEW n \in Numbers, NEW t
  PROVE  /\ Put(L, n, t)[n] = t
         /\ \A m \in Numbers : m # n => Put(L, n, t)[m] = L[m]
         /\ \A m \in Numbers : m \in Nat
BY InstructionFacts DEF Put, Numbers

\* A CTA that is not behind an instruction all have been given has it in its ring.
LEMMA NotBehind ==
  ASSUME SoundPrograms, Counted, Windowed, NEW L, Aligned(L), NEW n \in Numbers,
         NEW d \in CTAS, issued[d] > n, ~Behind(L[n], d)
  PROVE  InRing(d, n)
<1>1. PICK w \in WARPS : ~L[n].done[d][w] BY DEF Behind
<1>2. ~(retired[d][w] > n) BY <1>1 DEF Aligned, Tracks
<1>3. issued[d] <= retired[d][w] + LEAD BY DEF Windowed
<1>4. /\ Len(Instructions) \in Nat /\ issued[d] \in 0 .. Len(Instructions)
      /\ retired[d][w] \in 0 .. Len(Instructions)
  BY InstructionFacts DEF Counted
<1>5. n \in Nat BY <1>4 DEF Numbers
<1> QED BY <1>2, <1>3, <1>4, <1>5, LeadFacts DEF InRing

\* Instruction n signals CTAs that are not behind it.
Signalling(L, n, t, signals) ==
  /\ \A g \in signals : g.cta \in CTAS /\ ~Behind(L[n], g.cta)
  /\ t.semaphore = SignalAll(Ins(n), L[n], signals)

\* Signals for an instruction that is in the ring of the CTAs they go to reach
\* its own semaphores there, and no others.
LEMMA SignalsKept ==
  ASSUME SoundPrograms, Counted, Windowed, RingShaped, NEW L, Aligned(L),
         NEW n \in Numbers, \A d \in CTAS : issued[d] > n,
         program' = program, issued' = issued, order' = order,
         NEW signals, semaphore' = AfterSignalling(n, signals),
         NEW t, InTurn(Ins(n), t), Signalling(L, n, t, signals)
  PROVE  /\ RingShaped'
         /\ \A m \in Numbers : Signals(Put(L, n, t)[m], m)'
<1> DEFINE sent == Signalled(signals)
<1>1. /\ Len(Instructions) \in Nat /\ n \in Nat
      /\ \A m \in Numbers : m \in Nat
      /\ \A d \in CTAS : issued[d] \in Nat
  BY InstructionFacts DEF Counted, Numbers
<1>2. ASSUME NEW d \in CTAS, d \in sent PROVE InRing(d, n)
  <2>1. ~Behind(L[n], d) BY <1>2 DEF Signalled, Signalling
  <2> QED BY <2>1, NotBehind
<1>3. /\ \A m \in Nat : Slot(m) \in SLOTS
      /\ \A m \in Nat, d \in CTAS : InRing(d, n) /\ InRing(d, m) /\ Slot(n) = Slot(m) => n = m
  BY <1>1, LeadFacts DEF InRing
<1>4. ASSUME NEW d \in CTAS
      PROVE  semaphore'[d] = IF d \in sent
               THEN [semaphore[d] EXCEPT ![Slot(n)] =
                       Signal(@, Ins(n)[d].semaphores, d, signals)]
               ELSE semaphore[d]
  BY DEF AfterSignalling, Instruction, Ins
<1>5. ASSUME NEW d \in CTAS
      PROVE  t.semaphore[d] = IF d \in sent
               THEN Signal(L[n].semaphore[d], Ins(n)[d].semaphores, d, signals)
               ELSE L[n].semaphore[d]
  BY DEF SignalAll, Signalling
<1>6. \A d \in CTAS : InRing(d, n) => L[n].semaphore[d] = semaphore[d][Slot(n)]
  BY DEF Aligned, Signals
<1>7. \A d \in CTAS : semaphore[d] = [s \in SLOTS |-> semaphore[d][s]]
  BY DEF RingShaped
<1>8. \A d \in CTAS : InRing(d, n) => t.semaphore[d] = semaphore'[d][Slot(n)]
  <2> SUFFICES ASSUME NEW d \in CTAS, InRing(d, n)
               PROVE  t.semaphore[d] = semaphore'[d][Slot(n)]
    OBVIOUS
  <2>1. Slot(n) \in SLOTS BY <1>1, <1>3
  <2>2. L[n].semaphore[d] = semaphore[d][Slot(n)] BY <1>6
  <2> HIDE DEF sent
  <2>3. CASE d \in sent
    <3>1. semaphore'[d] = [semaphore[d] EXCEPT ![Slot(n)] =
                             Signal(@, Ins(n)[d].semaphores, d, signals)]
      BY <1>4, <2>3
    <3>2. semaphore'[d][Slot(n)]
            = Signal(semaphore[d][Slot(n)], Ins(n)[d].semaphores, d, signals)
      BY <1>7, <2>1, <3>1
    <3> QED BY <1>5, <2>2, <2>3, <3>2
  <2>4. CASE d \notin sent BY <1>4, <1>5, <2>2, <2>4
  <2> QED BY <2>3, <2>4
<1>9. ASSUME NEW d \in CTAS, NEW s \in SLOTS, d \notin sent \/ s # Slot(n)
      PROVE  semaphore'[d][s] = semaphore[d][s]
  <2> HIDE DEF sent
  <2> QED BY <1>4, <1>7, <1>9
<1>10. semaphore' = [d \in CTAS |-> [s \in SLOTS |-> semaphore'[d][s]]]
  <2>1. semaphore' = [d \in CTAS |-> semaphore'[d]] BY DEF AfterSignalling
  <2>2. \A d \in CTAS : semaphore'[d] = [s \in SLOTS |-> semaphore'[d][s]]
    <3> HIDE DEF sent
    <3> QED BY <1>4, <1>7
  <2> QED BY <2>1, <2>2
<1>11. ASSUME NEW d \in CTAS, NEW s \in SLOTS, NEW sem \in DOMAIN semaphore'[d][s]
       PROVE  semaphore'[d][s][sem].left \in Nat
  <2>1. CASE d \in sent /\ s = Slot(n)
    <3>1. t.semaphore[d] = semaphore'[d][s] BY <1>2, <1>8, <2>1
    <3> QED BY <3>1 DEF InTurn
  <2>2. CASE d \notin sent \/ s # Slot(n)
    <3>1. semaphore'[d][s] = semaphore[d][s] BY <1>9, <2>2
    <3> QED BY <3>1 DEF RingShaped
  <2> QED BY <2>1, <2>2
<1>12. RingShaped' BY <1>10, <1>11 DEF RingShaped
<1>13. ASSUME NEW m \in Numbers PROVE Signals(Put(L, n, t)[m], m)'
  <2> DEFINE x == Put(L, n, t)[m]
  <2>0. x = IF m = n THEN t ELSE L[m] BY <1>1 DEF Put
  <2>1. SUFFICES ASSUME NEW d \in CTAS, InRing(d, m)
                 PROVE  x.semaphore[d] = semaphore'[d][Slot(m)]
    BY DEF Signals, InRing
  <2>2. CASE m = n
    <3>1. x = t BY <2>0, <2>2
    <3> QED BY <1>8, <2>1, <2>2, <3>1
  <2>3. CASE m # n
    <3>1. x = L[m] BY <2>0, <2>3
    <3>2. L[m].semaphore[d] = semaphore[d][Slot(m)] BY <2>1 DEF Aligned, Signals
    <3>3. d \in sent => Slot(m) # Slot(n) BY <1>1, <1>2, <1>3, <2>1, <2>3
    <3>4. semaphore'[d][Slot(m)] = semaphore[d][Slot(m)] BY <1>1, <1>3, <1>9, <3>3
    <3> QED BY <3>1, <3>2, <3>4
  <2> QED BY <2>2, <2>3
<1> QED BY <1>12, <1>13

---------------------------------------------------------------------------
\* A step of instruction n in CTA c that finishes pages it has, and may be given
\* more of them.
HandsOver(P, L, n, t, c, lids, more) ==
  /\ lids \subseteq LIDS
  /\ \A lid \in lids : pageFinished[c][P[n][lid]] = n + 1
  /\ \A lid \in more : pageFinished[c][P[n][lid]] >= n + 1
  /\ t.finished = [L[n].finished EXCEPT ![c] = @ \cup lids]
  /\ t.given = [L[n].given EXCEPT ![c] = @ \cup more]

\* When pages that an instruction owns are finished, their phases say that the
\* next instruction has them, and no other page's phase says anything new.
LEMMA HandedKept ==
  ASSUME SoundPrograms, Counted, NEW P, NEW L, Ordered(P), Local(L), Handed(P, L),
         NEW n \in Numbers, NEW c \in CTAS, order[c][Slot(n)] = P[n],
         NEW t, NEW lids, NEW more, HandsOver(P, L, n, t, c, lids, more),
         program' = program,
         pageFinished' = page_finish(c, n, lids)
  PROVE  /\ Handed(P, Put(L, n, t))'
         /\ pageFinished' \in [CTAS -> [LIDS -> Nat \ {0}]]
         /\ \A d \in CTAS, p \in LIDS :
              pageFinished'[d][p] \in {pageFinished[d][p], pageFinished[d][p] + 1}
<1>1. /\ Len(Instructions) \in Nat /\ \A m \in Numbers : m \in Nat
      /\ Numbers' = Numbers
  BY InstructionFacts, SameProgram DEF Counted, Numbers
<1>2. pageFinished \in [CTAS -> [LIDS -> Nat \ {0}]] BY DEF Counted
<1> USE DEF HandsOver
<1> DEFINE pids == {P[n][lid] : lid \in lids}
<1>3. {lid_to_pid(c, n, lid) : lid \in lids} = pids BY DEF lid_to_pid
<1>4. \A d \in CTAS, p \in LIDS :
        pageFinished'[d][p] = IF d = c /\ p \in pids THEN pageFinished[d][p] + 1
                              ELSE pageFinished[d][p]
  <2>1. CASE lids = {} BY <1>3, <2>1 DEF page_finish
  <2>2. CASE lids # {}
    <3>1. pageFinished' = [pageFinished EXCEPT ![c] =
            [p \in LIDS |-> IF p \in pids THEN @[p] + 1 ELSE @[p]]]
      BY <1>3, <2>2 DEF page_finish
    <3> HIDE DEF pids
    <3> QED BY <1>2, <3>1
  <2> QED BY <2>1, <2>2
<1>5. pageFinished' \in [CTAS -> [LIDS -> Nat \ {0}]]
  <2>1. CASE lids = {} BY <1>2, <2>1 DEF page_finish
  <2>2. CASE lids # {}
    <3>1. pageFinished' = [pageFinished EXCEPT ![c] =
            [p \in LIDS |-> IF p \in pids THEN @[p] + 1 ELSE @[p]]]
      BY <1>3, <2>2 DEF page_finish
    <3> HIDE DEF pids
    <3> QED BY <1>2, <3>1
  <2> QED BY <2>1, <2>2
<1>6. \A lid \in LIDS : P[n][lid] \in pids <=> lid \in lids
  <2>1. Permutation(P[n]) BY <1>1 DEF Ordered
  <2> QED BY <2>1 DEF Permutation
<1>7. \A m \in Numbers, lid \in LIDS : P[m][lid] \in LIDS
  <2> HIDE DEF HandsOver
  <2>1. \A m \in Numbers : Permutation(P[m]) BY <1>1 DEF Ordered
  <2> QED BY <2>1 DEF Permutation
<1>8. \A p \in pids : pageFinished[c][p] = n + 1 OBVIOUS
<1>9. /\ L[n].finished \in [CTAS -> SUBSET LIDS] /\ L[n].given \in [CTAS -> SUBSET LIDS]
  BY DEF Local, Shaped, ProgressShaped
<1>10. ASSUME NEW m \in Numbers, NEW d \in CTAS, NEW lid \in LIDS
       PROVE  /\ lid \in Put(L, n, t)[m].finished[d] <=> pageFinished'[d][P[m][lid]] >= m + 2
              /\ lid \in Put(L, n, t)[m].given[d] => pageFinished'[d][P[m][lid]] >= m + 1
  <2> DEFINE p == P[m][lid] x == Put(L, n, t)[m]
  <2>1. /\ lid \in L[m].finished[d] <=> pageFinished[d][p] >= m + 2
        /\ lid \in L[m].given[d] => pageFinished[d][p] >= m + 1
    BY DEF Handed
  <2>2. p \in LIDS /\ pageFinished[d][p] \in Nat BY <1>2, <1>7
  <2>3. pageFinished'[d][p] = IF d = c /\ p \in pids THEN pageFinished[d][p] + 1
                              ELSE pageFinished[d][p]
    BY <1>4, <2>2
  <2>4. CASE m # n
    <3>1. x = L[m] BY <2>4, PutFacts DEF Counted
    <3>2. d = c /\ p \in pids => pageFinished[d][p] = n + 1 BY <1>8
    <3> HIDE DEF pids, x, p
    <3>3. pageFinished'[d][p] >= m + 2 <=> pageFinished[d][p] >= m + 2
      BY <1>1, <2>2, <2>3, <2>4, <3>2
    <3>4. pageFinished[d][p] >= m + 1 => pageFinished'[d][p] >= m + 1
      BY <1>1, <2>2, <2>3
    <3> QED BY <2>1, <3>1, <3>3, <3>4 DEF x, p
  <2>5. CASE m = n
    <3>1. x = t BY <2>5, PutFacts DEF Counted
    <3>2. CASE d # c
      <4>1. x.finished[d] = L[m].finished[d] /\ x.given[d] = L[m].given[d]
        BY <1>9, <2>5, <3>1, <3>2
      <4>2. pageFinished'[d][p] = pageFinished[d][p] BY <2>3, <3>2
      <4> HIDE DEF x, p
      <4> QED BY <2>1, <4>1, <4>2 DEF x, p
    <3>3. CASE d = c
      <4>1. x.finished[d] = L[n].finished[c] \cup lids
            /\ x.given[d] = L[n].given[c] \cup more
        BY <1>9, <3>1, <3>3
      <4>2. p \in pids <=> lid \in lids BY <1>6, <2>5
      <4>3. lid \in lids => pageFinished[c][p] = n + 1 BY <2>5
      <4>4. lid \in more => pageFinished[c][p] >= n + 1 BY <2>5
      <4> HIDE DEF pids, x, p
      <4>5. lid \in x.finished[d] <=> pageFinished'[d][p] >= m + 2
        BY <1>1, <2>1, <2>2, <2>3, <2>5, <3>3, <4>1, <4>2, <4>3
      <4>6. lid \in x.given[d] => pageFinished'[d][p] >= m + 1
        BY <1>1, <2>1, <2>2, <2>3, <2>5, <3>3, <4>1, <4>4
      <4> QED BY <4>5, <4>6 DEF x, p
    <3> QED BY <3>2, <3>3
  <2> QED BY <2>4, <2>5
<1>11. Handed(P, Put(L, n, t))' BY <1>1, <1>10 DEF Handed
<1>12. \A d \in CTAS, p \in LIDS :
         pageFinished'[d][p] \in {pageFinished[d][p], pageFinished[d][p] + 1}
  <2> HIDE DEF pids
  <2> QED BY <1>4
<1> QED BY <1>5, <1>11, <1>12

---------------------------------------------------------------------------
\* Instruction n writes regions W of pages it has in CTA c; what the others
\* know of theirs stays true.
Writes(P, L, n, t, c, W) ==
  /\ \A r \in W : r \in LIDS \X PARTS /\ pageFinished[c][P[n][r[1]]] = n + 1
  /\ \A d \in CTAS : L[n].finished[d] \subseteq t.finished[d]
  /\ \A d \in CTAS, p \in LIDS, h \in PARTS :
       \/ page'[d][p][h] = page[d][p][h]
       \/ d = c /\ \E r \in W : p = P[n][r[1]] /\ h = r[2]
  /\ \A f \in t.contents :
       \/ f \in L[n].contents /\ (f.cta = c => <<f.lid, f.part>> \notin W)
       \/ page'[f.cta][P[n][f.lid]][f.part] = Content(n, f.tag)

\* What instruction n writes to pages that it owns is in no page that another
\* instruction owns: all keep what they had there.
LEMMA KeptKept ==
  ASSUME SoundPrograms, Counted, NEW P, NEW L, Ordered(P), Local(L), Handed(P, L),
         Kept(P, L), NEW n \in Numbers, NEW t, Shaped(t), NEW c, NEW W,
         Writes(P, L, n, t, c, W), program' = program
  PROVE  Kept(P, Put(L, n, t))'
<1> USE DEF Writes
<1>1. /\ Len(Instructions) \in Nat /\ \A m \in Numbers : m \in Nat
      /\ Numbers' = Numbers
  BY InstructionFacts, SameProgram DEF Counted, Numbers
<1>2. \A m \in Numbers : Permutation(P[m]) BY <1>1 DEF Ordered
<1>3. SUFFICES ASSUME NEW m \in Numbers, NEW f \in Put(L, n, t)[m].contents,
                      Owns(Put(L, n, t)[m], f.cta, f.lid)
               PROVE  page'[f.cta][P[m][f.lid]][f.part] = Content(m, f.tag)
  BY <1>1 DEF Kept, Content
<1> DEFINE p == P[m][f.lid]
<1>4. \A x : Shaped(x) => \A g \in x.contents :
               g.cta \in CTAS /\ g.part \in PARTS /\ g.lid \in x.given[g.cta] /\ g.lid \in LIDS
  BY DEF Shaped, FactShaped, ProgressShaped
<1>5. CASE m # n
  <2>1. Put(L, n, t)[m] = L[m] BY <1>5, PutFacts DEF Counted
  <2>2. f \in L[m].contents /\ Owns(L[m], f.cta, f.lid) BY <1>3, <2>1
  <2>3. page[f.cta][p][f.part] = Content(m, f.tag) BY <2>2 DEF Kept
  <2>4. Shaped(L[m]) BY DEF Local
  <2>5. f.cta \in CTAS /\ f.part \in PARTS /\ f.lid \in LIDS BY <1>4, <2>2, <2>4
  <2>6. p \in LIDS
    <3>1. Permutation(P[m]) BY <1>2
    <3> QED BY <2>5, <3>1 DEF Permutation
  <2>7. pageFinished[f.cta][p] = m + 1
    <3>1. pageFinished[f.cta][p] \in Nat BY <2>5, <2>6 DEF Counted
    <3>2. pageFinished[f.cta][p] >= m + 1 /\ ~(pageFinished[f.cta][p] >= m + 2)
      BY <2>2, <2>5 DEF Handed, Owns
    <3> HIDE DEF p
    <3> QED BY <1>1, <3>1, <3>2
  <2>8. ~(f.cta = c /\ \E r \in W : p = P[n][r[1]] /\ f.part = r[2])
    <3>1. SUFFICES ASSUME f.cta = c, NEW r \in W, p = P[n][r[1]] PROVE FALSE
      OBVIOUS
    <3>2. pageFinished[c][p] = n + 1 BY <3>1
    <3> HIDE DEF p
    <3> QED BY <1>1, <1>5, <2>7, <3>1, <3>2
  <2>9. page'[f.cta][p][f.part] = page[f.cta][p][f.part]
    <3> HIDE DEF p
    <3> QED BY <2>5, <2>6, <2>8
  <2> QED BY <2>3, <2>9
<1>6. CASE m = n
  <2>1. Put(L, n, t)[m] = t BY <1>1, <1>6 DEF Put
  <2>2. f \in t.contents /\ Owns(t, f.cta, f.lid) BY <1>3, <2>1
  <2>3. f.cta \in CTAS /\ f.part \in PARTS /\ f.lid \in LIDS BY <1>4, <2>2
  <2>4. p \in LIDS
    <3>1. Permutation(P[m]) BY <1>2
    <3> QED BY <2>3, <3>1 DEF Permutation
  <2>5. CASE page'[f.cta][P[n][f.lid]][f.part] = Content(n, f.tag)
    BY <1>6, <2>5
  <2>6. CASE f \in L[n].contents /\ (f.cta = c => <<f.lid, f.part>> \notin W)
    <3>1. Shaped(L[n]) BY DEF Local
    <3>2. f.lid \in L[n].given[f.cta] BY <1>4, <2>6, <3>1
    <3>3. Owns(L[n], f.cta, f.lid) BY <2>2, <2>3, <3>2 DEF Owns
    <3>4. page[f.cta][p][f.part] = Content(n, f.tag) BY <1>6, <2>6, <3>3 DEF Kept
    <3>5. ~(f.cta = c /\ \E r \in W : p = P[n][r[1]] /\ f.part = r[2])
      <4>1. SUFFICES ASSUME f.cta = c, NEW r \in W, p = P[n][r[1]], f.part = r[2]
                     PROVE  FALSE
        OBVIOUS
      <4>2. r \in LIDS \X PARTS OBVIOUS
      <4>3. r[1] = f.lid BY <1>2, <1>6, <2>3, <4>1, <4>2 DEF Permutation
      <4>4. r = <<f.lid, f.part>> BY <4>1, <4>2, <4>3
      <4> QED BY <2>6, <4>1, <4>4
    <3>6. page'[f.cta][p][f.part] = page[f.cta][p][f.part]
      <4> HIDE DEF p
      <4> QED BY <2>3, <2>4, <3>5
    <3> QED BY <1>6, <3>4, <3>6
  <2> QED BY <2>2, <2>5, <2>6
<1> QED BY <1>5, <1>6

\* Different loads of an instruction are different in the SM's page numbers too.
LEMMA LoadOfInjective ==
  ASSUME NEW P, NEW n, Permutation(P[n]), NEW x, NEW y, LoadShaped(x), LoadShaped(y),
         LoadOf(P, n, x) = LoadOf(P, n, y)
  PROVE  x = y
<1> DEFINE To(z) == {<<P[n][r[1]], r[2]>> : r \in z.places}
<1>1. x.cta = y.cta /\ x.tag = y.tag /\ x.signal = y.signal /\ To(x) = To(y)
  BY DEF LoadOf
<1>2. ASSUME NEW a, NEW b, LoadShaped(a), LoadShaped(b), To(a) = To(b),
             NEW r \in a.places
      PROVE  r \in b.places
  <2>1. <<P[n][r[1]], r[2]>> \in To(b) BY <1>2
  <2>2. PICK q \in b.places : <<P[n][r[1]], r[2]>> = <<P[n][q[1]], q[2]>> BY <2>1
  <2>3. r \in LIDS \X PARTS /\ q \in LIDS \X PARTS BY <1>2 DEF LoadShaped
  <2>4. r[1] = q[1] /\ r[2] = q[2] BY <2>2, <2>3 DEF Permutation
  <2>5. r = q BY <2>3, <2>4
  <2> QED BY <2>5
<1>3. x.places = y.places
  <2>1. x.places \subseteq y.places BY <1>1, <1>2
  <2>2. y.places \subseteq x.places BY <1>1, <1>2
  <2> QED BY <2>1, <2>2
<1> QED BY <1>1, <1>3 DEF LoadShaped

\* Loads in flight are those of the instructions: when some are started,
LEMMA LoadingGrows ==
  ASSUME SoundPrograms, program \in DOMAIN PROGRAMS, program' = program,
         NEW P, NEW L, Loading(P, L), NEW n \in Numbers, NEW t, NEW new,
         t.loading = L[n].loading \cup new,
         loading' = loading \cup {LoadOf(P, n, x) : x \in new}
  PROVE  Loading(P, Put(L, n, t))'
<1>1. Numbers' = Numbers BY SameProgram
<1> DEFINE M == Put(L, n, t)
<1>2. M[n] = t /\ \A m \in Numbers : m # n => M[m] = L[m] BY PutFacts
<1> HIDE DEF M
<1>3. ASSUME NEW y \in loading'
      PROVE  \E m \in Numbers : \E x \in M[m].loading : y = LoadOf(P, m, x)
  <2>1. CASE y \in loading
    <3>1. PICK m \in Numbers : \E x \in L[m].loading : y = LoadOf(P, m, x)
      BY <2>1 DEF Loading
    <3>2. L[m].loading \subseteq M[m].loading BY <1>2
    <3> QED BY <3>1, <3>2
  <2>2. CASE \E x \in new : y = LoadOf(P, n, x) BY <1>2, <2>2
  <2> QED BY <2>1, <2>2
<1>4. ASSUME NEW m \in Numbers, NEW x \in M[m].loading
      PROVE  LoadOf(P, m, x) \in loading'
  <2>1. CASE x \in L[m].loading BY <2>1 DEF Loading
  <2>2. CASE x \notin L[m].loading BY <1>2, <2>2
  <2> QED BY <2>1, <2>2
<1> QED BY <1>1, <1>3, <1>4 DEF Loading, M, LoadOf

\* and when one arrives.
LEMMA LoadingShrinks ==
  ASSUME SoundPrograms, program \in DOMAIN PROGRAMS, program' = program,
         NEW P, NEW L, Loading(P, L), Local(L), NEW n \in Numbers, Permutation(P[n]),
         NEW x \in L[n].loading, NEW t, t.loading = L[n].loading \ {x},
         loading' = loading \ {LoadOf(P, n, x)}
  PROVE  Loading(P, Put(L, n, t))'
<1>1. Numbers' = Numbers BY SameProgram
<1> DEFINE M == Put(L, n, t)
<1>2. M[n] = t /\ \A m \in Numbers : m # n => M[m] = L[m] BY PutFacts
<1> HIDE DEF M
<1>3. ASSUME NEW y \in loading'
      PROVE  \E m \in Numbers : \E z \in M[m].loading : y = LoadOf(P, m, z)
  <2>1. PICK m \in Numbers : \E z \in L[m].loading : y = LoadOf(P, m, z)
    BY <1>3 DEF Loading
  <2>2. PICK z \in L[m].loading : y = LoadOf(P, m, z) BY <2>1
  <2>3. m = n => z # x BY <1>3, <2>2
  <2>4. z \in M[m].loading BY <1>2, <2>2, <2>3
  <2> QED BY <2>2, <2>4
<1>4. ASSUME NEW m \in Numbers, NEW z \in M[m].loading
      PROVE  LoadOf(P, m, z) \in loading'
  <2>1. z \in L[m].loading /\ (m = n => z # x) BY <1>2
  <2>2. LoadOf(P, m, z) \in loading BY <2>1 DEF Loading
  <2>3. LoadOf(P, m, z) # LoadOf(P, n, x)
    <3>1. CASE m # n BY <3>1 DEF LoadOf
    <3>2. CASE m = n
      <4>1. LoadShaped(z) /\ LoadShaped(x) BY <2>1, <3>2 DEF Local, Shaped
      <4> QED BY <2>1, <3>2, <4>1, LoadOfInjective
    <3> QED BY <3>1, <3>2
  <2> QED BY <2>2, <2>3
<1> QED BY <1>1, <1>3, <1>4 DEF Loading, M, LoadOf

---------------------------------------------------------------------------
\* The queue of multiplications interleaves those of the instructions: when
\* none is started or completes,
LEMMA QueueSame ==
  ASSUME SoundPrograms, program \in DOMAIN PROGRAMS, program' = program,
         NEW P, NEW L, NEW K, Queued(P, L, K), NEW n \in Numbers, NEW t,
         t.mmas = L[n].mmas, t.multiplied = L[n].multiplied, mmas' = mmas
  PROVE  Queued(P, Put(L, n, t), K)'
<1>1. Numbers' = Numbers BY SameProgram
<1> DEFINE M == Put(L, n, t)
<1>2. \A m \in Numbers : M[m].mmas = L[m].mmas /\ M[m].multiplied = L[m].multiplied
  BY PutFacts
<1> HIDE DEF M
<1>3. QueueOf(mmas, Numbers, P, M, K)
  BY <1>2 DEF Queued, QueueOf
<1> QED BY <1>1, <1>3 DEF Queued, M

\* (A multiplication bears its instruction's number.)
LEMMA MmaOfNumber ==
  ASSUME NEW P, NEW n, NEW x
  PROVE  MmaOf(P, n, x).n = n
BY DEF MmaOf

\* when an instruction adds some of its own at the end,
LEMMA QueueWithMore ==
  ASSUME NEW q, NEW S, NEW P, NEW L, NEW K, NEW M, QueueOf(q, S, P, L, K),
         NEW n \in S, NEW old, NEW new, NEW add, NEW v \in Nat,
         \A m \in S : m # n => M[m] = L[m],
         L[n].mmas = old, IsSequence(old), L[n].multiplied = v, v <= Len(old),
         IsSequence(new), M[n].mmas = old \o new, M[n].multiplied = v,
         IsSequence(add), Len(add) = Len(new),
         \A i \in 1 .. Len(new) : add[i] = MmaOf(P, n, new[i])
  PROVE  \E K2 : QueueOf(q \o add, S, P, M, K2)
<1> DEFINE all == q \o add
<1>1. PICK a \in Nat : a = Len(q) /\ DOMAIN q = 1 .. a BY SequenceLength DEF QueueOf
<1>2. PICK b \in Nat : b = Len(old) BY SequenceLength
<1>3. PICK e \in Nat : e = Len(new) BY SequenceLength
<1>4. /\ IsSequence(all) /\ Len(all) = a + e
      /\ \A i \in 1 .. a : all[i] = q[i]
      /\ \A i \in 1 .. e : all[a + i] = add[i]
  <2>1. IsSequence(q) BY DEF QueueOf
  <2>2. IsSequence(q \o add) BY <2>1, ConcatenationShaped
  <2>3. Len(q \o add) = Len(q) + Len(add) BY <2>1, ConcatenationShaped
  <2>4. \A i \in 1 .. Len(q) : (q \o add)[i] = q[i] BY <2>1, ConcatenationShaped
  <2>5. \A i \in 1 .. Len(add) : (q \o add)[Len(q) + i] = add[i]
    BY <2>1, ConcatenationShaped
  <2> QED BY <1>1, <1>3, <2>2, <2>3, <2>4, <2>5
<1>5. DOMAIN all = 1 .. a + e BY <1>4, SequenceLength
<1>6. /\ Len(M[n].mmas) = b + e
      /\ \A i \in 1 .. b : M[n].mmas[i] = old[i]
      /\ \A i \in 1 .. e : M[n].mmas[b + i] = new[i]
  BY <1>2, <1>3, ConcatenationShaped
<1> DEFINE K2 == [i \in Nat |-> IF i <= a THEN K[i] ELSE b + (i - a)]
<1>7. \A i \in 1 .. a : K2[i] = K[i] OBVIOUS
<1>8. \A i \in 1 .. e : K2[a + i] = b + i OBVIOUS
<1> HIDE DEF all, K2
<1>9. \A i \in 1 .. e : all[a + i] = MmaOf(P, n, new[i]) /\ all[a + i].n = n
  BY <1>3, <1>4, MmaOfNumber
<1>10. \A i \in 1 .. a :
            /\ q[i].n \in S
            /\ K[i] \in L[q[i].n].multiplied + 1 .. Len(L[q[i].n].mmas)
            /\ q[i] = MmaOf(P, q[i].n, L[q[i].n].mmas[K[i]])
  BY <1>1 DEF QueueOf
<1>11. \A i, j \in 1 .. a : i < j /\ q[i].n = q[j].n => K[i] < K[j]
  BY <1>1 DEF QueueOf
<1>12. \A m \in S : \A k \in L[m].multiplied + 1 .. Len(L[m].mmas) :
            \E i \in 1 .. a : q[i].n = m /\ K[i] = k
  <2>1. \A m \in S : \A k \in L[m].multiplied + 1 .. Len(L[m].mmas) :
            \E i \in DOMAIN q : q[i].n = m /\ K[i] = k
    BY Zenon DEF QueueOf
  <2>2. SUFFICES ASSUME NEW m \in S, NEW k \in L[m].multiplied + 1 .. Len(L[m].mmas)
                 PROVE  \E i \in 1 .. a : q[i].n = m /\ K[i] = k
    BY Zenon
  <2>3. PICK i \in DOMAIN q : q[i].n = m /\ K[i] = k BY <2>1
  <2>4. i \in 1 .. a BY <1>1
  <2> QED BY <2>3, <2>4
<1>13. \A i \in 1 .. a + e : i \in 1 .. a \/ \E k \in 1 .. e : i = a + k
  <2>1. SUFFICES ASSUME NEW i \in 1 .. a + e, i \notin 1 .. a
                 PROVE  \E k \in 1 .. e : i = a + k
    OBVIOUS
  <2>2. i - a \in 1 .. e /\ i = a + (i - a) BY <2>1
  <2> QED BY <2>2
<1>14. v \in 0 .. b BY <1>2
<1>15. ASSUME NEW i \in 1 .. a + e
       PROVE  /\ all[i].n \in S
              /\ K2[i] \in M[all[i].n].multiplied + 1 .. Len(M[all[i].n].mmas)
              /\ all[i] = MmaOf(P, all[i].n, M[all[i].n].mmas[K2[i]])
  <2>1. CASE i \in 1 .. a
    <3>1. all[i] = q[i] /\ K2[i] = K[i] BY <1>4, <1>7, <2>1
    <3>2. PICK m \in S : m = q[i].n BY <1>10, <2>1
    <3>3. K[i] \in L[m].multiplied + 1 .. Len(L[m].mmas)
          /\ q[i] = MmaOf(P, m, L[m].mmas[K[i]])
      BY <1>10, <2>1, <3>2
    <3>4. CASE m # n BY <3>1, <3>2, <3>3, <3>4
    <3>5. CASE m = n
      <4>1. K[i] \in v + 1 .. b BY <1>2, <3>3, <3>5
      <4>2. K[i] \in v + 1 .. b + e /\ K[i] \in 1 .. b BY <4>1
      <4>3. M[n].mmas[K[i]] = old[K[i]] BY <1>6, <4>2
      <4>4. K[i] \in M[n].multiplied + 1 .. Len(M[n].mmas) BY <1>6, <4>2
      <4>5. q[i] = MmaOf(P, n, M[n].mmas[K[i]]) BY <3>3, <3>5, <4>3
      <4> QED BY <3>1, <3>2, <3>5, <4>4, <4>5
    <3> QED BY <3>4, <3>5
  <2>2. CASE i \notin 1 .. a
    <3>1. PICK k \in 1 .. e : i = a + k BY <1>13, <2>2
    <3>2. all[i] = MmaOf(P, n, new[k]) /\ K2[i] = b + k /\ all[i].n = n
      BY <1>8, <1>9, <3>1
    <3>3. b + k \in v + 1 .. b + e BY <1>14, <3>1
    <3>4. M[n].mmas[b + k] = new[k] BY <1>6, <3>1
    <3>5. K2[i] \in M[n].multiplied + 1 .. Len(M[n].mmas) BY <1>6, <3>2, <3>3
    <3> QED BY <3>2, <3>4, <3>5
  <2> QED BY <2>1, <2>2
<1>16. ASSUME NEW i \in 1 .. a + e, NEW j \in 1 .. a + e, i < j, all[i].n = all[j].n
       PROVE  K2[i] < K2[j]
  <2>1. CASE j <= a
    <3>1. i \in 1 .. a /\ j \in 1 .. a BY <1>16, <2>1
    <3> QED BY <1>4, <1>7, <1>11, <1>16, <3>1
  <2>2. CASE i <= a /\ j > a
    <3>1. i \in 1 .. a BY <2>2
    <3>2. PICK k \in 1 .. e : j = a + k BY <1>13, <2>2
    <3>3. all[j].n = n /\ K2[j] = b + k BY <1>8, <1>9, <3>2
    <3>4. q[i].n = n /\ K2[i] = K[i] BY <1>4, <1>7, <1>16, <3>1, <3>3
    <3>5. K[i] \in v + 1 .. b BY <1>2, <1>10, <3>1, <3>4
    <3> QED BY <3>3, <3>4, <3>5
  <2>3. CASE i > a
    <3>1. PICK k \in 1 .. e : i = a + k BY <1>13, <2>3
    <3>2. PICK l \in 1 .. e : j = a + l BY <1>13, <1>16, <2>3
    <3>3. K2[i] = b + k /\ K2[j] = b + l BY <1>8, <3>1, <3>2
    <3>4. k < l BY <1>16, <3>1, <3>2
    <3> QED BY <3>3, <3>4
  <2> QED BY <2>1, <2>2, <2>3
<1>17. ASSUME NEW m \in S, NEW k \in M[m].multiplied + 1 .. Len(M[m].mmas)
       PROVE  \E i \in 1 .. a + e : all[i].n = m /\ K2[i] = k
  <2>1. ASSUME k \in L[m].multiplied + 1 .. Len(L[m].mmas)
        PROVE  \E i \in 1 .. a + e : all[i].n = m /\ K2[i] = k
    <3>1. PICK i \in 1 .. a : q[i].n = m /\ K[i] = k BY <1>12, <2>1
    <3>2. i \in 1 .. a + e OBVIOUS
    <3> QED BY <1>4, <1>7, <3>1, <3>2
  <2>2. CASE m # n BY <2>1, <2>2
  <2>3. CASE m = n
    <3>1. k \in v + 1 .. b + e BY <1>6, <2>3
    <3>2. CASE k <= b
      <4>1. k \in v + 1 .. b BY <3>1, <3>2
      <4>2. k \in L[m].multiplied + 1 .. Len(L[m].mmas) BY <1>2, <2>3, <4>1
      <4> QED BY <2>1, <4>2
    <3>3. CASE k > b
      <4>1. k - b \in 1 .. e /\ b + (k - b) = k BY <3>1, <3>3
      <4>2. a + (k - b) \in 1 .. a + e BY <4>1
      <4>3. all[a + (k - b)].n = n BY <1>9, <4>1
      <4>4. K2[a + (k - b)] = k BY <1>8, <4>1
      <4> QED BY <2>3, <4>2, <4>3, <4>4
    <3>4. k <= b \/ k > b BY <3>1
    <3> QED BY <3>2, <3>3, <3>4
  <2> QED BY <2>2, <2>3
<1>18. QueueOf(all, S, P, M, K2)
  <2>1. \A i \in DOMAIN all :
              /\ all[i].n \in S
              /\ K2[i] \in M[all[i].n].multiplied + 1 .. Len(M[all[i].n].mmas)
              /\ all[i] = MmaOf(P, all[i].n, M[all[i].n].mmas[K2[i]])
    BY <1>5, <1>15, Zenon
  <2>2. \A i, j \in DOMAIN all : i < j /\ all[i].n = all[j].n => K2[i] < K2[j]
    BY <1>5, <1>16, Zenon
  <2>3. \A m \in S : \A k \in M[m].multiplied + 1 .. Len(M[m].mmas) :
           \E i \in DOMAIN all : all[i].n = m /\ K2[i] = k
    <3>1. SUFFICES ASSUME NEW m \in S, NEW k \in M[m].multiplied + 1 .. Len(M[m].mmas)
                   PROVE  \E i \in DOMAIN all : all[i].n = m /\ K2[i] = k
      BY Zenon
    <3>2. PICK i \in 1 .. a + e : all[i].n = m /\ K2[i] = k BY <1>17
    <3>3. i \in DOMAIN all BY <1>5
    <3> QED BY <3>2, <3>3
  <2> QED BY <1>4, <2>1, <2>2, <2>3, Zenon DEF QueueOf
<1> QED BY <1>18 DEF all

\* which is what a step does,
LEMMA QueueGrows ==
  ASSUME SoundPrograms, program \in DOMAIN PROGRAMS, program' = program,
         NEW P, NEW L, NEW K, Queued(P, L, K), Local(L), NEW n \in Numbers, NEW t,
         NEW new, IsSequence(new), t.mmas = L[n].mmas \o new,
         t.multiplied = L[n].multiplied,
         mmas' = mmas \o [i \in DOMAIN new |-> MmaOf(P, n, new[i])]
  PROVE  \E K2 : Queued(P, Put(L, n, t), K2)'
<1>1. Numbers' = Numbers BY SameProgram
<1> DEFINE M == Put(L, n, t)
           add == [i \in DOMAIN new |-> MmaOf(P, n, new[i])]
<1>2. M[n] = t /\ \A m \in Numbers : m # n => M[m] = L[m] BY PutFacts
<1>3. Len(new) \in Nat /\ DOMAIN new = 1 .. Len(new) BY SequenceLength
<1>4. IsSequence(add) /\ Len(add) = Len(new)
  <2>1. add = [i \in 1 .. Len(new) |-> add[i]] BY <1>3
  <2> HIDE DEF add
  <2> QED BY <1>3, <2>1, TabulationShaped
<1>5. \A i \in 1 .. Len(new) : add[i] = MmaOf(P, n, new[i]) BY <1>3
<1>6. QueueShaped(L[n]) BY DEF Local, Shaped
<1>7. Len(L[n].mmas) \in Nat BY <1>6, SequenceLength DEF QueueShaped
<1>8. L[n].multiplied \in Nat /\ L[n].multiplied <= Len(L[n].mmas) /\ IsSequence(L[n].mmas)
  BY <1>6, <1>7 DEF QueueShaped
<1> HIDE DEF M, add
<1>9. \E K2 : QueueOf(mmas \o add, Numbers, P, M, K2)
  BY <1>2, <1>4, <1>5, <1>8, QueueWithMore DEF Queued
<1>10. mmas' = mmas \o add BY DEF add
<1> QED BY <1>1, <1>9, <1>10 DEF Queued, M

\* and when the oldest one completes, which is the oldest of its instruction.
LEMMA QueueWithoutHead ==
  ASSUME NEW q, NEW S, NEW P, NEW L, NEW K, NEW M, QueueOf(q, S, P, L, K),
         q # << >>, NEW n \in S, n = Head(q).n, NEW v \in Nat,
         \A m \in S : m # n => M[m] = L[m],
         L[n].multiplied = v, M[n].mmas = L[n].mmas, M[n].multiplied = v + 1,
         Len(L[n].mmas) \in Nat
  PROVE  /\ v + 1 <= Len(L[n].mmas)
         /\ Head(q) = MmaOf(P, n, L[n].mmas[v + 1])
         /\ \E K2 : QueueOf(Tail(q), S, P, M, K2)
<1> DEFINE rest == Tail(q)
<1>1. PICK a \in Nat : a = Len(q) /\ DOMAIN q = 1 .. a BY SequenceLength DEF QueueOf
<1>2. PICK b \in Nat : b = Len(L[n].mmas) OBVIOUS
<1>3. q \in Seq({q[i] : i \in DOMAIN q}) BY DEF QueueOf, IsSequence
<1>4. a >= 1 /\ Head(q) = q[1]
  <2> DEFINE Q == {q[i] : i \in DOMAIN q}
  <2>1. q \in Seq(Q) BY <1>3
  <2> HIDE DEF Q
  <2> QED BY <1>1, <2>1
<1>5. /\ Len(rest) = a - 1 /\ DOMAIN rest = 1 .. a - 1 /\ IsSequence(rest)
      /\ \A i \in 1 .. a - 1 : rest[i] = q[i + 1]
  <2> DEFINE Q == {q[i] : i \in DOMAIN q}
  <2>1. q \in Seq(Q) BY <1>3
  <2> HIDE DEF Q
  <2>2. rest \in Seq(Q) /\ Len(rest) = a - 1 /\ \A i \in 1 .. a - 1 : rest[i] = q[i + 1]
    BY <1>1, <1>4, <2>1
  <2> HIDE DEF rest
  <2>3. DOMAIN rest = 1 .. a - 1 BY <2>2
  <2>4. rest = [i \in 1 .. a - 1 |-> rest[i]] BY <2>2
  <2>5. a - 1 \in Nat BY <1>4
  <2>6. IsSequence(rest) BY <2>4, <2>5, TabulationShaped
  <2> QED BY <2>2, <2>3, <2>6
<1> DEFINE K2 == [i \in Nat |-> K[i + 1]]
<1>6. \A i \in 1 .. a - 1 : K2[i] = K[i + 1] OBVIOUS
<1> HIDE DEF rest, K2
<1>7. \A i \in 1 .. a :
            /\ q[i].n \in S
            /\ K[i] \in L[q[i].n].multiplied + 1 .. Len(L[q[i].n].mmas)
            /\ q[i] = MmaOf(P, q[i].n, L[q[i].n].mmas[K[i]])
  BY <1>1 DEF QueueOf
<1>8. \A i, j \in 1 .. a : i < j /\ q[i].n = q[j].n => K[i] < K[j]
  BY <1>1 DEF QueueOf
<1>9. \A m \in S : \A k \in L[m].multiplied + 1 .. Len(L[m].mmas) :
            \E i \in 1 .. a : q[i].n = m /\ K[i] = k
  <2>1. \A m \in S : \A k \in L[m].multiplied + 1 .. Len(L[m].mmas) :
            \E i \in DOMAIN q : q[i].n = m /\ K[i] = k
    BY Zenon DEF QueueOf
  <2>2. SUFFICES ASSUME NEW m \in S, NEW k \in L[m].multiplied + 1 .. Len(L[m].mmas)
                 PROVE  \E i \in 1 .. a : q[i].n = m /\ K[i] = k
    BY Zenon
  <2>3. PICK i \in DOMAIN q : q[i].n = m /\ K[i] = k BY <2>1
  <2>4. i \in 1 .. a BY <1>1
  <2> QED BY <2>3, <2>4
<1>10. 1 \in 1 .. a /\ q[1].n = n BY <1>4
<1>11. K[1] \in v + 1 .. b /\ q[1] = MmaOf(P, n, L[n].mmas[K[1]])
  BY <1>2, <1>7, <1>10
<1>12. v + 1 \in v + 1 .. b BY <1>11
<1>13. K[1] = v + 1
  <2>1. PICK i \in 1 .. a : q[i].n = n /\ K[i] = v + 1 BY <1>2, <1>9, <1>12
  <2>2. i # 1 => K[1] < K[i] BY <1>8, <1>10, <2>1
  <2> QED BY <1>11, <2>1, <2>2
<1>14. ASSUME NEW i \in 1 .. a - 1
       PROVE  /\ rest[i].n \in S
              /\ K2[i] \in M[rest[i].n].multiplied + 1 .. Len(M[rest[i].n].mmas)
              /\ rest[i] = MmaOf(P, rest[i].n, M[rest[i].n].mmas[K2[i]])
  <2>1. i + 1 \in 1 .. a /\ rest[i] = q[i + 1] /\ K2[i] = K[i + 1] /\ 1 < i + 1
    BY <1>5, <1>6
  <2>2. PICK j \in 1 .. a : j = i + 1 BY <2>1
  <2>3. PICK m \in S : m = q[j].n BY <1>7
  <2>4. K[j] \in L[m].multiplied + 1 .. Len(L[m].mmas)
        /\ q[j] = MmaOf(P, m, L[m].mmas[K[j]])
    BY <1>7, <2>3
  <2>5. CASE m # n BY <2>1, <2>2, <2>3, <2>4, <2>5
  <2>6. CASE m = n
    <3>1. K[1] < K[j] BY <1>8, <1>10, <2>1, <2>2, <2>3, <2>6
    <3>2. K[j] \in v + 1 .. b BY <1>2, <2>4, <2>6
    <3>3. K[j] \in v + 1 + 1 .. b BY <1>13, <3>1, <3>2
    <3>4. K[j] \in M[n].multiplied + 1 .. Len(M[n].mmas) BY <1>2, <3>3
    <3> QED BY <2>1, <2>2, <2>3, <2>4, <2>6, <3>4
  <2> QED BY <2>5, <2>6
<1>15. ASSUME NEW i \in 1 .. a - 1, NEW j \in 1 .. a - 1, i < j, rest[i].n = rest[j].n
       PROVE  K2[i] < K2[j]
  <2>1. i + 1 \in 1 .. a /\ j + 1 \in 1 .. a /\ i + 1 < j + 1 BY <1>15
  <2> QED BY <1>5, <1>6, <1>8, <1>15, <2>1
<1>16. ASSUME NEW m \in S, NEW k \in M[m].multiplied + 1 .. Len(M[m].mmas)
       PROVE  \E i \in 1 .. a - 1 : rest[i].n = m /\ K2[i] = k
  <2>1. k \in L[m].multiplied + 1 .. Len(L[m].mmas) /\ (m = n => k # v + 1)
    <3>1. CASE m # n BY <3>1
    <3>2. CASE m = n
      <4>1. k \in v + 1 + 1 .. b BY <1>2, <3>2
      <4>2. k \in v + 1 .. b /\ k # v + 1 BY <4>1
      <4> QED BY <1>2, <3>2, <4>2
    <3> QED BY <3>1, <3>2
  <2>2. PICK i \in 1 .. a : q[i].n = m /\ K[i] = k BY <1>9, <2>1
  <2>3. i # 1 BY <1>10, <1>13, <2>1, <2>2
  <2>4. PICK j \in 1 .. a - 1 : i = j + 1
    <3>1. i - 1 \in 1 .. a - 1 /\ i = (i - 1) + 1 BY <2>3
    <3> QED BY <3>1
  <2> QED BY <1>5, <1>6, <2>2, <2>4
<1>17. QueueOf(rest, S, P, M, K2)
  <2>1. \A i \in DOMAIN rest :
              /\ rest[i].n \in S
              /\ K2[i] \in M[rest[i].n].multiplied + 1 .. Len(M[rest[i].n].mmas)
              /\ rest[i] = MmaOf(P, rest[i].n, M[rest[i].n].mmas[K2[i]])
    BY <1>5, <1>14, Zenon
  <2>2. \A i, j \in DOMAIN rest : i < j /\ rest[i].n = rest[j].n => K2[i] < K2[j]
    BY <1>5, <1>15, Zenon
  <2>3. \A m \in S : \A k \in M[m].multiplied + 1 .. Len(M[m].mmas) :
           \E i \in DOMAIN rest : rest[i].n = m /\ K2[i] = k
    <3>1. SUFFICES ASSUME NEW m \in S, NEW k \in M[m].multiplied + 1 .. Len(M[m].mmas)
                   PROVE  \E i \in DOMAIN rest : rest[i].n = m /\ K2[i] = k
      BY Zenon
    <3>2. PICK i \in 1 .. a - 1 : rest[i].n = m /\ K2[i] = k BY <1>16
    <3>3. i \in DOMAIN rest BY <1>5
    <3> QED BY <3>2, <3>3
  <2> QED BY <1>5, <2>1, <2>2, <2>3, Zenon DEF QueueOf
<1> QED BY <1>2, <1>4, <1>11, <1>12, <1>13, <1>17 DEF rest

\* While an instruction waits for a page, or has it, the page's phase is one of two.
LEMMA WaitRange ==
  ASSUME SoundPrograms, Counted, Windowed, NEW P, NEW L, Ordered(P), Local(L), Aligned(L),
         Handed(P, L), NEW n \in Numbers, NEW c \in CTAS, issued[c] > n,
         NEW lid \in LIDS, lid \notin L[n].finished[c]
  PROVE  pageFinished[c][P[n][lid]] \in {n, n + 1}
<1> DEFINE p == P[n][lid]
<1>1. /\ Len(Instructions) \in Nat /\ \A m \in Numbers : m \in Nat
      /\ issued[c] \in 0 .. Len(Instructions)
      /\ \A w \in WARPS : retired[c][w] \in 0 .. Len(Instructions)
  BY InstructionFacts DEF Counted, Numbers
<1>2. \A m \in Nat : Permutation(P[m]) BY DEF Ordered
<1>3. p \in LIDS
  <2>1. Permutation(P[n]) BY <1>1, <1>2
  <2> QED BY <2>1 DEF Permutation
<1>4. pageFinished[c][p] \in Nat /\ pageFinished[c][p] >= 1
  BY <1>3 DEF Counted
<1>5. ~(pageFinished[c][p] >= n + 2) BY DEF Handed
<1> HIDE DEF p
<1>6. pageFinished[c][p] >= n
  <2>1. CASE n < LEAD BY <1>1, <1>4, <2>1, LeadFacts
  <2>2. CASE n >= LEAD
    <3>1. PICK m \in Numbers : m = n - LEAD
      BY <1>1, <2>2, LeadFacts DEF Numbers
    <3>2. ASSUME NEW w \in WARPS PROVE L[m].done[c][w]
      <4>1. retired[c][w] > m
        <5>1. issued[c] <= retired[c][w] + LEAD BY DEF Windowed
        <5> QED BY <1>1, <3>1, <5>1, LeadFacts
      <4> QED BY <4>1 DEF Aligned, Tracks
    <3>3. Behind(L[m], c) BY <3>2 DEF Behind
    <3>4. InTurn(Ins(m), L[m]) BY InstructionFacts, AllowedInTurn DEF Counted, Local
    <3>5. L[m].finished[c] = LIDS BY <3>3, <3>4 DEF InTurn
    <3>6. PICK lid2 \in LIDS : P[m][lid2] = p BY <1>1, <1>2, <1>3 DEF Permutation
    <3>7. pageFinished[c][p] >= m + 2 BY <3>5, <3>6 DEF Handed
    <3> QED BY <1>1, <1>4, <3>1, <3>7, LeadFacts
  <2> QED BY <1>1, <2>1, <2>2, LeadFacts
<1> QED BY <1>1, <1>4, <1>5, <1>6 DEF p

\* What it means for a warp to have arrived at instruction n.
ArrivedAt(P, L, c, w, n) ==
  /\ n \in Numbers /\ n \in Nat
  /\ \A d \in CTAS : issued[d] > n
  /\ InRing(c, n)
  /\ order[c][Slot(n)] = P[n]
  /\ ~L[n].done[c][w]
  /\ L[n].at[c][w] = at[c][w]
  /\ L[n].semaphore[c] = semaphore[c][Slot(n)]

\* A warp that has arrived is at an instruction that is in the ring, with the
\* instruction's page order and its semaphores.
LEMMA ArrivedFacts ==
  ASSUME SoundPrograms, Counted, Windowed, NEW P, NEW L, Ordered(P), Aligned(L),
         NEW c \in CTAS, NEW w \in WARPS, Arrived(c, w), NEW n, n = retired[c][w]
  PROVE  ArrivedAt(P, L, c, w, n)
<1>1. Len(Instructions) \in Nat /\ n \in Nat /\ issued[c] \in Nat
  BY InstructionFacts DEF Counted
<1>2. n \in Numbers BY <1>1 DEF Arrived, Numbers
<1>3. \A d \in CTAS : issued[d] > n BY DEF Arrived
<1>4. InRing(c, n)
  <2>1. issued[c] <= n + LEAD BY DEF Windowed
  <2> QED BY <1>1, <1>3, <2>1, LeadFacts DEF InRing
<1>5. order[c][Slot(n)] = P[n] BY <1>2, <1>4 DEF Ordered
<1>7. ~(retired[c][w] > n) BY <1>1
<1>8. Tracks(L[n], n) /\ Signals(L[n], n) BY <1>2 DEF Aligned
<1>9. ~L[n].done[c][w] /\ L[n].at[c][w] = at[c][w] BY <1>7, <1>8 DEF Tracks
<1>11. L[n].semaphore[c] = semaphore[c][Slot(n)] BY <1>4, <1>8 DEF Signals
<1> QED BY <1>1, <1>2, <1>3, <1>4, <1>5, <1>9, <1>11 DEF ArrivedAt

\* A wait by parity ends in the phase that makes the page the instruction's.
LEMMA PageWaitOver ==
  ASSUME SoundPrograms, Counted, Windowed, NEW P, NEW L, Ordered(P), Local(L), Aligned(L),
         Handed(P, L), NEW n \in Numbers, NEW c \in CTAS, issued[c] > n,
         NEW lid \in LIDS, lid \notin L[n].finished[c],
         lid_to_pid(c, n, lid) = P[n][lid], page_wait(c, n, lid)
  PROVE  pageFinished[c][P[n][lid]] = n + 1
<1>1. pageFinished[c][P[n][lid]] \in {n, n + 1} BY WaitRange
<1>2. pageFinished[c][P[n][lid]] % 2 # n % 2 BY DEF page_wait
<1>3. n \in Nat BY InstructionFacts DEF Counted, Numbers
<1> QED BY <1>1, <1>2, <1>3

\* An instruction owns a page in one phase only.
LEMMA OwnedPhase ==
  ASSUME SoundPrograms, Counted, NEW P, NEW L, Ordered(P), Handed(P, L),
         NEW n \in Numbers, NEW c \in CTAS, NEW lid \in LIDS, Owns(L[n], c, lid)
  PROVE  pageFinished[c][P[n][lid]] = n + 1
<1>1. n \in Nat BY InstructionFacts DEF Counted, Numbers
<1>2. P[n][lid] \in LIDS
  <2>1. Permutation(P[n]) BY <1>1 DEF Ordered
  <2> QED BY <2>1 DEF Permutation
<1>3. pageFinished[c][P[n][lid]] \in Nat BY <1>2 DEF Counted
<1>4. pageFinished[c][P[n][lid]] >= n + 1 /\ ~(pageFinished[c][P[n][lid]] >= n + 2)
  BY DEF Owns, Handed
<1> QED BY <1>1, <1>3, <1>4

\* A warp goes on by a step, or with its last one to the next instruction: k is
\* how many are behind it then, a where it is, and rest what its lanes passed on.
Moves(L, n, t, c, w, k, a, rest) ==
  /\ k \in {n, n + 1} /\ a \in Nat /\ (k = n + 1 => a = 0) /\ rest \subseteq LIDS
  /\ w = "loader" /\ k = n + 1 => rest = {}
  /\ w = "loader" /\ k = n => rest = passed[c]
  /\ t.at = [L[n].at EXCEPT ![c][w] = a]
  /\ \A d \in CTAS, v \in WARPS :
       IF d = c /\ v = w THEN t.done[d][v] <=> k = n + 1
       ELSE t.done[d][v] <=> L[n].done[d][v]
  /\ \A d \in CTAS : t.passed[d] = IF d = c /\ w = "loader" THEN rest ELSE L[n].passed[d]
  /\ retired' = [retired EXCEPT ![c][w] = k]
  /\ at' = [at EXCEPT ![c][w] = a]
  /\ passed' = IF w = "loader" THEN [passed EXCEPT ![c] = rest] ELSE passed

\* When a warp goes on, all instructions track their warps as before.
LEMMA WarpMoves ==
  ASSUME SoundPrograms, Counted, Windowed, NEW L, Local(L), Aligned(L),
         NEW c \in CTAS, NEW w \in WARPS, NEW n \in Numbers, n = retired[c][w],
         \A d \in CTAS : issued[d] > n, program' = program, issued' = issued,
         NEW t, NEW k, NEW a, NEW rest, Moves(L, n, t, c, w, k, a, rest)
  PROVE  /\ retired' \in [CTAS -> [WARPS -> 0 .. Len(Instructions)]]
         /\ at' \in [CTAS -> [WARPS -> Nat]] /\ passed' \in [CTAS -> SUBSET LIDS]
         /\ Windowed'
         /\ \A m \in Numbers : Tracks(Put(L, n, t)[m], m)'
<1> USE DEF Moves
<1>1. /\ Len(Instructions) \in Nat /\ \A m \in Numbers : m \in Nat
      /\ n \in 0 .. Len(Instructions) - 1
      /\ issued \in [CTAS -> 0 .. Len(Instructions)]
      /\ retired \in [CTAS -> [WARPS -> 0 .. Len(Instructions)]]
      /\ at \in [CTAS -> [WARPS -> Nat]] /\ passed \in [CTAS -> SUBSET LIDS]
  BY InstructionFacts DEF Counted, Numbers
<1>2. /\ L[n].at \in [CTAS -> [WARPS -> Nat]] /\ L[n].passed \in [CTAS -> SUBSET LIDS]
  BY DEF Local, Shaped, ProgressShaped
<1>3. k \in 0 .. Len(Instructions) /\ k \in Nat
  BY <1>1
<1>4. retired' \in [CTAS -> [WARPS -> 0 .. Len(Instructions)]]
  BY <1>1, <1>3
<1>5. at' \in [CTAS -> [WARPS -> Nat]] /\ passed' \in [CTAS -> SUBSET LIDS]
  BY <1>1
<1> DEFINE Mine(d, v) == d = c /\ v = w
<1>6. \A d \in CTAS, v \in WARPS :
        IF Mine(d, v) THEN retired'[d][v] = k /\ at'[d][v] = a /\ t.at[d][v] = a
        ELSE /\ retired'[d][v] = retired[d][v]
             /\ at'[d][v] = at[d][v] /\ t.at[d][v] = L[n].at[d][v]
  <2> SUFFICES ASSUME NEW d \in CTAS, NEW v \in WARPS
               PROVE  IF Mine(d, v) THEN retired'[d][v] = k /\ at'[d][v] = a /\ t.at[d][v] = a
                      ELSE /\ retired'[d][v] = retired[d][v]
                           /\ at'[d][v] = at[d][v] /\ t.at[d][v] = L[n].at[d][v]
    OBVIOUS
  <2>1. retired'[d][v] = IF Mine(d, v) THEN k ELSE retired[d][v] BY <1>1
  <2>2. at'[d][v] = IF Mine(d, v) THEN a ELSE at[d][v] BY <1>1
  <2>3. t.at[d][v] = IF Mine(d, v) THEN a ELSE L[n].at[d][v]
    <3> DEFINE old == L[n].at new == t.at
    <3>1. old \in [CTAS -> [WARPS -> Nat]] /\ new = [old EXCEPT ![c][w] = a]
      BY <1>2
    <3> HIDE DEF old, new
    <3>2. new[d][v] = IF Mine(d, v) THEN a ELSE old[d][v]
      <4>1. CASE d = c BY <3>1, <4>1
      <4>2. CASE d # c BY <3>1, <4>2
      <4> QED BY <4>1, <4>2
    <3> QED BY <3>2 DEF old, new
  <2> HIDE DEF Mine
  <2> QED BY <2>1, <2>2, <2>3
<1>7. \A d \in CTAS : passed'[d] = IF d = c /\ w = "loader" THEN rest ELSE passed[d]
  BY <1>1
<1>8. Windowed'
  <2>1. SUFFICES ASSUME NEW d \in CTAS, NEW e \in CTAS, NEW v \in WARPS
                 PROVE  retired'[d][v] <= issued[e] /\ issued[d] <= retired'[d][v] + LEAD
    BY DEF Windowed
  <2>2. retired[d][v] <= issued[e] /\ issued[d] <= retired[d][v] + LEAD
    BY DEF Windowed
  <2>3. retired[d][v] \in Nat /\ issued[d] \in Nat /\ issued[e] \in Nat /\ n \in Nat
        /\ issued[e] > n
    BY <1>1
  <2>4. CASE Mine(d, v)
    <3>1. retired[d][v] = n /\ retired'[d][v] = k BY <1>6, <2>4
    <3> QED BY <1>3, <2>2, <2>3, <3>1, LeadFacts
  <2>5. CASE ~Mine(d, v)
    <3>1. retired'[d][v] = retired[d][v] BY <1>6, <2>5
    <3> QED BY <2>2, <3>1
  <2> QED BY <2>4, <2>5
<1>9. ASSUME NEW m \in Numbers PROVE Tracks(Put(L, n, t)[m], m)'
  <2> DEFINE x == Put(L, n, t)[m]
  <2>1. x = IF m = n THEN t ELSE L[m] BY <1>1 DEF Put
  <2>2. Tracks(L[m], m) /\ Tracks(L[n], n) BY DEF Aligned
  <2> HIDE DEF x
  <2>3. ASSUME NEW d \in CTAS, NEW v \in WARPS
        PROVE  /\ x.done[d][v] <=> retired'[d][v] > m
               /\ x.at[d][v] = IF retired'[d][v] = m THEN at'[d][v] ELSE 0
    <3>1. /\ L[m].done[d][v] <=> retired[d][v] > m
          /\ L[m].at[d][v] = IF retired[d][v] = m THEN at[d][v] ELSE 0
      BY <2>2 DEF Tracks
    <3>2. m \in Nat /\ n \in Nat /\ retired[d][v] \in Nat /\ at[d][v] \in Nat BY <1>1
    <3>3. CASE ~Mine(d, v)
      <4>1. /\ retired'[d][v] = retired[d][v]
            /\ at'[d][v] = at[d][v] /\ t.at[d][v] = L[n].at[d][v]
        BY <1>6, <3>3
      <4>2. t.done[d][v] <=> L[n].done[d][v] BY <3>3
      <4>3. (x.done[d][v] <=> L[m].done[d][v]) /\ x.at[d][v] = L[m].at[d][v]
        <5>1. CASE m = n BY <2>1, <4>1, <4>2, <5>1
        <5>2. CASE m # n BY <2>1, <5>2
        <5> QED BY <5>1, <5>2
      <4> QED BY <3>1, <4>1, <4>3
    <3>4. CASE Mine(d, v)
      <4>1. retired[d][v] = n BY <3>4
      <4>2. t.done[d][v] <=> k = n + 1 BY <3>4
      <4>3. retired'[d][v] = k /\ at'[d][v] = a /\ t.at[d][v] = a BY <1>6, <3>4
      <4>4. CASE m = n
        <5>1. (x.done[d][v] <=> k = n + 1) /\ x.at[d][v] = a
          BY <2>1, <4>2, <4>3, <4>4
        <5> QED BY <1>3, <3>2, <4>3, <4>4, <5>1
      <4>5. CASE m # n
        <5>1. x = L[m] BY <2>1, <4>5
        <5>2. x.done[d][v] <=> n > m BY <3>1, <4>1, <5>1
        <5>3. x.at[d][v] = 0 BY <3>1, <4>1, <4>5, <5>1
        <5>4. n > m <=> k > m BY <1>3, <3>2, <4>5
        <5>5. k = m => a = 0 BY <1>3, <3>2, <4>5
        <5> QED BY <4>3, <5>2, <5>3, <5>4, <5>5
      <4> QED BY <4>4, <4>5
    <3> QED BY <3>3, <3>4
  <2>4. ASSUME NEW d \in CTAS
        PROVE  x.passed[d] = IF retired'[d]["loader"] = m THEN passed'[d] ELSE {}
    <3>1. "loader" \in WARPS BY ClusterAssumption
    <3>2. /\ L[m].passed[d] = IF retired[d]["loader"] = m THEN passed[d] ELSE {}
          /\ L[n].passed[d] = IF retired[d]["loader"] = n THEN passed[d] ELSE {}
      BY <2>2 DEF Tracks
    <3>3. m \in Nat /\ n \in Nat BY <1>1
    <3>4. CASE d # c
      <4>1. passed'[d] = passed[d] /\ retired'[d]["loader"] = retired[d]["loader"]
        BY <1>6, <1>7, <3>1, <3>4
      <4>2. x.passed[d] = L[m].passed[d] BY <2>1, <3>4
      <4> QED BY <3>2, <4>1, <4>2
    <3>5. CASE d = c /\ w = "loader"
      <4>1. retired[d]["loader"] = n /\ retired'[d]["loader"] = k /\ passed'[d] = rest
        BY <1>6, <1>7, <3>1, <3>5
      <4>2. CASE m = n
        <5>1. x.passed[d] = rest BY <2>1, <3>5, <4>2
        <5> QED BY <1>3, <3>3, <3>5, <4>1, <4>2, <5>1
      <4>3. CASE m # n
        <5>1. x.passed[d] = {} BY <2>1, <3>2, <4>1, <4>3
        <5>2. k = m => rest = {} BY <3>3, <3>5, <4>3
        <5> QED BY <4>1, <5>1, <5>2
      <4> QED BY <4>2, <4>3
    <3>6. CASE d = c /\ w # "loader"
      <4>1. retired'[d]["loader"] = retired[d]["loader"]
        <5>1. ~Mine(d, "loader") BY <3>6
        <5> HIDE DEF Mine
        <5> QED BY <1>6, <3>1, <5>1
      <4>2. passed'[d] = passed[d] BY <1>7, <3>6
      <4>3. x.passed[d] = L[m].passed[d]
        <5>1. CASE m = n BY <2>1, <3>6, <5>1
        <5>2. CASE m # n BY <2>1, <5>2
        <5> QED BY <5>1, <5>2
      <4> QED BY <3>2, <4>1, <4>2, <4>3
    <3> QED BY <3>4, <3>5, <3>6
  <2> QED BY <2>3, <2>4 DEF Tracks, x
<1> QED BY <1>4, <1>5, <1>8, <1>9

\* An instruction all CTAs have been given goes from its state to t.
LEMMA GoesOn ==
  ASSUME SoundPrograms, Counted, NEW P, NEW L, Local(L), Aligned(L), Ordered(P),
         NEW n \in Numbers, \A d \in CTAS : issued[d] > n,
         NEW t, Goes(Ins(n), L[n], t),
         program' = program, issued' = issued, order' = order
  PROVE  /\ Shaped(t) /\ InTurn(Ins(n), t)
         /\ Local(Put(L, n, t))' /\ Ordered(P)'
         /\ (\A m \in Numbers : Tracks(Put(L, n, t)[m], m)' /\ Signals(Put(L, n, t)[m], m)')
              => Aligned(Put(L, n, t))'
<1>1. Sound(Ins(n)) /\ WellFormed(Ins(n)) /\ L[n] \in Allowed(Ins(n)) /\ Shaped(L[n])
  BY InstructionFacts DEF Counted, Local
<1>2. t \in Allowed(Ins(n)) /\ Shaped(t) /\ InTurn(Ins(n), t)
  BY <1>1, AllowedStep
<1> DEFINE M == Put(L, n, t)
<1>3. M[n] = t /\ \A m \in Numbers : m # n => M[m] = L[m]
  BY PutFacts DEF Counted
<1> HIDE DEF M
<1>4. Numbers' = Numbers /\ \A m : Ins(m)' = Ins(m)
  BY SameProgram
<1>5. ASSUME NEW m \in Numbers PROVE M[m] \in Allowed(Ins(m)) /\ Shaped(M[m])
  <2>1. CASE m = n BY <1>2, <1>3, <2>1
  <2>2. CASE m # n BY <1>3, <2>2 DEF Local
  <2> QED BY <2>1, <2>2
<1>6. Local(M)' BY <1>4, <1>5 DEF Local
<1>7. Ordered(P)' BY <1>4 DEF Ordered, InRing
<1>8. ASSUME NEW m \in Numbers, \E c \in CTAS : issued[c] <= m
      PROVE  M[m] = Start(Ins(m))
  <2>1. m # n
    <3>1. PICK c \in CTAS : issued[c] <= m BY <1>8
    <3>2. issued[c] > n BY <3>1
    <3>3. issued[c] \in Nat /\ n \in Nat BY InstructionFacts DEF Counted, Numbers
    <3> QED BY <3>1, <3>2, <3>3
  <2> QED BY <1>3, <1>8, <2>1 DEF Aligned
<1>9. ASSUME \A m \in Numbers : Tracks(M[m], m)' /\ Signals(M[m], m)'
      PROVE  Aligned(M)'
  BY <1>4, <1>8, <1>9 DEF Aligned
<1> QED BY <1>2, <1>6, <1>7, <1>9 DEF M

\* What stays when a step signals no semaphore,
LEMMA Unsignalled ==
  ASSUME SoundPrograms, Counted, RingShaped, NEW L, Aligned(L), NEW n \in Numbers, NEW t,
         t.semaphore = L[n].semaphore,
         program' = program, issued' = issued, order' = order, semaphore' = semaphore
  PROVE  RingShaped' /\ \A m \in Numbers : Signals(Put(L, n, t)[m], m)'
<1> DEFINE M == Put(L, n, t)
<1>0. M[n] = t /\ \A m \in Numbers : m # n => M[m] = L[m] BY PutFacts DEF Counted
<1> HIDE DEF M
<1>1. \A m \in Numbers : M[m].semaphore = L[m].semaphore BY <1>0
<1>2. \A m \in Numbers : Signals(M[m], m)' BY <1>1 DEF Aligned, Signals, InRing
<1>3. RingShaped' BY DEF RingShaped
<1> QED BY <1>2, <1>3 DEF M

\* moves no warp,
LEMMA Unmoved ==
  ASSUME SoundPrograms, Counted, Windowed, NEW L, Aligned(L), NEW n \in Numbers, NEW t,
         t.at = L[n].at, t.done = L[n].done, t.passed = L[n].passed,
         program' = program, issued' = issued, retired' = retired, at' = at,
         passed' = passed
  PROVE  Windowed' /\ \A m \in Numbers : Tracks(Put(L, n, t)[m], m)'
<1> DEFINE M == Put(L, n, t)
<1>0. M[n] = t /\ \A m \in Numbers : m # n => M[m] = L[m] BY PutFacts DEF Counted
<1> HIDE DEF M
<1>1. \A m \in Numbers : /\ M[m].at = L[m].at /\ M[m].done = L[m].done
                         /\ M[m].passed = L[m].passed
  BY <1>0
<1>2. \A m \in Numbers : Tracks(M[m], m)'
  <2>1. SUFFICES ASSUME NEW m \in Numbers PROVE Tracks(M[m], m)' OBVIOUS
  <2>2. Tracks(L[m], m) BY DEF Aligned
  <2> QED BY <1>1, <2>2 DEF Tracks
<1>3. Windowed' BY DEF Windowed
<1> QED BY <1>2, <1>3 DEF M

\* waits for no page and finishes none.
LEMMA Unhanded ==
  ASSUME SoundPrograms, Counted, NEW P, NEW L, Handed(P, L), NEW n \in Numbers, NEW t,
         t.given = L[n].given, t.finished = L[n].finished,
         program' = program, pageFinished' = pageFinished
  PROVE  Handed(P, Put(L, n, t))'
<1> DEFINE M == Put(L, n, t)
<1>0. M[n] = t /\ \A m \in Numbers : m # n => M[m] = L[m] BY PutFacts DEF Counted
<1> HIDE DEF M
<1>1. \A m \in Numbers : M[m].given = L[m].given /\ M[m].finished = L[m].finished
  BY <1>0
<1>2. Numbers' = Numbers BY SameProgram
<1>3. Handed(P, M)' BY <1>1, <1>2 DEF Handed
<1> QED BY <1>3 DEF M

---------------------------------------------------------------------------
\* A lane passes a page on: its instruction waited for the page, and owned it.
LEMMA PassOnKeeps ==
  ASSUME SoundPrograms, NEW P, NEW L, NEW K, HInv(P, L, K),
         NEW c \in CTAS, NEW lid \in LIDS, PassOn(c, lid)
  PROVE  \E M : HInv(P, M, K)'
<1>1. /\ Counted /\ Windowed /\ RingShaped /\ PageShaped
      /\ Local(L) /\ Aligned(L) /\ Ordered(P) /\ Handed(P, L) /\ Kept(P, L)
      /\ Loading(P, L) /\ Queued(P, L, K)
  BY DEF HInv
<1>2. /\ Arrived(c, "loader") /\ lid \in Waiting(c)
      /\ page_wait(c, retired[c]["loader"], lid)
      /\ pageFinished' = page_finish(c, retired[c]["loader"], {lid})
      /\ passed' = [passed EXCEPT ![c] = @ \cup {lid}]
      /\ program' = program /\ issued' = issued /\ order' = order /\ retired' = retired
      /\ semaphore' = semaphore /\ at' = at /\ tensorFinished' = tensorFinished
      /\ page' = page /\ loading' = loading /\ mmas' = mmas
  BY DEF PassOn, progressVars, contentVars
<1>3. "loader" \in WARPS BY ClusterAssumption
<1>4. PICK n : n = retired[c]["loader"] OBVIOUS
<1>5. /\ n \in Numbers /\ n \in Nat /\ \A d \in CTAS : issued[d] > n
      /\ order[c][Slot(n)] = P[n]
      /\ ~L[n].done[c]["loader"] /\ L[n].passed[c] = passed[c]
  <2>1. PICK w \in WARPS : w = "loader" BY <1>3
  <2>2. Arrived(c, w) /\ n = retired[c][w] BY <1>2, <1>4, <2>1
  <2>3. ArrivedAt(P, L, c, w, n) BY <1>1, <2>2, ArrivedFacts
  <2>4. L[n].passed[c] = IF retired[c]["loader"] = n THEN passed[c] ELSE {}
    <3>1. Tracks(L[n], n) BY <1>1, <2>3 DEF Aligned, ArrivedAt
    <3> QED BY <3>1 DEF Tracks
  <2> QED BY <1>4, <2>1, <2>3, <2>4 DEF ArrivedAt
<1>6. Sound(Ins(n)) /\ InTurn(Ins(n), L[n]) /\ Shaped(L[n])
  BY <1>1, <1>5, InstructionFacts, AllowedInTurn DEF Counted, Local
<1>7. PICK t : t = PassedOn(L[n], c, lid) OBVIOUS
<1>8. CanPassOn(Ins(n), L[n], c, lid)
  BY <1>2, <1>4, <1>5 DEF CanPassOn, Waiting, Instruction, Ins
<1>9. Goes(Ins(n), L[n], t) BY <1>7, <1>8 DEF Goes
<1>10. lid \notin L[n].finished[c]
  BY <1>5, <1>6, <1>8 DEF InTurn, CanPassOn
<1>11. pageFinished[c][P[n][lid]] = n + 1
  <2>1. page_wait(c, n, lid) BY <1>2, <1>4
  <2>2. lid_to_pid(c, n, lid) = P[n][lid] BY <1>5 DEF lid_to_pid
  <2> QED BY <1>1, <1>5, <1>10, <2>1, <2>2, PageWaitOver
<1>12. /\ t.passed = [L[n].passed EXCEPT ![c] = @ \cup {lid}]
       /\ t.given = [L[n].given EXCEPT ![c] = @ \cup {lid}]
       /\ t.finished = [L[n].finished EXCEPT ![c] = @ \cup {lid}]
       /\ t.at = L[n].at /\ t.done = L[n].done /\ t.semaphore = L[n].semaphore
       /\ t.contents = L[n].contents /\ t.loading = L[n].loading
       /\ t.mmas = L[n].mmas /\ t.multiplied = L[n].multiplied
  BY <1>6, <1>7 DEF Shaped, Fields, FIELDS, PassedOn
<1> DEFINE M == Put(L, n, t)
<1>13. Shaped(t) /\ Local(M)' /\ Ordered(P)'
  BY <1>1, <1>2, <1>5, <1>9, GoesOn
<1>14. RingShaped' /\ \A m \in Numbers : Signals(M[m], m)'
  BY <1>1, <1>2, <1>5, <1>12, Unsignalled
<1>15. ASSUME NEW m \in Numbers PROVE Tracks(M[m], m)'
  <2>1. /\ M[m].at = L[m].at /\ M[m].done = L[m].done
        /\ m # n => M[m].passed = L[m].passed
        /\ m = n => M[m].passed = t.passed
    <3>1. M[n] = t /\ \A i \in Numbers : i # n => M[i] = L[i]
      BY <1>1, <1>5, PutFacts DEF Counted
    <3> HIDE DEF M
    <3> QED BY <1>12, <3>1
  <2> HIDE DEF M
  <2>2. Tracks(L[m], m) BY <1>1 DEF Aligned
  <2>3. L[n].passed \in [CTAS -> SUBSET LIDS] /\ passed \in [CTAS -> SUBSET LIDS]
    BY <1>1, <1>6 DEF Counted, Shaped, ProgressShaped
  <2>4. ASSUME NEW d \in CTAS
        PROVE  M[m].passed[d] = IF retired[d]["loader"] = m THEN passed'[d] ELSE {}
    <3>1. L[m].passed[d] = IF retired[d]["loader"] = m THEN passed[d] ELSE {}
      BY <2>2 DEF Tracks
    <3>2. CASE d = c /\ m = n
      <4>1. retired[c]["loader"] = m BY <1>4, <3>2
      <4>2. t.passed[c] = passed'[c]
        <5>1. L[m].passed[c] = passed[c] BY <3>1, <3>2, <4>1
        <5>2. t.passed[c] = L[n].passed[c] \cup {lid} BY <1>12, <2>3
        <5>3. passed'[c] = passed[c] \cup {lid} BY <1>2, <2>3
        <5> QED BY <3>2, <5>1, <5>2, <5>3
      <4> QED BY <2>1, <3>2, <4>1, <4>2
    <3>3. CASE d = c /\ m # n
      BY <1>4, <2>1, <3>1, <3>3
    <3>4. CASE d # c
      <4>1. passed'[d] = passed[d] BY <1>2, <2>3, <3>4
      <4>2. M[m].passed[d] = L[m].passed[d]
        BY <1>12, <2>1, <2>3, <3>4
      <4> QED BY <3>1, <4>1, <4>2
    <3> QED BY <3>2, <3>3, <3>4
  <2>5. \A d \in CTAS, v \in WARPS :
           /\ M[m].done[d][v] <=> retired[d][v] > m
           /\ M[m].at[d][v] = IF retired[d][v] = m THEN at[d][v] ELSE 0
    BY <2>1, <2>2 DEF Tracks
  <2> QED BY <1>2, <2>4, <2>5 DEF Tracks
<1>16. Aligned(M)'
  BY <1>1, <1>2, <1>5, <1>9, <1>14, <1>15, GoesOn
<1>17. /\ Handed(P, M)' /\ pageFinished' \in [CTAS -> [LIDS -> Nat \ {0}]]
       /\ \A d \in CTAS, p \in LIDS :
            pageFinished'[d][p] \in {pageFinished[d][p], pageFinished[d][p] + 1}
  <2>1. HandsOver(P, L, n, t, c, {lid}, {lid})
    BY <1>5, <1>11, <1>12 DEF HandsOver
  <2>2. pageFinished' = page_finish(c, n, {lid}) BY <1>2, <1>4
  <2> QED BY <1>1, <1>2, <1>5, <2>1, <2>2, HandedKept
<1>18. Kept(P, M)'
  <2>1. \A d \in CTAS : L[n].finished[d] \subseteq t.finished[d]
    BY <1>6, <1>12 DEF Shaped, ProgressShaped
  <2>2. Writes(P, L, n, t, c, {})
    BY <1>2, <1>12, <1>17, <2>1 DEF Writes
  <2> QED BY <1>1, <1>2, <1>5, <1>13, <2>2, KeptKept
<1>19. Loading(P, M)'
  <2>1. t.loading = L[n].loading \cup {} BY <1>12
  <2>2. loading' = loading \cup {LoadOf(P, n, x) : x \in {}} BY <1>2
  <2> QED BY <1>1, <1>2, <1>5, <2>1, <2>2, LoadingGrows DEF Counted
<1>20. Queued(P, M, K)'
  BY <1>1, <1>2, <1>5, <1>12, QueueSame DEF Counted
<1>21. Counted' /\ Windowed' /\ PageShaped'
  <2>1. Instructions' = Instructions BY <1>2, SameProgram
  <2>2. passed' \in [CTAS -> SUBSET LIDS] BY <1>1, <1>2 DEF Counted
  <2>3. Counted' BY <1>1, <1>2, <1>17, <2>1, <2>2 DEF Counted
  <2>4. Windowed' BY <1>1, <1>2 DEF Windowed
  <2>5. PageShaped' BY <1>1, <1>2, <2>1 DEF PageShaped
  <2> QED BY <2>3, <2>4, <2>5
<1>22. HInv(P, M, K)'
  BY <1>13, <1>14, <1>16, <1>17, <1>18, <1>19, <1>20, <1>21 DEF HInv
<1> QED BY <1>22

\* A warp leaves an instruction without a step.
LEMMA RetireKeeps ==
  ASSUME SoundPrograms, NEW P, NEW L, NEW K, HInv(P, L, K),
         NEW c \in CTAS, NEW w \in WARPS, Retire(c, w)
  PROVE  \E M : HInv(P, M, K)'
<1>1. /\ Counted /\ Windowed /\ RingShaped /\ PageShaped
      /\ Local(L) /\ Aligned(L) /\ Ordered(P) /\ Handed(P, L) /\ Kept(P, L)
      /\ Loading(P, L) /\ Queued(P, L, K)
  BY DEF HInv
<1>2. /\ Arrived(c, w) /\ at[c][w] = Len(Script(c, w))
      /\ retired' = [retired EXCEPT ![c][w] = @ + 1] /\ at' = [at EXCEPT ![c][w] = 0]
      /\ passed' = IF w = "loader" THEN [passed EXCEPT ![c] = {}] ELSE passed
      /\ program' = program /\ issued' = issued /\ order' = order
      /\ semaphore' = semaphore /\ tensorFinished' = tensorFinished
      /\ pageFinished' = pageFinished
      /\ page' = page /\ loading' = loading /\ mmas' = mmas
  BY DEF Retire, contentVars
<1>3. w = "loader" => Waiting(c) = {}
  BY DEF Retire, LanesDone
<1>4. PICK n : n = retired[c][w] OBVIOUS
<1>5. /\ n \in Numbers /\ n \in Nat /\ \A d \in CTAS : issued[d] > n
      /\ ~L[n].done[c][w] /\ L[n].at[c][w] = at[c][w]
  <2>1. ArrivedAt(P, L, c, w, n) BY <1>1, <1>2, <1>4, ArrivedFacts
  <2> QED BY <2>1 DEF ArrivedAt
<1>6. Sound(Ins(n)) /\ InTurn(Ins(n), L[n]) /\ Shaped(L[n])
  BY <1>1, <1>5, InstructionFacts, AllowedInTurn DEF Counted, Local
<1>7. PICK t : t = Retired(L[n], c, w) OBVIOUS
<1>8. CanRetire(Ins(n), L[n], c, w)
  <2>1. Script(c, w) = Ins(n)[c].script[w] BY <1>4 DEF Script, Instruction, Ins
  <2>2. ASSUME w = "loader" PROVE Awaited(Ins(n)[c].lanes, L[n].passed[c]) = {}
    <3>1. Waiting(c) = Awaited(Ins(n)[c].lanes, passed[c])
      BY <1>4, <2>2 DEF Waiting, Instruction, Ins
    <3>2. L[n].passed[c] = passed[c]
      <4>1. Tracks(L[n], n) BY <1>1, <1>5 DEF Aligned
      <4> QED BY <1>4, <2>2, <4>1 DEF Tracks
    <3> QED BY <1>3, <2>2, <3>1, <3>2
  <2> QED BY <1>2, <1>5, <2>1, <2>2 DEF CanRetire
<1>9. Goes(Ins(n), L[n], t) BY <1>7, <1>8 DEF Goes
<1>10. /\ t.passed = [L[n].passed EXCEPT ![c] = IF w = "loader" THEN {} ELSE @]
       /\ t.at = [L[n].at EXCEPT ![c][w] = 0]
       /\ t.done = [L[n].done EXCEPT ![c][w] = TRUE]
       /\ t.given = L[n].given /\ t.finished = L[n].finished
       /\ t.semaphore = L[n].semaphore
       /\ t.contents = L[n].contents /\ t.loading = L[n].loading
       /\ t.mmas = L[n].mmas /\ t.multiplied = L[n].multiplied
  BY <1>6, <1>7 DEF Shaped, Fields, FIELDS, Retired
<1> DEFINE M == Put(L, n, t)
<1>11. Shaped(t) /\ Local(M)' /\ Ordered(P)'
  BY <1>1, <1>2, <1>5, <1>9, GoesOn
<1>12. RingShaped' /\ \A m \in Numbers : Signals(M[m], m)'
  BY <1>1, <1>2, <1>5, <1>10, Unsignalled
<1>13. PICK rest : rest = IF w = "loader" THEN {} ELSE passed[c] OBVIOUS
<1>14. Moves(L, n, t, c, w, n + 1, 0, rest)
  <2>1. ProgressShaped(L[n]) /\ passed \in [CTAS -> SUBSET LIDS]
    BY <1>1, <1>6 DEF Shaped, Counted
  <2>2. \A d \in CTAS, v \in WARPS :
          IF d = c /\ v = w THEN t.done[d][v] <=> n + 1 = n + 1
          ELSE t.done[d][v] <=> L[n].done[d][v]
    <3>1. SUFFICES ASSUME NEW d \in CTAS, NEW v \in WARPS
                   PROVE  IF d = c /\ v = w THEN t.done[d][v]
                          ELSE t.done[d][v] <=> L[n].done[d][v]
      OBVIOUS
    <3> DEFINE old == L[n].done new == t.done
    <3>2. old \in [CTAS -> [WARPS -> BOOLEAN]] /\ new = [old EXCEPT ![c][w] = TRUE]
      BY <1>10, <2>1 DEF ProgressShaped
    <3> HIDE DEF old, new
    <3>3. new[d] = IF d = c THEN [old[c] EXCEPT ![w] = TRUE] ELSE old[d]
      BY <3>2, Zenon
    <3>4. IF d = c /\ v = w THEN new[d][v] ELSE new[d][v] = old[d][v]
      BY <3>2, <3>3, Zenon
    <3>5. IF d = c /\ v = w THEN new[d][v] ELSE new[d][v] <=> old[d][v]
      BY <3>4
    <3> QED BY <3>5 DEF old, new
  <2>3. \A d \in CTAS : t.passed[d] = IF d = c /\ w = "loader" THEN rest ELSE L[n].passed[d]
    BY <1>10, <1>13, <2>1 DEF ProgressShaped
  <2>4. rest \subseteq LIDS BY <1>13, <2>1
  <2>5. retired' = [retired EXCEPT ![c][w] = n + 1] BY <1>2, <1>4
  <2>6. passed' = IF w = "loader" THEN [passed EXCEPT ![c] = rest] ELSE passed
    BY <1>2, <1>13
  <2>7. w = "loader" /\ n + 1 = n + 1 => rest = {} BY <1>13
  <2>8. n + 1 # n BY <1>5
  <2> QED BY <1>2, <1>10, <2>2, <2>3, <2>4, <2>5, <2>6, <2>7, <2>8 DEF Moves
<1>15. /\ retired' \in [CTAS -> [WARPS -> 0 .. Len(Instructions)]]
       /\ at' \in [CTAS -> [WARPS -> Nat]] /\ passed' \in [CTAS -> SUBSET LIDS]
       /\ Windowed' /\ \A m \in Numbers : Tracks(M[m], m)'
  BY <1>1, <1>2, <1>4, <1>5, <1>14, WarpMoves
<1>16. Aligned(M)'
  BY <1>1, <1>2, <1>5, <1>9, <1>12, <1>15, GoesOn
<1>17. Handed(P, M)'
  BY <1>1, <1>2, <1>5, <1>10, Unhanded
<1>18. Kept(P, M)'
  <2>1. Writes(P, L, n, t, c, {}) BY <1>2, <1>10 DEF Writes
  <2> QED BY <1>1, <1>2, <1>5, <1>11, <2>1, KeptKept
<1>19. Loading(P, M)'
  <2>1. t.loading = L[n].loading \cup {} BY <1>10
  <2>2. loading' = loading \cup {LoadOf(P, n, x) : x \in {}} BY <1>2
  <2> QED BY <1>1, <1>2, <1>5, <2>1, <2>2, LoadingGrows DEF Counted
<1>20. Queued(P, M, K)'
  BY <1>1, <1>2, <1>5, <1>10, QueueSame DEF Counted
<1>21. Counted' /\ PageShaped'
  <2>1. Instructions' = Instructions BY <1>2, SameProgram
  <2>2. Counted' BY <1>1, <1>2, <1>15, <2>1 DEF Counted
  <2>3. PageShaped' BY <1>1, <1>2, <2>1 DEF PageShaped
  <2> QED BY <2>2, <2>3
<1>22. HInv(P, M, K)'
  BY <1>11, <1>12, <1>15, <1>16, <1>17, <1>18, <1>19, <1>20, <1>21 DEF HInv
<1> QED BY <1>22

\* An instruction that has started has been given to every CTA.
LEMMA StartedIssued ==
  ASSUME SoundPrograms, Counted, NEW L, Aligned(L), NEW n \in Numbers,
         L[n] # Start(Ins(n))
  PROVE  \A d \in CTAS : issued[d] > n
<1>1. \A d \in CTAS : ~(issued[d] <= n) BY DEF Aligned
<1>2. n \in Nat /\ \A d \in CTAS : issued[d] \in Nat
  BY InstructionFacts DEF Counted, Numbers
<1> QED BY <1>1, <1>2

\* A load arrives in pages that its instruction still owns.
LEMMA DeliverKeeps ==
  ASSUME SoundPrograms, NEW P, NEW L, NEW K, HInv(P, L, K),
         NEW y \in loading, Deliver(y)
  PROVE  \E M : HInv(P, M, K)'
<1>1. /\ Counted /\ Windowed /\ RingShaped /\ PageShaped
      /\ Local(L) /\ Aligned(L) /\ Ordered(P) /\ Handed(P, L) /\ Kept(P, L)
      /\ Loading(P, L) /\ Queued(P, L, K)
  BY DEF HInv
<1>2. /\ program' = program /\ issued' = issued /\ order' = order /\ retired' = retired
      /\ at' = at /\ passed' = passed /\ pageFinished' = pageFinished
      /\ tensorFinished' = tensorFinished /\ mmas' = mmas
      /\ loading' = loading \ {y}
      /\ semaphore' = AfterSignalling(y.n, {y.signal})
      /\ page' = [page EXCEPT ![y.cta] =
                    [p \in LIDS |-> [h \in PARTS |->
                       IF <<p, h>> \in y.places THEN Content(y.n, y.tag)
                       ELSE @[p][h]]]]
  BY DEF Deliver, progressVars
<1>3. PICK n \in Numbers : \E x \in L[n].loading : y = LoadOf(P, n, x)
  BY <1>1 DEF Loading
<1>4. PICK x \in L[n].loading : y = LoadOf(P, n, x) BY <1>3
<1>5. /\ Sound(Ins(n)) /\ InTurn(Ins(n), L[n]) /\ Shaped(L[n]) /\ n \in Nat
      /\ LoadShaped(x) /\ x.cta \in CTAS
  BY <1>1, InstructionFacts, AllowedInTurn DEF Counted, Local, Numbers, Shaped, LoadShaped
<1>6. L[n] # Start(Ins(n)) BY DEF Start
<1>7. \A d \in CTAS : issued[d] > n BY <1>1, <1>6, StartedIssued
<1>8. PICK t : t = Delivered(Ins(n), L[n], x) OBVIOUS
<1>9. Goes(Ins(n), L[n], t) BY <1>8 DEF Goes
<1>10. /\ t.semaphore = SignalAll(Ins(n), L[n], {x.signal})
       /\ t.contents =
           {f \in L[n].contents : f.cta = x.cta => <<f.lid, f.part>> \notin x.places}
           \cup {[cta |-> x.cta, lid |-> r[1], part |-> r[2], tag |-> x.tag] :
                   r \in x.places}
       /\ t.loading = L[n].loading \ {x}
       /\ t.passed = L[n].passed /\ t.at = L[n].at /\ t.done = L[n].done
       /\ t.given = L[n].given /\ t.finished = L[n].finished
       /\ t.mmas = L[n].mmas /\ t.multiplied = L[n].multiplied
  BY <1>5, <1>8 DEF Shaped, Fields, FIELDS, Delivered
<1>11. /\ y.n = n /\ y.cta = x.cta /\ y.tag = x.tag /\ y.signal = x.signal
       /\ y.places = {<<P[n][r[1]], r[2]>> : r \in x.places}
  BY <1>4 DEF LoadOf
<1>12. \A m \in Nat : Permutation(P[m]) BY <1>1 DEF Ordered
<1> DEFINE M == Put(L, n, t)
<1>13. Shaped(t) /\ InTurn(Ins(n), t) /\ Local(M)' /\ Ordered(P)'
  BY <1>1, <1>2, <1>7, <1>9, GoesOn
<1>14. RingShaped' /\ \A m \in Numbers : Signals(M[m], m)'
  <2>1. x.signal.cta \in CTAS /\ ~Behind(L[n], x.signal.cta)
    BY <1>5 DEF LoadShaped, InTurn
  <2>2. Signalling(L, n, t, {x.signal}) BY <1>10, <2>1 DEF Signalling
  <2>3. semaphore' = AfterSignalling(n, {x.signal}) BY <1>2, <1>11
  <2> QED BY <1>1, <1>2, <1>7, <1>13, <2>2, <2>3, SignalsKept
<1>15. Windowed' /\ \A m \in Numbers : Tracks(M[m], m)'
  BY <1>1, <1>2, <1>10, Unmoved
<1>16. Aligned(M)'
  BY <1>1, <1>2, <1>7, <1>9, <1>14, <1>15, GoesOn
<1>17. Handed(P, M)'
  BY <1>1, <1>2, <1>10, Unhanded
<1>18. \A d \in CTAS, p \in LIDS, h \in PARTS :
         page'[d][p][h] = IF d = x.cta /\ <<p, h>> \in y.places THEN Content(n, x.tag)
                          ELSE page[d][p][h]
  <2>1. DOMAIN page = CTAS BY <1>1 DEF PageShaped
  <2>2. \A d \in CTAS : page'[d] = IF d = x.cta
          THEN [p \in LIDS |-> [h \in PARTS |->
                  IF <<p, h>> \in y.places THEN Content(n, x.tag) ELSE page[d][p][h]]]
          ELSE page[d]
    BY <1>2, <1>11, <2>1
  <2>3. SUFFICES ASSUME NEW d \in CTAS, NEW p \in LIDS, NEW h \in PARTS
                 PROVE  page'[d][p][h] =
                          IF d = x.cta /\ <<p, h>> \in y.places THEN Content(n, x.tag)
                          ELSE page[d][p][h]
    OBVIOUS
  <2>4. CASE d = x.cta
    <3>1. page'[d] = [q \in LIDS |-> [g \in PARTS |->
            IF <<q, g>> \in y.places THEN Content(n, x.tag) ELSE page[d][q][g]]]
      BY <2>2, <2>4
    <3> QED BY <2>4, <3>1
  <2>5. CASE d # x.cta BY <2>2, <2>5
  <2> QED BY <2>4, <2>5
<1>19. Kept(P, M)'
  <2>1. ASSUME NEW r \in x.places
        PROVE  r \in LIDS \X PARTS /\ pageFinished[x.cta][P[n][r[1]]] = n + 1
    <3>1. r \in LIDS \X PARTS BY <1>5 DEF LoadShaped
    <3>2. Owns(L[n], x.cta, r[1]) BY <1>5 DEF InTurn
    <3> QED BY <1>1, <1>5, <3>1, <3>2, OwnedPhase
  <2>2. ASSUME NEW d \in CTAS, NEW p \in LIDS, NEW h \in PARTS
        PROVE  \/ page'[d][p][h] = page[d][p][h]
               \/ d = x.cta /\ \E r \in x.places : p = P[n][r[1]] /\ h = r[2]
    <3>1. CASE d = x.cta /\ <<p, h>> \in y.places BY <1>11, <3>1
    <3>2. CASE ~(d = x.cta /\ <<p, h>> \in y.places) BY <1>18, <3>2
    <3> QED BY <3>1, <3>2
  <2>3. ASSUME NEW f \in t.contents
        PROVE  \/ /\ f \in L[n].contents
                  /\ f.cta = x.cta => <<f.lid, f.part>> \notin x.places
               \/ page'[f.cta][P[n][f.lid]][f.part] = Content(n, f.tag)
    <3>1. CASE \E r \in x.places :
                 f = [cta |-> x.cta, lid |-> r[1], part |-> r[2], tag |-> x.tag]
      <4>1. PICK r \in x.places :
              f = [cta |-> x.cta, lid |-> r[1], part |-> r[2], tag |-> x.tag]
        BY <3>1
      <4>2. <<P[n][r[1]], r[2]>> \in y.places BY <1>11
      <4>3. r[1] \in LIDS /\ r[2] \in PARTS BY <2>1
      <4>4. P[n][r[1]] \in LIDS BY <1>5, <1>12, <4>3 DEF Permutation
      <4>5. page'[x.cta][P[n][r[1]]][r[2]] = Content(n, x.tag)
        BY <1>5, <1>18, <4>2, <4>3, <4>4
      <4> QED BY <4>1, <4>5
    <3> QED BY <1>10, <3>1
  <2>4. Writes(P, L, n, t, x.cta, x.places)
    BY <1>10, <2>1, <2>2, <2>3 DEF Writes
  <2> QED BY <1>1, <1>2, <1>13, <2>4, KeptKept
<1>20. Loading(P, M)'
  <2>1. loading' = loading \ {LoadOf(P, n, x)} BY <1>2, <1>4
  <2>2. Permutation(P[n]) BY <1>5, <1>12
  <2> QED BY <1>1, <1>2, <1>10, <2>1, <2>2, LoadingShrinks DEF Counted
<1>21. Queued(P, M, K)'
  BY <1>1, <1>2, <1>10, QueueSame DEF Counted
<1>22. Counted' /\ PageShaped'
  <2>1. Instructions' = Instructions BY <1>2, SameProgram
  <2>2. Counted' BY <1>1, <1>2, <2>1 DEF Counted
  <2>3. page' = [d \in CTAS |-> [p \in LIDS |-> [h \in PARTS |-> page'[d][p][h]]]]
    <3>1. DOMAIN page = CTAS /\ \A d \in CTAS :
            page[d] = [p \in LIDS |-> [h \in PARTS |-> page[d][p][h]]]
      BY <1>1 DEF PageShaped
    <3>2. page' = [d \in CTAS |-> page'[d]] BY <1>2, <3>1
    <3>3. \A d \in CTAS : page'[d] = [p \in LIDS |-> [h \in PARTS |-> page'[d][p][h]]]
      <4>1. SUFFICES ASSUME NEW d \in CTAS
                     PROVE page'[d] = [p \in LIDS |-> [h \in PARTS |-> page'[d][p][h]]]
        OBVIOUS
      <4>2. CASE d # y.cta BY <1>2, <3>1, <4>2
      <4>3. CASE d = y.cta
        <5>1. page'[d] = [p \in LIDS |-> [h \in PARTS |->
                IF <<p, h>> \in y.places THEN Content(y.n, y.tag) ELSE page[d][p][h]]]
          BY <1>2, <3>1, <4>3
        <5> QED BY <5>1
      <4> QED BY <4>2, <4>3
    <3> QED BY <3>2, <3>3
  <2>4. ASSUME NEW d \in CTAS, NEW p \in LIDS, NEW h \in PARTS
        PROVE  page'[d][p][h][1] \in -1 .. Len(Instructions) - 1
    <3>1. page[d][p][h][1] \in -1 .. Len(Instructions) - 1 BY <1>1 DEF PageShaped
    <3>2. n \in -1 .. Len(Instructions) - 1
      BY <1>1, InstructionFacts DEF Numbers, Counted
    <3>3. Content(n, x.tag)[1] = n BY DEF Content
    <3> QED BY <1>18, <3>1, <3>2, <3>3
  <2>5. PageShaped' BY <2>1, <2>3, <2>4 DEF PageShaped
  <2> QED BY <2>2, <2>5
<1>23. HInv(P, M, K)'
  BY <1>13, <1>14, <1>15, <1>16, <1>17, <1>19, <1>20, <1>21, <1>22 DEF HInv
<1> QED BY <1>23

---------------------------------------------------------------------------
\* A multiplication completes and signals CTAs that are not behind yet.
LEMMA MultipliedKeeps ==
  ASSUME SoundPrograms, NEW P, NEW L, NEW K, HInv(P, L, K), Multiplied
  PROVE  \E M, K2 : HInv(P, M, K2)'
<1>1. /\ Counted /\ Windowed /\ RingShaped /\ PageShaped
      /\ Local(L) /\ Aligned(L) /\ Ordered(P) /\ Handed(P, L) /\ Kept(P, L)
      /\ Loading(P, L) /\ Queued(P, L, K)
  BY DEF HInv
<1>2. PICK y : y = Head(mmas) OBVIOUS
<1>3. /\ program' = program /\ issued' = issued /\ order' = order /\ retired' = retired
      /\ at' = at /\ passed' = passed /\ pageFinished' = pageFinished
      /\ tensorFinished' = tensorFinished /\ page' = page /\ loading' = loading
      /\ semaphore' = AfterSignalling(y.n, y.signals)
      /\ mmas # << >> /\ mmas' = Tail(mmas)
  BY <1>2 DEF Multiplied, progressVars
<1>4. QueueOf(mmas, Numbers, P, L, K) BY <1>1 DEF Queued
<1>5. PICK n \in Numbers : n = y.n
  <2>1. Len(mmas) \in Nat /\ DOMAIN mmas = 1 .. Len(mmas) /\ IsSequence(mmas)
    BY <1>4, SequenceLength DEF QueueOf
  <2>2. Head(mmas) = mmas[1] /\ 1 \in DOMAIN mmas
    <3> DEFINE Q == {mmas[i] : i \in DOMAIN mmas}
    <3>1. mmas \in Seq(Q) BY <2>1 DEF IsSequence
    <3> HIDE DEF Q
    <3> QED BY <1>3, <2>1, <3>1
  <2>3. mmas[1].n \in Numbers BY <1>4, <2>2 DEF QueueOf
  <2> QED BY <1>2, <2>2, <2>3
<1>6. /\ Sound(Ins(n)) /\ InTurn(Ins(n), L[n]) /\ Shaped(L[n]) /\ n \in Nat
  BY <1>1, InstructionFacts, AllowedInTurn DEF Counted, Local, Numbers
<1>7. PICK v \in Nat : v = L[n].multiplied
  <2>1. QueueShaped(L[n]) BY <1>6 DEF Shaped
  <2> QED BY <2>1 DEF QueueShaped
<1>8. Len(L[n].mmas) \in Nat
  <2>1. QueueShaped(L[n]) BY <1>6 DEF Shaped
  <2> QED BY <2>1, SequenceLength DEF QueueShaped
<1>9. PICK t : t = MultipliedOnce(Ins(n), L[n]) OBVIOUS
<1>10. PICK x : x = L[n].mmas[v + 1] OBVIOUS
<1>11. /\ t.semaphore = SignalAll(Ins(n), L[n], x.signals)
       /\ t.multiplied = v + 1
       /\ t.contents = L[n].contents /\ t.loading = L[n].loading
       /\ t.passed = L[n].passed /\ t.at = L[n].at /\ t.done = L[n].done
       /\ t.given = L[n].given /\ t.finished = L[n].finished /\ t.mmas = L[n].mmas
  BY <1>6, <1>7, <1>9, <1>10 DEF Shaped, Fields, FIELDS, MultipliedOnce
<1> DEFINE M == Put(L, n, t)
<1>12. /\ v + 1 <= Len(L[n].mmas) /\ y = MmaOf(P, n, x)
       /\ \E K2 : QueueOf(Tail(mmas), Numbers, P, M, K2)
  <2>0. program \in DOMAIN PROGRAMS BY <1>1 DEF Counted
  <2>1. M[n] = t /\ \A m \in Numbers : m # n => M[m] = L[m]
    BY <2>0, PutFacts
  <2>2. M[n].mmas = L[n].mmas /\ M[n].multiplied = v + 1 BY <1>11, <2>1
  <2>3. L[n].multiplied = v BY <1>7
  <2>4. n = Head(mmas).n BY <1>2, <1>5
  <2> HIDE DEF M
  <2>5. v + 1 <= Len(L[n].mmas)
    BY <1>3, <1>4, <1>8, <2>1, <2>2, <2>3, <2>4, QueueWithoutHead
  <2>6. Head(mmas) = MmaOf(P, n, L[n].mmas[v + 1])
    BY <1>3, <1>4, <1>8, <2>1, <2>2, <2>3, <2>4, QueueWithoutHead
  <2>7. \E K2 : QueueOf(Tail(mmas), Numbers, P, M, K2)
    BY <1>3, <1>4, <1>8, <2>1, <2>2, <2>3, <2>4, QueueWithoutHead
  <2> QED BY <1>2, <1>10, <2>5, <2>6, <2>7
<1>13. PICK K2 : QueueOf(Tail(mmas), Numbers, P, M, K2) BY <1>12
<1>14. CanMultiply(L[n]) /\ Goes(Ins(n), L[n], t)
  BY <1>7, <1>8, <1>9, <1>12 DEF CanMultiply, Goes
<1>15. \A d \in CTAS : issued[d] > n
  <2>1. L[n] # Start(Ins(n))
    <3>1. Start(Ins(n)).mmas = << >> BY DEF Start
    <3>2. Len(<< >>) = 0 OBVIOUS
    <3>3. L[n].mmas # << >> BY <1>12, <3>2
    <3> QED BY <3>1, <3>3
  <2> QED BY <1>1, <2>1, StartedIssued
<1>16. Shaped(t) /\ InTurn(Ins(n), t) /\ Local(M)' /\ Ordered(P)'
  BY <1>1, <1>3, <1>14, <1>15, GoesOn
<1>17. RingShaped' /\ \A m \in Numbers : Signals(M[m], m)'
  <2>1. y.signals = x.signals BY <1>12 DEF MmaOf
  <2>2. v + 1 \in 1 .. Len(L[n].mmas) /\ v + 1 \in v + 1 .. Len(L[n].mmas)
    BY <1>8, <1>12
  <2>3. x \in Multiplying(L[n]) BY <1>7, <1>10, <2>2 DEF Multiplying
  <2>4. \A g \in x.signals : ~Behind(L[n], g.cta) BY <1>6, <2>3 DEF InTurn
  <2>5. MmaShaped(x)
    <3>1. QueueShaped(L[n]) BY <1>6 DEF Shaped
    <3>2. v + 1 \in DOMAIN L[n].mmas BY <2>2, <3>1, SequenceLength DEF QueueShaped
    <3> QED BY <1>10, <3>1, <3>2 DEF QueueShaped
  <2>6. Signalling(L, n, t, x.signals) BY <1>11, <2>4, <2>5 DEF Signalling, MmaShaped
  <2>7. semaphore' = AfterSignalling(n, x.signals) BY <1>3, <1>5, <2>1
  <2> QED BY <1>1, <1>3, <1>15, <1>16, <2>6, <2>7, SignalsKept
<1>18. Windowed' /\ \A m \in Numbers : Tracks(M[m], m)'
  BY <1>1, <1>3, <1>11, Unmoved
<1>19. Aligned(M)'
  BY <1>1, <1>3, <1>14, <1>15, <1>17, <1>18, GoesOn
<1>20. Handed(P, M)'
  BY <1>1, <1>3, <1>11, Unhanded
<1>21. Kept(P, M)'
  <2>1. Writes(P, L, n, t, 0, {}) BY <1>3, <1>11 DEF Writes
  <2> QED BY <1>1, <1>3, <1>16, <2>1, KeptKept
<1>22. Loading(P, M)'
  <2>1. t.loading = L[n].loading \cup {} BY <1>11
  <2>2. loading' = loading \cup {LoadOf(P, n, z) : z \in {}} BY <1>3
  <2> QED BY <1>1, <1>3, <2>1, <2>2, LoadingGrows DEF Counted
<1>23. Queued(P, M, K2)'
  <2>1. Numbers' = Numbers BY <1>3, SameProgram
  <2> QED BY <1>3, <1>13, <2>1 DEF Queued
<1>24. Counted' /\ PageShaped'
  <2>1. Instructions' = Instructions BY <1>3, SameProgram
  <2>2. Counted' BY <1>1, <1>3, <2>1 DEF Counted
  <2>3. PageShaped' BY <1>1, <1>3, <2>1 DEF PageShaped
  <2> QED BY <2>2, <2>3
<1>25. HInv(P, M, K2)'
  BY <1>16, <1>17, <1>18, <1>19, <1>20, <1>21, <1>22, <1>23, <1>24 DEF HInv
<1> QED BY <1>25

\* What a step leaves in the pages.
Leaves(new, f, c, n, s) ==
  /\ new = [d \in CTAS |-> [p \in LIDS |-> [h \in PARTS |-> new[d][p][h]]]]
  /\ \A d \in CTAS, p \in LIDS, h \in PARTS :
       /\ \/ new[d][p][h] = page[d][p][h]
          \/ d = c /\ \E r \in TornBy(s) \cup PutBy(s) : p = f[r[1]] /\ h = r[2]
       /\ new[d][p][h][1] \in {page[d][p][h][1], -1, n}
  /\ \A x \in s.puts : <<x.lid, x.part>> \notin TornBy(s) =>
       new[c][f[x.lid]][x.part] = Content(n, x.tag)

\* AfterStep changes the regions that the step tears or writes.
LEMMA StepWrites ==
  ASSUME PageShaped, NEW f, Permutation(f), NEW c \in CTAS, NEW n,
         order[c][Slot(n)] = f, NEW s, WellFormedStep(s),
         \A x, y \in s.puts : x.lid = y.lid /\ x.part = y.part => x = y,
         NEW new, new = AfterStep(c, n, s)
  PROVE  Leaves(new, f, c, n, s)
<1> USE DEF Leaves
<1> DEFINE torn == {<<f[r[1]], r[2]>> : r \in TornBy(s)}
           put == {<<f[r[1]], r[2]>> : r \in PutBy(s)}
           Tag(p, h) == (CHOOSE x \in s.puts : f[x.lid] = p /\ x.part = h).tag
           Now(p, h) == IF <<p, h>> \in torn THEN TORN
                        ELSE IF <<p, h>> \in put THEN Content(n, Tag(p, h))
                        ELSE page[c][p][h]
<1>1. page = [d \in CTAS |-> page[d]] /\ \A d \in CTAS :
        page[d] = [p \in LIDS |-> [h \in PARTS |-> page[d][p][h]]]
  BY DEF PageShaped
<1>2. CASE s.puts = {} /\ s.loads = {}
  <2>1. new = page BY <1>2 DEF AfterStep
  <2> QED BY <1>1, <1>2, <2>1
<1>3. CASE ~(s.puts = {} /\ s.loads = {})
  <2> DEFINE Row(p) == [h \in PARTS |-> Now(p, h)]
             Flat(g) == g = [h \in PARTS |-> g[h]]
  <2>1. new = [page EXCEPT ![c] = [p \in LIDS |-> Row(p)]]
    BY <1>3 DEF AfterStep, lid_to_pid
  <2>2. \A p, h : h \in PARTS => Row(p)[h] = Now(p, h) BY Zenon
  <2>3. \A p : Flat(Row(p)) OBVIOUS
  <2> HIDE DEF torn, put, Tag, Now, Row, Flat
  <2>4. /\ new = [d \in CTAS |-> new[d]]
        /\ \A d \in CTAS : d # c => new[d] = page[d]
        /\ new[c] = [p \in LIDS |-> Row(p)]
    BY <1>1, <2>1
  <2>7. \A p \in LIDS, h \in PARTS : new[c][p][h] = Now(p, h) BY <2>2, <2>4
  <2> DEFINE Paged(g) == g = [p \in LIDS |-> g[p]] /\ \A p \in LIDS : Flat(g[p])
  <2>8. \A d \in CTAS : Paged(new[d])
    <3>1. Paged(new[c]) BY <2>3, <2>4
    <3>2. \A d \in CTAS : Paged(page[d]) BY <1>1 DEF Flat
    <3> HIDE DEF Paged
    <3> QED BY <2>4, <3>1, <3>2
  <2>9. new = [d \in CTAS |-> [p \in LIDS |-> [h \in PARTS |-> new[d][p][h]]]]
    <3>1. \A d \in CTAS : new[d] = [p \in LIDS |-> [h \in PARTS |-> new[d][p][h]]]
      BY <2>8 DEF Flat
    <3> HIDE DEF Paged
    <3> QED BY <2>4, <3>1
  <2>5. ASSUME NEW x \in s.puts, <<x.lid, x.part>> \notin TornBy(s)
        PROVE  new[c][f[x.lid]][x.part] = Content(n, x.tag)
    <3>1. x.lid \in LIDS /\ x.part \in PARTS BY DEF WellFormedStep
    <3>2. f[x.lid] \in LIDS BY <3>1 DEF Permutation
    <3> USE DEF torn, put, Tag
    <3>3. <<f[x.lid], x.part>> \notin torn
      <4>1. SUFFICES ASSUME NEW r \in TornBy(s),
                            <<f[x.lid], x.part>> = <<f[r[1]], r[2]>>
                     PROVE  FALSE
        OBVIOUS
      <4>2. r \in LIDS \X PARTS BY DEF TornBy, WellFormedStep
      <4>3. x.lid = r[1] BY <3>1, <4>1, <4>2 DEF Permutation
      <4>4. r = <<x.lid, x.part>> BY <4>1, <4>2, <4>3
      <4> QED BY <2>5, <4>4
    <3>4. <<f[x.lid], x.part>> \in put
      <4>1. <<x.lid, x.part>> \in PutBy(s) BY DEF PutBy
      <4> QED BY <4>1
    <3>5. Tag(f[x.lid], x.part) = x.tag
      <4>1. \A y \in s.puts : f[y.lid] = f[x.lid] /\ y.part = x.part => y = x
        <5>1. \A y \in s.puts : y.lid \in LIDS BY DEF WellFormedStep
        <5> QED BY <3>1, <5>1 DEF Permutation
      <4>2. (CHOOSE y \in s.puts : f[y.lid] = f[x.lid] /\ y.part = x.part) = x
        BY <4>1
      <4> QED BY <4>2
    <3> HIDE DEF torn, put, Tag
    <3>6. Now(f[x.lid], x.part) = Content(n, x.tag)
      BY <3>3, <3>4, <3>5 DEF Now
    <3> QED BY <2>7, <3>1, <3>2, <3>6
  <2> USE DEF torn, put
  <2>6. ASSUME NEW d \in CTAS, NEW p \in LIDS, NEW h \in PARTS
        PROVE  /\ \/ new[d][p][h] = page[d][p][h]
                  \/ d = c /\ \E r \in TornBy(s) \cup PutBy(s) : p = f[r[1]] /\ h = r[2]
               /\ new[d][p][h][1] \in {page[d][p][h][1], -1, n}
    <3>1. CASE d # c BY <2>4, <3>1
    <3>2. CASE d = c
      <4>1. new[d][p][h] = Now(p, h) BY <2>7, <3>2
      <4>2. CASE <<p, h>> \in torn
        <5>1. PICK r \in TornBy(s) : <<p, h>> = <<f[r[1]], r[2]>> BY <4>2
        <5>2. new[d][p][h] = <<-1, 0>> BY <4>1, <4>2 DEF Now, TORN
        <5> QED BY <3>2, <5>1, <5>2
      <4>3. CASE <<p, h>> \notin torn /\ <<p, h>> \in put
        <5>1. PICK r \in PutBy(s) : <<p, h>> = <<f[r[1]], r[2]>> BY <4>3
        <5>2. new[d][p][h] = <<n, Tag(p, h)>> BY <4>1, <4>3 DEF Now, Content
        <5> QED BY <3>2, <5>1, <5>2
      <4>4. CASE <<p, h>> \notin torn /\ <<p, h>> \notin put
        BY <3>2, <4>1, <4>4 DEF Now
      <4> QED BY <4>2, <4>3, <4>4
    <3> QED BY <3>1, <3>2
  <2> HIDE DEF torn, put
  <2> QED BY <2>5, <2>6, <2>9
<1> QED BY <1>2, <1>3

\* A warp takes a step: all that the step does is in its instruction's turn.
LEMMA AdvanceKeeps ==
  ASSUME SoundPrograms, NEW P, NEW L, NEW K, HInv(P, L, K),
         NEW c \in CTAS, NEW w \in WARPS, Advance(c, w)
  PROVE  \E M, K2 : HInv(P, M, K2)'
<1>1. /\ Counted /\ Windowed /\ RingShaped /\ PageShaped
      /\ Local(L) /\ Aligned(L) /\ Ordered(P) /\ Handed(P, L) /\ Kept(P, L)
      /\ Loading(P, L) /\ Queued(P, L, K)
  BY DEF HInv
<1>2. PICK n, s : n = retired[c][w] /\ s = NextStep(c, w) OBVIOUS
<1>3. /\ Running(c, w) /\ AfterAdvance(c, w)
      /\ \A lid \in s.pages : page_wait(c, n, lid)
      /\ \A wait \in s.waits : semaphore_wait(c, n, wait)
      /\ pageFinished' = page_finish(c, n, s.finishes)
      /\ tensorFinished' = IF s.tensorFinish THEN tensor_finish(c) ELSE tensorFinished
      /\ semaphore' = AfterSignalling(n, s.signals)
      /\ page' = AfterStep(c, n, s)
      /\ loading' = loading \cup {Load(c, n, x) : x \in LoadsOf(c, s)}
      /\ mmas' = mmas \o [i \in DOMAIN s.mmas |-> Mma(c, n, MmasOf(s)[i])]
      /\ program' = program /\ issued' = issued /\ order' = order /\ passed' = passed
  BY <1>2 DEF Advance
<1>4. /\ Arrived(c, w) /\ at[c][w] < Len(Script(c, w))
  BY <1>3 DEF Running
<1>5. /\ n \in Numbers /\ n \in Nat /\ \A d \in CTAS : issued[d] > n
      /\ order[c][Slot(n)] = P[n]
      /\ ~L[n].done[c][w] /\ L[n].at[c][w] = at[c][w]
      /\ L[n].semaphore[c] = semaphore[c][Slot(n)]
  <2>1. ArrivedAt(P, L, c, w, n) BY <1>1, <1>2, <1>4, ArrivedFacts
  <2> QED BY <2>1 DEF ArrivedAt
<1>6. /\ Sound(Ins(n)) /\ WellFormed(Ins(n)) /\ InTurn(Ins(n), L[n])
      /\ Shaped(L[n]) /\ ProgressShaped(L[n]) /\ Permutation(P[n])
  BY <1>1, <1>5, InstructionFacts, AllowedInTurn DEF Counted, Local, Shaped, Ordered
<1>7. Script(c, w) = Ins(n)[c].script[w] BY <1>2 DEF Script, Instruction, Ins
<1>8. s = At(Ins(n), L[n], c, w) /\ Inside(Ins(n), L[n], c, w)
  BY <1>2, <1>4, <1>5, <1>7 DEF NextStep, At, Inside
<1>9. CanAdvance(Ins(n), L[n], c, w)
  BY <1>3, <1>5, <1>8 DEF CanAdvance, semaphore_wait
<1>10. WellFormedStep(s) /\ Len(Ins(n)[c].script[w]) \in Nat
  BY <1>6, <1>8, StepForm
<1>11. PICK t : t = Advanced(Ins(n), L[n], c, w) OBVIOUS
<1>12. Goes(Ins(n), L[n], t) BY <1>9, <1>11 DEF Goes
<1>13. PICK last : last = IsLast(Ins(n), L[n], c, w) OBVIOUS
<1>14. /\ t.at = [L[n].at EXCEPT ![c][w] = IF last THEN 0 ELSE @ + 1]
       /\ t.done = [L[n].done EXCEPT ![c][w] = last]
       /\ t.passed = L[n].passed
       /\ t.semaphore = SignalAll(Ins(n), L[n], s.signals)
       /\ t.given = [L[n].given EXCEPT ![c] = @ \cup s.pages]
       /\ t.finished = [L[n].finished EXCEPT ![c] = @ \cup s.finishes]
       /\ t.contents = Written(L[n].contents, c, s)
       /\ t.loading = L[n].loading \cup LoadsOf(c, s)
       /\ t.mmas = L[n].mmas \o MmasOf(s)
       /\ t.multiplied = L[n].multiplied
  BY <1>8, <1>11, <1>13 DEF Advanced
<1>15. StepInTurn(Ins(n), L[n], c, w) BY <1>6, <1>9 DEF InTurn
<1>16. /\ s.finishes \subseteq (L[n].given[c] \cup s.pages) \ L[n].finished[c]
       /\ \A r \in TornBy(s) \cup PutBy(s) :
            r[1] \in (L[n].given[c] \cup s.pages) \ L[n].finished[c]
       /\ \A x, y \in s.puts : x.lid = y.lid /\ x.part = y.part => x = y
       /\ \A g \in s.signals : ~Behind(L[n], g.cta)
  BY <1>8, <1>15 DEF StepInTurn
<1>17. s.pages \subseteq LIDS /\ L[n].given[c] \subseteq LIDS
  BY <1>6, <1>10 DEF WellFormedStep, ProgressShaped
<1>18. ASSUME NEW lid \in (L[n].given[c] \cup s.pages) \ L[n].finished[c]
       PROVE  lid \in LIDS /\ pageFinished[c][P[n][lid]] = n + 1
  <2>1. lid \in LIDS BY <1>17
  <2>2. CASE lid \in L[n].given[c]
    <3>1. Owns(L[n], c, lid) BY <1>18, <2>2 DEF Owns
    <3> QED BY <1>1, <1>5, <2>1, <3>1, OwnedPhase
  <2>3. CASE lid \in s.pages
    <3>1. page_wait(c, n, lid) BY <1>3, <2>3
    <3>2. lid_to_pid(c, n, lid) = P[n][lid] BY <1>5 DEF lid_to_pid
    <3>3. issued[c] > n /\ lid \notin L[n].finished[c] BY <1>5, <1>18
    <3> QED BY <1>1, <1>5, <2>1, <3>1, <3>2, <3>3, PageWaitOver
  <2> QED BY <2>1, <2>2, <2>3
<1> DEFINE M == Put(L, n, t)
<1>19. Shaped(t) /\ InTurn(Ins(n), t) /\ Local(M)' /\ Ordered(P)'
  BY <1>1, <1>3, <1>5, <1>12, GoesOn
<1>20. RingShaped' /\ \A m \in Numbers : Signals(M[m], m)'
  <2>1. \A g \in s.signals : g.cta \in CTAS BY <1>10 DEF WellFormedStep
  <2>2. Signalling(L, n, t, s.signals) BY <1>14, <1>16, <2>1 DEF Signalling
  <2> QED BY <1>1, <1>3, <1>5, <1>19, <2>2, SignalsKept
<1>21. PICK k, a : k = (IF last THEN n + 1 ELSE n) /\ a = (IF last THEN 0 ELSE at[c][w] + 1)
  OBVIOUS
<1>22. last <=> w # "loader" /\ at[c][w] + 1 = Len(Script(c, w))
  BY <1>5, <1>7, <1>13 DEF IsLast
<1>23. Moves(L, n, t, c, w, k, a, passed[c])
  <2>1. /\ at \in [CTAS -> [WARPS -> Nat]] /\ passed \in [CTAS -> SUBSET LIDS]
        /\ retired \in [CTAS -> [WARPS -> 0 .. Len(Instructions)]]
    BY <1>1 DEF Counted
  <2>2. k \in {n, n + 1} /\ a \in Nat /\ (k = n + 1 => a = 0) /\ (k = n + 1 <=> last)
    BY <1>5, <1>21, <2>1
  <2>3. t.at = [L[n].at EXCEPT ![c][w] = a]
    <3>1. CASE last BY <1>14, <1>21, <3>1
    <3>2. CASE ~last
      <4>1. t.at = [L[n].at EXCEPT ![c][w] = L[n].at[c][w] + 1]
        BY <1>14, <3>2
      <4> QED BY <1>5, <1>21, <3>2, <4>1
    <3> QED BY <3>1, <3>2
  <2>4. ASSUME NEW d \in CTAS, NEW v \in WARPS
        PROVE  IF d = c /\ v = w THEN t.done[d][v] <=> k = n + 1
               ELSE t.done[d][v] <=> L[n].done[d][v]
    <3> DEFINE old == L[n].done new == t.done
    <3>1. old \in [CTAS -> [WARPS -> BOOLEAN]] /\ new = [old EXCEPT ![c][w] = last]
      BY <1>6, <1>14 DEF ProgressShaped
    <3> HIDE DEF old, new
    <3>2. new[d] = IF d = c THEN [old[c] EXCEPT ![w] = last] ELSE old[d]
      BY <3>1, Zenon
    <3>3. IF d = c /\ v = w THEN new[d][v] = last ELSE new[d][v] = old[d][v]
      BY <3>1, <3>2, Zenon
    <3>4. IF d = c /\ v = w THEN new[d][v] <=> last ELSE new[d][v] <=> old[d][v]
      BY <3>3
    <3> QED BY <2>2, <3>4 DEF old, new
  <2>5. \A d \in CTAS : t.passed[d] =
          IF d = c /\ w = "loader" THEN passed[c] ELSE L[n].passed[d]
    <3>1. w = "loader" => L[n].passed[c] = passed[c]
      <4>1. Tracks(L[n], n) BY <1>1, <1>5 DEF Aligned
      <4> QED BY <1>2, <4>1 DEF Tracks
    <3> QED BY <1>14, <3>1
  <2>6. retired' = [retired EXCEPT ![c][w] = k]
    <3>1. CASE last
      <4>1. retired' = [retired EXCEPT ![c][w] = @ + 1]
        BY <1>3, <1>22, <3>1 DEF AfterAdvance
      <4> QED BY <1>2, <1>21, <3>1, <4>1
    <3>2. CASE ~last
      <4>1. retired' = retired BY <1>3, <1>22, <3>2 DEF AfterAdvance
      <4>2. retired = [retired EXCEPT ![c][w] = retired[c][w]] BY <2>1
      <4> QED BY <1>2, <1>21, <3>2, <4>1, <4>2
    <3> QED BY <3>1, <3>2
  <2>7. at' = [at EXCEPT ![c][w] = a]
    <3>1. CASE last BY <1>3, <1>21, <1>22, <3>1 DEF AfterAdvance
    <3>2. CASE ~last
      <4>1. at' = [at EXCEPT ![c][w] = @ + 1] BY <1>3, <1>22, <3>2 DEF AfterAdvance
      <4> QED BY <1>21, <3>2, <4>1
    <3> QED BY <3>1, <3>2
  <2>8. passed' = IF w = "loader" THEN [passed EXCEPT ![c] = passed[c]] ELSE passed
    BY <1>3, <2>1
  <2>9. w = "loader" => k = n BY <1>21, <1>22
  <2>10. passed[c] \subseteq LIDS BY <2>1
  <2>11. n + 1 # n BY <1>5
  <2> QED BY <2>2, <2>3, <2>4, <2>5, <2>6, <2>7, <2>8, <2>9, <2>10, <2>11 DEF Moves
<1>24. /\ retired' \in [CTAS -> [WARPS -> 0 .. Len(Instructions)]]
       /\ at' \in [CTAS -> [WARPS -> Nat]] /\ passed' \in [CTAS -> SUBSET LIDS]
       /\ Windowed' /\ \A m \in Numbers : Tracks(M[m], m)'
  BY <1>1, <1>2, <1>3, <1>5, <1>23, WarpMoves
<1>25. Aligned(M)'
  BY <1>1, <1>3, <1>5, <1>12, <1>20, <1>24, GoesOn
<1>26. Handed(P, M)' /\ pageFinished' \in [CTAS -> [LIDS -> Nat \ {0}]]
  <2>1. s.finishes \subseteq LIDS BY <1>16, <1>17
  <2>2. \A lid \in s.finishes : pageFinished[c][P[n][lid]] = n + 1
    BY <1>16, <1>18
  <2>3. ASSUME NEW lid \in s.pages PROVE pageFinished[c][P[n][lid]] >= n + 1
    <3>1. lid \notin L[n].finished[c] BY <1>6, <1>8 DEF InTurn
    <3>2. pageFinished[c][P[n][lid]] = n + 1 BY <1>18, <3>1
    <3> QED BY <1>5, <3>2
  <2>4. HandsOver(P, L, n, t, c, s.finishes, s.pages)
    BY <1>14, <2>1, <2>2, <2>3 DEF HandsOver
  <2> QED BY <1>1, <1>3, <1>5, <2>4, HandedKept
<1>27. /\ page' = [d \in CTAS |-> [p \in LIDS |-> [h \in PARTS |-> page'[d][p][h]]]]
       /\ \A d \in CTAS, p \in LIDS, h \in PARTS :
            /\ \/ page'[d][p][h] = page[d][p][h]
               \/ d = c /\ \E r \in TornBy(s) \cup PutBy(s) : p = P[n][r[1]] /\ h = r[2]
            /\ page'[d][p][h][1] \in {page[d][p][h][1], -1, n}
       /\ \A x \in s.puts : <<x.lid, x.part>> \notin TornBy(s) =>
            page'[c][P[n][x.lid]][x.part] = Content(n, x.tag)
  <2>0. PICK f : f = P[n] OBVIOUS
  <2>1. PICK new : new = page' OBVIOUS
  <2>2. new = AfterStep(c, n, s) BY <1>3, <2>1
  <2>3. /\ PageShaped /\ Permutation(f) /\ order[c][Slot(n)] = f /\ WellFormedStep(s)
        /\ \A x, y \in s.puts : x.lid = y.lid /\ x.part = y.part => x = y
    BY <1>1, <1>5, <1>6, <1>10, <1>16, <2>0
  <2>4. Leaves(new, f, c, n, s) BY <2>2, <2>3, StepWrites
  <2>5. Leaves(page', P[n], c, n, s) BY <2>0, <2>1, <2>4
  <2> QED BY <2>5, Zenon DEF Leaves
<1>28. Kept(P, M)'
  <2> DEFINE W == TornBy(s) \cup PutBy(s)
  <2>1. ASSUME NEW r \in W
        PROVE  r \in LIDS \X PARTS /\ pageFinished[c][P[n][r[1]]] = n + 1
    <3>1. r \in LIDS \X PARTS BY <1>10 DEF TornBy, PutBy, WellFormedStep
    <3> QED BY <1>16, <1>18, <3>1
  <2>2. \A d \in CTAS : L[n].finished[d] \subseteq t.finished[d]
    BY <1>6, <1>14 DEF ProgressShaped
  <2>3. ASSUME NEW f \in t.contents
        PROVE  \/ f \in L[n].contents /\ (f.cta = c => <<f.lid, f.part>> \notin W)
               \/ page'[f.cta][P[n][f.lid]][f.part] = Content(n, f.tag)
    <3>1. CASE \E x \in s.puts : /\ f = [cta |-> c, lid |-> x.lid, part |-> x.part, tag |-> x.tag]
                                 /\ <<x.lid, x.part>> \notin TornBy(s)
      <4>1. PICK x \in s.puts :
              /\ f = [cta |-> c, lid |-> x.lid, part |-> x.part, tag |-> x.tag]
              /\ <<x.lid, x.part>> \notin TornBy(s)
        BY <3>1
      <4>2. page'[c][P[n][x.lid]][x.part] = Content(n, x.tag) BY <1>27, <4>1
      <4>3. f.cta = c /\ f.lid = x.lid /\ f.part = x.part /\ f.tag = x.tag BY <4>1
      <4> QED BY <4>2, <4>3
    <3>2. CASE f \in L[n].contents /\ (f.cta = c => <<f.lid, f.part>> \notin W)
      BY <3>2
    <3> QED BY <1>14, <3>1, <3>2 DEF Written
  <2>4. Writes(P, L, n, t, c, W)
    BY <1>27, <2>1, <2>2, <2>3 DEF Writes
  <2> QED BY <1>1, <1>3, <1>5, <1>19, <2>4, KeptKept
<1>29. Loading(P, M)'
  <2>1. \A x : Load(c, n, x) = LoadOf(P, n, x)
    BY <1>5 DEF Load, LoadOf, lid_to_pid
  <2>2. loading' = loading \cup {LoadOf(P, n, x) : x \in LoadsOf(c, s)}
    BY <1>3, <2>1
  <2> QED BY <1>1, <1>3, <1>5, <1>14, <2>2, LoadingGrows DEF Counted
<1>30. \E K2 : Queued(P, M, K2)'
  <2>1. \A x : Mma(c, n, x) = MmaOf(P, n, x)
    BY <1>5 DEF Mma, MmaOf, lid_to_pid
  <2>2. PICK new : new = MmasOf(s) OBVIOUS
  <2>3. DOMAIN new = DOMAIN s.mmas BY <2>2 DEF MmasOf
  <2>4. mmas' = mmas \o [i \in DOMAIN new |-> MmaOf(P, n, new[i])]
    BY <1>3, <2>1, <2>2, <2>3
  <2>5. IsSequence(new) BY <1>10, <2>2, MmasShaped
  <2>6. t.mmas = L[n].mmas \o new BY <1>14, <2>2
  <2> QED BY <1>1, <1>3, <1>5, <1>14, <2>4, <2>5, <2>6, QueueGrows DEF Counted
<1>31. PICK K2 : Queued(P, M, K2)' BY <1>30
<1>32. Counted' /\ PageShaped'
  <2>1. Instructions' = Instructions BY <1>3, SameProgram
  <2>2. tensorFinished' \in [CTAS -> Nat \ {0}]
    BY <1>1, <1>3 DEF Counted, tensor_finish
  <2>3. Counted' BY <1>1, <1>3, <1>24, <1>26, <2>1, <2>2 DEF Counted
  <2>4. ASSUME NEW d \in CTAS, NEW p \in LIDS, NEW h \in PARTS
        PROVE  page'[d][p][h][1] \in -1 .. Len(Instructions) - 1
    <3>1. page[d][p][h][1] \in -1 .. Len(Instructions) - 1 BY <1>1 DEF PageShaped
    <3>2. Len(Instructions) \in Nat BY <1>1, InstructionFacts DEF Counted
    <3>3. n \in -1 .. Len(Instructions) - 1 /\ -1 \in -1 .. Len(Instructions) - 1
      BY <1>5, <3>2 DEF Numbers
    <3>4. page'[d][p][h][1] \in {page[d][p][h][1], -1, n} BY <1>27
    <3> QED BY <3>1, <3>3, <3>4
  <2>5. PageShaped' BY <1>27, <2>1, <2>4 DEF PageShaped
  <2> QED BY <2>3, <2>5
<1>33. HInv(P, M, K2)'
  BY <1>19, <1>20, <1>24, <1>25, <1>26, <1>28, <1>29, <1>31, <1>32 DEF HInv
<1> QED BY <1>33

\* A release order is a permutation, and keeps page orders permutations.
LEMMA ReleasePermutation ==
  ASSUME NEW f, f \in [LIDS -> LIDS], {f[lid] : lid \in LIDS} = LIDS
  PROVE  Permutation(f)
<1>1. IsFiniteSet(LIDS)
  <2>1. 0 \in Int /\ NUM_PAGES - 1 \in Int BY ClusterAssumption
  <2> QED BY <2>1, FS_Interval DEF LIDS
<1>2. \A p \in LIDS : \E lid \in LIDS : f[lid] = p OBVIOUS
<1>3. f \in Surjection(LIDS, LIDS) BY <1>2 DEF Surjection
<1>4. f \in Injection(LIDS, LIDS) BY <1>1, <1>3, FS_SurjSameCardinalityImpliesInj
<1>5. \A lid, lid2 \in LIDS : f[lid] = f[lid2] => lid = lid2
  BY <1>4 DEF Injection, IsInjective
<1> QED BY <1>2, <1>5 DEF Permutation

\* Page orders stay permutations when one is put behind another.
LEMMA Composition ==
  ASSUME NEW f, NEW g, Permutation(f), Permutation(g)
  PROVE  Permutation([lid \in LIDS |-> f[g[lid]]])
<1> DEFINE h == [lid \in LIDS |-> f[g[lid]]]
<1>1. h \in [LIDS -> LIDS] BY DEF Permutation
<1>2. ASSUME NEW p \in LIDS PROVE \E lid \in LIDS : h[lid] = p
  <2>1. PICK q \in LIDS : f[q] = p BY DEF Permutation
  <2>2. PICK lid \in LIDS : g[lid] = q BY DEF Permutation
  <2> QED BY <2>1, <2>2
<1>3. ASSUME NEW lid \in LIDS, NEW lid2 \in LIDS, h[lid] = h[lid2] PROVE lid = lid2
  <2>1. g[lid] \in LIDS /\ g[lid2] \in LIDS BY DEF Permutation
  <2>2. g[lid] = g[lid2] BY <1>3, <2>1 DEF Permutation
  <2> QED BY <2>2 DEF Permutation
<1> HIDE DEF h
<1>4. Permutation(h) BY <1>1, <1>2, <1>3 DEF Permutation
<1> QED BY <1>4 DEF h

\* A controller publishes: the slot's last instruction is behind all warps, so
\* the new order and the fresh semaphores disturb none that is in the ring, and
\* the CTAs, which compute the order separately, agree on it.
LEMMA IssueKeeps ==
  ASSUME SoundPrograms, NEW P, NEW L, NEW K, HInv(P, L, K),
         NEW c \in CTAS, Issue(c)
  PROVE  \E Q : HInv(Q, L, K)'
<1>1. /\ Counted /\ Windowed /\ RingShaped /\ PageShaped
      /\ Local(L) /\ Aligned(L) /\ Ordered(P) /\ Handed(P, L) /\ Kept(P, L)
      /\ Loading(P, L) /\ Queued(P, L, K)
  BY DEF HInv
<1>2. PICK n : n = issued[c] OBVIOUS
<1>3. /\ n < Len(Instructions) /\ SlotFree(c, n)
      /\ issued' = [issued EXCEPT ![c] = n + 1]
      /\ order' = [order EXCEPT ![c][Slot(n)] = PidOrder(c, n)]
      /\ semaphore' = [semaphore EXCEPT ![c][Slot(n)] =
                         FreshSemaphores(Instruction(c, n).semaphores)]
      /\ program' = program /\ retired' = retired /\ at' = at /\ passed' = passed
      /\ pageFinished' = pageFinished /\ tensorFinished' = tensorFinished
      /\ page' = page /\ loading' = loading /\ mmas' = mmas
  BY <1>2 DEF Issue, contentVars
<1>4. /\ Len(Instructions) \in Nat /\ issued \in [CTAS -> 0 .. Len(Instructions)]
      /\ retired \in [CTAS -> [WARPS -> 0 .. Len(Instructions)]]
  BY <1>1, InstructionFacts DEF Counted
<1>5. n \in Nat /\ n \in Numbers /\ \A m \in Numbers : m \in Nat
  BY <1>2, <1>3, <1>4 DEF Numbers
<1>6. Instructions' = Instructions /\ Numbers' = Numbers /\ \A m : Ins(m)' = Ins(m)
  BY <1>3, SameProgram
<1>7. L[n] = Start(Ins(n))
  <2>1. issued[c] <= n BY <1>2, <1>5
  <2> QED BY <1>1, <1>5, <2>1 DEF Aligned
<1>8. /\ L[n].given = [d \in CTAS |-> {}] /\ L[n].finished = [d \in CTAS |-> {}]
      /\ L[n].contents = {} /\ L[n].loading = {} /\ L[n].mmas = << >>
      /\ L[n].multiplied = 0
      /\ L[n].semaphore = [d \in CTAS |-> FreshSemaphores(Ins(n)[d].semaphores)]
  BY <1>7 DEF Start
<1>9. PICK Q : Q = [m \in Nat |->
                      IF m = n /\ n # 0
                      THEN [lid \in LIDS |-> P[n - 1][Ins(n - 1)[c].release[lid]]]
                      ELSE P[m]]
  OBVIOUS
<1>10. \A m \in Nat : m # n => Q[m] = P[m] BY <1>9
<1>11. n = 0 => Q[n] = Identity BY <1>1, <1>9 DEF Ordered
<1>12. ASSUME n # 0
       PROVE  /\ n - 1 \in Numbers /\ n - 1 \in Nat /\ n = (n - 1) + 1
              /\ Q[n] = [lid \in LIDS |-> P[n - 1][Ins(n - 1)[c].release[lid]]]
              /\ PassesPagesOn(Ins(n - 1))
  <2>1. n - 1 \in Numbers /\ n - 1 \in Nat /\ n = (n - 1) + 1
    BY <1>3, <1>4, <1>5, <1>12 DEF Numbers
  <2>2. Sound(Ins(n - 1)) BY <1>1, <2>1, InstructionFacts DEF Counted
  <2> QED BY <1>5, <1>9, <1>12, <2>1, <2>2 DEF Sound
<1>13. Permutation(Q[n])
  <2>1. CASE n = 0 BY <1>1, <1>11, <2>1 DEF Ordered
  <2>2. CASE n # 0
    <3>1. Permutation(P[n - 1]) BY <1>1, <1>12, <2>2 DEF Ordered
    <3>2. Permutation(Ins(n - 1)[c].release)
      BY <1>12, <2>2, ReleasePermutation DEF PassesPagesOn
    <3> QED BY <1>12, <2>2, <3>1, <3>2, Composition
  <2> QED BY <2>1, <2>2
<1>14. \A m \in Nat : Permutation(Q[m]) BY <1>1, <1>10, <1>13 DEF Ordered
<1>15. \A d \in CTAS : issued'[d] = IF d = c THEN n + 1 ELSE issued[d]
  BY <1>3, <1>4
<1>16. \A m \in Numbers : m # n => Slot(m) # Slot(n) \/ ~(n + 1 \in m + 1 .. m + LEAD)
  BY <1>5, LeadFacts
<1>17. ASSUME NEW m \in Numbers, NEW d \in CTAS, InRing(d, m)'
       PROVE  IF d = c /\ m = n THEN TRUE
              ELSE InRing(d, m) /\ (d = c => Slot(m) # Slot(n))
  <2>1. issued'[d] \in m + 1 .. m + LEAD BY <1>17 DEF InRing
  <2>2. CASE d # c BY <1>15, <2>1, <2>2 DEF InRing
  <2>3. CASE d = c /\ m # n
    <3>1. n + 1 \in m + 1 .. m + LEAD BY <1>15, <2>1, <2>3
    <3>2. Slot(m) # Slot(n) BY <1>16, <2>3, <3>1
    <3>3. n \in m + 1 .. m + LEAD BY <1>5, <2>3, <3>1, LeadFacts
    <3> QED BY <1>2, <2>3, <3>2, <3>3 DEF InRing
  <2> QED BY <2>2, <2>3
<1>18. PidOrder(c, n) = Q[n]
  <2>1. CASE n = 0 BY <1>11, <2>1 DEF PidOrder
  <2>2. CASE n # 0
    <3>1. issued[c] \in (n - 1) + 1 .. (n - 1) + LEAD BY <1>2, <1>5, <2>2, LeadFacts
    <3>2. order[c][Slot(n - 1)] = P[n - 1]
      BY <1>1, <1>12, <2>2, <3>1 DEF Ordered, InRing
    <3>3. Instruction(c, n - 1).release = Ins(n - 1)[c].release BY DEF Instruction, Ins
    <3> QED BY <1>12, <2>2, <3>2, <3>3 DEF PidOrder
  <2> QED BY <2>1, <2>2
<1>19. /\ order \in [CTAS -> [SLOTS -> [LIDS -> LIDS]]] /\ Slot(n) \in SLOTS
       /\ \A m \in Nat : Slot(m) \in SLOTS
       /\ semaphore = [d \in CTAS |-> [i \in SLOTS |-> semaphore[d][i]]]
  BY <1>1, <1>5, LeadFacts DEF RingShaped
<1>20. /\ order' \in [CTAS -> [SLOTS -> [LIDS -> LIDS]]]
       /\ \A d \in CTAS, i \in SLOTS :
            order'[d][i] = IF d = c /\ i = Slot(n) THEN Q[n] ELSE order[d][i]
  <2>1. order' = [order EXCEPT ![c][Slot(n)] = Q[n]] BY <1>3, <1>18
  <2>2. Q[n] \in [LIDS -> LIDS] BY <1>13 DEF Permutation
  <2> QED BY <1>19, <2>1, <2>2
<1>21. /\ semaphore' = [d \in CTAS |-> [i \in SLOTS |-> semaphore'[d][i]]]
       /\ \A d \in CTAS, i \in SLOTS :
            semaphore'[d][i] = IF d = c /\ i = Slot(n) THEN L[n].semaphore[c]
                               ELSE semaphore[d][i]
  <2>1. FreshSemaphores(Instruction(c, n).semaphores) = L[n].semaphore[c]
    BY <1>8 DEF Instruction, Ins
  <2>2. PICK b : b = L[n].semaphore[c] OBVIOUS
  <2>3. semaphore' = [semaphore EXCEPT ![c][Slot(n)] = b] BY <1>3, <2>1, <2>2
  <2>4. \A d \in CTAS, i \in SLOTS :
            semaphore'[d][i] = IF d = c /\ i = Slot(n) THEN b ELSE semaphore[d][i]
    BY <1>19, <2>3
  <2>5. semaphore' = [d \in CTAS |-> [i \in SLOTS |-> semaphore'[d][i]]]
    <3>1. semaphore' = [d \in CTAS |-> semaphore'[d]] BY <1>19, <2>3
    <3>2. \A d \in CTAS : semaphore'[d] = [i \in SLOTS |-> semaphore'[d][i]]
      BY <1>19, <2>3
    <3> QED BY <3>1, <3>2
  <2> QED BY <2>2, <2>4, <2>5
<1>22. Counted' /\ Windowed'
  <2>1. issued' \in [CTAS -> 0 .. Len(Instructions)] BY <1>3, <1>4, <1>5
  <2>2. Counted' BY <1>1, <1>3, <1>6, <2>1 DEF Counted
  <2>3. SUFFICES ASSUME NEW d \in CTAS, NEW e \in CTAS, NEW v \in WARPS
                 PROVE  retired[d][v] <= issued'[e] /\ issued'[d] <= retired[d][v] + LEAD
    BY <1>3, <2>2 DEF Windowed
  <2>4. retired[d][v] <= issued[e] /\ issued[d] <= retired[d][v] + LEAD
    BY <1>1 DEF Windowed
  <2>5. d = c => retired[d][v] > n - LEAD BY <1>3 DEF SlotFree
  <2>6. retired[d][v] \in Nat /\ issued[e] \in Nat /\ issued[d] \in Nat BY <1>4
  <2>7. retired[d][v] <= issued'[e] BY <1>2, <1>15, <2>4, <2>6
  <2>8. issued'[d] <= retired[d][v] + LEAD BY <1>5, <1>15, <2>4, <2>5, <2>6, LeadFacts
  <2> QED BY <2>7, <2>8
<1>23. RingShaped' /\ PageShaped'
  <2>1. ASSUME NEW d \in CTAS, NEW i \in SLOTS
        PROVE  {order'[d][i][lid] : lid \in LIDS} = LIDS
    <3>1. CASE d = c /\ i = Slot(n)
      <4>1. order'[d][i] = Q[n] BY <1>20, <3>1
      <4>2. {Q[n][lid] : lid \in LIDS} = LIDS BY <1>13 DEF Permutation
      <4> QED BY <4>1, <4>2
    <3>2. CASE ~(d = c /\ i = Slot(n))
      <4>1. order'[d][i] = order[d][i] BY <1>20, <3>2
      <4>2. {order[d][i][lid] : lid \in LIDS} = LIDS BY <1>1 DEF RingShaped
      <4> QED BY <4>1, <4>2
    <3> QED BY <3>1, <3>2
  <2>2. ASSUME NEW d \in CTAS, NEW i \in SLOTS, NEW sem \in DOMAIN semaphore'[d][i]
        PROVE  semaphore'[d][i][sem].left \in Nat
    <3>1. CASE d = c /\ i = Slot(n)
      <4>1. semaphore'[d][i] = L[n].semaphore[c] BY <1>21, <3>1
      <4>2. InTurn(Ins(n), L[n])
        BY <1>1, <1>5, InstructionFacts, AllowedInTurn DEF Counted, Local
      <4> QED BY <4>1, <4>2 DEF InTurn
    <3>2. CASE ~(d = c /\ i = Slot(n))
      <4>1. semaphore'[d][i] = semaphore[d][i] BY <1>21, <3>2
      <4> QED BY <1>1, <4>1 DEF RingShaped
    <3> QED BY <3>1, <3>2
  <2>3. RingShaped' BY <1>20, <1>21, <2>1, <2>2 DEF RingShaped
  <2> QED BY <1>1, <1>3, <1>6, <2>3 DEF PageShaped
<1>24. Local(L)' BY <1>1, <1>6 DEF Local
<1>25. Aligned(L)'
  <2>1. SUFFICES ASSUME NEW m \in Numbers
                 PROVE  /\ Tracks(L[m], m)' /\ Signals(L[m], m)'
                        /\ (\E d \in CTAS : issued'[d] <= m) => L[m] = Start(Ins(m))
    BY <1>6 DEF Aligned
  <2>2. Tracks(L[m], m) /\ Signals(L[m], m) BY <1>1 DEF Aligned
  <2>3. Tracks(L[m], m)' BY <1>3, <2>2 DEF Tracks
  <2>4. ASSUME NEW d \in CTAS, InRing(d, m)'
        PROVE  L[m].semaphore[d] = semaphore'[d][Slot(m)]
    <3>1. CASE d = c /\ m = n BY <1>19, <1>21, <3>1
    <3>2. CASE ~(d = c /\ m = n)
      <4>1. InRing(d, m) /\ (d = c => Slot(m) # Slot(n)) BY <1>17, <2>4, <3>2
      <4>2. semaphore'[d][Slot(m)] = semaphore[d][Slot(m)]
        BY <1>5, <1>19, <1>21, <4>1
      <4> QED BY <2>2, <4>1, <4>2 DEF Signals
    <3> QED BY <3>1, <3>2
  <2>5. Signals(L[m], m)' BY <2>4 DEF Signals
  <2>6. ASSUME NEW d \in CTAS, issued'[d] <= m PROVE L[m] = Start(Ins(m))
    <3>1. issued[d] <= m BY <1>2, <1>4, <1>5, <1>15, <2>6
    <3> QED BY <1>1, <3>1 DEF Aligned
  <2> QED BY <2>3, <2>5, <2>6
<1>26. Ordered(Q)'
  <2>1. Q[0] = Identity
    <3>1. CASE n = 0 BY <1>11, <3>1
    <3>2. CASE n # 0 BY <1>1, <1>10, <3>2 DEF Ordered
    <3> QED BY <3>1, <3>2
  <2>2. ASSUME NEW m \in Nat, NEW d \in CTAS, issued'[d] > m + 1
        PROVE  Q[m + 1] = [lid \in LIDS |-> Q[m][Ins(m)[d].release[lid]]]
    <3>1. CASE m + 1 = n
      <4>1. n # 0 /\ m = n - 1 /\ m # n BY <3>1
      <4>2. Ins(m)[d].release = Ins(m)[c].release BY <1>12, <4>1 DEF PassesPagesOn
      <4>3. Q[m] = P[m] BY <1>10, <4>1
      <4> QED BY <1>12, <3>1, <4>1, <4>2, <4>3
    <3>2. CASE m + 1 # n
      <4>1. issued[d] > m + 1 BY <1>2, <1>5, <1>15, <2>2, <3>2
      <4>2. P[m + 1] = [lid \in LIDS |-> P[m][Ins(m)[d].release[lid]]]
        BY <1>1, <4>1 DEF Ordered
      <4>3. Q[m + 1] = P[m + 1] BY <1>10, <3>2
      <4>4. Q[m] = P[m]
        <5>1. CASE m # n BY <1>10, <5>1
        <5>2. CASE m = n /\ n = 0 BY <1>1, <1>11, <5>2 DEF Ordered
        <5>3. CASE m = n /\ n # 0
          <6>1. issued[d] > (n - 1) + 1 BY <1>5, <1>12, <4>1, <5>3, <1>4
          <6>2. P[(n - 1) + 1] = [lid \in LIDS |-> P[n - 1][Ins(n - 1)[d].release[lid]]]
            BY <1>1, <1>12, <5>3, <6>1 DEF Ordered
          <6>3. Ins(n - 1)[d].release = Ins(n - 1)[c].release
            BY <1>12, <5>3 DEF PassesPagesOn
          <6> QED BY <1>12, <5>3, <6>2, <6>3
        <5> QED BY <5>1, <5>2, <5>3
      <4> QED BY <4>2, <4>3, <4>4
    <3> QED BY <3>1, <3>2
  <2>3. ASSUME NEW m \in Numbers, NEW d \in CTAS, InRing(d, m)'
        PROVE  order'[d][Slot(m)] = Q[m]
    <3>1. CASE d = c /\ m = n BY <1>19, <1>20, <3>1
    <3>2. CASE ~(d = c /\ m = n)
      <4>1. InRing(d, m) /\ (d = c => Slot(m) # Slot(n)) BY <1>17, <2>3, <3>2
      <4>2. order'[d][Slot(m)] = order[d][Slot(m)] BY <1>5, <1>19, <1>20, <4>1
      <4>3. order[d][Slot(m)] = P[m] BY <1>1, <4>1 DEF Ordered
      <4>4. Q[m] = P[m]
        <5>1. CASE m # n BY <1>5, <1>10, <5>1
        <5>2. CASE m = n /\ n = 0 BY <1>1, <1>11, <5>2 DEF Ordered
        <5>3. CASE m = n /\ n # 0
          <6>1. issued[d] > (n - 1) + 1
            <7>1. issued[d] \in n + 1 .. n + LEAD BY <4>1, <5>3 DEF InRing
            <7> QED BY <1>4, <1>5, <1>12, <5>3, <7>1
          <6>2. P[(n - 1) + 1] = [lid \in LIDS |-> P[n - 1][Ins(n - 1)[d].release[lid]]]
            BY <1>1, <1>12, <5>3, <6>1 DEF Ordered
          <6>3. Ins(n - 1)[d].release = Ins(n - 1)[c].release
            BY <1>12, <5>3 DEF PassesPagesOn
          <6> QED BY <1>12, <5>3, <6>2, <6>3
        <5> QED BY <5>1, <5>2, <5>3
      <4> QED BY <4>2, <4>3, <4>4
    <3> QED BY <3>1, <3>2
  <2> QED BY <1>6, <1>14, <2>1, <2>2, <2>3 DEF Ordered, Identity
<1>27. Handed(Q, L)'
  <2>1. SUFFICES ASSUME NEW m \in Numbers, NEW d \in CTAS, NEW lid \in LIDS
                 PROVE  /\ lid \in L[m].finished[d] <=> pageFinished[d][Q[m][lid]] >= m + 2
                        /\ lid \in L[m].given[d] => pageFinished[d][Q[m][lid]] >= m + 1
    BY <1>3, <1>6 DEF Handed
  <2>2. CASE m # n
    <3>1. Q[m] = P[m] BY <1>5, <1>10, <2>2
    <3> QED BY <1>1, <3>1 DEF Handed
  <2>3. CASE m = n
    <3>1. L[m].finished[d] = {} /\ L[m].given[d] = {} BY <1>8, <2>3
    <3>2. Q[n][lid] \in LIDS BY <1>13 DEF Permutation
    <3>3. Permutation(P[n]) BY <1>1, <1>5 DEF Ordered
    <3>4. PICK old \in LIDS : P[n][old] = Q[n][lid] BY <3>2, <3>3 DEF Permutation
    <3>5. ~(pageFinished[d][P[n][old]] >= n + 2) BY <1>1, <1>5, <2>3, <3>1 DEF Handed
    <3> QED BY <2>3, <3>1, <3>4, <3>5
  <2> QED BY <2>2, <2>3
<1>28. Kept(Q, L)'
  <2>1. SUFFICES ASSUME NEW m \in Numbers, NEW f \in L[m].contents,
                        Owns(L[m], f.cta, f.lid)
                 PROVE  page[f.cta][Q[m][f.lid]][f.part] = Content(m, f.tag)
    BY <1>3, <1>6 DEF Kept, Content
  <2>2. m # n BY <1>8, <2>1
  <2>3. Q[m] = P[m] BY <1>5, <1>10, <2>2
  <2> QED BY <1>1, <2>1, <2>3 DEF Kept
<1>29. Loading(Q, L)'
  <2>1. \A m \in Numbers : \A x \in L[m].loading : LoadOf(Q, m, x) = LoadOf(P, m, x)
    <3>1. SUFFICES ASSUME NEW m \in Numbers, NEW x \in L[m].loading
                   PROVE  LoadOf(Q, m, x) = LoadOf(P, m, x)
      OBVIOUS
    <3>2. m # n BY <1>8, <3>1
    <3>3. Q[m] = P[m] BY <1>5, <1>10, <3>2
    <3> QED BY <3>3 DEF LoadOf
  <2>2. \A y \in loading : \E m \in Numbers : \E x \in L[m].loading : y = LoadOf(Q, m, x)
    <3>1. SUFFICES ASSUME NEW y \in loading
                   PROVE  \E m \in Numbers : \E x \in L[m].loading : y = LoadOf(Q, m, x)
      OBVIOUS
    <3>2. PICK m \in Numbers : \E x \in L[m].loading : y = LoadOf(P, m, x)
      BY <1>1 DEF Loading
    <3>3. PICK x \in L[m].loading : y = LoadOf(P, m, x) BY <3>2
    <3>4. y = LoadOf(Q, m, x) BY <2>1, <3>3
    <3> QED BY <3>4
  <2>3. \A m \in Numbers : \A x \in L[m].loading : LoadOf(Q, m, x) \in loading
    <3>1. SUFFICES ASSUME NEW m \in Numbers, NEW x \in L[m].loading
                   PROVE  LoadOf(Q, m, x) \in loading
      OBVIOUS
    <3>2. LoadOf(P, m, x) \in loading BY <1>1 DEF Loading
    <3> QED BY <2>1, <3>2
  <2> QED BY <1>3, <1>6, <2>2, <2>3 DEF Loading, LoadOf
<1>30. Queued(Q, L, K)'
  <2>1. QueueOf(mmas, Numbers, P, L, K) BY <1>1 DEF Queued
  <2>2. ASSUME NEW i \in DOMAIN mmas
        PROVE  mmas[i] = MmaOf(Q, mmas[i].n, L[mmas[i].n].mmas[K[i]])
    <3>1. PICK m \in Numbers : m = mmas[i].n BY <2>1 DEF QueueOf
    <3>2. /\ K[i] \in L[m].multiplied + 1 .. Len(L[m].mmas)
          /\ mmas[i] = MmaOf(P, m, L[m].mmas[K[i]])
      BY <2>1, <3>1 DEF QueueOf
    <3>3. m # n
      <4>1. SUFFICES ASSUME m = n PROVE FALSE OBVIOUS
      <4>2. Len(<< >>) = 0 OBVIOUS
      <4>3. K[i] \in 0 + 1 .. 0 BY <1>8, <3>2, <4>1, <4>2
      <4> QED BY <4>3
    <3>4. Q[m] = P[m] BY <1>5, <1>10, <3>3
    <3>5. MmaOf(Q, m, L[m].mmas[K[i]]) = MmaOf(P, m, L[m].mmas[K[i]])
      BY <3>4 DEF MmaOf
    <3> QED BY <3>1, <3>2, <3>5
  <2>3. QueueOf(mmas, Numbers, Q, L, K) BY <2>1, <2>2, Zenon DEF QueueOf
  <2> QED BY <1>3, <1>6, <2>3 DEF Queued
<1>31. HInv(Q, L, K)'
  BY <1>22, <1>23, <1>24, <1>25, <1>26, <1>27, <1>28, <1>29, <1>30 DEF HInv
<1> QED BY <1>31

\* All instructions are at their start.
LEMMA InitInvariant ==
  ASSUME SoundPrograms, Init
  PROVE  IInv
<1>1. PICK P, L, K :
        /\ P = [m \in Nat |-> Identity] /\ L = [m \in Nat |-> Start(Ins(m))]
        /\ K = << >>
  OBVIOUS
<1>2. /\ program \in DOMAIN PROGRAMS
      /\ issued = [c \in CTAS |-> 0]
      /\ order = [c \in CTAS |-> [s \in SLOTS |-> Identity]]
      /\ semaphore = [c \in CTAS |-> [s \in SLOTS |-> << >>]]
      /\ retired = [c \in CTAS |-> [w \in WARPS |-> 0]]
      /\ at = [c \in CTAS |-> [w \in WARPS |-> 0]]
      /\ passed = [c \in CTAS |-> {}]
      /\ pageFinished = [c \in CTAS |-> [p \in LIDS |-> 1]]
      /\ tensorFinished = [c \in CTAS |-> 1]
      /\ page = [c \in CTAS |-> [p \in LIDS |-> [h \in PARTS |-> TORN]]]
      /\ loading = {} /\ mmas = << >>
  BY DEF Init, SLOTS
<1>3. Len(Instructions) \in Nat /\ \A m \in Numbers : Sound(Ins(m)) /\ m \in Nat
  BY <1>2, InstructionFacts DEF Numbers
<1>4. Permutation(Identity)
  <2>1. \A p \in LIDS : Identity[p] = p BY DEF Identity
  <2> QED BY <2>1 DEF Permutation, Identity
<1>5. Counted
  <2>1. 0 \in 0 .. Len(Instructions) /\ 1 \in Nat \ {0} BY <1>3
  <2> QED BY <1>2, <2>1 DEF Counted
<1>6. Windowed BY <1>2, LeadFacts DEF Windowed
<1>7. RingShaped
  <2>1. \A c \in CTAS : \A s \in SLOTS : {order[c][s][lid] : lid \in LIDS} = LIDS
    BY <1>2, <1>4 DEF Permutation
  <2>2. order \in [CTAS -> [SLOTS -> [LIDS -> LIDS]]]
    BY <1>2, <1>4 DEF Permutation
  <2>3. \A c \in CTAS : \A s \in SLOTS : DOMAIN semaphore[c][s] = {}
    BY <1>2
  <2>4. semaphore = [c \in CTAS |-> [s \in SLOTS |-> semaphore[c][s]]]
    BY <1>2
  <2> QED BY <2>1, <2>2, <2>3, <2>4 DEF RingShaped
<1>8. PageShaped
  <2>1. page = [c \in CTAS |-> [p \in LIDS |-> [h \in PARTS |-> page[c][p][h]]]]
    BY <1>2
  <2>2. \A c \in CTAS : \A p \in LIDS : \A h \in PARTS : page[c][p][h][1] = -1
    BY <1>2 DEF TORN
  <2>3. -1 \in -1 .. Len(Instructions) - 1 BY <1>3
  <2> QED BY <2>1, <2>2, <2>3 DEF PageShaped
<1>9. \A m \in Numbers : L[m] = Start(Ins(m)) BY <1>1, <1>3
<1>10. Local(L)
  <2>1. \A m \in Numbers : Start(Ins(m)) \in Allowed(Ins(m))
    BY <1>3, AllowedClosed DEF Closed
  <2> QED BY <1>9, <2>1, StartShaped DEF Local
<1>11. \A m \in Numbers :
        /\ L[m].at = [c \in CTAS |-> [w \in WARPS |-> 0]]
        /\ L[m].done = [c \in CTAS |-> [w \in WARPS |-> FALSE]]
        /\ L[m].passed = [c \in CTAS |-> {}]
        /\ L[m].given = [c \in CTAS |-> {}] /\ L[m].finished = [c \in CTAS |-> {}]
        /\ L[m].contents = {} /\ L[m].loading = {} /\ L[m].mmas = << >>
        /\ L[m].multiplied = 0
  <2>1. SUFFICES ASSUME NEW m \in Numbers
        PROVE  /\ L[m].at = [c \in CTAS |-> [w \in WARPS |-> 0]]
               /\ L[m].done = [c \in CTAS |-> [w \in WARPS |-> FALSE]]
               /\ L[m].passed = [c \in CTAS |-> {}]
               /\ L[m].given = [c \in CTAS |-> {}] /\ L[m].finished = [c \in CTAS |-> {}]
               /\ L[m].contents = {} /\ L[m].loading = {} /\ L[m].mmas = << >>
               /\ L[m].multiplied = 0
    OBVIOUS
  <2>2. PICK x : x = L[m] OBVIOUS
  <2>3. x = Start(Ins(m)) BY <1>9, <2>2
  <2>4. /\ x.at = [c \in CTAS |-> [w \in WARPS |-> 0]]
        /\ x.done = [c \in CTAS |-> [w \in WARPS |-> FALSE]]
        /\ x.passed = [c \in CTAS |-> {}]
    BY <2>3 DEF Start
  <2>5. x.given = [c \in CTAS |-> {}] /\ x.finished = [c \in CTAS |-> {}]
    BY <2>3 DEF Start
  <2>6. /\ x.contents = {} /\ x.loading = {} /\ x.mmas = << >>
        /\ x.multiplied = 0
    BY <2>3 DEF Start
  <2> QED BY <2>2, <2>4, <2>5, <2>6
<1>12. Aligned(L)
  <2>1. SUFFICES ASSUME NEW m \in Numbers PROVE Tracks(L[m], m) /\ Signals(L[m], m)
    BY <1>9 DEF Aligned
  <2>2. m \in Nat BY <1>3
  <2>3. Tracks(L[m], m)
    <3>1. "loader" \in WARPS BY ClusterAssumption
    <3>2. \A c \in CTAS, w \in WARPS : retired[c][w] = 0 /\ at[c][w] = 0 BY <1>2
    <3>3. \A c \in CTAS, w \in WARPS : ~L[m].done[c][w] /\ L[m].at[c][w] = 0 BY <1>11
    <3>4. \A c \in CTAS : L[m].passed[c] = {} /\ passed[c] = {} BY <1>2, <1>11
    <3>5. ~(0 > m) BY <2>2
    <3> QED BY <3>1, <3>2, <3>3, <3>4, <3>5 DEF Tracks
  <2>4. Signals(L[m], m) BY <1>2, <2>2 DEF Signals, InRing
  <2> QED BY <2>3, <2>4
<1>13. Ordered(P) BY <1>1, <1>2, <1>3, <1>4 DEF Ordered, InRing
<1>14. Handed(P, L)
  <2>1. SUFFICES ASSUME NEW m \in Numbers, NEW c \in CTAS, NEW lid \in LIDS
                 PROVE  /\ lid \in L[m].finished[c] <=> pageFinished[c][P[m][lid]] >= m + 2
                        /\ lid \in L[m].given[c] => pageFinished[c][P[m][lid]] >= m + 1
    BY DEF Handed
  <2>2. m \in Nat /\ P[m] = Identity BY <1>1, <1>3
  <2>3. pageFinished[c][P[m][lid]] = 1 BY <1>2, <2>2 DEF Identity
  <2>4. L[m].finished[c] = {} /\ L[m].given[c] = {} BY <1>11
  <2> QED BY <2>2, <2>3, <2>4
<1>15. Kept(P, L) /\ Loading(P, L) BY <1>2, <1>11 DEF Kept, Loading
<1>16. Queued(P, L, K)
  <2>1. IsSequence(<< >>) /\ DOMAIN << >> = {} /\ Len(<< >>) = 0 BY DEF IsSequence
  <2>2. \A m \in Numbers : L[m].multiplied + 1 .. Len(L[m].mmas) = {} BY <1>11, <2>1
  <2> QED BY <1>2, <2>1, <2>2 DEF Queued, QueueOf
<1>17. HInv(P, L, K)
  BY <1>5, <1>6, <1>7, <1>8, <1>10, <1>12, <1>13, <1>14, <1>15, <1>16 DEF HInv
<1> QED BY <1>17 DEF IInv

\* A step in which nothing changes keeps the invariant.
LEMMA StutterKeeps ==
  ASSUME NEW P, NEW L, NEW K, HInv(P, L, K), UNCHANGED vars
  PROVE  HInv(P, L, K)'
<1>1. /\ program' = program /\ issued' = issued /\ order' = order /\ retired' = retired
      /\ at' = at /\ passed' = passed /\ pageFinished' = pageFinished
      /\ tensorFinished' = tensorFinished /\ semaphore' = semaphore
      /\ page' = page /\ loading' = loading /\ mmas' = mmas
  BY DEF vars, progressVars, contentVars
<1>2. Instructions' = Instructions /\ Numbers' = Numbers /\ \A m : Ins(m)' = Ins(m)
  BY <1>1, SameProgram
<1>3. Counted' /\ Windowed' /\ RingShaped' /\ PageShaped'
  BY <1>1, <1>2 DEF HInv, Counted, Windowed, RingShaped, PageShaped
<1>4. Local(L)' BY <1>2 DEF HInv, Local
<1>5. Aligned(L)' BY <1>1, <1>2 DEF HInv, Aligned, Tracks, Signals, InRing
<1>6. Ordered(P)' BY <1>1, <1>2 DEF HInv, Ordered, InRing, Identity
<1>7. Handed(P, L)' BY <1>1, <1>2 DEF HInv, Handed
<1>8. Kept(P, L)' BY <1>1, <1>2 DEF HInv, Kept, Content
<1>9. Loading(P, L)' BY <1>1, <1>2 DEF HInv, Loading, LoadOf
<1>10. Queued(P, L, K)' BY <1>1, <1>2 DEF HInv, Queued
<1> QED BY <1>3, <1>4, <1>5, <1>6, <1>7, <1>8, <1>9, <1>10 DEF HInv

\* So does every step.
LEMMA NextInvariant ==
  ASSUME SoundPrograms, IInv, [Next]_vars
  PROVE  IInv'
<1>1. PICK P, L, K : HInv(P, L, K) BY DEF IInv
<1>2. CASE \E c \in CTAS : Issue(c)
  BY <1>1, <1>2, IssueKeeps DEF IInv
<1>3. CASE \E c \in CTAS, w \in WARPS : Advance(c, w)
  BY <1>1, <1>3, AdvanceKeeps DEF IInv
<1>4. CASE \E c \in CTAS, w \in WARPS : Retire(c, w)
  BY <1>1, <1>4, RetireKeeps DEF IInv
<1>5. CASE \E c \in CTAS, lid \in LIDS : PassOn(c, lid)
  BY <1>1, <1>5, PassOnKeeps DEF IInv
<1>6. CASE \E x \in loading : Deliver(x)
  BY <1>1, <1>6, DeliverKeeps DEF IInv
<1>7. CASE Multiplied
  BY <1>1, <1>7, MultipliedKeeps DEF IInv
<1>8. CASE UNCHANGED vars
  BY <1>1, <1>8, StutterKeeps DEF IInv
<1> QED BY <1>2, <1>3, <1>4, <1>5, <1>6, <1>7, <1>8 DEF Next, Exit

\* The instructions of a program run in the cluster as if each were alone, with
\* pages handed from one to the next: IInv holds in every state.
THEOREM Invariance == SoundPrograms => (Spec => []IInv)
<1> SUFFICES ASSUME SoundPrograms PROVE Spec => []IInv
  OBVIOUS
<1>1. Init => IInv BY InitInvariant
<1>2. IInv /\ [Next]_vars => IInv' BY NextInvariant
<1> QED BY <1>1, <1>2, PTL DEF Spec

\* A warp's next step is a step of its instruction by itself.
LEMMA RunningInside ==
  ASSUME SoundPrograms, NEW P, NEW L, NEW K, HInv(P, L, K),
         NEW c \in CTAS, NEW w \in WARPS, Running(c, w), NEW n, n = retired[c][w]
  PROVE  /\ n \in Numbers /\ Inside(Ins(n), L[n], c, w)
         /\ NextStep(c, w) = At(Ins(n), L[n], c, w)
<1>1. /\ Counted /\ Windowed /\ Ordered(P) /\ Aligned(L)
      /\ Arrived(c, w) /\ at[c][w] < Len(Script(c, w))
  BY DEF HInv, Running
<1>2. /\ n \in Numbers /\ ~L[n].done[c][w] /\ L[n].at[c][w] = at[c][w]
  <2>1. ArrivedAt(P, L, c, w, n) BY <1>1, ArrivedFacts
  <2> QED BY <2>1 DEF ArrivedAt
<1>3. Script(c, w) = Ins(n)[c].script[w] BY DEF Script, Instruction, Ins
<1> QED BY <1>1, <1>2, <1>3 DEF Inside, At, NextStep

\* What an instruction that has come so far, or one that has not, is at.
LEMMA StateOf ==
  ASSUME SoundPrograms, NEW P, NEW L, NEW K, HInv(P, L, K), NEW n \in Numbers
  PROVE  /\ n \in Nat /\ WellFormed(Ins(n)) /\ Shaped(L[n])
         /\ InTurn(Ins(n), L[n]) /\ ReadsIntact(Ins(n), L[n])
         /\ Permutation(P[n])
<1>1. Counted /\ Local(L) /\ Ordered(P) BY DEF HInv
<1>2. n \in Nat /\ Sound(Ins(n)) /\ WellFormed(Ins(n))
  BY <1>1, InstructionFacts DEF Counted, Numbers
<1>3. L[n] \in Allowed(Ins(n)) /\ Shaped(L[n]) BY <1>1 DEF Local
<1>4. InTurn(Ins(n), L[n]) /\ ReadsIntact(Ins(n), L[n]) BY <1>2, <1>3, AllowedInTurn
<1> QED BY <1>1, <1>2, <1>3, <1>4 DEF Ordered

\* A multiplication in flight is one of its instruction's.
LEMMA MultiplicationOf ==
  ASSUME SoundPrograms, NEW P, NEW L, NEW K, HInv(P, L, K), NEW i \in DOMAIN mmas
  PROVE  \E n \in Numbers : \E x \in Multiplying(L[n]) :
           mmas[i] = MmaOf(P, n, x) /\ MmaShaped(x) /\ L[n] # Start(Ins(n))
<1>1. QueueOf(mmas, Numbers, P, L, K) BY DEF HInv, Queued
<1>2. PICK n \in Numbers : n = mmas[i].n BY <1>1 DEF QueueOf
<1>3. /\ K[i] \in L[n].multiplied + 1 .. Len(L[n].mmas)
      /\ mmas[i] = MmaOf(P, n, L[n].mmas[K[i]])
  BY <1>1, <1>2 DEF QueueOf
<1>4. PICK x : x = L[n].mmas[K[i]] OBVIOUS
<1>5. x \in Multiplying(L[n]) BY <1>3, <1>4 DEF Multiplying
<1>6. QueueShaped(L[n]) BY StateOf DEF Shaped
<1>7. Len(L[n].mmas) \in Nat /\ DOMAIN L[n].mmas = 1 .. Len(L[n].mmas)
  BY <1>6, SequenceLength DEF QueueShaped
<1>8. L[n].multiplied \in Nat BY <1>6, <1>7 DEF QueueShaped
<1>9. K[i] \in DOMAIN L[n].mmas BY <1>3, <1>7, <1>8
<1>10. MmaShaped(x) BY <1>4, <1>6, <1>9 DEF QueueShaped
<1>11. L[n] # Start(Ins(n))
  <2>1. SUFFICES ASSUME L[n] = Start(Ins(n)) PROVE FALSE OBVIOUS
  <2>2. L[n].mmas = << >> BY <2>1 DEF Start
  <2> QED BY <1>9, <2>2
<1> QED BY <1>3, <1>4, <1>5, <1>10, <1>11

\* And a load in flight.
LEMMA LoadOfInstruction ==
  ASSUME SoundPrograms, NEW P, NEW L, NEW K, HInv(P, L, K), NEW y \in loading
  PROVE  \E n \in Numbers : \E x \in L[n].loading :
           y = LoadOf(P, n, x) /\ LoadShaped(x) /\ L[n] # Start(Ins(n))
<1>0. PICK n \in Numbers : \E x \in L[n].loading :
       y = LoadOf(P, n, x)
  BY DEF HInv, Loading
<1>1. PICK x \in L[n].loading :
       y = LoadOf(P, n, x)
  BY <1>0
<1>2. LoadShaped(x) BY StateOf DEF Shaped
<1>3. L[n] # Start(Ins(n))
  <2>1. SUFFICES ASSUME L[n] = Start(Ins(n)) PROVE FALSE OBVIOUS
  <2>2. L[n].loading = {} BY <2>1 DEF Start
  <2> QED BY <2>2
<1> QED BY <1>1, <1>2, <1>3

---------------------------------------------------------------------------
\* The invariant has the types.
LEMMA InvariantTypes ==
  ASSUME SoundPrograms, IInv
  PROVE  TypeOK
<1>1. PICK P, L, K : HInv(P, L, K) BY DEF IInv
<1>2. Counted /\ RingShaped /\ PageShaped BY <1>1 DEF HInv
<1>3. \A c \in CTAS, w \in WARPS : at[c][w] \in Nat BY <1>2 DEF Counted
<1> QED BY <1>2, <1>3 DEF TypeOK, Counted, RingShaped, PageShaped, SLOTS

\* What a warp or a multiplication reads is its instruction's, by the fact that
\* the instruction by itself keeps and the page that it has.
LEMMA InvariantPages ==
  ASSUME SoundPrograms, IInv
  PROVE  PagesIntact
<1>1. PICK P, L, K : HInv(P, L, K) BY DEF IInv
<1>2. ASSUME NEW n \in Numbers, NEW c, NEW x,
             [cta |-> c, lid |-> x.lid, part |-> x.part, tag |-> x.tag] \in L[n].contents,
             Owns(L[n], c, x.lid)
      PROVE  page[c][P[n][x.lid]][x.part] = Content(n, x.tag)
  <2>1. PICK f \in L[n].contents :
          f = [cta |-> c, lid |-> x.lid, part |-> x.part, tag |-> x.tag]
    BY <1>2
  <2>2. f.cta = c /\ f.lid = x.lid /\ f.part = x.part /\ f.tag = x.tag BY <2>1
  <2> QED BY <1>1, <1>2, <2>2 DEF HInv, Kept
<1>3. ASSUME NEW c \in CTAS, NEW w \in WARPS, Running(c, w),
             NEW x \in NextStep(c, w).holds
      PROVE  page[c][lid_to_pid(c, retired[c][w], x.lid)][x.part]
               = Content(retired[c][w], x.tag)
  <2>1. PICK n : n = retired[c][w] OBVIOUS
  <2>2. /\ n \in Numbers /\ Inside(Ins(n), L[n], c, w)
        /\ x \in At(Ins(n), L[n], c, w).holds
    BY <1>1, <1>3, <2>1, RunningInside
  <2>3. InTurn(Ins(n), L[n]) /\ ReadsIntact(Ins(n), L[n]) BY <1>1, <2>2, StateOf
  <2>4. Owns(L[n], c, x.lid) BY <2>2, <2>3 DEF InTurn
  <2>5. [cta |-> c, lid |-> x.lid, part |-> x.part, tag |-> x.tag] \in L[n].contents
    BY <2>2, <2>3 DEF ReadsIntact
  <2>6. page[c][P[n][x.lid]][x.part] = Content(n, x.tag)
    BY <1>2, <2>2, <2>4, <2>5
  <2>7. order[c][Slot(n)] = P[n]
    <3>1. Counted /\ Windowed /\ Ordered(P) /\ Aligned(L) /\ Arrived(c, w)
      BY <1>1, <1>3 DEF HInv, Running
    <3>2. ArrivedAt(P, L, c, w, n) BY <2>1, <3>1, ArrivedFacts
    <3> QED BY <3>2 DEF ArrivedAt
  <2> QED BY <2>1, <2>6, <2>7 DEF lid_to_pid
<1>4. ASSUME NEW i \in DOMAIN mmas, NEW r \in mmas[i].reads, NEW c \in mmas[i].ctas
      PROVE  page[c][r.pid][r.part] = Content(mmas[i].n, r.tag)
  <2>0. PICK n \in Numbers : \E x \in Multiplying(L[n]) :
         mmas[i] = MmaOf(P, n, x)
    BY <1>1, MultiplicationOf
  <2>1. PICK x \in Multiplying(L[n]) :
         mmas[i] = MmaOf(P, n, x)
    BY <2>0
  <2>2. mmas[i].n = n /\ c \in x.ctas BY <2>1 DEF MmaOf
  <2>3. PICK z \in x.reads : r = [pid |-> P[n][z.lid], part |-> z.part, tag |-> z.tag]
    BY <2>1 DEF MmaOf
  <2>4. InTurn(Ins(n), L[n]) /\ ReadsIntact(Ins(n), L[n]) BY <1>1, StateOf
  <2>5. Owns(L[n], c, z.lid) BY <2>2, <2>4 DEF InTurn
  <2>6. [cta |-> c, lid |-> z.lid, part |-> z.part, tag |-> z.tag] \in L[n].contents
    BY <2>2, <2>4 DEF ReadsIntact
  <2>7. page[c][P[n][z.lid]][z.part] = Content(n, z.tag) BY <1>2, <2>5, <2>6
  <2>8. r.pid = P[n][z.lid] /\ r.part = z.part /\ r.tag = z.tag BY <2>3
  <2> QED BY <2>2, <2>7, <2>8
<1> QED BY <1>3, <1>4 DEF PagesIntact

\* No warp waits for a page that its instruction finished.
LEMMA InvariantWaits ==
  ASSUME SoundPrograms, IInv
  PROVE  PageWaitsExact
<1>1. PICK P, L, K : HInv(P, L, K) BY DEF IInv
<1>2. SUFFICES ASSUME NEW c \in CTAS, NEW w \in WARPS, Arrived(c, w),
                      NEW lid \in (IF Running(c, w) THEN NextStep(c, w).pages ELSE {})
                                    \cup (IF w = "loader" THEN Waiting(c) ELSE {})
               PROVE  pageFinished[c][lid_to_pid(c, retired[c][w], lid)] - retired[c][w]
                        \in {0, 1}
  BY DEF PageWaitsExact
<1>3. PICK n : n = retired[c][w] OBVIOUS
<1>4. /\ Counted /\ Windowed /\ Ordered(P) /\ Local(L) /\ Aligned(L) /\ Handed(P, L)
  BY <1>1 DEF HInv
<1>5. /\ n \in Numbers /\ issued[c] > n /\ order[c][Slot(n)] = P[n]
      /\ ~L[n].done[c][w]
  <2>1. ArrivedAt(P, L, c, w, n) BY <1>2, <1>3, <1>4, ArrivedFacts
  <2> QED BY <2>1 DEF ArrivedAt
<1>6. n \in Nat /\ WellFormed(Ins(n)) /\ Shaped(L[n]) /\ InTurn(Ins(n), L[n])
      /\ Permutation(P[n])
  BY <1>1, <1>5, StateOf
<1>7. lid \in LIDS /\ lid \notin L[n].finished[c]
  <2>1. CASE Running(c, w) /\ lid \in NextStep(c, w).pages
    <3>1. Inside(Ins(n), L[n], c, w) /\ lid \in At(Ins(n), L[n], c, w).pages
      BY <1>1, <1>3, <2>1, RunningInside
    <3>2. WellFormedStep(At(Ins(n), L[n], c, w)) BY <1>6, <3>1, StepForm
    <3>3. At(Ins(n), L[n], c, w).pages \cap L[n].finished[c] = {}
      BY <1>6, <3>1 DEF InTurn
    <3> QED BY <3>1, <3>2, <3>3 DEF WellFormedStep
  <2>2. CASE w = "loader" /\ lid \in Waiting(c)
    <3>1. Waiting(c) = Awaited(Ins(n)[c].lanes, L[n].passed[c])
      <4>1. L[n].passed[c] = passed[c]
        BY <1>3, <1>4, <1>5, <2>2 DEF Aligned, Tracks
      <4>2. Instruction(c, retired[c]["loader"]) = Ins(n)[c]
        BY <1>3, <2>2 DEF Instruction, Ins
      <4> QED BY <4>1, <4>2 DEF Waiting
    <3>2. Awaited(Ins(n)[c].lanes, L[n].passed[c]) \cap L[n].finished[c] = {}
      BY <1>5, <1>6, <2>2 DEF InTurn
    <3>3. PICK k \in DOMAIN Ins(n)[c].lanes : lid \in Ins(n)[c].lanes[k]
      BY <2>2, <3>1 DEF Awaited
    <3>4. lid \in LIDS BY <1>6, <3>3 DEF WellFormed
    <3> QED BY <2>2, <3>1, <3>2, <3>4
  <2> QED BY <1>2, <2>1, <2>2
<1>8. pageFinished[c][P[n][lid]] \in {n, n + 1}
  BY <1>4, <1>5, <1>7, WaitRange
<1>9. lid_to_pid(c, n, lid) = P[n][lid] BY <1>5 DEF lid_to_pid
<1> QED BY <1>3, <1>6, <1>8, <1>9

\* A CTA that a load or a commit still signals is not behind the instruction,
\* so the instruction is in its ring.
LEMMA InvariantSignals ==
  ASSUME SoundPrograms, IInv
  PROVE  NoLateSignal
<1>1. PICK P, L, K : HInv(P, L, K) BY DEF IInv
<1>2. Counted /\ Windowed /\ Aligned(L) BY <1>1 DEF HInv
<1>3. ASSUME NEW n \in Numbers, L[n] # Start(Ins(n)), NEW d \in CTAS, ~Behind(L[n], d)
      PROVE  issued[d] \in n + 1 .. n + LEAD
  <2>1. issued[d] > n BY <1>2, <1>3, StartedIssued
  <2> QED BY <1>2, <1>3, <2>1, NotBehind DEF InRing
<1>4. ASSUME NEW y \in loading
      PROVE  issued[y.signal.cta] \in y.n + 1 .. y.n + LEAD
  <2>0. PICK n \in Numbers : \E x \in L[n].loading :
         y = LoadOf(P, n, x) /\ LoadShaped(x) /\ L[n] # Start(Ins(n))
    BY <1>1, LoadOfInstruction
  <2>1. PICK x \in L[n].loading :
         y = LoadOf(P, n, x) /\ LoadShaped(x) /\ L[n] # Start(Ins(n))
    BY <2>0
  <2>2. y.n = n /\ y.signal = x.signal BY <2>1 DEF LoadOf
  <2>3. InTurn(Ins(n), L[n]) BY <1>1, StateOf
  <2>4. ~Behind(L[n], x.signal.cta) BY <2>3 DEF InTurn
  <2>5. x.signal.cta \in CTAS BY <2>1 DEF LoadShaped
  <2> QED BY <1>3, <2>1, <2>2, <2>4, <2>5
<1>5. ASSUME NEW i \in DOMAIN mmas, NEW g \in mmas[i].signals
      PROVE  issued[g.cta] \in mmas[i].n + 1 .. mmas[i].n + LEAD
  <2>0. PICK n \in Numbers : \E x \in Multiplying(L[n]) :
         mmas[i] = MmaOf(P, n, x) /\ MmaShaped(x) /\ L[n] # Start(Ins(n))
    BY <1>1, MultiplicationOf
  <2>1. PICK x \in Multiplying(L[n]) :
         mmas[i] = MmaOf(P, n, x) /\ MmaShaped(x) /\ L[n] # Start(Ins(n))
    BY <2>0
  <2>2. mmas[i].n = n /\ mmas[i].signals = x.signals BY <2>1 DEF MmaOf
  <2>3. InTurn(Ins(n), L[n]) BY <1>1, StateOf
  <2>4. ~Behind(L[n], g.cta) BY <2>2, <2>3 DEF InTurn
  <2>5. g.cta \in CTAS BY <2>1, <2>2 DEF MmaShaped
  <2> QED BY <1>3, <2>1, <2>2, <2>4, <2>5
<1> QED BY <1>4, <1>5 DEF NoLateSignal

---------------------------------------------------------------------------
(* The abstract specification.                                             *)

\* Only the instruction that has a page touches it.
Owned == Uses \subseteq {<<p, pageFinished[p[1]][p[2]] - 1>> : p \in CTAS \X LIDS}

\* The invariant gives a page's users the page.
LEMMA InvariantOwned ==
  ASSUME SoundPrograms, IInv
  PROVE  Owned
<1>1. PICK P, L, K : HInv(P, L, K) BY DEF IInv
<1>2. Counted /\ Windowed /\ Ordered(P) /\ Aligned(L) /\ Handed(P, L) BY <1>1 DEF HInv
<1> DEFINE R == {<<p, pageFinished[p[1]][p[2]] - 1>> : p \in CTAS \X LIDS}
<1>3. ASSUME NEW n \in Numbers, NEW c \in CTAS, NEW lid, Owns(L[n], c, lid)
      PROVE  <<<<c, P[n][lid]>>, n>> \in R
  <2>1. n \in Nat /\ Shaped(L[n]) /\ Permutation(P[n]) BY <1>1, StateOf
  <2>2. lid \in LIDS BY <1>3, <2>1 DEF Owns, Shaped, ProgressShaped
  <2>3. pageFinished[c][P[n][lid]] = n + 1 BY <1>2, <1>3, <2>2, OwnedPhase
  <2>4. P[n][lid] \in LIDS BY <2>1, <2>2 DEF Permutation
  <2>5. PICK q : q = <<c, P[n][lid]>> OBVIOUS
  <2>6. q \in CTAS \X LIDS /\ pageFinished[q[1]][q[2]] - 1 = n
    BY <2>1, <2>3, <2>4, <2>5
  <2>7. <<q, pageFinished[q[1]][q[2]] - 1>> \in R BY <2>6
  <2> QED BY <2>5, <2>6, <2>7
<1> HIDE DEF R
<1>4. ASSUME NEW c \in CTAS, NEW w \in WARPS,
             NEW x \in IF Running(c, w) THEN NextStep(c, w).holds ELSE {}
      PROVE  <<<<c, lid_to_pid(c, retired[c][w], x.lid)>>, retired[c][w]>> \in R
  <2>1. PICK n : n = retired[c][w] OBVIOUS
  <2>2. Running(c, w) BY <1>4
  <2>3. /\ n \in Numbers /\ Inside(Ins(n), L[n], c, w)
        /\ x \in At(Ins(n), L[n], c, w).holds
    BY <1>1, <1>4, <2>1, <2>2, RunningInside
  <2>4. InTurn(Ins(n), L[n]) BY <1>1, <2>3, StateOf
  <2>5. Owns(L[n], c, x.lid) BY <2>3, <2>4 DEF InTurn
  <2>6. order[c][Slot(n)] = P[n]
    <3>1. Arrived(c, w) BY <2>2 DEF Running
    <3>2. ArrivedAt(P, L, c, w, n) BY <1>2, <2>1, <3>1, ArrivedFacts
    <3> QED BY <3>2 DEF ArrivedAt
  <2>7. <<<<c, P[n][x.lid]>>, n>> \in R BY <1>3, <2>3, <2>5
  <2> QED BY <2>1, <2>6, <2>7 DEF lid_to_pid
<1>5. ASSUME NEW y \in loading, NEW r \in y.places
      PROVE  <<<<y.cta, r[1]>>, y.n>> \in R
  <2>0. PICK n \in Numbers : \E x \in L[n].loading :
         y = LoadOf(P, n, x) /\ LoadShaped(x)
    BY <1>1, LoadOfInstruction
  <2>1. PICK x \in L[n].loading :
         y = LoadOf(P, n, x) /\ LoadShaped(x)
    BY <2>0
  <2>2. y.n = n /\ y.cta = x.cta /\ y.places = {<<P[n][z[1]], z[2]>> : z \in x.places}
    BY <2>1 DEF LoadOf
  <2>3. PICK z \in x.places : r = <<P[n][z[1]], z[2]>> BY <2>2
  <2>4. InTurn(Ins(n), L[n]) BY <1>1, StateOf
  <2>5. Owns(L[n], x.cta, z[1]) BY <2>4 DEF InTurn
  <2>6. x.cta \in CTAS /\ r[1] = P[n][z[1]] BY <2>1, <2>3 DEF LoadShaped
  <2>7. <<<<x.cta, P[n][z[1]]>>, n>> \in R BY <1>3, <2>5, <2>6
  <2> QED BY <2>2, <2>6, <2>7
<1>6. ASSUME NEW i \in DOMAIN mmas, NEW c \in mmas[i].ctas, NEW r \in mmas[i].reads
      PROVE  <<<<c, r.pid>>, mmas[i].n>> \in R
  <2>0. PICK n \in Numbers : \E x \in Multiplying(L[n]) :
         mmas[i] = MmaOf(P, n, x) /\ MmaShaped(x)
    BY <1>1, MultiplicationOf
  <2>1. PICK x \in Multiplying(L[n]) :
         mmas[i] = MmaOf(P, n, x) /\ MmaShaped(x)
    BY <2>0
  <2>2. mmas[i].n = n /\ mmas[i].ctas = x.ctas BY <2>1 DEF MmaOf
  <2>3. PICK z \in x.reads : r = [pid |-> P[n][z.lid], part |-> z.part, tag |-> z.tag]
    BY <2>1 DEF MmaOf
  <2>4. InTurn(Ins(n), L[n]) BY <1>1, StateOf
  <2>5. Owns(L[n], c, z.lid) BY <2>2, <2>4 DEF InTurn
  <2>6. c \in CTAS /\ r.pid = P[n][z.lid] BY <2>1, <2>2, <2>3 DEF MmaShaped
  <2>7. <<<<c, P[n][z.lid]>>, n>> \in R BY <1>3, <2>5, <2>6
  <2> QED BY <2>2, <2>6, <2>7
<1>7. ASSUME NEW u \in Uses PROVE u \in R
  <2>1. CASE \E c \in CTAS, w \in WARPS :
               \E x \in IF Running(c, w) THEN NextStep(c, w).holds ELSE {} :
                 u = <<<<c, lid_to_pid(c, retired[c][w], x.lid)>>, retired[c][w]>>
    BY <1>4, <2>1
  <2>2. CASE \E y \in loading : \E r \in y.places : u = <<<<y.cta, r[1]>>, y.n>>
    BY <1>5, <2>2
  <2>3. CASE \E i \in DOMAIN mmas : \E c \in mmas[i].ctas, r \in mmas[i].reads :
               u = <<<<c, r.pid>>, mmas[i].n>>
    BY <1>6, <2>3
  <2> DEFINE held(c, w) == {<<<<c, lid_to_pid(c, retired[c][w], x.lid)>>, retired[c][w]>> :
                              x \in IF Running(c, w) THEN NextStep(c, w).holds ELSE {}}
             loaded(y) == {<<<<y.cta, r[1]>>, y.n>> : r \in y.places}
             multiplied(i) == {<<<<c, r.pid>>, mmas[i].n>> :
                                 c \in mmas[i].ctas, r \in mmas[i].reads}
  <2>4. \/ u \in UNION {held(c, w) : c \in CTAS, w \in WARPS}
        \/ u \in UNION {loaded(y) : y \in loading}
        \/ u \in UNION {multiplied(i) : i \in DOMAIN mmas}
    BY DEF Uses, WarpUses, LoadUses, MmaUses
  <2>5. ASSUME u \in UNION {held(c, w) : c \in CTAS, w \in WARPS} PROVE u \in R
    <3>1. PICK c \in CTAS, w \in WARPS : u \in held(c, w) BY <2>5
    <3> QED BY <2>1, <3>1
  <2>6. ASSUME u \in UNION {loaded(y) : y \in loading} PROVE u \in R
    <3>1. PICK y \in loading : u \in loaded(y) BY <2>6
    <3> QED BY <2>2, <3>1
  <2>7. ASSUME u \in UNION {multiplied(i) : i \in DOMAIN mmas} PROVE u \in R
    <3>1. PICK i \in DOMAIN mmas : u \in multiplied(i) BY <2>7
    <3> QED BY <2>3, <3>1
  <2> QED BY <2>4, <2>5, <2>6, <2>7
<1> QED BY <1>7 DEF Owned, R

\* In every step a page stays with its instruction or goes to the next.
LEMMA PagesMoveOn ==
  ASSUME SoundPrograms, IInv, [Next]_vars
  PROVE  \A c \in CTAS, p \in LIDS :
           pageFinished'[c][p] \in {pageFinished[c][p], pageFinished[c][p] + 1}
<1>1. pageFinished \in [CTAS -> [LIDS -> Nat \ {0}]] BY DEF IInv, HInv, Counted
<1>2. ASSUME NEW c \in CTAS, NEW n, NEW lids, pageFinished' = page_finish(c, n, lids)
      PROVE  \A d \in CTAS, p \in LIDS :
               pageFinished'[d][p] \in {pageFinished[d][p], pageFinished[d][p] + 1}
  <2> DEFINE pids == {lid_to_pid(c, n, lid) : lid \in lids}
  <2> SUFFICES ASSUME NEW d \in CTAS, NEW p \in LIDS
      PROVE  pageFinished'[d][p] \in {pageFinished[d][p], pageFinished[d][p] + 1}
    OBVIOUS
  <2>1. CASE lids = {} BY <1>2, <2>1 DEF page_finish
  <2>2. CASE lids # {}
    <3>1. pageFinished' = [pageFinished EXCEPT ![c] =
            [q \in LIDS |-> IF q \in pids THEN pageFinished[c][q] + 1
                            ELSE pageFinished[c][q]]]
      BY <1>2, <2>2 DEF page_finish
    <3> HIDE DEF pids
    <3>2. CASE d = c BY <1>1, <3>1, <3>2
    <3>3. CASE d # c BY <1>1, <3>1, <3>3
    <3> QED BY <3>2, <3>3
  <2> QED BY <2>1, <2>2
<1>3. CASE pageFinished' = pageFinished BY <1>3
<1>4. CASE \E c \in CTAS : Issue(c) BY <1>3, <1>4 DEF Issue
<1>5. CASE \E c \in CTAS, w \in WARPS : Advance(c, w)
  <2>1. PICK c \in CTAS, w \in WARPS : Advance(c, w) BY <1>5
  <2>2. pageFinished' = page_finish(c, retired[c][w], NextStep(c, w).finishes)
    BY <2>1 DEF Advance
  <2> QED BY <1>2, <2>2
<1>6. CASE \E c \in CTAS, w \in WARPS : Retire(c, w) BY <1>3, <1>6 DEF Retire
<1>7. CASE \E c \in CTAS, lid \in LIDS : PassOn(c, lid)
  <2>1. PICK c \in CTAS, lid \in LIDS : PassOn(c, lid) BY <1>7
  <2>2. pageFinished' = page_finish(c, retired[c]["loader"], {lid})
    BY <2>1 DEF PassOn
  <2> QED BY <1>2, <2>2
<1>8. CASE \E x \in loading : Deliver(x) BY <1>3, <1>8 DEF Deliver
<1>9. CASE Multiplied BY <1>3, <1>9 DEF Multiplied
<1>10. CASE UNCHANGED vars BY <1>3, <1>10 DEF vars
<1> QED BY <1>4, <1>5, <1>6, <1>7, <1>8, <1>9, <1>10 DEF Next, Exit

\* The initial states are initial states of the pool,
LEMMA PoolInit ==
  ASSUME SoundPrograms, Init
  PROVE  Pool!Init
<1>1. /\ issued = [c \in CTAS |-> 0] /\ retired = [c \in CTAS |-> [w \in WARPS |-> 0]]
      /\ pageFinished = [c \in CTAS |-> [p \in LIDS |-> 1]]
      /\ loading = {} /\ mmas = << >>
  BY DEF Init
<1>2. \A c \in CTAS, w \in WARPS : ~Running(c, w) BY <1>1 DEF Running, Arrived
<1>3. Uses = {} BY <1>1, <1>2 DEF Uses, WarpUses, LoadUses, MmaUses
<1>4. [p \in CTAS \X LIDS |-> pageFinished[p[1]][p[2]] - 1] = [p \in CTAS \X LIDS |-> 0]
  BY <1>1
<1> QED BY <1>3, <1>4 DEF Pool!Init

\* and steps are steps of the pool.
LEMMA PoolNext ==
  ASSUME SoundPrograms, IInv, Owned', [Next]_vars
  PROVE  Pool!Next
<1> DEFINE h == [p \in CTAS \X LIDS |-> pageFinished[p[1]][p[2]] - 1]
<1>1. pageFinished \in [CTAS -> [LIDS -> Nat \ {0}]] BY DEF IInv, HInv, Counted
<1>2. DOMAIN h' = CTAS \X LIDS OBVIOUS
<1>3. ASSUME NEW p \in CTAS \X LIDS PROVE h'[p] = h[p] \/ h'[p] = h[p] + 1
  <2>1. p[1] \in CTAS /\ p[2] \in LIDS OBVIOUS
  <2>2. pageFinished'[p[1]][p[2]] \in {pageFinished[p[1]][p[2]], pageFinished[p[1]][p[2]] + 1}
    BY <2>1, PagesMoveOn
  <2>3. pageFinished[p[1]][p[2]] \in Nat BY <1>1, <2>1
  <2>4. h[p] = pageFinished[p[1]][p[2]] - 1 /\ h'[p] = pageFinished'[p[1]][p[2]] - 1
    OBVIOUS
  <2> QED BY <2>2, <2>3, <2>4
<1>4. Uses' \subseteq {<<p, h'[p]>> : p \in CTAS \X LIDS}
  <2>1. Uses' \subseteq {<<p, pageFinished'[p[1]][p[2]] - 1>> : p \in CTAS \X LIDS}
    BY DEF Owned
  <2>2. \A p \in CTAS \X LIDS : h'[p] = pageFinished'[p[1]][p[2]] - 1 OBVIOUS
  <2> HIDE DEF h
  <2> QED BY <2>1, <2>2
<1> QED BY <1>2, <1>3, <1>4 DEF Pool!Next, Pool!Keep, Pool!HandOver

---------------------------------------------------------------------------
\* Every variable keeps its type: page orders stay permutations, and no mbarrier
\* gets more arrivals than it counts.
THEOREM TypesHold == SoundPrograms => (Spec => []TypeOK)
<1> SUFFICES ASSUME SoundPrograms PROVE Spec => []TypeOK OBVIOUS
<1>1. IInv => TypeOK BY InvariantTypes
<1> QED BY <1>1, Invariance, PTL

\* What a warp reads from a shared-memory page, or has the TMA store, and what a
\* multiplication in flight reads in either CTA, is what the same instruction
\* put there, whatever page order it has and whoever runs before and after it.
THEOREM PagesStayIntact == SoundPrograms => (Spec => []PagesIntact)
<1> SUFFICES ASSUME SoundPrograms PROVE Spec => []PagesIntact OBVIOUS
<1>1. IInv => PagesIntact BY InvariantPages
<1> QED BY <1>1, Invariance, PTL

\* page_wait, which looks at a parity (schema.cuh), never lets a lane pass in an
\* old phase and never misses the one it waits for.
THEOREM PageWaitsAreExact == SoundPrograms => (Spec => []PageWaitsExact)
<1> SUFFICES ASSUME SoundPrograms PROVE Spec => []PageWaitsExact OBVIOUS
<1>1. IInv => PageWaitsExact BY InvariantWaits
<1> QED BY <1>1, Invariance, PTL

\* No load and no commit signals a semaphore after the controller has reused its
\* slot for another instruction.
THEOREM SignalsAreInTime == SoundPrograms => (Spec => []NoLateSignal)
<1> SUFFICES ASSUME SoundPrograms PROVE Spec => []NoLateSignal OBVIOUS
<1>1. IInv => NoLateSignal BY InvariantSignals
<1> QED BY <1>1, Invariance, PTL

\* The page protocol of an SM implements PagePool: each page goes from
\* instruction to instruction, each has it once, and touches it only then.
THEOREM HandoverImplementsPool == SoundPrograms => (Spec => ImplementsPool)
<1> SUFFICES ASSUME SoundPrograms PROVE Spec => ImplementsPool OBVIOUS
<1>1. Init => Pool!Init BY PoolInit
<1>2. IInv => Owned BY InvariantOwned
<1>3. IInv /\ Owned' /\ [Next]_vars => Pool!Next BY PoolNext
<1> QED BY <1>1, <1>2, <1>3, Invariance, PTL DEF Spec, ImplementsPool, Pool!Spec

---------------------------------------------------------------------------
(* Programs of gemms and gate_silus: their instructions are sound.         *)

OnlyMatmuls ==
  \A i \in DOMAIN PROGRAMS : \A j \in DOMAIN PROGRAMS[i] :
    \E n, k : Iterations(n) /\ Epilogue(k) /\ PROGRAMS[i][j] = Matmuls(n, k)

LEMMA MatmulProgramsAreSound ==
  ASSUME MatmulConfig, OnlyMatmuls PROVE SoundPrograms
BY MatmulsAreSound DEF OnlyMatmuls, SoundPrograms

\* In a cluster of two CTAs that runs gemms and gate_silus, in any number and
\* order and each of any even number of iterations, what a warp, a store or a
\* multiplication reads in a page is what its instruction put there, and all
\* that the page protocol promises holds: nothing is assumed of the instructions.
THEOREM MatmulPagesStayIntact ==
  MatmulConfig /\ OnlyMatmuls =>
    (Spec => [](TypeOK /\ PagesIntact /\ PageWaitsExact /\ NoLateSignal) /\ ImplementsPool)
<1> SUFFICES ASSUME MatmulConfig, OnlyMatmuls
             PROVE  Spec => [](TypeOK /\ PagesIntact /\ PageWaitsExact /\ NoLateSignal)
                            /\ ImplementsPool
  OBVIOUS
<1>1. SoundPrograms BY MatmulProgramsAreSound
<1>2. Spec => []TypeOK BY <1>1, TypesHold
<1>3. Spec => []PagesIntact BY <1>1, PagesStayIntact
<1>4. Spec => []PageWaitsExact BY <1>1, PageWaitsAreExact
<1>5. Spec => []NoLateSignal BY <1>1, SignalsAreInTime
<1>6. Spec => ImplementsPool BY <1>1, HandoverImplementsPool
<1> QED BY <1>2, <1>3, <1>4, <1>5, <1>6, PTL
=============================================================================
