--------------------- MODULE InstructionPipelineProofs ---------------------
(***************************************************************************)
(* Proofs about InstructionPipeline, for every number of worker warps,     *)
(* pages and instructions, both cluster sizes and both fetch modes.        *)
(*                                                                         *)
(* All barrier phases are recovered from the iteration counters of the     *)
(* warps: the inductive invariant IInv says how many arrivals each mbarrier *)
(* has seen (ArrivalsInv, FinishesInv, ClcInv), how far the warps of a     *)
(* cluster can be apart (OrderInv), and what is in the two slots (SlotInv). *)
(* From it follow, in the second half of the module, the rows that the     *)
(* controllers publish and the page orders they write.                     *)
(***************************************************************************)
EXTENDS InstructionPipeline, FiniteSetTheorems, TLAPS

---------------------------------------------------------------------------
(* The inductive invariant.                                                *)

\* How many of the iterations 0 .. m - 1 use ring slot g.
Uses(m, g) == (m + 1 - g) \div 2

\* How many iterations controller c has published (a stop signal included).
Pub(c) == Len(issued[c])

PublishedInv ==
  \A c \in CTAS :
    Pub(c) = IF cpc[c] = "exited" THEN citer[c] + 1 ELSE citer[c]

\* Every commit has arrived in a phase, arrived in the phase at hand, or is
\* under way.
TotalPub(g) == Uses(Pub(0), g) + (IF CLUSTER_SIZE = 2 THEN Uses(Pub(1), g) ELSE 0)

ArrivalsInv ==
  \A c \in CTAS, g \in RINGS :
    arrived_phase[c][g] * CLUSTER_SIZE + arrived_count[c][g] + commits[c][g]
      = TotalPub(g)

\* The workers of CTA c that have arrived in the phase at hand.
Early(c, g) == {w \in WORKERS : Uses(witer[c][w], g) = finished_phase[c][g] + 1}

FinishesInv ==
  \A c \in CTAS, g \in RINGS :
    /\ \A w \in WORKERS :
         Uses(witer[c][w], g) \in {finished_phase[c][g], finished_phase[c][g] + 1}
    /\ finished_count[c][g] = Cardinality(Early(c, g))

\* How many instructions a worker has begun.
Begun(c, w) == IF wpc[c][w] = "wait" THEN witer[c][w] ELSE witer[c][w] + 1

OrderInv ==
  /\ \A c \in CTAS, w \in WORKERS :
       citer[c] <= (IF cpc[c] = "reclaim" THEN witer[c][w] + 2
                                          ELSE witer[c][w] + 1)
  /\ \A c, d \in CTAS, w \in WORKERS : Begun(c, w) <= Pub(d)
  /\ \A c \in CTAS, w \in WORKERS, g \in RINGS :
       Uses(Begun(c, w), g) <= arrived_phase[c][g]

SlotOK(c) ==
  /\ \A i \in 1 .. Pub(c) :
       IF cpc[c] = "exited" /\ i = Pub(c) THEN issued[c][i] = STOP
                                          ELSE issued[c][i] \in ROWIDS
  /\ Pub(c) >= 1 =>
       /\ slot[c][Stage(Pub(c) - 1)] = issued[c][Pub(c)]
       /\ cpc[c] # "exited" => semaphores[c][Stage(Pub(c) - 1)]
  /\ Pub(c) >= 2 /\ cpc[c] \in {"reclaim", "exited"} =>
       /\ slot[c][Stage(Pub(c) - 2)] = issued[c][Pub(c) - 1]
       /\ semaphores[c][Stage(Pub(c) - 2)]
  /\ cpc[c] \in {"prepare", "publish"} => slot[c][Stage(citer[c])] \in ROWIDS
  /\ cpc[c] = "publish" => semaphores[c][Stage(citer[c])]
  /\ \A w \in WORKERS :
       wpc[c][w] # "wait" =>
         /\ wrow[c][w] = issued[c][witer[c][w] + 1]
         /\ wpc[c][w] = "exited" <=> wrow[c][w] = STOP

SlotInv == \A c \in CTAS : SlotOK(c)

\* How many of the iterations 1 .. t - 1 use ring slot g: iteration 0 does
\* not ask the CLC.
Asks(t, g) == IF g = 1 THEN t \div 2 ELSE IF t = 0 THEN 0 ELSE (t - 1) \div 2

\* Iterations in which controller c has asked, and those whose answer it has.
Asked(c) == IF cpc[c] \in {"reclaim", "fetch"} THEN citer[c] ELSE citer[c] + 1
Answered(c) ==
  IF cpc[c] \in {"reclaim", "fetch", "query"} THEN citer[c] ELSE citer[c] + 1

\* The first rows of the clusters of the grid.
FirstRows == {r \in ROWIDS : r % CLUSTER_SIZE = 0}

One(condition) == IF condition THEN 1 ELSE 0

ClcInv ==
  GLOBAL_WORK_QUEUE =>
    /\ unlaunched \subseteq FirstRows
    /\ \A c \in CTAS, g \in RINGS :
         /\ clc_handle[c][g] \in FirstRows \cup {FAILED, UNSET}
         /\ clc_response[c][g] \in FirstRows \cup {FAILED, UNSET}
         /\ clc_phase[c][g] + One("arrival" \notin clc_missing[c][g])
              = Asks(Asked(c), g)
         /\ clc_phase[c][g] + One("bytes" \notin clc_missing[c][g])
              + One(clc_response[c][g] # UNSET) = Asks(Asked(0), g)
         /\ clc_phase[c][g] >= Asks(Answered(c), g)
         /\ clc_phase[c][g] + One("bytes" \notin clc_missing[c][g]) >= 1 =>
              clc_handle[c][g] # UNSET
    /\ \A c \in CTAS : citer[c] = 0 => cpc[c] # "query"

ModeInv ==
  ~GLOBAL_WORK_QUEUE =>
    /\ \A c \in CTAS : cpc[c] # "query"
    /\ \A c \in CTAS, g \in RINGS : clc_response[c][g] = UNSET

IInv ==
  /\ TypeOK
  /\ PublishedInv
  /\ ArrivalsInv
  /\ FinishesInv
  /\ OrderInv
  /\ SlotInv
  /\ ClcInv
  /\ ModeInv

---------------------------------------------------------------------------
(* Arithmetic of the ring.                                                 *)

\* Uses counts the iterations of a slot: one more at each of them.
LEMMA UsesStep ==
  ASSUME NEW m \in Nat, NEW g \in RINGS
  PROVE  /\ Uses(m, g) \in Nat
         /\ Uses(m + 1, g) = Uses(m, g) + (IF Stage(m) = g THEN 1 ELSE 0)
         /\ Uses(0, g) = 0
  BY DEF Uses, RINGS, STAGES, Stage

LEMMA UsesMonotone ==
  ASSUME NEW m \in Nat, NEW k \in Nat, m <= k, NEW g \in RINGS
  PROVE  Uses(m, g) <= Uses(k, g)
  BY DEF Uses, RINGS, STAGES

\* What the count of a slot says about iteration n, which uses that slot.
LEMMA UsesAt ==
  ASSUME NEW n \in Nat, NEW m \in Nat
  PROVE  /\ Stage(n) \in RINGS
         /\ Uses(n, Stage(n)) = n \div STAGES
         /\ Uses(m, Stage(n)) >= n \div STAGES <=> m >= n - 1
         /\ Uses(m, Stage(n)) >= n \div STAGES + 1 <=> m >= n + 1
         /\ Uses(m, Stage(n)) >= n \div STAGES + 2 <=> m >= n + 3
  BY DEF Uses, RINGS, STAGES, Stage

\* The same for the CLC's count of a slot.
LEMMA AsksStep ==
  ASSUME NEW t \in Nat, NEW g \in RINGS
  PROVE  /\ Asks(t, g) \in Nat
         /\ Asks(t + 1, g) = Asks(t, g)
                               + (IF t > 0 /\ Stage(t) = g THEN 1 ELSE 0)
         /\ Asks(0, g) = 0
  BY DEF Asks, RINGS, STAGES, Stage

LEMMA AsksMonotone ==
  ASSUME NEW t \in Nat, NEW u \in Nat, t <= u, NEW g \in RINGS
  PROVE  Asks(t, g) <= Asks(u, g)
  BY DEF Asks, RINGS, STAGES

LEMMA AsksGap ==
  ASSUME NEW t \in Nat, NEW u \in Nat, u <= t + 2, NEW g \in RINGS
  PROVE  Asks(u, g) <= Asks(t, g) + 1
  BY DEF Asks, RINGS, STAGES

LEMMA AsksAt ==
  ASSUME NEW n \in Nat, n > 0
  PROVE  /\ Asks(n, Stage(n)) = (n - 1) \div STAGES
         /\ Asks(n - 1, Stage(n)) = (n - 1) \div STAGES
         /\ Asks(n + 1, Stage(n)) = (n - 1) \div STAGES + 1
  BY DEF Asks, RINGS, STAGES, Stage

\* A wait on a parity is exact if the phase is the awaited one or the next.
LEMMA ParityExact ==
  ASSUME NEW phase \in Nat, NEW q \in Nat, phase \in {q, q + 1},
         Completed(phase, q % 2)
  PROVE  phase = q + 1
  BY DEF Completed

LEMMA ZeroRank == 0 \in CTAS
  BY ConfigAssumption DEF CTAS

---------------------------------------------------------------------------
(* What the invariant says at each of the three waits.                     *)

\* The controller of a CTA is at most two instructions ahead of its workers,
\* and no worker is ahead of any controller of the cluster.
LEMMA Window ==
  ASSUME IInv, NEW c \in CTAS, NEW w \in WORKERS
  PROVE  /\ Pub(c) \in Nat /\ witer[c][w] \in Nat /\ Begun(c, w) \in Nat
         /\ Pub(c) <= witer[c][w] + 2
         /\ cpc[c] \notin {"reclaim", "exited"} => Pub(c) <= witer[c][w] + 1
         /\ \A d \in CTAS : witer[c][w] <= Pub(d) /\ Begun(c, w) <= Pub(d)
  <1>1. citer[c] \in Nat /\ witer[c][w] \in Nat
    BY DEF IInv, TypeOK
  <1>2. /\ citer[c] <= (IF cpc[c] = "reclaim" THEN witer[c][w] + 2
                                              ELSE witer[c][w] + 1)
        /\ \A d \in CTAS : Begun(c, w) <= Pub(d)
    BY DEF IInv, OrderInv
  <1>3. Pub(c) = IF cpc[c] = "exited" THEN citer[c] + 1 ELSE citer[c]
    BY DEF IInv, PublishedInv
  <1>4. \A d \in CTAS : Pub(d) \in Nat
    BY DEF IInv, TypeOK, Pub
  <1>5. QED
    BY <1>1, <1>2, <1>3, <1>4 DEF Begun

\* A worker that waits for its n-th instruction: the phase it waits for is
\* the one at hand or just over, and once it is over every controller of the
\* cluster has published the n-th instruction.
LEMMA TakeExact ==
  ASSUME IInv, NEW c \in CTAS, NEW w \in WORKERS, wpc[c][w] = "wait",
         NEW n \in Nat, n = witer[c][w], NEW g \in RINGS, g = Stage(n)
  PROVE  /\ arrived_phase[c][g] \in {n \div STAGES, n \div STAGES + 1}
         /\ arrived_phase[c][g] = n \div STAGES + 1 =>
              \A d \in CTAS : Pub(d) >= n + 1
  <1> DEFINE r == n \div STAGES
             phase == arrived_phase[c][g]
  <1>1. r \in Nat /\ phase \in Nat
    BY DEF IInv, TypeOK, STAGES
  <1>2. phase >= r
    <2>1. Uses(Begun(c, w), g) <= phase
      BY DEF IInv, OrderInv
    <2>2. QED
      BY <2>1, <1>1, UsesAt DEF Begun
  <1>3. phase * CLUSTER_SIZE <= TotalPub(g)
    <2>1. phase * CLUSTER_SIZE + arrived_count[c][g] + commits[c][g] = TotalPub(g)
      BY DEF IInv, ArrivalsInv
    <2>2. arrived_count[c][g] \in Nat /\ commits[c][g] \in Nat
      BY ConfigAssumption DEF IInv, TypeOK
    <2>3. phase * CLUSTER_SIZE \in Nat
      BY <1>1, ConfigAssumption
    <2>4. QED
      BY <2>1, <2>2, <2>3
  <1>4. ASSUME NEW d \in CTAS
        PROVE  /\ Pub(d) \in Nat /\ Uses(Pub(d), g) \in Nat
               /\ Uses(Pub(d), g) <= (IF d = c THEN r + 1 ELSE r + 2)
               /\ Uses(Pub(d), g) >= r + 1 <=> Pub(d) >= n + 1
               /\ Uses(Pub(d), g) >= r + 2 => Pub(c) >= n + 1
    <2>1. PICK v \in WORKERS : TRUE
      BY ConfigAssumption
    <2>2. /\ Pub(d) \in Nat /\ Pub(c) \in Nat /\ witer[d][v] \in Nat
          /\ Pub(d) <= witer[d][v] + 2 /\ witer[d][v] <= Pub(c)
          /\ Pub(c) <= n + 2
      BY Window
    <2>3. /\ Uses(Pub(d), g) \in Nat
          /\ Uses(Pub(d), g) >= r + 1 <=> Pub(d) >= n + 1
          /\ Uses(Pub(d), g) >= r + 2 <=> Pub(d) >= n + 3
      BY <2>2, UsesAt, UsesStep
    <2>4. Uses(Pub(d), g) <= r + 2
      BY <2>2, UsesAt, UsesStep, UsesMonotone, Pub(d) <= n + 4 DEF Uses, Stage, STAGES, RINGS
    <2>5. d = c => Uses(Pub(d), g) <= r + 1
      BY <2>2, <2>3, <1>1
    <2>6. QED
      BY <2>2, <2>3, <2>4, <2>5, <1>1
  <1>5. CASE CLUSTER_SIZE = 1
    <2>1. CTAS = {0} /\ c = 0
      BY <1>5 DEF CTAS
    <2>2. TotalPub(g) = Uses(Pub(0), g)
      BY <1>5, <2>1, <1>4 DEF TotalPub
    <2>3. QED
      BY <2>1, <2>2, <1>1, <1>2, <1>3, <1>4, <1>5
  <1>6. CASE CLUSTER_SIZE = 2
    <2>1. CTAS = {0, 1}
      BY <1>6 DEF CTAS
    <2>2. phase * 2 <= Uses(Pub(0), g) + Uses(Pub(1), g)
      BY <1>3, <1>6 DEF TotalPub
    <2>3. QED
      BY <2>1, <2>2, <1>1, <1>2, <1>4
  <1>7. QED
    BY <1>5, <1>6, ConfigAssumption

\* The controller that waits to reuse a slot at iteration n: the phase is
\* exact, and once it is over all its workers are done with iteration n - 2.
LEMMA ReclaimExact ==
  ASSUME IInv, NEW c \in CTAS, cpc[c] = "reclaim",
         NEW n \in Nat, n = citer[c], n >= STAGES, NEW g \in RINGS, g = Stage(n)
  PROVE  /\ finished_phase[c][g] \in {n \div STAGES - 1, n \div STAGES}
         /\ finished_phase[c][g] = n \div STAGES =>
              \A w \in WORKERS : witer[c][w] >= n - 1
  <1> DEFINE r == n \div STAGES
             phase == finished_phase[c][g]
  <1>1. r \in Nat /\ r >= 1 /\ phase \in Nat
    BY DEF IInv, TypeOK, STAGES
  <1>2. ASSUME NEW w \in WORKERS
        PROVE  /\ witer[c][w] \in Nat /\ witer[c][w] >= n - 2 /\ witer[c][w] <= n
               /\ Uses(witer[c][w], g) \in {phase, phase + 1}
               /\ Uses(witer[c][w], g) \in {r - 1, r}
               /\ Uses(witer[c][w], g) >= r <=> witer[c][w] >= n - 1
    <2>1. Pub(c) = n
      BY DEF IInv, PublishedInv
    <2>2. /\ witer[c][w] \in Nat /\ witer[c][w] >= n - 2 /\ witer[c][w] <= n
      BY <2>1, Window
    <2>3. Uses(witer[c][w], g) \in {phase, phase + 1}
      BY DEF IInv, FinishesInv
    <2>4. Uses(witer[c][w], g) \in {r - 1, r}
      <3>1. witer[c][w] \in {n - 2, n - 1, n}
        BY <2>2
      <3>2. ASSUME NEW m \in {n - 2, n - 1, n} PROVE Uses(m, g) \in {r - 1, r}
        BY <3>2, n >= 2 DEF Uses, Stage, STAGES, RINGS
      <3>3. QED
        BY <3>1, <3>2
    <2>5. QED
      BY <2>2, <2>3, <2>4, UsesAt
  <1>3. phase >= r - 1
    <2>1. SUFFICES ASSUME phase = r - 2 PROVE FALSE
      BY <1>1, <1>2, ConfigAssumption
    <2>2. Early(c, g) = WORKERS
      BY <2>1, <1>1, <1>2 DEF Early
    <2>3. finished_count[c][g] = Cardinality(WORKERS)
      BY <2>2 DEF IInv, FinishesInv
    <2>4. finished_count[c][g] \in 0 .. Cardinality(WORKERS) - 1
      BY DEF IInv, TypeOK
    <2>5. Cardinality(WORKERS) \in Nat
      BY ConfigAssumption, FS_CardinalityType
    <2>6. QED
      BY <2>3, <2>4, <2>5
  <1>4. QED
    BY <1>1, <1>2, <1>3, ConfigAssumption

\* A controller that waits for the CLC at iteration n.
LEMMA QueryExact ==
  ASSUME IInv, GLOBAL_WORK_QUEUE, NEW c \in CTAS, cpc[c] = "query",
         NEW n \in Nat, n = citer[c], NEW g \in RINGS, g = Stage(n)
  PROVE  /\ n > 0
         /\ clc_phase[c][g] \in {(n - 1) \div STAGES, (n - 1) \div STAGES + 1}
         /\ clc_phase[c][g] = (n - 1) \div STAGES + 1 =>
              clc_handle[c][g] \in FirstRows \cup {FAILED}
  <1>1. n > 0 /\ clc_phase[c][g] \in Nat
    BY DEF IInv, TypeOK, ClcInv
  <1>2. /\ clc_phase[c][g] + One("arrival" \notin clc_missing[c][g])
             = Asks(n + 1, g)
        /\ clc_phase[c][g] >= Asks(n, g)
        /\ clc_phase[c][g] + One("bytes" \notin clc_missing[c][g]) >= 1 =>
             clc_handle[c][g] # UNSET
        /\ clc_handle[c][g] \in FirstRows \cup {FAILED, UNSET}
    BY DEF IInv, ClcInv, Asked, Answered
  <1>3. /\ Asks(n, g) = (n - 1) \div STAGES
        /\ Asks(n + 1, g) = (n - 1) \div STAGES + 1
        /\ (n - 1) \div STAGES \in Nat
    BY <1>1, AsksAt DEF STAGES
  <1>4. \A condition : One(condition) \in {0, 1}
    BY DEF One
  <1>5. clc_phase[c][g] \in {(n - 1) \div STAGES, (n - 1) \div STAGES + 1}
    BY <1>1, <1>2, <1>3, <1>4
  <1>6. clc_phase[c][g] >= 1 => clc_handle[c][g] # UNSET
    BY <1>1, <1>2, <1>4
  <1>7. QED
    BY <1>1, <1>2, <1>3, <1>5, <1>6

\* The slot of an instruction that is published and that a worker has not
\* finished yet still holds it.
LEMMA SlotWindow ==
  ASSUME IInv, NEW c \in CTAS, NEW w \in WORKERS,
         NEW n \in Nat, n = witer[c][w], Pub(c) >= n + 1
  PROVE  /\ slot[c][Stage(n)] = issued[c][n + 1]
         /\ issued[c][n + 1] \in ROWIDS \cup {STOP}
         /\ issued[c][n + 1] # STOP => semaphores[c][Stage(n)]
  <1>1. /\ Pub(c) \in Nat /\ Pub(c) <= n + 2
        /\ cpc[c] \notin {"reclaim", "exited"} => Pub(c) <= n + 1
    BY Window
  <1>2. issued[c][n + 1] \in ROWIDS \cup {STOP}
    BY <1>1 DEF IInv, TypeOK, Pub
  <1>3. CASE Pub(c) = n + 1
    BY <1>2, <1>3 DEF IInv, SlotInv, SlotOK
  <1>4. CASE Pub(c) = n + 2
    BY <1>1, <1>2, <1>4 DEF IInv, SlotInv, SlotOK
  <1>5. QED
    BY <1>1, <1>3, <1>4

---------------------------------------------------------------------------
(* The initial states satisfy the invariant.                               *)

LEMMA InitIInv == Init => IInv
  <1> SUFFICES ASSUME Init PROVE IInv
    OBVIOUS
  <1> USE DEF PerSlot
  <1>1. TypeOK
    <2>1. Cardinality(WORKERS) \in Nat /\ Cardinality(WORKERS) > 0
      BY ConfigAssumption, FS_CardinalityType, FS_EmptySet
    <2>2. issued \in [CTAS -> Seq(ROWIDS \cup {STOP})]
      BY DEF Init
    <2>3. /\ unlaunched \subseteq ROWIDS
          /\ CLC_PHASE \in (SUBSET CLC_PHASE) \ {{}}
      BY DEF Init, CLC_PHASE
    <2>4. 0 \in 0 .. CLUSTER_SIZE - 1 /\ 0 \in 0 .. Cardinality(WORKERS) - 1
      BY <2>1, ConfigAssumption
    <2>5. QED
      BY <2>2, <2>3, <2>4 DEF Init, TypeOK
  <1>2. \A c \in CTAS : Pub(c) = 0
    BY DEF Init, Pub
  <1>3. 0 \in CTAS /\ (CLUSTER_SIZE = 2 => 1 \in CTAS)
    BY ConfigAssumption DEF CTAS
  <1>4. \A g \in RINGS : Uses(0, g) = 0 /\ Asks(0, g) = 0
    BY UsesStep, AsksStep
  <1>5. PublishedInv
    BY <1>2 DEF Init, PublishedInv
  <1>6. ArrivalsInv
    BY <1>2, <1>3, <1>4, ConfigAssumption DEF Init, ArrivalsInv, TotalPub
  <1>7. FinishesInv
    <2>1. \A c \in CTAS, g \in RINGS : Early(c, g) = {}
      BY <1>4 DEF Init, Early
    <2>2. QED
      BY <1>4, <2>1, FS_EmptySet DEF Init, FinishesInv
  <1>8. OrderInv
    BY <1>2, <1>4 DEF Init, OrderInv, Begun
  <1>9. SlotInv
    BY <1>2 DEF Init, SlotInv, SlotOK
  <1>10. ClcInv
    BY <1>3, <1>4 DEF Init, ClcInv, Asked, Answered, One, CLC_PHASE,
                      FirstRows, UNSET
  <1>11. ModeInv
    BY DEF Init, ModeInv
  <1>12. QED
    BY <1>1, <1>5, <1>6, <1>7, <1>8, <1>9, <1>10, <1>11 DEF IInv

---------------------------------------------------------------------------
(* Every action preserves it.                                              *)

LEMMA ReclaimStep ==
  ASSUME IInv, NEW c \in CTAS, Reclaim(c) PROVE IInv'
  <1> DEFINE n == citer[c]
  <1>1. /\ cpc[c] = "reclaim" /\ cpc' = [cpc EXCEPT ![c] = "fetch"]
        /\ semaphores' = IF n >= STAGES
                           THEN [semaphores EXCEPT ![c][Stage(n)] = FALSE]
                           ELSE semaphores
        /\ UNCHANGED <<citer, slot, pid_order, commits, arrived_phase,
                       arrived_count, finished_phase, finished_count, wpc,
                       witer, wrow, clc_handle, clc_phase, clc_missing,
                       clc_response, unlaunched, done, issued>>
    BY DEF Reclaim, barriers, workers, clc
  <1>2. /\ n \in Nat /\ Pub(c) = n
        /\ \A g \in RINGS : finished_phase[c][g] \in Nat
        /\ \A w \in WORKERS : witer[c][w] \in Nat
    BY <1>1 DEF IInv, TypeOK, PublishedInv
  <1>3. TypeOK'
    <2>1. semaphores' \in [CTAS -> [RINGS -> BOOLEAN]]
      BY <1>1 DEF IInv, TypeOK
    <2>2. QED
      BY <1>1, <2>1 DEF IInv, TypeOK
  <1>4. PublishedInv'
    BY <1>1 DEF IInv, TypeOK, PublishedInv, Pub
  <1>5. ArrivalsInv'
    BY <1>1 DEF IInv, ArrivalsInv, TotalPub, Pub
  <1>6. FinishesInv'
    BY <1>1 DEF IInv, FinishesInv, Early
  <1>7. OrderInv'
    <2>1. ASSUME NEW w \in WORKERS PROVE n <= witer[c][w] + 1
      <3>1. CASE n < STAGES
        BY <1>2, <3>1 DEF IInv, TypeOK, STAGES
      <3>2. CASE n >= STAGES
        <4> DEFINE g == Stage(n)
                   q == (n - STAGES) \div STAGES
        <4>1. Completed(finished_phase[c][g], q % 2)
          BY <3>2 DEF Reclaim, SlotReleased, Phasebit
        <4>2. q \in Nat /\ q = n \div STAGES - 1 /\ g \in RINGS
          BY <1>2, <3>2 DEF STAGES, RINGS, Stage
        <4>3. finished_phase[c][g] \in {q, q + 1} /\ finished_phase[c][g] \in Nat
          BY <1>1, <1>2, <3>2, <4>2, ReclaimExact
        <4>4. finished_phase[c][g] = q + 1
          BY <4>1, <4>2, <4>3, ParityExact
        <4>5. witer[c][w] >= n - 1 /\ witer[c][w] \in Nat
          BY <1>1, <1>2, <3>2, <4>2, <4>4, ReclaimExact
        <4>6. QED
          BY <4>5, <1>2
      <3>3. QED
        BY <1>2, <3>1, <3>2 DEF STAGES
    <2>2. QED
      BY <1>1, <2>1 DEF IInv, TypeOK, OrderInv, Begun, Pub
  <1>8. SlotInv'
    <2>1. Pub(c) >= 1 => Stage(Pub(c) - 1) # Stage(n)
      BY <1>2 DEF Stage, STAGES
    <2>2. /\ \A d \in CTAS : Pub(d)' = Pub(d)
          /\ \A d \in CTAS \ {c} : /\ cpc'[d] = cpc[d]
                                   /\ semaphores'[d] = semaphores[d]
          /\ cpc'[c] = "fetch"
          /\ \A h \in RINGS : h # Stage(n) => semaphores'[c][h] = semaphores[c][h]
          /\ Pub(c) >= 1 => Stage(Pub(c) - 1) \in RINGS
      <3>1. semaphores \in [CTAS -> [RINGS -> BOOLEAN]]
        BY DEF IInv, TypeOK
      <3>2. cpc \in [CTAS -> {"reclaim", "fetch", "query", "prepare",
                              "publish", "exited"}]
        BY DEF IInv, TypeOK
      <3>3. Pub(c) >= 1 => Stage(Pub(c) - 1) \in RINGS
        BY <1>2 DEF Stage, STAGES, RINGS
      <3>4. QED
        BY <1>1, <3>1, <3>2, <3>3 DEF Pub
    <2>3. ASSUME NEW d \in CTAS PROVE SlotOK(d)'
      <3>1. SlotOK(d)
        BY DEF IInv, SlotInv
      <3>2. CASE d = c
        BY <1>1, <2>1, <2>2, <3>1, <3>2 DEF SlotOK
      <3>3. CASE d # c
        BY <1>1, <2>2, <3>1, <3>3 DEF SlotOK
      <3>4. QED
        BY <3>2, <3>3
    <2>4. QED
      BY <2>3 DEF SlotInv
  <1>9. ClcInv'
    <2>1. \A d \in CTAS : /\ Asked(d)' = Asked(d) /\ Answered(d)' = Answered(d)
                          /\ cpc'[d] = "query" <=> cpc[d] = "query"
      BY <1>1 DEF IInv, TypeOK, Asked, Answered
    <2>2. QED
      BY <1>1, <2>1, ZeroRank DEF IInv, ClcInv, One
  <1>10. ModeInv'
    BY <1>1 DEF IInv, TypeOK, ModeInv
  <1>11. QED
    BY <1>3, <1>4, <1>5, <1>6, <1>7, <1>8, <1>9, <1>10 DEF IInv

\* Publishing one more row or the stop signal: every CTA of the cluster gets
\* one more arrival under way, and every total grows by one.
LEMMA CommitArrivals ==
  ASSUME IInv, NEW c \in CTAS, NEW row, NEW g \in RINGS, g = Stage(Pub(c)),
         issued' = [issued EXCEPT ![c] = Append(@, row)], TensorCommit(g),
         UNCHANGED <<arrived_phase, arrived_count>>
  PROVE  /\ ArrivalsInv'
         /\ \A d \in CTAS : Pub(d)' = IF d = c THEN Pub(c) + 1 ELSE Pub(d)
         /\ \A i \in 1 .. Pub(c) : issued'[c][i] = issued[c][i]
         /\ issued'[c][Pub(c) + 1] = row
         /\ \A d \in CTAS \ {c} : issued'[d] = issued[d]
         /\ commits' \in [CTAS -> [RINGS -> Nat]]
         /\ row \in ROWIDS \cup {STOP} => issued' \in [CTAS -> Seq(ROWIDS \cup {STOP})]
  <1>1. \A d \in CTAS : issued[d] \in Seq(ROWIDS \cup {STOP}) /\ Pub(d) \in Nat
    <2>1. issued \in [CTAS -> Seq(ROWIDS \cup {STOP})]
      BY DEF IInv, TypeOK
    <2>2. QED
      BY <2>1 DEF Pub
  <1>2. \A d \in CTAS : Pub(d)' = IF d = c THEN Pub(c) + 1 ELSE Pub(d)
    BY <1>1 DEF IInv, TypeOK, Pub
  <1>3. /\ \A i \in 1 .. Pub(c) : issued'[c][i] = issued[c][i]
        /\ issued'[c][Pub(c) + 1] = row
        /\ \A d \in CTAS \ {c} : issued'[d] = issued[d]
    BY <1>1 DEF IInv, TypeOK, Pub
  <1>4. ASSUME NEW h \in RINGS
        PROVE  TotalPub(h)' = TotalPub(h) + (IF h = g THEN 1 ELSE 0)
    <2>1. ASSUME NEW d \in CTAS
          PROVE  /\ Uses(Pub(d), h) \in Nat
                 /\ Uses(Pub(d)', h) = Uses(Pub(d), h)
                      + (IF d = c /\ h = g THEN 1 ELSE 0)
      <3>1. /\ Uses(Pub(d), h) \in Nat
            /\ Uses(Pub(d) + 1, h) = Uses(Pub(d), h)
                                       + (IF Stage(Pub(d)) = h THEN 1 ELSE 0)
        BY <1>1, UsesStep
      <3>2. CASE d = c
        BY <1>2, <3>1, <3>2
      <3>3. CASE d # c
        BY <1>2, <3>1, <3>3
      <3>4. QED
        BY <3>2, <3>3
    <2>2. CASE CLUSTER_SIZE = 1
      BY <2>1, <2>2 DEF CTAS, TotalPub
    <2>3. CASE CLUSTER_SIZE = 2
      <3>1. CTAS = {0, 1}
        BY <2>3 DEF CTAS
      <3>2. QED
        BY <2>1, <2>3, <3>1 DEF TotalPub
    <2>4. QED
      BY <2>2, <2>3, ConfigAssumption
  <1>5. ArrivalsInv'
    <2>1. ASSUME NEW d \in CTAS, NEW h \in RINGS
          PROVE  /\ commits[d][h] \in Nat
                 /\ commits'[d][h] = commits[d][h] + (IF h = g THEN 1 ELSE 0)
      <3>1. commits \in [CTAS -> [RINGS -> Nat]]
        BY DEF IInv, TypeOK
      <3>2. QED
        BY <3>1 DEF TensorCommit
    <2>2. ASSUME NEW d \in CTAS, NEW h \in RINGS
          PROVE  /\ arrived_phase[d][h] * CLUSTER_SIZE \in Nat
                 /\ arrived_count[d][h] \in Nat
                 /\ arrived_phase[d][h] * CLUSTER_SIZE + arrived_count[d][h]
                      + commits[d][h] = TotalPub(h)
      <3>1. arrived_phase[d][h] \in Nat /\ arrived_count[d][h] \in 0 .. CLUSTER_SIZE - 1
        BY DEF IInv, TypeOK
      <3>2. arrived_phase[d][h] * CLUSTER_SIZE \in Nat /\ arrived_count[d][h] \in Nat
        BY <3>1, ConfigAssumption
      <3>3. QED
        BY <3>2 DEF IInv, ArrivalsInv
    <2>3. QED
      BY <1>4, <2>1, <2>2 DEF ArrivalsInv
  <1>6. commits' \in [CTAS -> [RINGS -> Nat]]
    <2>1. commits \in [CTAS -> [RINGS -> Nat]]
      BY DEF IInv, TypeOK
    <2>2. \A d \in CTAS : [commits[d] EXCEPT ![g] = @ + 1] \in [RINGS -> Nat]
      BY <2>1
    <2>3. QED
      BY <2>2 DEF TensorCommit
  <1>7. row \in ROWIDS \cup {STOP} => issued' \in [CTAS -> Seq(ROWIDS \cup {STOP})]
    <2>1. issued \in [CTAS -> Seq(ROWIDS \cup {STOP})]
      BY DEF IInv, TypeOK
    <2>2. QED
      BY <2>1
  <1>8. QED
    BY <1>2, <1>3, <1>5, <1>6, <1>7

\* What the three fetches of a row have in common.
LEMMA LoadStep ==
  ASSUME IInv, NEW c \in CTAS, NEW row \in ROWIDS, Load(c, row),
         cpc[c] \in {"fetch", "query"},
         GLOBAL_WORK_QUEUE =>
           \/ cpc[c] = "fetch" /\ citer[c] = 0
           \/ /\ cpc[c] = "query"
              /\ clc_phase[c][Stage(citer[c])] = (citer[c] - 1) \div STAGES + 1,
         UNCHANGED <<citer, pid_order, semaphores, barriers, workers, clc,
                     unlaunched, done>>
  PROVE  IInv'
  <1> DEFINE n == citer[c]
  <1>1. /\ cpc' = [cpc EXCEPT ![c] = "prepare"]
        /\ slot' = [slot EXCEPT ![c][Stage(n)] = row]
        /\ UNCHANGED <<citer, pid_order, semaphores, commits, arrived_phase,
                       arrived_count, finished_phase, finished_count, wpc,
                       witer, wrow, clc_handle, clc_phase, clc_missing,
                       clc_response, unlaunched, done, issued>>
    BY DEF Load, barriers, workers, clc
  <1>2. n \in Nat /\ Pub(c) = n /\ Stage(n) \in RINGS
    BY UsesAt DEF IInv, TypeOK, PublishedInv
  <1>3. TypeOK'
    <2>1. slot' \in [CTAS -> [RINGS -> ROWIDS \cup {STOP, UNSET}]]
      BY <1>1 DEF IInv, TypeOK
    <2>2. QED
      BY <1>1, <2>1 DEF IInv, TypeOK
  <1>4. PublishedInv'
    BY <1>1 DEF IInv, TypeOK, PublishedInv, Pub
  <1>5. ArrivalsInv'
    BY <1>1 DEF IInv, ArrivalsInv, TotalPub, Pub
  <1>6. FinishesInv'
    BY <1>1 DEF IInv, FinishesInv, Early
  <1>7. OrderInv'
    BY <1>1 DEF IInv, TypeOK, OrderInv, Begun, Pub
  <1>8. SlotInv'
    <2>1. Pub(c) >= 1 => Stage(Pub(c) - 1) # Stage(n) /\ Stage(Pub(c) - 1) \in RINGS
      BY <1>2 DEF Stage, STAGES, RINGS
    <2>2. /\ slot'[c][Stage(n)] = row /\ cpc'[c] = "prepare"
          /\ \A g \in RINGS \ {Stage(n)} : slot'[c][g] = slot[c][g]
          /\ \A d \in CTAS \ {c} : slot'[d] = slot[d] /\ cpc'[d] = cpc[d]
          /\ \A d \in CTAS : Pub(d)' = Pub(d)
      BY <1>1, <1>2 DEF IInv, TypeOK, Pub
    <2>3. QED
      BY <1>1, <1>2, <2>1, <2>2 DEF IInv, SlotInv, SlotOK
  <1>9. ClcInv'
    <2> SUFFICES ASSUME GLOBAL_WORK_QUEUE PROVE ClcInv'
      BY DEF ClcInv
    <2>1. ASSUME NEW g \in RINGS
          PROVE  /\ Asks(Asked(c)', g) = Asks(Asked(c), g)
                 /\ clc_phase[c][g] >= Asks(Answered(c)', g)
      <3>1. Asked(c)' = n + 1 /\ Answered(c)' = n + 1
        BY <1>1 DEF IInv, TypeOK, Asked, Answered
      <3>2. CASE cpc[c] = "fetch" /\ n = 0
        <4>1. Asked(c) = 0 /\ clc_phase[c][g] \in Nat
          BY <3>2 DEF Asked, IInv, TypeOK
        <4>2. QED
          BY <3>1, <3>2, <4>1, AsksStep
      <3>3. CASE cpc[c] = "query" /\ clc_phase[c][Stage(n)] = (n - 1) \div STAGES + 1
        <4>1. Asked(c) = n + 1 /\ n > 0
          BY <3>3 DEF Asked, IInv, TypeOK, ClcInv
        <4>2. clc_phase[c][g] >= Asks(n, g)
          BY <3>3 DEF Answered, IInv, ClcInv
        <4>3. QED
          BY <1>2, <3>1, <3>3, <4>1, <4>2, AsksAt, AsksStep
      <3>4. QED
        BY <3>2, <3>3
    <2>2. \A d \in CTAS \ {c} : Asked(d)' = Asked(d) /\ Answered(d)' = Answered(d)
      BY <1>1 DEF IInv, TypeOK, Asked, Answered
    <2>3. \A d \in CTAS : cpc'[d] = "query" => cpc[d] = "query"
      BY <1>1 DEF IInv, TypeOK
    <2>4. QED
      BY <1>1, <2>1, <2>2, <2>3, ZeroRank DEF IInv, ClcInv, One
  <1>10. ModeInv'
    BY <1>1 DEF IInv, TypeOK, ModeInv
  <1>11. QED
    BY <1>3, <1>4, <1>5, <1>6, <1>7, <1>8, <1>9, <1>10 DEF IInv

\* Leaving the loop: a stop signal is published like a row.
LEMMA StopStep ==
  ASSUME IInv, NEW c \in CTAS, Stop(c),
         cpc[c] \in {"fetch", "query"},
         GLOBAL_WORK_QUEUE =>
           \/ cpc[c] = "fetch" /\ citer[c] = 0
           \/ /\ cpc[c] = "query"
              /\ clc_phase[c][Stage(citer[c])] = (citer[c] - 1) \div STAGES + 1,
         UNCHANGED <<citer, pid_order, semaphores, barriers, workers, clc,
                     unlaunched, done>>
  PROVE  IInv'
  <1> DEFINE n == citer[c]
             g == Stage(n)
  <1>1. /\ cpc' = [cpc EXCEPT ![c] = "exited"]
        /\ slot' = [slot EXCEPT ![c][g] = STOP]
        /\ issued' = [issued EXCEPT ![c] = Append(@, STOP)]
        /\ TensorCommit(g)
        /\ UNCHANGED <<citer, pid_order, semaphores, arrived_phase,
                       arrived_count, finished_phase, finished_count, wpc,
                       witer, wrow, clc_handle, clc_phase, clc_missing,
                       clc_response, unlaunched, done>>
    BY DEF Stop, barriers, workers, clc
  <1>2. n \in Nat /\ Pub(c) = n /\ g \in RINGS
    BY UsesAt DEF IInv, TypeOK, PublishedInv
  <1>3. /\ ArrivalsInv'
        /\ \A d \in CTAS : Pub(d)' = IF d = c THEN n + 1 ELSE Pub(d)
        /\ \A i \in 1 .. n : issued'[c][i] = issued[c][i]
        /\ issued'[c][n + 1] = STOP
        /\ \A d \in CTAS \ {c} : issued'[d] = issued[d]
        /\ commits' \in [CTAS -> [RINGS -> Nat]]
        /\ issued' \in [CTAS -> Seq(ROWIDS \cup {STOP})]
    <2>1. issued' = [issued EXCEPT ![c] = Append(@, STOP)] /\ TensorCommit(g)
      BY <1>1
    <2>2. UNCHANGED <<arrived_phase, arrived_count>>
      BY <1>1
    <2>3. g \in RINGS /\ g = Stage(Pub(c)) /\ n = Pub(c)
      BY <1>2
    <2> HIDE DEF g, n
    <2>4. QED
      BY <2>1, <2>2, <2>3, CommitArrivals
  <1>4. /\ cpc'[c] = "exited"
        /\ \A d \in CTAS \ {c} : cpc'[d] = cpc[d] /\ slot'[d] = slot[d]
        /\ slot'[c][g] = STOP
        /\ \A h \in RINGS \ {g} : slot'[c][h] = slot[c][h]
        /\ \A d \in CTAS : Pub(d) \in Nat
    <2>1. /\ slot \in [CTAS -> [RINGS -> ROWIDS \cup {STOP, UNSET}]]
          /\ cpc \in [CTAS -> {"reclaim", "fetch", "query", "prepare",
                               "publish", "exited"}]
          /\ \A d \in CTAS : issued[d] \in Seq(ROWIDS \cup {STOP})
      BY DEF IInv, TypeOK
    <2>2. QED
      BY <1>1, <1>2, <2>1 DEF Pub
  <1>5. TypeOK'
    <2>1. slot' \in [CTAS -> [RINGS -> ROWIDS \cup {STOP, UNSET}]]
      BY <1>1 DEF IInv, TypeOK
    <2>3. cpc' \in [CTAS -> {"reclaim", "fetch", "query", "prepare", "publish",
                             "exited"}]
      BY <1>1 DEF IInv, TypeOK
    <2>4. QED
      BY <1>1, <1>3, <2>1, <2>3 DEF IInv, TypeOK
  <1>6. PublishedInv'
    BY <1>1, <1>3, <1>4 DEF IInv, PublishedInv
  <1>7. FinishesInv'
    BY <1>1 DEF IInv, FinishesInv, Early
  <1>8. OrderInv'
    <2>1. \A d \in CTAS, w \in WORKERS :
            Begun(d, w)' = Begun(d, w) /\ Begun(d, w) \in Nat
      BY <1>1 DEF IInv, TypeOK, Begun
    <2>2. \A d, e \in CTAS, w \in WORKERS : Begun(d, w) <= Pub(e)'
      <3>1. \A d, e \in CTAS, w \in WORKERS : Begun(d, w) <= Pub(e)
        BY DEF IInv, OrderInv
      <3>2. \A e \in CTAS : Pub(e) \in Nat /\ Pub(e)' \in Nat /\ Pub(e) <= Pub(e)'
        <4>1. \A e \in CTAS : Pub(e)' = IF e = c THEN n + 1 ELSE Pub(e)
          BY <1>3
        <4>2. (\A e \in CTAS : Pub(e) \in Nat) /\ n \in Nat /\ Pub(c) = n
          BY <1>2, <1>4
        <4> HIDE DEF n, g
        <4>3. QED
          BY <4>1, <4>2
      <3>3. QED
        BY <2>1, <3>1, <3>2
    <2>3. QED
      BY <1>1, <1>4, <2>1, <2>2 DEF IInv, OrderInv
  <1>9. SlotInv'
    <2>1. n >= 1 => Stage(n - 1) # g /\ Stage(n - 1) \in RINGS
      BY <1>2 DEF Stage, STAGES, RINGS
    <2>2. \A w \in WORKERS : /\ wpc[c][w] # "wait" => witer[c][w] + 1 \in 1 .. n
                             /\ witer[c][w] \in Nat
      BY <1>2, Window DEF Begun
    <2>3. \A i \in 1 .. n : issued[c][i] \in ROWIDS
      BY <1>2 DEF IInv, SlotInv, SlotOK
    <2>4. n >= 1 => slot[c][Stage(n - 1)] = issued[c][n] /\ semaphores[c][Stage(n - 1)]
      BY <1>2 DEF IInv, SlotInv, SlotOK
    <2>5. \A w \in WORKERS :
            wpc[c][w] # "wait" =>
              /\ wrow[c][w] = issued'[c][witer[c][w] + 1]
              /\ wpc[c][w] = "exited" <=> wrow[c][w] = STOP
      BY <1>3, <2>2 DEF IInv, SlotInv, SlotOK
    <2>6. \A d \in CTAS \ {c} : Pub(d)' = Pub(d)
      BY <1>3
    <2>7. \A d \in CTAS \ {c} : SlotOK(d)'
      <3>1. ASSUME NEW d \in CTAS \ {c} PROVE SlotOK(d)'
        <4>1. SlotOK(d)
          BY DEF IInv, SlotInv
        <4>2. /\ Pub(d)' = Pub(d) /\ issued'[d] = issued[d]
              /\ cpc'[d] = cpc[d] /\ slot'[d] = slot[d]
              /\ UNCHANGED <<semaphores, citer, wpc, wrow, witer>>
          BY <1>1, <1>3, <1>4, <2>6
        <4>3. QED
          BY <4>1, <4>2 DEF SlotOK
      <3>2. QED
        BY <3>1
    <2>8. SlotOK(c)'
      <3>1. Pub(c)' = n + 1 /\ cpc'[c] = "exited"
        BY <1>2, <1>3, <1>4
      <3>a. g = Stage(n) /\ n \in Nat /\ g \in RINGS
        BY <1>2
      <3>b. /\ \A i \in 1 .. n : issued'[c][i] = issued[c][i]
            /\ issued'[c][n + 1] = STOP
            /\ slot'[c][g] = STOP
            /\ \A h \in RINGS \ {g} : slot'[c][h] = slot[c][h]
            /\ semaphores' = semaphores
        BY <1>1, <1>3, <1>4
      <3> HIDE DEF n, g
      <3>2. \A i \in 1 .. n + 1 :
              IF i = n + 1 THEN issued'[c][i] = STOP ELSE issued'[c][i] \in ROWIDS
        BY <3>a, <3>b, <2>3
      <3>3. slot'[c][Stage(n)] = issued'[c][n + 1]
        BY <3>a, <3>b
      <3>4. ASSUME n >= 1
            PROVE  /\ slot'[c][Stage(n - 1)] = issued'[c][n]
                   /\ semaphores'[c][Stage(n - 1)]
        <4>1. Stage(n - 1) \in RINGS \ {g} /\ n \in 1 .. n
          BY <3>a, <3>4, <2>1
        <4>2. QED
          BY <3>b, <3>4, <2>4, <4>1
      <3>5. /\ \A w \in WORKERS : wpc'[c][w] = wpc[c][w]
            /\ wrow'[c] = wrow[c] /\ witer'[c] = witer[c]
        BY <1>1
      <3>6. n + 1 - 1 = n /\ n + 1 - 2 = n - 1 /\ (n + 1 >= 2 => n >= 1)
        BY <1>2
      <3>7. QED
        BY <1>2, <2>5, <3>1, <3>2, <3>3, <3>4, <3>5, <3>6 DEF SlotOK
    <2>9. QED
      BY <2>7, <2>8 DEF SlotInv
  <1>10. ClcInv'
    <2> SUFFICES ASSUME GLOBAL_WORK_QUEUE PROVE ClcInv'
      BY DEF ClcInv
    <2>1. ASSUME NEW h \in RINGS
          PROVE  /\ Asks(Asked(c)', h) = Asks(Asked(c), h)
                 /\ clc_phase[c][h] >= Asks(Answered(c)', h)
      <3>1. Asked(c)' = n + 1 /\ Answered(c)' = n + 1
        BY <1>1 DEF IInv, TypeOK, Asked, Answered
      <3>2. CASE cpc[c] = "fetch" /\ n = 0
        <4>1. Asked(c) = 0 /\ clc_phase[c][h] \in Nat
          BY <3>2 DEF Asked, IInv, TypeOK
        <4>2. QED
          BY <3>1, <3>2, <4>1, AsksStep
      <3>3. CASE cpc[c] = "query" /\ clc_phase[c][Stage(n)] = (n - 1) \div STAGES + 1
        <4>1. Asked(c) = n + 1 /\ n > 0
          BY <3>3 DEF Asked, IInv, TypeOK, ClcInv
        <4>2. clc_phase[c][h] >= Asks(n, h)
          BY <3>3 DEF Answered, IInv, ClcInv
        <4>3. QED
          BY <1>2, <3>1, <3>3, <4>1, <4>2, AsksAt, AsksStep
      <3>4. QED
        BY <3>2, <3>3
    <2>2. \A d \in CTAS \ {c} : Asked(d)' = Asked(d) /\ Answered(d)' = Answered(d)
      BY <1>1 DEF IInv, TypeOK, Asked, Answered
    <2>3. \A d \in CTAS : cpc'[d] = "query" => cpc[d] = "query"
      BY <1>1 DEF IInv, TypeOK
    <2>4. QED
      BY <1>1, <2>1, <2>2, <2>3, ZeroRank DEF IInv, ClcInv, One
  <1>11. ModeInv'
    BY <1>1 DEF IInv, TypeOK, ModeInv
  <1>12. QED
    BY <1>3, <1>5, <1>6, <1>7, <1>8, <1>9, <1>10, <1>11 DEF IInv

LEMMA FetchStaticStep ==
  ASSUME IInv, NEW c \in CTAS, FetchStatic(c) PROVE IInv'
  <1> DEFINE row == citer[c] * CLUSTER_SIZE + c
  <1>1. /\ cpc[c] = "fetch" /\ ~GLOBAL_WORK_QUEUE
        /\ LoadOrStop(c, citer[c] < ROWS \div CLUSTER_SIZE, row)
        /\ UNCHANGED <<citer, pid_order, semaphores, barriers, workers, clc,
                       unlaunched, done>>
    BY DEF FetchStatic
  <1>2. CASE citer[c] < ROWS \div CLUSTER_SIZE
    <2>1. row \in ROWIDS
      <3>1. citer[c] \in Nat /\ ROWS \in Nat
        BY ConfigAssumption DEF IInv, TypeOK
      <3>2. CASE CLUSTER_SIZE = 1
        BY <1>2, <3>1, <3>2 DEF CTAS, ROWIDS
      <3>3. CASE CLUSTER_SIZE = 2
        BY <1>2, <3>1, <3>3, ConfigAssumption DEF CTAS, ROWIDS
      <3>4. QED
        BY <3>2, <3>3, ConfigAssumption
    <2>2. Load(c, row)
      BY <1>1, <1>2 DEF LoadOrStop
    <2>3. QED
      BY <1>1, <2>1, <2>2, LoadStep
  <1>3. CASE ~(citer[c] < ROWS \div CLUSTER_SIZE)
    <2>1. Stop(c)
      BY <1>1, <1>3 DEF LoadOrStop
    <2>2. QED
      BY <1>1, <2>1, StopStep
  <1>4. QED
    BY <1>2, <1>3

LEMMA FetchFirstStep ==
  ASSUME IInv, NEW c \in CTAS, FetchFirst(c) PROVE IInv'
  <1>1. /\ cpc[c] = "fetch" /\ citer[c] = 0
        /\ LoadOrStop(c, c < ROWS, c)
        /\ UNCHANGED <<citer, pid_order, semaphores, barriers, workers, clc,
                       unlaunched, done>>
    BY DEF FetchFirst
  <1>2. CASE c < ROWS
    <2>1. c \in ROWIDS
      BY <1>2, ConfigAssumption DEF CTAS, ROWIDS
    <2>2. Load(c, c)
      BY <1>1, <1>2 DEF LoadOrStop
    <2>3. QED
      BY <1>1, <2>1, <2>2, LoadStep
  <1>3. CASE ~(c < ROWS)
    <2>1. Stop(c)
      BY <1>1, <1>3 DEF LoadOrStop
    <2>2. QED
      BY <1>1, <2>1, StopStep
  <1>4. QED
    BY <1>2, <1>3

LEMMA ClcQueryStep ==
  ASSUME IInv, NEW c \in CTAS, ClcQuery(c) PROVE IInv'
  <1> DEFINE n == citer[c]
             g == Stage(n)
             row == clc_handle[c][g] + c
             inRange == clc_handle[c][g] # FAILED /\ row < ROWS
  <1>1. /\ cpc[c] = "query"
        /\ Completed(clc_phase[c][g], Phasebit(n - 1))
        /\ LoadOrStop(c, inRange, row)
        /\ UNCHANGED <<citer, pid_order, semaphores, barriers, workers, clc,
                       unlaunched, done>>
    BY DEF ClcQuery
  <1>2. GLOBAL_WORK_QUEUE
    BY <1>1 DEF IInv, ModeInv
  <1>3. n \in Nat /\ g \in RINGS /\ clc_phase[c][g] \in Nat
    BY UsesAt DEF IInv, TypeOK
  <1>4. /\ clc_phase[c][g] = (n - 1) \div STAGES + 1
        /\ clc_handle[c][g] \in FirstRows \cup {FAILED}
    <2>1. /\ n > 0
          /\ clc_phase[c][g] \in {(n - 1) \div STAGES, (n - 1) \div STAGES + 1}
          /\ clc_phase[c][g] = (n - 1) \div STAGES + 1 =>
               clc_handle[c][g] \in FirstRows \cup {FAILED}
      BY <1>1, <1>2, <1>3, QueryExact
    <2>2. (n - 1) \div STAGES \in Nat
      BY <1>3, <2>1 DEF STAGES
    <2>3. QED
      BY <1>1, <1>3, <2>1, <2>2, ParityExact DEF Phasebit
  <1>5. CASE inRange
    <2>1. row \in ROWIDS
      BY <1>4, <1>5, ConfigAssumption DEF FirstRows, ROWIDS, CTAS
    <2>2. Load(c, row)
      BY <1>1, <1>5 DEF LoadOrStop
    <2>3. QED
      BY <1>1, <1>4, <2>1, <2>2, LoadStep
  <1>6. CASE ~inRange
    <2>1. Stop(c)
      BY <1>1, <1>6 DEF LoadOrStop
    <2>2. QED
      BY <1>1, <1>4, <2>1, StopStep
  <1>7. QED
    BY <1>5, <1>6

LEMMA PrepareStep ==
  ASSUME IInv, NEW c \in CTAS, Prepare(c) PROVE IInv'
  <1> DEFINE n == citer[c]
             g == Stage(n)
  <1>1. /\ cpc[c] = "prepare" /\ cpc' = [cpc EXCEPT ![c] = "publish"]
        /\ semaphores' = [semaphores EXCEPT ![c][g] = TRUE]
        /\ UNCHANGED <<citer, slot, commits, arrived_phase,
                       arrived_count, finished_phase, finished_count, wpc,
                       witer, wrow, clc_handle, clc_phase, clc_missing,
                       clc_response, unlaunched, done, issued>>
    BY DEF Prepare, barriers, workers, clc
  <1>2. n \in Nat /\ Pub(c) = n /\ g \in RINGS
    BY <1>1, UsesAt DEF IInv, TypeOK, PublishedInv
  <1>3. TypeOK'
    <2>1. semaphores' \in [CTAS -> [RINGS -> BOOLEAN]]
      BY <1>1 DEF IInv, TypeOK
    <2>2. pid_order' \in [CTAS -> [RINGS -> [LIDS -> LIDS]]]
      <3>1. pid_order \in [CTAS -> [RINGS -> [LIDS -> LIDS]]]
        BY DEF IInv, TypeOK
      <3> DEFINE order == IF n = 0 THEN [k \in LIDS |-> k]
                          ELSE NextPidOrder(c, Stage(n - 1))
      <3>2. pid_order' = [pid_order EXCEPT ![c][g] = order]
        BY DEF Prepare
      <3>3. order \in [LIDS -> LIDS]
        <4>1. CASE n = 0
          BY <4>1
        <4>2. CASE n > 0
          <5>1. slot[c][Stage(n - 1)] \in ROWIDS /\ n - 1 \in Nat
            BY <1>1, <1>2, <4>2 DEF IInv, SlotInv, SlotOK
          <5>2. Stage(n - 1) \in RINGS
            BY <5>1, UsesAt
          <5>3. LID_RELEASE_ORDER[INSTRUCTIONS[slot[c][Stage(n - 1)]]]
                  \in [LIDS -> LIDS]
            BY <5>1, ConfigAssumption
          <5>4. pid_order[c][Stage(n - 1)] \in [LIDS -> LIDS]
            BY <3>1, <5>2
          <5>5. NextPidOrder(c, Stage(n - 1)) \in [LIDS -> LIDS]
            BY <5>3, <5>4 DEF NextPidOrder
          <5>6. QED
            BY <4>2, <5>5
        <4>3. QED
          BY <4>1, <4>2, <1>2
      <3> HIDE DEF order
      <3>4. QED
        BY <3>1, <3>2, <3>3
    <2>3. QED
      BY <1>1, <2>1, <2>2 DEF IInv, TypeOK
  <1>4. PublishedInv'
    BY <1>1 DEF IInv, TypeOK, PublishedInv, Pub
  <1>5. ArrivalsInv'
    BY <1>1 DEF IInv, ArrivalsInv, TotalPub, Pub
  <1>6. FinishesInv'
    BY <1>1 DEF IInv, FinishesInv, Early
  <1>7. OrderInv'
    BY <1>1 DEF IInv, TypeOK, OrderInv, Begun, Pub
  <1>8. SlotInv'
    <2>1. Pub(c) >= 1 => Stage(Pub(c) - 1) # g /\ Stage(Pub(c) - 1) \in RINGS
      BY <1>2 DEF Stage, STAGES, RINGS
    <2>2. /\ semaphores'[c][g] /\ cpc'[c] = "publish"
          /\ \A h \in RINGS \ {g} : semaphores'[c][h] = semaphores[c][h]
          /\ \A d \in CTAS \ {c} : semaphores'[d] = semaphores[d] /\ cpc'[d] = cpc[d]
          /\ \A d \in CTAS : Pub(d)' = Pub(d)
      BY <1>1, <1>2 DEF IInv, TypeOK, Pub
    <2>3. QED
      BY <1>1, <1>2, <2>1, <2>2 DEF IInv, SlotInv, SlotOK
  <1>9. ClcInv'
    <2>1. \A d \in CTAS : /\ Asked(d)' = Asked(d) /\ Answered(d)' = Answered(d)
                          /\ cpc'[d] = "query" <=> cpc[d] = "query"
      BY <1>1 DEF IInv, TypeOK, Asked, Answered
    <2>2. QED
      BY <1>1, <2>1, ZeroRank DEF IInv, ClcInv, One
  <1>10. ModeInv'
    BY <1>1 DEF IInv, TypeOK, ModeInv
  <1>11. QED
    BY <1>3, <1>4, <1>5, <1>6, <1>7, <1>8, <1>9, <1>10 DEF IInv

LEMMA PublishStep ==
  ASSUME IInv, NEW c \in CTAS, Publish(c) PROVE IInv'
  <1> DEFINE n == citer[c]
             g == Stage(n)
             row == slot[c][g]
  <1>1. /\ cpc[c] = "publish" /\ cpc' = [cpc EXCEPT ![c] = "reclaim"]
        /\ citer' = [citer EXCEPT ![c] = n + 1]
        /\ issued' = [issued EXCEPT ![c] = Append(@, row)]
        /\ TensorCommit(g)
        /\ UNCHANGED <<slot, pid_order, semaphores, arrived_phase,
                       arrived_count, finished_phase, finished_count, wpc,
                       witer, wrow, clc_handle, clc_phase, clc_missing,
                       clc_response, unlaunched, done>>
    BY DEF Publish, slots, barriers, workers, clc
  <1>2. /\ n \in Nat /\ Pub(c) = n /\ g \in RINGS
        /\ row \in ROWIDS /\ semaphores[c][g]
    <2>1. n \in Nat
      BY DEF IInv, TypeOK
    <2>2. Pub(c) = n
      BY <1>1 DEF IInv, PublishedInv
    <2>3. SlotOK(c)
      BY DEF IInv, SlotInv
    <2>4. row \in ROWIDS /\ semaphores[c][g]
      BY <1>1, <2>3 DEF SlotOK
    <2>5. QED
      BY <2>1, <2>2, <2>4, UsesAt
  <1>3. /\ ArrivalsInv'
        /\ \A d \in CTAS : Pub(d)' = IF d = c THEN n + 1 ELSE Pub(d)
        /\ \A i \in 1 .. n : issued'[c][i] = issued[c][i]
        /\ issued'[c][n + 1] = row
        /\ \A d \in CTAS \ {c} : issued'[d] = issued[d]
        /\ commits' \in [CTAS -> [RINGS -> Nat]]
        /\ issued' \in [CTAS -> Seq(ROWIDS \cup {STOP})]
    <2>1. issued' = [issued EXCEPT ![c] = Append(@, row)] /\ TensorCommit(g)
      BY <1>1
    <2>2. UNCHANGED <<arrived_phase, arrived_count>>
      BY <1>1
    <2>3. g \in RINGS /\ g = Stage(Pub(c)) /\ n = Pub(c) /\ row \in ROWIDS
      BY <1>2
    <2> HIDE DEF g, n, row
    <2>4. QED
      BY <2>1, <2>2, <2>3, CommitArrivals
  <1>4. /\ cpc'[c] = "reclaim" /\ citer'[c] = n + 1
        /\ \A d \in CTAS \ {c} : cpc'[d] = cpc[d] /\ citer'[d] = citer[d]
        /\ \A d \in CTAS : Pub(d) \in Nat
    <2>1. /\ citer \in [CTAS -> Nat]
          /\ cpc \in [CTAS -> {"reclaim", "fetch", "query", "prepare",
                               "publish", "exited"}]
          /\ \A d \in CTAS : issued[d] \in Seq(ROWIDS \cup {STOP})
      BY DEF IInv, TypeOK
    <2>2. QED
      BY <1>1, <1>2, <2>1 DEF Pub
  <1>5. TypeOK'
    <2>1. citer' \in [CTAS -> Nat]
      BY <1>1, <1>2 DEF IInv, TypeOK
    <2>2. cpc' \in [CTAS -> {"reclaim", "fetch", "query", "prepare", "publish",
                             "exited"}]
      BY <1>1 DEF IInv, TypeOK
    <2>3. QED
      BY <1>1, <1>3, <2>1, <2>2 DEF IInv, TypeOK
  <1>6. PublishedInv'
    BY <1>3, <1>4 DEF IInv, PublishedInv
  <1>7. FinishesInv'
    BY <1>1 DEF IInv, FinishesInv, Early
  <1>8. OrderInv'
    <2>1. \A d \in CTAS, w \in WORKERS :
            /\ Begun(d, w)' = Begun(d, w) /\ Begun(d, w) \in Nat
            /\ witer[d][w] \in Nat
      <3>1. witer \in [CTAS -> [WORKERS -> Nat]]
        BY DEF IInv, TypeOK
      <3>2. wpc' = wpc /\ witer' = witer
        BY <1>1
      <3>3. QED
        BY <3>1, <3>2 DEF Begun
    <2>2. \A d, e \in CTAS, w \in WORKERS : Begun(d, w) <= Pub(e)'
      <3>1. \A d, e \in CTAS, w \in WORKERS : Begun(d, w) <= Pub(e)
        BY DEF IInv, OrderInv
      <3>2. \A e \in CTAS : Pub(e) \in Nat /\ Pub(e)' \in Nat /\ Pub(e) <= Pub(e)'
        <4>1. \A e \in CTAS : Pub(e)' = IF e = c THEN n + 1 ELSE Pub(e)
          BY <1>3
        <4>2. (\A e \in CTAS : Pub(e) \in Nat) /\ n \in Nat /\ Pub(c) = n
          BY <1>2, <1>4
        <4> HIDE DEF n, g
        <4>3. QED
          BY <4>1, <4>2
      <3>3. QED
        BY <2>1, <3>1, <3>2
    <2>3. \A w \in WORKERS : n + 1 <= witer[c][w] + 2
      BY <1>1, <1>2, <2>1 DEF IInv, OrderInv
    <2>4. QED
      BY <1>1, <1>4, <2>1, <2>2, <2>3 DEF IInv, OrderInv
  <1>9. SlotInv'
    <2>1. n >= 1 => Stage(n - 1) \in RINGS
      BY <1>2 DEF Stage, STAGES, RINGS
    <2>2. \A w \in WORKERS : /\ wpc[c][w] # "wait" => witer[c][w] + 1 \in 1 .. n
                             /\ witer[c][w] \in Nat
      BY <1>2, Window DEF Begun
    <2>3. \A i \in 1 .. n : issued[c][i] \in ROWIDS
      BY <1>1, <1>2 DEF IInv, SlotInv, SlotOK
    <2>4. n >= 1 => slot[c][Stage(n - 1)] = issued[c][n] /\ semaphores[c][Stage(n - 1)]
      BY <1>1, <1>2 DEF IInv, SlotInv, SlotOK
    <2>5. \A w \in WORKERS :
            wpc[c][w] # "wait" =>
              /\ wrow[c][w] = issued'[c][witer[c][w] + 1]
              /\ wpc[c][w] = "exited" <=> wrow[c][w] = STOP
      BY <1>3, <2>2 DEF IInv, SlotInv, SlotOK
    <2>6. \A d \in CTAS \ {c} : Pub(d)' = Pub(d)
      BY <1>3
    <2>7. \A d \in CTAS \ {c} : SlotOK(d)'
      <3>1. ASSUME NEW d \in CTAS \ {c} PROVE SlotOK(d)'
        <4>1. SlotOK(d)
          BY DEF IInv, SlotInv
        <4>2. /\ Pub(d)' = Pub(d) /\ issued'[d] = issued[d]
              /\ cpc'[d] = cpc[d] /\ slot'[d] = slot[d] /\ citer'[d] = citer[d]
              /\ UNCHANGED <<semaphores, wpc, wrow, witer>>
          BY <1>1, <1>3, <1>4, <2>6
        <4>3. QED
          BY <4>1, <4>2 DEF SlotOK
      <3>2. QED
        BY <3>1
    <2>8. SlotOK(c)'
      <3>1. Pub(c)' = n + 1 /\ cpc'[c] = "reclaim"
        BY <1>2, <1>3, <1>4
      <3>a. g = Stage(n) /\ n \in Nat /\ row \in ROWIDS /\ row = slot'[c][g]
        BY <1>1, <1>2
      <3>b. /\ \A i \in 1 .. n : issued'[c][i] = issued[c][i]
            /\ issued'[c][n + 1] = row
            /\ semaphores'[c][g]
            /\ n >= 1 => semaphores'[c][Stage(n - 1)]
            /\ n >= 1 => slot'[c][Stage(n - 1)] = issued[c][n]
        BY <1>1, <1>2, <1>3, <2>4
      <3> HIDE DEF n, g, row
      <3>2. \A i \in 1 .. n + 1 : issued'[c][i] \in ROWIDS
        <4> SUFFICES ASSUME NEW i \in 1 .. n + 1 PROVE issued'[c][i] \in ROWIDS
          OBVIOUS
        <4>1. CASE i = n + 1
          BY <3>a, <3>b, <4>1
        <4>2. CASE i \in 1 .. n
          BY <3>a, <3>b, <2>3, <4>2
        <4>3. QED
          BY <3>a, <4>1, <4>2
      <3>3. slot'[c][Stage(n)] = issued'[c][n + 1] /\ semaphores'[c][Stage(n)]
        BY <3>a, <3>b
      <3>4. n >= 1 => /\ slot'[c][Stage(n - 1)] = issued'[c][n]
                      /\ semaphores'[c][Stage(n - 1)]
        BY <3>a, <3>b
      <3>5. /\ \A w \in WORKERS : wpc'[c][w] = wpc[c][w]
            /\ wrow'[c] = wrow[c] /\ witer'[c] = witer[c]
        BY <1>1
      <3>6. n + 1 - 1 = n /\ n + 1 - 2 = n - 1 /\ (n + 1 >= 2 => n >= 1)
        BY <3>a
      <3>7. QED
        BY <3>a, <2>5, <3>1, <3>2, <3>3, <3>4, <3>5, <3>6 DEF SlotOK
    <2>9. QED
      BY <2>7, <2>8 DEF SlotInv
  <1>10. ClcInv'
    <2>1. \A d \in CTAS : Asked(d)' = Asked(d) /\ Answered(d)' = Answered(d)
      <3>1. Asked(c)' = Asked(c) /\ Answered(c)' = Answered(c)
        BY <1>1, <1>4 DEF Asked, Answered
      <3>2. \A d \in CTAS \ {c} : Asked(d)' = Asked(d) /\ Answered(d)' = Answered(d)
        BY <1>4 DEF Asked, Answered
      <3>3. QED
        BY <3>1, <3>2
    <2>2. \A d \in CTAS : cpc'[d] = "query" => cpc[d] = "query" /\ citer'[d] = citer[d]
      BY <1>4
    <2>3. QED
      BY <1>1, <2>1, <2>2, ZeroRank DEF IInv, ClcInv, One
  <1>11. ModeInv'
    BY <1>1 DEF IInv, TypeOK, ModeInv
  <1>12. QED
    BY <1>3, <1>5, <1>6, <1>7, <1>8, <1>9, <1>10, <1>11 DEF IInv

\* The rest of the grid takes a cluster's rows away.
LEMMA LaunchElsewhereStep ==
  ASSUME IInv, LaunchElsewhere PROVE IInv'
  <1>1. /\ unlaunched' \subseteq unlaunched
        /\ UNCHANGED <<cpc, citer, slot, pid_order, semaphores, commits,
                       arrived_phase, arrived_count, finished_phase,
                       finished_count, wpc, witer, wrow, clc_handle, clc_phase,
                       clc_missing, clc_response, done, issued>>
    BY DEF LaunchElsewhere, slots, barriers, workers, clc
  <1>2. TypeOK'
    BY <1>1 DEF IInv, TypeOK
  <1>3. PublishedInv' /\ ArrivalsInv' /\ FinishesInv'
    BY <1>1 DEF IInv, PublishedInv, ArrivalsInv, TotalPub, FinishesInv, Early, Pub
  <1>4. OrderInv' /\ SlotInv'
    BY <1>1 DEF IInv, OrderInv, SlotInv, SlotOK, Begun, Pub
  <1>5. ClcInv' /\ ModeInv'
    BY <1>1 DEF IInv, ClcInv, ModeInv, Asked, Answered, One
  <1>6. QED
    BY <1>2, <1>3, <1>4, <1>5 DEF IInv

LEMMA KernelExitStep ==
  ASSUME IInv, KernelExit PROVE IInv'
  <1>1. /\ done' = TRUE
        /\ UNCHANGED <<cpc, citer, slot, pid_order, semaphores, commits,
                       arrived_phase, arrived_count, finished_phase,
                       finished_count, wpc, witer, wrow, clc_handle, clc_phase,
                       clc_missing, clc_response, unlaunched, issued>>
    BY DEF KernelExit, slots, barriers, workers, clc
  <1>2. TypeOK'
    BY <1>1 DEF IInv, TypeOK
  <1>3. PublishedInv' /\ ArrivalsInv' /\ FinishesInv'
    BY <1>1 DEF IInv, PublishedInv, ArrivalsInv, TotalPub, FinishesInv, Early, Pub
  <1>4. OrderInv' /\ SlotInv'
    BY <1>1 DEF IInv, OrderInv, SlotInv, SlotOK, Begun, Pub
  <1>5. ClcInv' /\ ModeInv'
    BY <1>1 DEF IInv, ClcInv, ModeInv, Asked, Answered, One
  <1>6. QED
    BY <1>2, <1>3, <1>4, <1>5 DEF IInv

LEMMA StutterStep ==
  ASSUME IInv, UNCHANGED vars PROVE IInv'
  <1>1. UNCHANGED <<cpc, citer, slot, pid_order, semaphores, commits,
                    arrived_phase, arrived_count, finished_phase,
                    finished_count, wpc, witer, wrow, clc_handle, clc_phase,
                    clc_missing, clc_response, unlaunched, done, issued>>
    BY DEF vars, slots, barriers, workers, clc
  <1>2. TypeOK'
    BY <1>1 DEF IInv, TypeOK
  <1>3. PublishedInv' /\ ArrivalsInv' /\ FinishesInv'
    BY <1>1 DEF IInv, PublishedInv, ArrivalsInv, TotalPub, FinishesInv, Early, Pub
  <1>4. OrderInv' /\ SlotInv'
    BY <1>1 DEF IInv, OrderInv, SlotInv, SlotOK, Begun, Pub
  <1>5. ClcInv' /\ ModeInv'
    BY <1>1 DEF IInv, ClcInv, ModeInv, Asked, Answered, One
  <1>6. QED
    BY <1>2, <1>3, <1>4, <1>5 DEF IInv

\* One arrival of a commit reaches a slot's barrier.
LEMMA DeliverCommitStep ==
  ASSUME IInv, NEW c \in CTAS, NEW g \in RINGS, DeliverCommit(c, g) PROVE IInv'
  <1> DEFINE last == arrived_count[c][g] = CLUSTER_SIZE - 1
  <1>1. /\ commits[c][g] > 0
        /\ commits' = [commits EXCEPT ![c][g] = @ - 1]
        /\ arrived_count' = [arrived_count EXCEPT ![c][g] =
                               IF last THEN 0 ELSE @ + 1]
        /\ arrived_phase' = [arrived_phase EXCEPT ![c][g] =
                               IF last THEN @ + 1 ELSE @]
        /\ UNCHANGED <<cpc, citer, slot, pid_order, semaphores, finished_phase,
                       finished_count, wpc, witer, wrow, clc_handle, clc_phase,
                       clc_missing, clc_response, unlaunched, done, issued>>
    BY DEF DeliverCommit, InstructionArrivals, slots, workers, clc
  <1>2. /\ commits \in [CTAS -> [RINGS -> Nat]]
        /\ arrived_phase \in [CTAS -> [RINGS -> Nat]]
        /\ arrived_count \in [CTAS -> [RINGS -> 0 .. CLUSTER_SIZE - 1]]
        /\ CLUSTER_SIZE \in {1, 2}
    BY ConfigAssumption DEF IInv, TypeOK
  <1>3. ASSUME NEW d \in CTAS, NEW h \in RINGS
        PROVE  /\ arrived_phase'[d][h] >= arrived_phase[d][h]
               /\ arrived_phase'[d][h] * CLUSTER_SIZE + arrived_count'[d][h]
                    + commits'[d][h]
                  = arrived_phase[d][h] * CLUSTER_SIZE + arrived_count[d][h]
                    + commits[d][h]
    <2>1. CASE d = c /\ h = g /\ last
      <3>1. /\ arrived_phase'[d][h] = arrived_phase[d][h] + 1
            /\ arrived_count'[d][h] = 0
            /\ commits'[d][h] = commits[d][h] - 1
            /\ arrived_count[d][h] = CLUSTER_SIZE - 1
        BY <1>1, <1>2, <2>1
      <3>2. /\ arrived_phase[d][h] \in Nat /\ commits[d][h] \in Nat
        BY <1>2
      <3>3. CASE CLUSTER_SIZE = 1
        BY <3>1, <3>2, <3>3
      <3>4. CASE CLUSTER_SIZE = 2
        BY <3>1, <3>2, <3>4
      <3>5. QED
        BY <3>3, <3>4, <1>2
    <2>2. CASE d = c /\ h = g /\ ~last
      <3>1. /\ arrived_phase'[d][h] = arrived_phase[d][h]
            /\ arrived_count'[d][h] = arrived_count[d][h] + 1
            /\ commits'[d][h] = commits[d][h] - 1
        BY <1>1, <1>2, <2>2
      <3>2. /\ arrived_phase[d][h] * CLUSTER_SIZE \in Nat
            /\ commits[d][h] \in Nat /\ arrived_count[d][h] \in Nat
            /\ arrived_phase[d][h] \in Nat
        BY <1>2
      <3>3. QED
        BY <3>1, <3>2
    <2>3. CASE ~(d = c /\ h = g)
      BY <1>1, <1>2, <2>3
    <2>4. QED
      BY <2>1, <2>2, <2>3
  <1>4. TypeOK'
    <2>1. commits' \in [CTAS -> [RINGS -> Nat]]
      BY <1>1, <1>2
    <2>2. arrived_phase' \in [CTAS -> [RINGS -> Nat]]
      BY <1>1, <1>2
    <2>3. arrived_count' \in [CTAS -> [RINGS -> 0 .. CLUSTER_SIZE - 1]]
      BY <1>1, <1>2
    <2>4. QED
      BY <1>1, <2>1, <2>2, <2>3 DEF IInv, TypeOK
  <1>5. PublishedInv' /\ FinishesInv' /\ SlotInv'
    <2>1. PublishedInv'
      BY <1>1 DEF IInv, PublishedInv, Pub
    <2>2. FinishesInv'
      BY <1>1 DEF IInv, FinishesInv, Early
    <2>3. SlotInv'
      BY <1>1 DEF IInv, SlotInv, SlotOK, Pub
    <2>4. QED
      BY <2>1, <2>2, <2>3
  <1>6. ArrivalsInv'
    <2>1. \A h \in RINGS : TotalPub(h)' = TotalPub(h)
      BY <1>1 DEF TotalPub, Pub
    <2>2. QED
      BY <1>3, <2>1 DEF IInv, ArrivalsInv
  <1>7. OrderInv'
    <2>1. \A d \in CTAS, w \in WORKERS : Begun(d, w)' = Begun(d, w) /\ Begun(d, w) \in Nat
      BY <1>1, Window DEF Begun
    <2>2. \A d \in CTAS, w \in WORKERS, h \in RINGS :
            Uses(Begun(d, w), h) <= arrived_phase'[d][h]
      <3> SUFFICES ASSUME NEW d \in CTAS, NEW w \in WORKERS, NEW h \in RINGS
                   PROVE  Uses(Begun(d, w), h) <= arrived_phase'[d][h]
        OBVIOUS
      <3>1. Uses(Begun(d, w), h) <= arrived_phase[d][h]
        BY DEF IInv, OrderInv
      <3>2. /\ Uses(Begun(d, w), h) \in Nat
            /\ arrived_phase[d][h] \in Nat /\ arrived_phase'[d][h] \in Nat
        <4>1. Begun(d, w) \in Nat
          BY <2>1
        <4>2. Uses(Begun(d, w), h) \in Nat
          BY <4>1, UsesStep
        <4>3. arrived_phase \in [CTAS -> [RINGS -> Nat]]
          BY DEF IInv, TypeOK
        <4>4. arrived_phase' \in [CTAS -> [RINGS -> Nat]]
          BY <1>4 DEF TypeOK
        <4>5. QED
          BY <4>2, <4>3, <4>4
      <3>3. QED
        BY <1>3, <3>1, <3>2
    <2>3. QED
      BY <1>1, <2>1, <2>2 DEF IInv, OrderInv, Pub
  <1>8. ClcInv' /\ ModeInv'
    BY <1>1 DEF IInv, ClcInv, ModeInv, Asked, Answered, One
  <1>9. QED
    BY <1>4, <1>5, <1>6, <1>7, <1>8 DEF IInv

\* A worker begins its n-th instruction.
LEMMA WorkerTakeStep ==
  ASSUME IInv, NEW c \in CTAS, NEW w \in WORKERS, WorkerTake(c, w) PROVE IInv'
  <1> DEFINE n == witer[c][w]
             g == Stage(n)
             row == slot[c][g]
  <1>1. /\ wpc[c][w] = "wait"
        /\ Completed(arrived_phase[c][g], Phasebit(n))
        /\ wpc' = [wpc EXCEPT ![c][w] = IF row = STOP THEN "exited" ELSE "run"]
        /\ wrow' = [wrow EXCEPT ![c][w] = row]
        /\ UNCHANGED <<cpc, citer, slot, pid_order, semaphores, commits,
                       arrived_phase, arrived_count, finished_phase,
                       finished_count, witer, clc_handle, clc_phase,
                       clc_missing, clc_response, unlaunched, done, issued>>
    BY DEF WorkerTake, slots, barriers, clc
  <1>2. /\ n \in Nat /\ g \in RINGS /\ arrived_phase[c][g] \in Nat
        /\ wpc \in [CTAS -> [WORKERS -> {"wait", "run", "exited"}]]
        /\ wrow \in [CTAS -> [WORKERS -> ROWIDS \cup {STOP, UNSET}]]
    BY UsesAt DEF IInv, TypeOK
  <1>3. /\ arrived_phase[c][g] = n \div STAGES + 1
        /\ \A d \in CTAS : Pub(d) >= n + 1
    <2>1. /\ arrived_phase[c][g] \in {n \div STAGES, n \div STAGES + 1}
          /\ arrived_phase[c][g] = n \div STAGES + 1 =>
               \A d \in CTAS : Pub(d) >= n + 1
      BY <1>1, <1>2, TakeExact
    <2>2. n \div STAGES \in Nat
      BY <1>2 DEF STAGES
    <2>3. arrived_phase[c][g] = n \div STAGES + 1
      BY <1>1, <1>2, <2>1, <2>2, ParityExact DEF Phasebit
    <2>4. QED
      BY <2>1, <2>3
  <1>4. row = issued[c][n + 1] /\ row \in ROWIDS \cup {STOP}
    BY <1>2, <1>3, SlotWindow
  <1>5. /\ wpc'[c][w] = IF row = STOP THEN "exited" ELSE "run"
        /\ wrow'[c][w] = row
        /\ \A d \in CTAS, v \in WORKERS :
             ~(d = c /\ v = w) => wpc'[d][v] = wpc[d][v] /\ wrow'[d][v] = wrow[d][v]
    BY <1>1, <1>2
  <1>6. TypeOK'
    <2>1. wpc' \in [CTAS -> [WORKERS -> {"wait", "run", "exited"}]]
      BY <1>1, <1>2
    <2>2. wrow' \in [CTAS -> [WORKERS -> ROWIDS \cup {STOP, UNSET}]]
      BY <1>1, <1>2, <1>4
    <2>3. QED
      BY <1>1, <2>1, <2>2 DEF IInv, TypeOK
  <1>7. PublishedInv' /\ ArrivalsInv' /\ FinishesInv'
    <2>1. PublishedInv'
      BY <1>1 DEF IInv, PublishedInv, Pub
    <2>2. ArrivalsInv'
      BY <1>1 DEF IInv, ArrivalsInv, TotalPub, Pub
    <2>3. FinishesInv'
      BY <1>1 DEF IInv, FinishesInv, Early
    <2>4. QED
      BY <2>1, <2>2, <2>3
  <1>8. OrderInv'
    <2>1. Begun(c, w)' = n + 1 /\ Begun(c, w) = n
      BY <1>1, <1>5 DEF Begun
    <2>2. \A d \in CTAS, v \in WORKERS :
            ~(d = c /\ v = w) => Begun(d, v)' = Begun(d, v)
      BY <1>1, <1>5 DEF Begun
    <2>3. \A d \in CTAS : Pub(d)' = Pub(d)
      BY <1>1 DEF Pub
    <2>4. \A h \in RINGS : Uses(n + 1, h) <= arrived_phase[c][h]
      <3> SUFFICES ASSUME NEW h \in RINGS
                   PROVE  Uses(n + 1, h) <= arrived_phase[c][h]
        OBVIOUS
      <3>1. Uses(n, h) <= arrived_phase[c][h]
        BY <2>1 DEF IInv, OrderInv
      <3>2. CASE h = g
        BY <1>2, <1>3, <3>2, UsesStep, UsesAt
      <3>3. CASE h # g
        <4>1. Uses(n + 1, h) = Uses(n, h) + 0 /\ Uses(n, h) \in Nat
          BY <1>2, <3>3, UsesStep
        <4>2. QED
          BY <3>1, <4>1
      <3>4. QED
        BY <3>2, <3>3
    <2>5. \A d, e \in CTAS, v \in WORKERS : Begun(d, v)' <= Pub(e)
      BY <1>3, <2>1, <2>2 DEF IInv, OrderInv
    <2>6. \A d \in CTAS, v \in WORKERS, h \in RINGS :
            Uses(Begun(d, v)', h) <= arrived_phase[d][h]
      BY <2>1, <2>2, <2>4 DEF IInv, OrderInv
    <2>7. QED
      BY <1>1, <2>3, <2>5, <2>6 DEF IInv, OrderInv
  <1>9. SlotInv'
    <2>1. ASSUME NEW d \in CTAS, NEW v \in WORKERS, wpc'[d][v] # "wait"
          PROVE  /\ wrow'[d][v] = issued[d][witer[d][v] + 1]
                 /\ wpc'[d][v] = "exited" <=> wrow'[d][v] = STOP
      <3>1. CASE d = c /\ v = w
        BY <1>4, <1>5, <3>1
      <3>2. CASE ~(d = c /\ v = w)
        BY <1>5, <2>1, <3>2 DEF IInv, SlotInv, SlotOK
      <3>3. QED
        BY <3>1, <3>2
    <2>2. QED
      BY <1>1, <2>1 DEF IInv, SlotInv, SlotOK, Pub
  <1>10. ClcInv' /\ ModeInv'
    BY <1>1 DEF IInv, ClcInv, ModeInv, Asked, Answered, One
  <1>11. QED
    BY <1>6, <1>7, <1>8, <1>9, <1>10 DEF IInv

\* A worker is done with its n-th instruction.  The last one to arrive ends
\* the phase: all the others have arrived in it, and none of them twice.
LEMMA WorkerFinishStep ==
  ASSUME IInv, NEW c \in CTAS, NEW w \in WORKERS, WorkerFinish(c, w) PROVE IInv'
  <1>a. PICK n \in Nat, g \in RINGS : n = witer[c][w] /\ g = Stage(n)
    BY UsesAt DEF IInv, TypeOK
  <1> DEFINE p == finished_phase[c][g]
             last == finished_count[c][g] = Cardinality(WORKERS) - 1
  <1>1. /\ wpc[c][w] = "run" /\ wpc' = [wpc EXCEPT ![c][w] = "wait"]
        /\ witer' = [witer EXCEPT ![c][w] = @ + 1]
        /\ finished_count' = [finished_count EXCEPT ![c][g] =
                                IF last THEN 0 ELSE @ + 1]
        /\ finished_phase' = [finished_phase EXCEPT ![c][g] =
                                IF last THEN @ + 1 ELSE @]
        /\ UNCHANGED <<cpc, citer, slot, pid_order, semaphores, commits,
                       arrived_phase, arrived_count, wrow, clc_handle,
                       clc_phase, clc_missing, clc_response, unlaunched, done,
                       issued>>
    BY <1>a DEF WorkerFinish, InstructionFinishers, slots, clc
  <1>2. /\ n \in Nat /\ g \in RINGS /\ g = Stage(n) /\ p \in Nat
        /\ n = witer[c][w]
        /\ wpc \in [CTAS -> [WORKERS -> {"wait", "run", "exited"}]]
        /\ witer \in [CTAS -> [WORKERS -> Nat]]
        /\ finished_phase \in [CTAS -> [RINGS -> Nat]]
        /\ finished_count \in [CTAS -> [RINGS -> 0 .. Cardinality(WORKERS) - 1]]
    BY <1>a DEF IInv, TypeOK
  <1>3. /\ IsFiniteSet(WORKERS) /\ Cardinality(WORKERS) \in Nat
        /\ \A h \in RINGS : IsFiniteSet(Early(c, h)) /\ Early(c, h) \subseteq WORKERS
                            /\ Cardinality(Early(c, h)) \in Nat
    <2>1. \A h \in RINGS : Early(c, h) \subseteq WORKERS
      BY DEF Early
    <2>2. QED
      BY <2>1, ConfigAssumption, FS_Subset, FS_CardinalityType
  <1>4. /\ finished_count[c][g] = Cardinality(Early(c, g))
        /\ finished_count[c][g] < Cardinality(WORKERS)
        /\ \A v \in WORKERS : Uses(witer[c][v], g) \in {p, p + 1}
    BY <1>2, <1>3 DEF IInv, FinishesInv
  <1>5. /\ Uses(n, g) = p
        /\ Uses(n + 1, g) = p + 1
        /\ \A h \in RINGS \ {g} : Uses(n + 1, h) = Uses(n, h)
    <2>1. PICK v \in WORKERS : Uses(witer[c][v], g) = p
      <3>1. Early(c, g) # WORKERS
        BY <1>4, <1>3
      <3>2. QED
        BY <1>4, <3>1 DEF Early
    <2>2. witer[c][v] >= n - 1 /\ witer[c][v] \in Nat
      <3>1. Begun(c, w) = n + 1
        BY <1>1, <1>2 DEF Begun
      <3>2. Begun(c, w) <= Pub(c) /\ Pub(c) <= witer[c][v] + 2
            /\ Pub(c) \in Nat /\ witer[c][v] \in Nat
        BY Window
      <3>3. QED
        BY <1>2, <3>1, <3>2
    <2>3. Uses(witer[c][v], g) >= n \div STAGES
      BY <1>2, <2>2, UsesAt
    <2>4. Uses(n, g) = n \div STAGES /\ n \div STAGES \in Nat
      BY <1>2, UsesAt DEF STAGES
    <2>5. Uses(n, g) = p
      BY <1>2, <1>4, <2>1, <2>3, <2>4
    <2>6. \A h \in RINGS : /\ Uses(n, h) \in Nat
                           /\ Uses(n + 1, h) = Uses(n, h) + (IF Stage(n) = h THEN 1 ELSE 0)
      BY <1>2, UsesStep
    <2>7. QED
      BY <1>2, <2>5, <2>6
  <1>6. /\ witer'[c][w] = n + 1
        /\ \A d \in CTAS, v \in WORKERS :
             ~(d = c /\ v = w) => witer'[d][v] = witer[d][v] /\ wpc'[d][v] = wpc[d][v]
        /\ wpc'[c][w] = "wait"
        /\ \A d \in CTAS, h \in RINGS :
             ~(d = c /\ h = g) => /\ finished_phase'[d][h] = finished_phase[d][h]
                                  /\ finished_count'[d][h] = finished_count[d][h]
        /\ finished_phase'[c][g] = IF last THEN p + 1 ELSE p
        /\ finished_count'[c][g] = IF last THEN 0 ELSE finished_count[c][g] + 1
    BY <1>1, <1>2
  <1>7. /\ w \notin Early(c, g)
        /\ Cardinality(Early(c, g) \cup {w}) = finished_count[c][g] + 1
    <2>1. w \notin Early(c, g)
      BY <1>2, <1>5 DEF Early
    <2>2. Cardinality(Early(c, g) \cup {w}) = Cardinality(Early(c, g)) + 1
      BY <1>3, <2>1, FS_AddElement
    <2>3. QED
      BY <1>4, <2>1, <2>2
  <1>8. last => \A v \in WORKERS \ {w} : Uses(witer[c][v], g) = p + 1
    <2> SUFFICES ASSUME last PROVE \A v \in WORKERS \ {w} : v \in Early(c, g)
      BY DEF Early
    <2>1. Cardinality(Early(c, g) \cup {w}) = Cardinality(WORKERS)
      BY <1>3, <1>7
    <2>2. Early(c, g) \cup {w} \subseteq WORKERS
      BY <1>3, <1>2
    <2>3. Early(c, g) \cup {w} = WORKERS
      BY <2>1, <2>2, <1>3, FS_Subset
    <2>4. QED
      BY <2>3
  <1>b. finished_count[c][g] \in Nat
    BY <1>3, <1>4
  <1>9. TypeOK'
    <2>1. witer' \in [CTAS -> [WORKERS -> Nat]] /\ wpc' \in [CTAS -> [WORKERS -> {"wait", "run", "exited"}]]
      BY <1>1, <1>2
    <2>2. finished_phase' \in [CTAS -> [RINGS -> Nat]]
      BY <1>1, <1>2
    <2>3. (IF last THEN 0 ELSE finished_count[c][g] + 1) \in 0 .. Cardinality(WORKERS) - 1
      BY <1>b, <1>3, <1>4
    <2>4. finished_count' \in [CTAS -> [RINGS -> 0 .. Cardinality(WORKERS) - 1]]
      BY <1>1, <1>2, <2>3
    <2>5. QED
      BY <1>1, <2>1, <2>2, <2>4 DEF IInv, TypeOK
  <1>10. PublishedInv' /\ ArrivalsInv'
    BY <1>1 DEF IInv, PublishedInv, ArrivalsInv, TotalPub, Pub
  <1>11. FinishesInv'
    <2>1. ASSUME NEW d \in CTAS, NEW h \in RINGS, ~(d = c /\ h = g)
          PROVE  /\ \A v \in WORKERS :
                      Uses(witer'[d][v], h) = Uses(witer[d][v], h)
                 /\ Early(d, h)' = Early(d, h)
      <3>1. \A v \in WORKERS : Uses(witer'[d][v], h) = Uses(witer[d][v], h)
        BY <1>2, <1>5, <1>6, <2>1
      <3>2. QED
        BY <1>6, <2>1, <3>1 DEF Early
    <2>2. CASE last
      <3>1. \A v \in WORKERS : Uses(witer'[c][v], g) = p + 1
        BY <1>5, <1>6, <1>8, <2>2
      <3>2. finished_phase'[c][g] = p + 1 /\ finished_count'[c][g] = 0
        BY <1>6, <2>2
      <3>3. Early(c, g)' = {}
        BY <1>2, <3>1, <3>2 DEF Early
      <3>4. Cardinality(Early(c, g)') = 0
        BY <3>3, FS_EmptySet
      <3>5. \A d \in CTAS, h \in RINGS :
              /\ \A v \in WORKERS : Uses(witer'[d][v], h) \in
                                     {finished_phase'[d][h], finished_phase'[d][h] + 1}
              /\ finished_count'[d][h] = Cardinality(Early(d, h)')
        <4> SUFFICES ASSUME NEW d \in CTAS, NEW h \in RINGS
                     PROVE  /\ \A v \in WORKERS : Uses(witer'[d][v], h) \in
                                 {finished_phase'[d][h], finished_phase'[d][h] + 1}
                            /\ finished_count'[d][h] = Cardinality(Early(d, h)')
          OBVIOUS
        <4>1. CASE d = c /\ h = g
          BY <3>1, <3>2, <3>4, <4>1
        <4>2. CASE ~(d = c /\ h = g)
          <5>1. /\ finished_phase'[d][h] = finished_phase[d][h]
                /\ finished_count'[d][h] = finished_count[d][h]
            BY <1>6, <4>2
          <5>2. QED
            BY <2>1, <4>2, <5>1 DEF IInv, FinishesInv
        <4>3. QED
          BY <4>1, <4>2
      <3>6. QED
        BY <3>5 DEF FinishesInv
    <2>3. CASE ~last
      <3>1. finished_phase'[c][g] = p
        BY <1>6, <2>3
      <3>2. Early(c, g)' = Early(c, g) \cup {w}
        BY <1>2, <1>5, <1>6, <3>1 DEF Early
      <3>4. finished_count'[c][g] = Cardinality(Early(c, g)')
        BY <1>6, <1>7, <2>3, <3>2
      <3>5. \A v \in WORKERS : Uses(witer'[c][v], g) \in {p, p + 1}
        BY <1>4, <1>5, <1>6
      <3>6. QED
        BY <1>6, <2>1, <3>1, <3>4, <3>5 DEF IInv, FinishesInv
    <2>4. QED
      BY <2>2, <2>3
  <1>12. OrderInv'
    <2>1. \A d \in CTAS, v \in WORKERS : Begun(d, v)' = Begun(d, v)
      BY <1>1, <1>2, <1>6 DEF Begun
    <2>2. \A d \in CTAS, v \in WORKERS :
            /\ witer[d][v] \in Nat /\ witer'[d][v] \in Nat
            /\ witer[d][v] <= witer'[d][v]
            /\ citer[d] \in Nat
      <3>1. /\ \A d \in CTAS, v \in WORKERS : witer[d][v] \in Nat
            /\ \A d \in CTAS : citer[d] \in Nat
        BY DEF IInv, TypeOK
      <3>2. \A d \in CTAS, v \in WORKERS :
              witer'[d][v] \in Nat /\ witer[d][v] <= witer'[d][v]
        <4> SUFFICES ASSUME NEW d \in CTAS, NEW v \in WORKERS
                     PROVE  witer'[d][v] \in Nat /\ witer[d][v] <= witer'[d][v]
          OBVIOUS
        <4>1. CASE d = c /\ v = w
          BY <1>2, <1>6, <4>1
        <4>2. CASE ~(d = c /\ v = w)
          BY <1>6, <3>1, <4>2
        <4>3. QED
          BY <4>1, <4>2
      <3>3. QED
        BY <3>1, <3>2
    <2>3. \A d \in CTAS, v \in WORKERS :
            citer[d] <= (IF cpc[d] = "reclaim" THEN witer'[d][v] + 2
                                               ELSE witer'[d][v] + 1)
      <3>1. \A d \in CTAS, v \in WORKERS :
              citer[d] <= (IF cpc[d] = "reclaim" THEN witer[d][v] + 2
                                                 ELSE witer[d][v] + 1)
        BY DEF IInv, OrderInv
      <3>2. QED
        BY <2>2, <3>1
    <2>4. QED
      BY <1>1, <2>1, <2>3 DEF IInv, OrderInv, Pub
  <1>13. SlotInv'
    <2>1. ASSUME NEW d \in CTAS, NEW v \in WORKERS, wpc'[d][v] # "wait"
          PROVE  wpc'[d][v] = wpc[d][v] /\ witer'[d][v] = witer[d][v]
      BY <1>6, <2>1
    <2>2. QED
      BY <1>1, <2>1 DEF IInv, SlotInv, SlotOK, Pub
  <1>14. ClcInv' /\ ModeInv'
    BY <1>1 DEF IInv, ClcInv, ModeInv, Asked, Answered, One
  <1>15. QED
    BY <1>9, <1>10, <1>11, <1>12, <1>13, <1>14 DEF IInv

\* What both halves of a CLC phase have in common: the one that comes is
\* missing, and the phase ends with the second.
LEMMA ClcArriveStep ==
  ASSUME IInv, NEW d \in CTAS, NEW g \in RINGS, NEW what \in CLC_PHASE,
         ClcArrive(d, g, what), what \in clc_missing[d][g]
  PROVE  /\ clc_missing' \in [CTAS -> [RINGS -> (SUBSET CLC_PHASE) \ {{}}]]
         /\ clc_phase' \in [CTAS -> [RINGS -> Nat]]
         /\ \A e \in CTAS, h \in RINGS :
              ~(e = d /\ h = g) => /\ clc_missing'[e][h] = clc_missing[e][h]
                                   /\ clc_phase'[e][h] = clc_phase[e][h]
         /\ clc_phase'[d][g] \in {clc_phase[d][g], clc_phase[d][g] + 1}
         /\ clc_phase'[d][g] + One(what \notin clc_missing'[d][g])
              = clc_phase[d][g] + 1
         /\ \A other \in CLC_PHASE \ {what} :
              clc_phase'[d][g] + One(other \notin clc_missing'[d][g])
                = clc_phase[d][g] + One(other \notin clc_missing[d][g])
  <1> DEFINE last == clc_missing[d][g] = {what}
  <1>1. /\ clc_missing' = [clc_missing EXCEPT ![d][g] =
                             IF last THEN CLC_PHASE ELSE @ \ {what}]
        /\ clc_phase' = [clc_phase EXCEPT ![d][g] = IF last THEN @ + 1 ELSE @]
    BY DEF ClcArrive
  <1>2. /\ clc_missing \in [CTAS -> [RINGS -> (SUBSET CLC_PHASE) \ {{}}]]
        /\ clc_phase \in [CTAS -> [RINGS -> Nat]]
    BY DEF IInv, TypeOK
  <1>3. /\ clc_missing'[d][g] = IF last THEN CLC_PHASE ELSE clc_missing[d][g] \ {what}
        /\ clc_phase'[d][g] = IF last THEN clc_phase[d][g] + 1 ELSE clc_phase[d][g]
        /\ \A e \in CTAS, h \in RINGS :
             ~(e = d /\ h = g) => /\ clc_missing'[e][h] = clc_missing[e][h]
                                  /\ clc_phase'[e][h] = clc_phase[e][h]
    BY <1>1, <1>2
  <1>4. (IF last THEN CLC_PHASE ELSE clc_missing[d][g] \ {what})
          \in (SUBSET CLC_PHASE) \ {{}}
    BY <1>2 DEF CLC_PHASE
  <1>5. clc_missing' \in [CTAS -> [RINGS -> (SUBSET CLC_PHASE) \ {{}}]]
    BY <1>1, <1>2, <1>4
  <1>6. clc_phase' \in [CTAS -> [RINGS -> Nat]]
    BY <1>1, <1>2
  <1>7. clc_phase[d][g] \in Nat /\ clc_missing[d][g] \subseteq CLC_PHASE
    BY <1>2
  <1>8. CASE last
    BY <1>3, <1>5, <1>6, <1>7, <1>8 DEF One, CLC_PHASE
  <1>9. CASE ~last
    BY <1>3, <1>5, <1>6, <1>7, <1>9 DEF One, CLC_PHASE
  <1>10. QED
    BY <1>8, <1>9

\* No controller is more than two requests behind rank 0's.
LEMMA AnsweredLag ==
  ASSUME IInv, NEW d \in CTAS
  PROVE  /\ Asked(0) \in Nat /\ Answered(d) \in Nat
         /\ Asked(0) <= Answered(d) + 2
         /\ cpc[0] = "fetch" => citer[0] <= Answered(d) + 1
  <1>1. PICK w \in WORKERS : TRUE
    BY ConfigAssumption
  <1>2. 0 \in CTAS
    BY ZeroRank
  <1>3. /\ citer[0] \in Nat /\ citer[d] \in Nat /\ witer[0][w] \in Nat
        /\ citer[0] <= (IF cpc[0] = "reclaim" THEN witer[0][w] + 2
                                              ELSE witer[0][w] + 1)
    BY <1>1, <1>2 DEF IInv, TypeOK, OrderInv
  <1>4. witer[0][w] <= Pub(d)
    BY <1>1, <1>2, Window
  <1>5. Pub(d) = IF cpc[d] = "exited" THEN citer[d] + 1 ELSE citer[d]
    BY DEF IInv, PublishedInv
  <1>6. Answered(d) \in Nat /\ Pub(d) \in Nat /\ Pub(d) <= Answered(d)
    BY <1>3, <1>5 DEF Answered
  <1>7. Asked(0) \in Nat /\ Asked(0) <= witer[0][w] + 2
    BY <1>3 DEF Asked
  <1>8. QED
    BY <1>3, <1>4, <1>6, <1>7

\* A controller asks the CLC for a row; rank 0's request is for all of them.
LEMMA ClcScheduleStep ==
  ASSUME IInv, NEW c \in CTAS, ClcSchedule(c) PROVE IInv'
  <1>a. PICK n \in Nat, g \in RINGS : n = citer[c] /\ g = Stage(n)
    BY UsesAt DEF IInv, TypeOK
  <1>1. /\ cpc[c] = "fetch" /\ cpc' = [cpc EXCEPT ![c] = "query"]
        /\ n > 0 /\ GLOBAL_WORK_QUEUE
        /\ ClcArrive(c, g, "arrival")
        /\ c # 0 => UNCHANGED <<unlaunched, clc_response>>
        /\ c = 0 => \E response \in unlaunched \cup {FAILED} :
                      /\ unlaunched' = unlaunched \ {response}
                      /\ clc_response' = [d \in CTAS |->
                           [clc_response[d] EXCEPT ![g] = response]]
        /\ UNCHANGED <<citer, slot, pid_order, semaphores, commits,
                       arrived_phase, arrived_count, finished_phase,
                       finished_count, wpc, witer, wrow, clc_handle, done,
                       issued>>
    BY <1>a DEF ClcSchedule, AsksForCluster, slots, barriers, workers
  <1>2. /\ cpc'[c] = "query" /\ \A d \in CTAS \ {c} : cpc'[d] = cpc[d]
        /\ cpc' \in [CTAS -> {"reclaim", "fetch", "query", "prepare", "publish",
                              "exited"}]
    BY <1>1 DEF IInv, TypeOK
  <1>3. /\ Asks(n, g) = (n - 1) \div STAGES /\ Asks(n - 1, g) = (n - 1) \div STAGES
        /\ Asks(n + 1, g) = (n - 1) \div STAGES + 1
        /\ (n - 1) \div STAGES \in Nat
        /\ \A h \in RINGS \ {g} : Asks(n + 1, h) = Asks(n, h)
    <2>1. \A h \in RINGS \ {g} : Asks(n + 1, h) = Asks(n, h) + 0 /\ Asks(n, h) \in Nat
      BY <1>a, AsksStep
    <2>2. QED
      BY <1>a, <1>1, <2>1, AsksAt DEF STAGES
  <1>4. \A x : One(x) \in {0, 1} /\ (One(x) = 0 <=> ~x)
    BY DEF One
  <1>5. /\ \A d \in CTAS, h \in RINGS : clc_phase[d][h] \in Nat
        /\ unlaunched \subseteq FirstRows /\ unlaunched \subseteq ROWIDS
        /\ clc_response \in [CTAS -> [RINGS -> ROWIDS \cup {FAILED, UNSET}]]
    BY <1>1 DEF IInv, TypeOK, ClcInv
  <1>6. Asked(c) = n /\ Answered(c) = n /\ Asked(c)' = n + 1 /\ Answered(c)' = n
    BY <1>a, <1>1, <1>2 DEF Asked, Answered
  <1>7. \A d \in CTAS \ {c} : Asked(d)' = Asked(d) /\ Answered(d)' = Answered(d)
    BY <1>1, <1>2 DEF Asked, Answered
  <1>8. "arrival" \in clc_missing[c][g]
    <2>1. /\ clc_phase[c][g] + One("arrival" \notin clc_missing[c][g]) = Asks(n, g)
          /\ clc_phase[c][g] >= Asks(n, g)
      BY <1>1, <1>6 DEF IInv, ClcInv
    <2>2. One("arrival" \notin clc_missing[c][g]) = 0
      BY <1>3, <1>4, <1>5, <2>1
    <2>3. QED
      BY <1>4, <2>2
  <1>9. /\ clc_missing' \in [CTAS -> [RINGS -> (SUBSET CLC_PHASE) \ {{}}]]
        /\ clc_phase' \in [CTAS -> [RINGS -> Nat]]
        /\ \A e \in CTAS, h \in RINGS :
             ~(e = c /\ h = g) => /\ clc_missing'[e][h] = clc_missing[e][h]
                                  /\ clc_phase'[e][h] = clc_phase[e][h]
        /\ clc_phase'[c][g] \in {clc_phase[c][g], clc_phase[c][g] + 1}
        /\ clc_phase'[c][g] + One("arrival" \notin clc_missing'[c][g])
             = clc_phase[c][g] + 1
        /\ clc_phase'[c][g] + One("bytes" \notin clc_missing'[c][g])
             = clc_phase[c][g] + One("bytes" \notin clc_missing[c][g])
    <2>1. "arrival" \in CLC_PHASE /\ "bytes" \in CLC_PHASE \ {"arrival"}
      BY DEF CLC_PHASE
    <2> HIDE DEF CLC_PHASE
    <2>2. QED
      BY <1>1, <1>8, <2>1, ClcArriveStep
  <1>10. /\ unlaunched' \subseteq unlaunched
         /\ clc_response' \in [CTAS -> [RINGS -> ROWIDS \cup {FAILED, UNSET}]]
         /\ \A d \in CTAS, h \in RINGS :
              ~(c = 0 /\ h = g) => clc_response'[d][h] = clc_response[d][h]
         /\ c = 0 => \A d \in CTAS : clc_response'[d][g] \in FirstRows \cup {FAILED}
    <2>1. CASE c # 0
      BY <1>1, <1>5, <2>1
    <2>2. CASE c = 0
      <3>1. PICK response \in unlaunched \cup {FAILED} :
              /\ unlaunched' = unlaunched \ {response}
              /\ clc_response' = [d \in CTAS |->
                                    [clc_response[d] EXCEPT ![g] = response]]
        BY <1>1, <2>2
      <3>2. response \in FirstRows \cup {FAILED} /\ response \in ROWIDS \cup {FAILED, UNSET}
        BY <1>5
      <3>3. QED
        BY <1>5, <2>2, <3>1, <3>2
    <2>3. QED
      BY <2>1, <2>2
  <1>11. c = 0 => \A d \in CTAS : clc_response[d][g] = UNSET
    <2> SUFFICES ASSUME c = 0, NEW d \in CTAS PROVE clc_response[d][g] = UNSET
      OBVIOUS
    <2>1. Answered(d) \in Nat /\ n <= Answered(d) + 1
      BY <1>a, <1>1, AnsweredLag
    <2>2. Asks(Answered(d), g) >= Asks(n - 1, g) /\ Asks(Answered(d), g) \in Nat
      <3>1. n - 1 \in Nat /\ n - 1 <= Answered(d)
        BY <1>1, <2>1
      <3>2. QED
        BY <2>1, <3>1, AsksMonotone, AsksStep
    <2>3. /\ clc_phase[d][g] + One("bytes" \notin clc_missing[d][g])
               + One(clc_response[d][g] # UNSET) = Asks(n, g)
          /\ clc_phase[d][g] >= Asks(Answered(d), g)
      BY <1>1, <1>6 DEF IInv, ClcInv
    <2>4. One(clc_response[d][g] # UNSET) = 0
      <3>1. /\ One(clc_response[d][g] # UNSET) \in {0, 1}
            /\ One("bytes" \notin clc_missing[d][g]) \in {0, 1}
            /\ clc_phase[d][g] \in Nat
        BY <1>4, <1>5
      <3>2. QED
        BY <1>3, <2>2, <2>3, <3>1
    <2>5. QED
      BY <1>4, <2>4
  <1>12. TypeOK'
    BY <1>1, <1>2, <1>5, <1>9, <1>10 DEF IInv, TypeOK
  <1>13. PublishedInv' /\ ModeInv'
    BY <1>1, <1>2 DEF IInv, PublishedInv, ModeInv, Pub
  <1>14. ArrivalsInv' /\ FinishesInv'
    <2>1. ArrivalsInv'
      BY <1>1 DEF IInv, ArrivalsInv, TotalPub, Pub
    <2>2. FinishesInv'
      BY <1>1 DEF IInv, FinishesInv, Early
    <2>3. QED
      BY <2>1, <2>2
  <1>15. OrderInv'
    BY <1>1, <1>2 DEF IInv, OrderInv, Begun, Pub
  <1>16. SlotInv'
    BY <1>1, <1>2 DEF IInv, SlotInv, SlotOK, Pub
  <1>17. ASSUME NEW d \in CTAS, NEW h \in RINGS
         PROVE  /\ clc_handle'[d][h] \in FirstRows \cup {FAILED, UNSET}
                /\ clc_response'[d][h] \in FirstRows \cup {FAILED, UNSET}
                /\ clc_phase'[d][h] + One("arrival" \notin clc_missing'[d][h])
                     = Asks(Asked(d)', h)
                /\ clc_phase'[d][h] + One("bytes" \notin clc_missing'[d][h])
                     + One(clc_response'[d][h] # UNSET) = Asks(Asked(0)', h)
                /\ clc_phase'[d][h] >= Asks(Answered(d)', h)
                /\ clc_phase'[d][h] + One("bytes" \notin clc_missing'[d][h]) >= 1 =>
                     clc_handle'[d][h] # UNSET
    <2>1. /\ clc_handle[d][h] \in FirstRows \cup {FAILED, UNSET}
          /\ clc_response[d][h] \in FirstRows \cup {FAILED, UNSET}
          /\ clc_phase[d][h] + One("arrival" \notin clc_missing[d][h])
               = Asks(Asked(d), h)
          /\ clc_phase[d][h] + One("bytes" \notin clc_missing[d][h])
               + One(clc_response[d][h] # UNSET) = Asks(Asked(0), h)
          /\ clc_phase[d][h] >= Asks(Answered(d), h)
          /\ clc_phase[d][h] + One("bytes" \notin clc_missing[d][h]) >= 1 =>
               clc_handle[d][h] # UNSET
      BY <1>1 DEF IInv, ClcInv
    <2>2. clc_response'[d][h] \in FirstRows \cup {FAILED, UNSET}
      BY <1>10, <2>1
    <2>3. clc_phase'[d][h] + One("bytes" \notin clc_missing'[d][h])
            = clc_phase[d][h] + One("bytes" \notin clc_missing[d][h])
      BY <1>9
    <2>4. clc_phase'[d][h] + One("arrival" \notin clc_missing'[d][h])
            = Asks(Asked(d)', h)
      <3>1. CASE d = c /\ h = g
        BY <1>3, <1>4, <1>5, <1>6, <1>8, <1>9, <2>1, <3>1
      <3>2. CASE d = c /\ h # g
        BY <1>3, <1>6, <1>9, <2>1, <3>2
      <3>3. CASE d # c
        BY <1>7, <1>9, <2>1, <3>3
      <3>4. QED
        BY <3>1, <3>2, <3>3
    <2>5. clc_phase'[d][h] + One("bytes" \notin clc_missing'[d][h])
            + One(clc_response'[d][h] # UNSET) = Asks(Asked(0)', h)
      <3>1. CASE c = 0 /\ h = g
        <4>1. One(clc_response'[d][h] # UNSET) = 1 /\ One(clc_response[d][h] # UNSET) = 0
          <5>1. UNSET \notin FirstRows \cup {FAILED}
            BY DEF FirstRows, ROWIDS, UNSET, FAILED
          <5>2. clc_response'[d][h] # UNSET /\ clc_response[d][h] = UNSET
            BY <1>10, <1>11, <3>1, <5>1
          <5>3. QED
            BY <5>2 DEF One
        <4>2. One("bytes" \notin clc_missing[d][h]) \in {0, 1} /\ clc_phase[d][h] \in Nat
          BY <1>4, <1>5
        <4>3. QED
          BY <1>3, <1>6, <2>1, <2>3, <3>1, <4>1, <4>2
      <3>2. CASE c = 0 /\ h # g
        <4>1. clc_response'[d][h] = clc_response[d][h]
          BY <1>10, <3>2
        <4>2. Asks(Asked(0)', h) = Asks(Asked(0), h)
          BY <1>3, <1>6, <3>2
        <4>3. QED
          BY <2>1, <2>3, <4>1, <4>2
      <3>3. CASE c # 0
        <4>1. clc_response'[d][h] = clc_response[d][h]
          BY <1>10, <3>3
        <4>2. Asked(0)' = Asked(0)
          BY <1>7, <3>3, ZeroRank
        <4>3. QED
          BY <2>1, <2>3, <4>1, <4>2
      <3>4. QED
        BY <3>1, <3>2, <3>3
    <2>6. clc_phase'[d][h] >= Asks(Answered(d)', h)
      <3>1. Answered(d)' = Answered(d)
        BY <1>6, <1>7
      <3>2. clc_phase'[d][h] >= clc_phase[d][h] /\ clc_phase[d][h] \in Nat
            /\ clc_phase'[d][h] \in Nat
        BY <1>5, <1>9
      <3>3. Answered(d) \in Nat
        BY AnsweredLag
      <3>4. Asks(Answered(d), h) \in Nat
        BY <3>3, AsksStep
      <3>5. QED
        BY <2>1, <3>1, <3>2, <3>4
    <2>7. QED
      BY <1>1, <2>1, <2>2, <2>3, <2>4, <2>5, <2>6
  <1>18. ClcInv'
    <2>1. \A d \in CTAS : citer'[d] = 0 => cpc'[d] # "query"
      BY <1>a, <1>1, <1>2 DEF IInv, ClcInv
    <2>2. unlaunched' \subseteq FirstRows
      BY <1>5, <1>10
    <2>3. QED
      BY <1>17, <2>1, <2>2 DEF ClcInv
  <1>19. QED
    BY <1>12, <1>13, <1>14, <1>15, <1>16, <1>18 DEF IInv

\* The CLC's response arrives at one CTA.
LEMMA ClcDeliverStep ==
  ASSUME IInv, NEW d \in CTAS, NEW g \in RINGS, ClcDeliver(d, g) PROVE IInv'
  <1>1. /\ clc_response[d][g] # UNSET
        /\ clc_handle' = [clc_handle EXCEPT ![d][g] = clc_response[d][g]]
        /\ clc_response' = [clc_response EXCEPT ![d][g] = UNSET]
        /\ ClcArrive(d, g, "bytes")
        /\ UNCHANGED <<cpc, citer, slot, pid_order, semaphores, commits,
                       arrived_phase, arrived_count, finished_phase,
                       finished_count, wpc, witer, wrow, unlaunched, done,
                       issued>>
    BY DEF ClcDeliver, slots, barriers, workers
  <1>2. /\ \A e \in CTAS, h \in RINGS : clc_phase[e][h] \in Nat
        /\ clc_handle \in [CTAS -> [RINGS -> ROWIDS \cup {FAILED, UNSET}]]
        /\ clc_response \in [CTAS -> [RINGS -> ROWIDS \cup {FAILED, UNSET}]]
    BY DEF IInv, TypeOK
  <1>3. \A x : One(x) \in {0, 1} /\ (One(x) = 0 <=> ~x)
    BY DEF One
  <1>4. /\ clc_handle' \in [CTAS -> [RINGS -> ROWIDS \cup {FAILED, UNSET}]]
        /\ clc_response' \in [CTAS -> [RINGS -> ROWIDS \cup {FAILED, UNSET}]]
        /\ clc_handle'[d][g] = clc_response[d][g] /\ clc_response'[d][g] = UNSET
        /\ \A e \in CTAS, h \in RINGS :
             ~(e = d /\ h = g) => /\ clc_handle'[e][h] = clc_handle[e][h]
                                  /\ clc_response'[e][h] = clc_response[e][h]
    <2>1. clc_response[d][g] \in ROWIDS \cup {FAILED, UNSET}
      BY <1>2
    <2>2. QED
      BY <1>1, <1>2, <2>1
  <1>5. PublishedInv' /\ ModeInv' /\ OrderInv' /\ SlotInv'
    <2>1. PublishedInv' /\ ModeInv'
      BY <1>1 DEF IInv, PublishedInv, ModeInv, Pub
    <2>2. OrderInv'
      BY <1>1 DEF IInv, OrderInv, Begun, Pub
    <2>3. SlotInv'
      BY <1>1 DEF IInv, SlotInv, SlotOK, Pub
    <2>4. QED
      BY <2>1, <2>2, <2>3
  <1>6. ArrivalsInv' /\ FinishesInv'
    <2>1. ArrivalsInv'
      BY <1>1 DEF IInv, ArrivalsInv, TotalPub, Pub
    <2>2. FinishesInv'
      BY <1>1 DEF IInv, FinishesInv, Early
    <2>3. QED
      BY <2>1, <2>2
  <1>7. GLOBAL_WORK_QUEUE
    BY <1>1 DEF IInv, ModeInv
  <1>8. "bytes" \in clc_missing[d][g]
    <2>1. /\ clc_phase[d][g] + One("bytes" \notin clc_missing[d][g])
               + One(clc_response[d][g] # UNSET) = Asks(Asked(0), g)
          /\ clc_phase[d][g] >= Asks(Answered(d), g)
      BY <1>7 DEF IInv, ClcInv
    <2>2. /\ Asked(0) \in Nat /\ Answered(d) \in Nat
          /\ Asked(0) <= Answered(d) + 2
      BY AnsweredLag
    <2>3. /\ Asks(Asked(0), g) \in Nat /\ Asks(Answered(d), g) \in Nat
          /\ Asks(Asked(0), g) <= Asks(Answered(d), g) + 1
      BY <2>2, AsksStep, AsksGap
    <2>4. One("bytes" \notin clc_missing[d][g]) = 0
      <3>1. One(clc_response[d][g] # UNSET) = 1
        BY <1>1 DEF One
      <3>2. QED
        BY <1>2, <1>3, <2>1, <2>3, <3>1
    <2>5. QED
      BY <1>3, <2>4
  <1>9. /\ clc_missing' \in [CTAS -> [RINGS -> (SUBSET CLC_PHASE) \ {{}}]]
        /\ clc_phase' \in [CTAS -> [RINGS -> Nat]]
        /\ \A e \in CTAS, h \in RINGS :
             ~(e = d /\ h = g) => /\ clc_missing'[e][h] = clc_missing[e][h]
                                  /\ clc_phase'[e][h] = clc_phase[e][h]
        /\ clc_phase'[d][g] \in {clc_phase[d][g], clc_phase[d][g] + 1}
        /\ clc_phase'[d][g] + One("bytes" \notin clc_missing'[d][g])
             = clc_phase[d][g] + 1
        /\ clc_phase'[d][g] + One("arrival" \notin clc_missing'[d][g])
             = clc_phase[d][g] + One("arrival" \notin clc_missing[d][g])
    <2>1. "bytes" \in CLC_PHASE /\ "arrival" \in CLC_PHASE \ {"bytes"}
      BY DEF CLC_PHASE
    <2> HIDE DEF CLC_PHASE
    <2>2. QED
      BY <1>1, <1>8, <2>1, ClcArriveStep
  <1>10. TypeOK'
    BY <1>1, <1>4, <1>9 DEF IInv, TypeOK
  <1>11. ASSUME NEW e \in CTAS, NEW h \in RINGS
         PROVE  /\ clc_handle'[e][h] \in FirstRows \cup {FAILED, UNSET}
                /\ clc_response'[e][h] \in FirstRows \cup {FAILED, UNSET}
                /\ clc_phase'[e][h] + One("arrival" \notin clc_missing'[e][h])
                     = Asks(Asked(e), h)
                /\ clc_phase'[e][h] + One("bytes" \notin clc_missing'[e][h])
                     + One(clc_response'[e][h] # UNSET) = Asks(Asked(0), h)
                /\ clc_phase'[e][h] >= Asks(Answered(e), h)
                /\ clc_phase'[e][h] + One("bytes" \notin clc_missing'[e][h]) >= 1 =>
                     clc_handle'[e][h] # UNSET
    <2>1. /\ clc_handle[e][h] \in FirstRows \cup {FAILED, UNSET}
          /\ clc_response[e][h] \in FirstRows \cup {FAILED, UNSET}
          /\ clc_phase[e][h] + One("arrival" \notin clc_missing[e][h])
               = Asks(Asked(e), h)
          /\ clc_phase[e][h] + One("bytes" \notin clc_missing[e][h])
               + One(clc_response[e][h] # UNSET) = Asks(Asked(0), h)
          /\ clc_phase[e][h] >= Asks(Answered(e), h)
          /\ clc_phase[e][h] + One("bytes" \notin clc_missing[e][h]) >= 1 =>
               clc_handle[e][h] # UNSET
      BY <1>7 DEF IInv, ClcInv
    <2>2. CASE e = d /\ h = g
      <3>1. /\ One(clc_response[e][h] # UNSET) = 1
            /\ One(clc_response'[e][h] # UNSET) = 0
            /\ One("bytes" \notin clc_missing[e][h]) = 0
            /\ clc_handle'[e][h] # UNSET
        BY <1>1, <1>4, <1>8, <2>2 DEF One
      <3>2. /\ clc_phase'[e][h] \in Nat /\ clc_phase[e][h] \in Nat
            /\ clc_phase'[e][h] >= clc_phase[e][h]
        BY <1>2, <1>9, <2>2
      <3>3. Asks(Answered(e), h) \in Nat
        BY AnsweredLag, AsksStep
      <3>4. /\ clc_phase'[e][h] + One("arrival" \notin clc_missing'[e][h])
                 = Asks(Asked(e), h)
            /\ clc_phase'[e][h] + One("bytes" \notin clc_missing'[e][h])
                 + One(clc_response'[e][h] # UNSET) = Asks(Asked(0), h)
        BY <1>9, <2>1, <2>2, <3>1, <3>2
      <3>5. clc_phase'[e][h] >= Asks(Answered(e), h)
        BY <2>1, <3>2, <3>3
      <3>6. QED
        BY <1>4, <2>1, <2>2, <3>1, <3>4, <3>5
    <2>3. CASE ~(e = d /\ h = g)
      BY <1>4, <1>9, <2>1, <2>3
    <2>4. QED
      BY <2>2, <2>3
  <1>12. ClcInv'
    <2>1. \A e \in CTAS : Asked(e)' = Asked(e) /\ Answered(e)' = Answered(e)
      BY <1>1 DEF Asked, Answered
    <2>2. /\ unlaunched' \subseteq FirstRows
          /\ \A e \in CTAS : citer'[e] = 0 => cpc'[e] # "query"
      BY <1>1, <1>7 DEF IInv, ClcInv
    <2>3. QED
      BY <1>11, <2>1, <2>2, ZeroRank DEF ClcInv
  <1>13. QED
    BY <1>5, <1>6, <1>10, <1>12 DEF IInv

---------------------------------------------------------------------------
(* The invariant, and what follows from it.                                *)

LEMMA NextIInv == IInv /\ [Next]_vars => IInv'
  <1> SUFFICES ASSUME IInv, [Next]_vars PROVE IInv'
    OBVIOUS
  <1>1. ASSUME NEW c \in CTAS, Controller(c) PROVE IInv'
    BY <1>1, ReclaimStep, FetchStaticStep, FetchFirstStep, ClcScheduleStep,
       ClcQueryStep, PrepareStep, PublishStep DEF Controller
  <1>2. ASSUME NEW c \in CTAS, NEW w \in WORKERS, Worker(c, w) PROVE IInv'
    BY <1>2, WorkerTakeStep, WorkerFinishStep DEF Worker
  <1>3. ASSUME NEW c \in CTAS, NEW g \in RINGS,
               DeliverCommit(c, g) \/ ClcDeliver(c, g)
        PROVE  IInv'
    BY <1>3, DeliverCommitStep, ClcDeliverStep
  <1>4. CASE LaunchElsewhere
    BY <1>4, LaunchElsewhereStep
  <1>5. CASE KernelExit
    BY <1>5, KernelExitStep
  <1>6. CASE UNCHANGED vars
    BY <1>6, StutterStep
  <1>7. QED
    BY <1>1, <1>2, <1>3, <1>4, <1>5, <1>6 DEF Next

\* The inductive invariant holds in every reachable state of the pipeline.
THEOREM PipelineInvariant == Spec => []IInv
  BY InitIInv, NextIInv, PTL DEF Spec

\* Every variable keeps its type; in particular no mbarrier ever counts more
\* arrivals in a phase than it was initialised for.
THEOREM PipelineTypes == Spec => []TypeOK
  <1>1. IInv => TypeOK
    BY DEF IInv
  <1>2. QED
    BY <1>1, PipelineInvariant, PTL

\* The three parity waits of the pipeline never alias (controller.cuh steps 0
\* and 1, workers.cuh), for any number of worker warps and instructions.
THEOREM ParityWaitsExact == Spec => []WaitsExact
  <1>1. IInv => WaitsExact
    <2> SUFFICES ASSUME IInv, NEW c \in CTAS
                 PROVE
          /\ \A w \in WORKERS :
               wpc[c][w] = "wait" =>
                 arrived_phase[c][Stage(witer[c][w])] \in
                   {witer[c][w] \div STAGES, witer[c][w] \div STAGES + 1}
          /\ cpc[c] = "reclaim" /\ citer[c] >= STAGES =>
               finished_phase[c][Stage(citer[c])] \in
                 {citer[c] \div STAGES - 1, citer[c] \div STAGES}
          /\ cpc[c] = "query" =>
               clc_phase[c][Stage(citer[c])] \in
                 {(citer[c] - 1) \div STAGES, (citer[c] - 1) \div STAGES + 1}
      BY DEF WaitsExact
    <2>1. citer[c] \in Nat /\ \A w \in WORKERS : witer[c][w] \in Nat
      BY DEF IInv, TypeOK
    <2>2. \A n \in Nat : Stage(n) \in RINGS
      BY UsesAt
    <2>3. cpc[c] = "query" => GLOBAL_WORK_QUEUE
      BY DEF IInv, ModeInv
    <2>4. QED
      BY <2>1, <2>2, <2>3, TakeExact, ReclaimExact, QueryExact
  <1>2. QED
    BY <1>1, PipelineInvariant, PTL

\* No controller reuses a slot under a worker (controller.cuh steps 0 to 3):
\* the row, the stream position and the semaphores stay what they were when
\* the worker was dispatched.
THEOREM SlotsIntact == Spec => []SlotIntact
  <1>1. IInv => SlotIntact
    <2> SUFFICES ASSUME IInv, NEW c \in CTAS, NEW w \in WORKERS,
                        wpc[c][w] = "run"
                 PROVE  LET n == witer[c][w] IN
                        /\ slot[c][Stage(n)] = wrow[c][w]
                        /\ n < Len(issued[c]) /\ issued[c][n + 1] = wrow[c][w]
                        /\ semaphores[c][Stage(n)]
      BY DEF SlotIntact
    <2>1. /\ witer[c][w] \in Nat /\ Pub(c) \in Nat
          /\ Pub(c) >= witer[c][w] + 1
      BY Window DEF Begun
    <2>2. /\ wrow[c][w] = issued[c][witer[c][w] + 1] /\ wrow[c][w] # STOP
      BY DEF IInv, SlotInv, SlotOK
    <2>3. /\ slot[c][Stage(witer[c][w])] = issued[c][witer[c][w] + 1]
          /\ semaphores[c][Stage(witer[c][w])]
      BY <2>1, <2>2, SlotWindow
    <2>4. QED
      BY <2>1, <2>2, <2>3 DEF Pub
  <1>2. QED
    BY <1>1, PipelineInvariant, PTL

\* A worker inside instruction n knows that every controller of the cluster
\* has published its n-th instruction (controller.cuh step 4).
THEOREM ClusterIsPublished == Spec => []ClusterPublished
  <1>1. IInv => ClusterPublished
    <2> SUFFICES ASSUME IInv, NEW c \in CTAS, NEW d \in CTAS,
                        NEW w \in WORKERS, wpc[c][w] # "wait"
                 PROVE  Len(issued[d]) > witer[c][w]
      BY DEF ClusterPublished
    <2>1. Begun(c, w) <= Pub(d) /\ witer[c][w] \in Nat /\ Begun(c, w) = witer[c][w] + 1
      BY Window DEF Begun
    <2>2. Pub(d) \in Nat
      BY DEF IInv, TypeOK, Pub
    <2>3. QED
      BY <2>1, <2>2 DEF Pub
  <1>2. QED
    BY <1>1, PipelineInvariant, PTL

---------------------------------------------------------------------------
(* The pipeline implements InstructionStream: publishing (a row or the     *)
(* stop signal) is Issue, the dispatch of a worker is Take, its arrival at *)
(* instruction_finished is Retire, and every other step is invisible.      *)

\* Steps that change neither what is issued nor the workers.
LEMMA Invisible ==
  ASSUME UNCHANGED <<issued, wpc, witer, wrow>>
  PROVE  UNCHANGED Stream!streamVars
  BY DEF Stream!streamVars

\* A controller that publishes is not ahead of its slowest worker by two, and
\* has not ended its stream.
LEMMA IssueStep ==
  ASSUME IInv, NEW c \in CTAS, NEW row \in ROWIDS \cup {STOP},
         cpc[c] \in {"fetch", "query", "publish"},
         issued' = [issued EXCEPT ![c] = Append(@, row)],
         UNCHANGED <<wpc, witer, wrow>>
  PROVE  Stream!Issue(c)
  <1>1. Pub(c) \in Nat /\ \A w \in WORKERS : Pub(c) <= witer[c][w] + 1 /\ witer[c][w] \in Nat
    <2>1. Pub(c) \in Nat
      BY DEF IInv, TypeOK, Pub
    <2>2. QED
      BY <2>1, Window
  <1>2. ~Stream!Ended(c)
    <2>1. issued[c] \in Seq(ROWIDS \cup {STOP})
      BY DEF IInv, TypeOK
    <2>2. ASSUME issued[c] # << >> PROVE issued[c][Pub(c)] # STOP
      <3>1. Pub(c) >= 1
        BY <1>1, <2>1, <2>2 DEF Pub
      <3>2. issued[c][Pub(c)] \in ROWIDS
        BY <1>1, <3>1 DEF IInv, SlotInv, SlotOK
      <3>3. QED
        BY <3>2 DEF ROWIDS, STOP
    <2>3. QED
      BY <2>2 DEF Stream!Ended, Pub
  <1>3. \A w \in WORKERS : Len(issued[c]) < witer[c][w] + STAGES
    BY <1>1 DEF Pub, STAGES
  <1>4. QED
    BY <1>2, <1>3 DEF Stream!Issue

\* The first state is the abstract one's.
LEMMA RefinesInit == Init => Stream!Init
  BY DEF Init, Stream!Init

LEMMA RefinesController ==
  ASSUME IInv, NEW c \in CTAS, Controller(c)
  PROVE  Stream!Next \/ UNCHANGED Stream!streamVars
  <1>1. ASSUME NEW row, NEW inRange, cpc[c] \in {"fetch", "query"},
               LoadOrStop(c, inRange, row), UNCHANGED workers
        PROVE  Stream!Next \/ UNCHANGED Stream!streamVars
    <2>1. CASE inRange
      BY <1>1, <2>1, Invisible DEF LoadOrStop, Load, workers
    <2>2. CASE ~inRange
      <3>1. issued' = [issued EXCEPT ![c] = Append(@, STOP)]
        BY <1>1, <2>2 DEF LoadOrStop, Stop
      <3>2. Stream!Issue(c)
        BY <1>1, <3>1, IssueStep DEF workers
      <3>3. QED
        BY <3>2 DEF Stream!Next
    <2>3. QED
      BY <2>1, <2>2
  <1>2. CASE Reclaim(c) \/ ClcSchedule(c) \/ Prepare(c)
    BY <1>2, Invisible DEF Reclaim, ClcSchedule, Prepare, workers
  <1>3. CASE FetchStatic(c)
    BY <1>1, <1>3 DEF FetchStatic
  <1>4. CASE FetchFirst(c)
    BY <1>1, <1>4 DEF FetchFirst
  <1>5. CASE ClcQuery(c)
    BY <1>1, <1>5 DEF ClcQuery
  <1>6. CASE Publish(c)
    <2>1. slot[c][Stage(citer[c])] \in ROWIDS
      BY <1>6 DEF Publish, IInv, SlotInv, SlotOK
    <2>2. Stream!Issue(c)
      BY <1>6, <2>1, IssueStep DEF Publish, workers
    <2>3. QED
      BY <2>2 DEF Stream!Next
  <1>7. QED
    BY <1>2, <1>3, <1>4, <1>5, <1>6 DEF Controller

LEMMA RefinesTake ==
  ASSUME IInv, NEW c \in CTAS, NEW w \in WORKERS, WorkerTake(c, w)
  PROVE  Stream!Take(c, w)
  <1>a. PICK n \in Nat : n = witer[c][w] /\ Stage(n) \in RINGS
    BY UsesAt DEF IInv, TypeOK
  <1> DEFINE row == slot[c][Stage(n)]
  <1>1. /\ wpc[c][w] = "wait"
        /\ Completed(arrived_phase[c][Stage(n)], Phasebit(n))
        /\ wpc' = [wpc EXCEPT ![c][w] = IF row = STOP THEN "exited" ELSE "run"]
        /\ wrow' = [wrow EXCEPT ![c][w] = row]
        /\ UNCHANGED <<issued, witer>>
    BY <1>a DEF WorkerTake
  <1>2. /\ arrived_phase[c][Stage(n)] \in Nat
        /\ wpc \in [CTAS -> [WORKERS -> {"wait", "run", "exited"}]]
        /\ witer \in [CTAS -> [WORKERS -> Nat]]
    BY <1>a DEF IInv, TypeOK
  <1>3. \A d \in CTAS : Pub(d) >= n + 1 /\ Pub(d) \in Nat
    <2>1. /\ arrived_phase[c][Stage(n)] \in {n \div STAGES, n \div STAGES + 1}
          /\ arrived_phase[c][Stage(n)] = n \div STAGES + 1 =>
               \A d \in CTAS : Pub(d) >= n + 1
      BY <1>a, <1>1, TakeExact
    <2>2. n \div STAGES \in Nat
      BY DEF STAGES
    <2>3. arrived_phase[c][Stage(n)] = n \div STAGES + 1
      BY <1>1, <1>2, <2>1, <2>2, ParityExact DEF Phasebit
    <2>4. \A d \in CTAS : Pub(d) \in Nat
      BY DEF IInv, TypeOK, Pub
    <2>5. QED
      BY <2>1, <2>3, <2>4
  <1>4. row = issued[c][n + 1]
    BY <1>a, <1>3, SlotWindow
  <1> DEFINE taken == [d \in CTAS |-> [v \in WORKERS |->
                         IF wpc[d][v] = "wait" THEN witer[d][v] ELSE witer[d][v] + 1]]
  <1>5. taken[c][w] = n
    BY <1>a, <1>1
  <1>6. \A d \in CTAS : Len(issued[d]) > n
    BY <1>3 DEF Pub
  <1>7. taken' = [taken EXCEPT ![c][w] = @ + 1]
    <2>1. /\ wpc'[c][w] # "wait" /\ witer' = witer
          /\ \A d \in CTAS, v \in WORKERS :
               ~(d = c /\ v = w) => wpc'[d][v] = wpc[d][v]
      BY <1>1, <1>2
    <2>2. \A d \in CTAS, v \in WORKERS :
            taken'[d][v] = IF d = c /\ v = w THEN n + 1 ELSE taken[d][v]
      BY <1>a, <2>1
    <2>3. \A d \in CTAS : taken'[d] = [taken EXCEPT ![c][w] = @ + 1][d]
      <3> SUFFICES ASSUME NEW d \in CTAS
                   PROVE  taken'[d] = [taken EXCEPT ![c][w] = @ + 1][d]
        OBVIOUS
      <3>1. CASE d # c
        BY <2>2, <3>1
      <3>2. CASE d = c
        <4>1. \A v \in WORKERS :
                taken'[d][v] = [taken[c] EXCEPT ![w] = @ + 1][v]
          BY <1>5, <2>2, <3>2
        <4>2. QED
          BY <3>2, <4>1
      <3>3. QED
        BY <3>1, <3>2
    <2>4. QED
      BY <2>3
  <1>8. wrow' = [wrow EXCEPT ![c][w] = issued[c][n + 1]]
    BY <1>1, <1>4
  <1>9. QED
    BY <1>a, <1>1, <1>5, <1>6, <1>7, <1>8 DEF Stream!Take

LEMMA RefinesFinish ==
  ASSUME IInv, NEW c \in CTAS, NEW w \in WORKERS, WorkerFinish(c, w)
  PROVE  Stream!Retire(c, w)
  <1>1. /\ wpc[c][w] = "run" /\ wpc' = [wpc EXCEPT ![c][w] = "wait"]
        /\ witer' = [witer EXCEPT ![c][w] = @ + 1]
        /\ UNCHANGED <<issued, wrow>>
    BY DEF WorkerFinish
  <1>2. /\ wpc \in [CTAS -> [WORKERS -> {"wait", "run", "exited"}]]
        /\ witer \in [CTAS -> [WORKERS -> Nat]]
        /\ wrow[c][w] # STOP
    BY <1>1 DEF IInv, TypeOK, SlotInv, SlotOK
  <1> DEFINE taken == [d \in CTAS |-> [v \in WORKERS |->
                         IF wpc[d][v] = "wait" THEN witer[d][v] ELSE witer[d][v] + 1]]
  <1>3. taken[c][w] = witer[c][w] + 1
    BY <1>1
  <1>4. taken' = taken
    <2>1. /\ wpc'[c][w] = "wait" /\ witer'[c][w] = witer[c][w] + 1
          /\ \A d \in CTAS, v \in WORKERS :
               ~(d = c /\ v = w) => wpc'[d][v] = wpc[d][v] /\ witer'[d][v] = witer[d][v]
      BY <1>1, <1>2
    <2>2. \A d \in CTAS, v \in WORKERS : taken'[d][v] = taken[d][v]
      BY <1>1, <2>1
    <2>3. QED
      BY <2>2
  <1>5. QED
    BY <1>1, <1>2, <1>3, <1>4 DEF Stream!Retire

\* The pipeline implements the in-order instruction stream: rings, parities,
\* anonymous cluster arrivals and the CLC queue are invisible to the handlers.
THEOREM PipelineImplementsStream == Spec => ImplementsStream
  <1>1. IInv /\ [Next]_vars => [Stream!Next]_(Stream!streamVars)
    <2> SUFFICES ASSUME IInv, [Next]_vars
                 PROVE  Stream!Next \/ UNCHANGED Stream!streamVars
      OBVIOUS
    <2>1. ASSUME NEW c \in CTAS, Controller(c)
          PROVE  Stream!Next \/ UNCHANGED Stream!streamVars
      BY <2>1, RefinesController
    <2>2. ASSUME NEW c \in CTAS, NEW w \in WORKERS, Worker(c, w)
          PROVE  Stream!Next
      BY <2>2, RefinesTake, RefinesFinish DEF Worker, Stream!Next
    <2>3. ASSUME NEW c \in CTAS, NEW g \in RINGS,
                 DeliverCommit(c, g) \/ ClcDeliver(c, g)
          PROVE  UNCHANGED Stream!streamVars
      BY <2>3, Invisible DEF DeliverCommit, ClcDeliver, workers
    <2>4. CASE LaunchElsewhere \/ KernelExit \/ UNCHANGED vars
      BY <2>4, Invisible DEF LaunchElsewhere, KernelExit, vars, workers
    <2>5. QED
      BY <2>1, <2>2, <2>3, <2>4 DEF Next
  <1>2. QED
    BY <1>1, RefinesInit, PipelineInvariant, PTL DEF ImplementsStream, Spec, Stream!Spec

---------------------------------------------------------------------------
(* What the controllers of a cluster publish: the CTAs of a cluster run    *)
(* matching rows, the page order of every instruction is the one its       *)
(* predecessors leave behind, and nothing is under way when the kernel has *)
(* passed its final sync.                                                  *)

(* The rows.                                                               *)

\* The latest answer of the CLC for ring slot g, under way to CTA c or there.
Answer(c, g) ==
  IF clc_response[c][g] # UNSET THEN clc_response[c][g] ELSE clc_handle[c][g]

\* What controller c publishes in iteration n, its row or the stop signal, as
\* long as the answer to iteration n is the latest one for its slot.
RowAt(c, n) ==
  IF ~GLOBAL_WORK_QUEUE
  THEN IF n < ROWS \div CLUSTER_SIZE THEN n * CLUSTER_SIZE + c ELSE STOP
  ELSE IF n = 0 THEN c
  ELSE LET answer == Answer(c, Stage(n)) IN
       IF answer # FAILED /\ answer + c < ROWS THEN answer + c ELSE STOP

\* It is, unless rank 0 has asked for a row for the next use of the slot.
Latest(n) == ~GLOBAL_WORK_QUEUE \/ n = 0 \/ Asked(0) <= n + 2

RowsOK(c) ==
  /\ cpc[c] \in {"prepare", "publish"} =>
       slot[c][Stage(citer[c])] = RowAt(c, citer[c])
  /\ \A n \in 0 .. Pub(c) - 1 : Latest(n) => issued[c][n + 1] = RowAt(c, n)

\* The rows of CTAs c and d belong to one cluster-wide claim.
Match(c, row, d, other) ==
  \/ row = STOP /\ other = STOP
  \/ row # STOP /\ other # STOP /\ row - c = other - d

MatchOK(c, d) ==
  \A n \in Nat : n < Pub(c) /\ n < Pub(d) =>
    Match(c, issued[c][n + 1], d, issued[d][n + 1])

RowsInv ==
  /\ \A c, d \in CTAS, g \in RINGS : Answer(c, g) = Answer(d, g)
  /\ \A c \in CTAS : RowsOK(c)
  /\ \A c, d \in CTAS : MatchOK(c, d)

\* No two controllers publish rows of different claims in an iteration.
LEMMA RowsMatch ==
  ASSUME NEW c \in CTAS, NEW d \in CTAS, NEW n \in Nat,
         GLOBAL_WORK_QUEUE /\ n > 0 =>
           /\ Answer(c, Stage(n)) = Answer(d, Stage(n))
           /\ Answer(c, Stage(n)) \in FirstRows \cup {FAILED}
  PROVE  Match(c, RowAt(c, n), d, RowAt(d, n))
  <1>1. c \in {0, 1} /\ d \in {0, 1} /\ c < CLUSTER_SIZE /\ d < CLUSTER_SIZE
    BY ConfigAssumption DEF CTAS
  <1>2. CASE GLOBAL_WORK_QUEUE /\ n > 0
    <2>1. PICK answer : answer = Answer(c, Stage(n))
      OBVIOUS
    <2>2. CASE answer = FAILED
      BY <1>2, <2>1, <2>2 DEF RowAt, Match
    <2>3. CASE answer \in FirstRows
      <3>1. answer \in Nat /\ answer % CLUSTER_SIZE = 0 /\ answer < ROWS
        BY <2>3, ConfigAssumption DEF FirstRows, ROWIDS
      <3>2. \A e \in {c, d} : answer + e < ROWS
        <4>1. CASE CLUSTER_SIZE = 1
          BY <1>1, <3>1, <4>1
        <4>2. CASE CLUSTER_SIZE = 2
          BY <1>1, <3>1, <4>2, ConfigAssumption
        <4>3. QED
          BY <4>1, <4>2, ConfigAssumption
      <3>3. answer # FAILED
        BY <3>1 DEF FAILED
      <3>4. RowAt(c, n) = answer + c /\ RowAt(d, n) = answer + d
        BY <1>2, <2>1, <3>2, <3>3 DEF RowAt
      <3>5. QED
        BY <1>1, <3>1, <3>4 DEF Match, STOP
    <2>4. QED
      BY <1>2, <2>1, <2>2, <2>3
  <1>3. CASE GLOBAL_WORK_QUEUE /\ n = 0
    BY <1>1, <1>3 DEF RowAt, Match, STOP
  <1>4. CASE ~GLOBAL_WORK_QUEUE
    <2>1. PICK m \in Nat : m = n * CLUSTER_SIZE
      BY ConfigAssumption
    <2>2. QED
      BY <1>1, <1>4, <2>1 DEF RowAt, Match, STOP
  <1>5. QED
    BY <1>2, <1>3, <1>4

\* When a controller publishes in iteration n, the answer to its request has
\* arrived, and rank 0 has not asked for the next use of the slot.
LEMMA LatestAtPublish ==
  ASSUME IInv, NEW c \in CTAS, cpc[c] # "exited", GLOBAL_WORK_QUEUE
  PROVE  Asked(0) <= citer[c] + 2
  <1>1. PICK w \in WORKERS : TRUE
    BY ConfigAssumption
  <1>2. /\ citer[0] \in Nat /\ citer[c] \in Nat /\ witer[0][w] \in Nat
        /\ citer[0] <= (IF cpc[0] = "reclaim" THEN witer[0][w] + 2
                                              ELSE witer[0][w] + 1)
    BY <1>1, ZeroRank DEF IInv, TypeOK, OrderInv
  <1>3. witer[0][w] <= Pub(c) /\ Pub(c) = citer[c]
    BY <1>1, ZeroRank, Window DEF IInv, PublishedInv
  <1>4. QED
    BY <1>2, <1>3 DEF Asked

LEMMA AnswerAtQuery ==
  ASSUME IInv, GLOBAL_WORK_QUEUE, NEW c \in CTAS, cpc[c] = "query",
         NEW n \in Nat, n = citer[c], NEW g \in RINGS, g = Stage(n),
         Completed(clc_phase[c][g], Phasebit(n - 1))
  PROVE  /\ clc_handle[c][g] \in FirstRows \cup {FAILED}
         /\ Answer(c, g) = clc_handle[c][g]
  <1>1. /\ n > 0
        /\ clc_phase[c][g] \in Nat
        /\ clc_phase[c][g] \in {(n - 1) \div STAGES, (n - 1) \div STAGES + 1}
        /\ clc_phase[c][g] = (n - 1) \div STAGES + 1 =>
             clc_handle[c][g] \in FirstRows \cup {FAILED}
    <2>1. clc_phase[c][g] \in Nat
      BY DEF IInv, TypeOK
    <2>2. QED
      BY <2>1, QueryExact
  <1>2. (n - 1) \div STAGES \in Nat
    BY <1>1 DEF STAGES
  <1>3. clc_phase[c][g] = (n - 1) \div STAGES + 1
    BY <1>1, <1>2, ParityExact DEF Phasebit
  <1>4. /\ clc_phase[c][g] + One("bytes" \notin clc_missing[c][g])
             + One(clc_response[c][g] # UNSET) = Asks(Asked(0), g)
    BY DEF IInv, ClcInv
  <1>5. Asked(0) \in Nat /\ Asked(0) <= n + 2
    BY LatestAtPublish, AnsweredLag
  <1>6. Asks(n + 2, g) = (n - 1) \div STAGES + 1
    BY <1>1 DEF Asks, Stage, STAGES, RINGS
  <1>7. Asks(Asked(0), g) \in Nat /\ Asks(Asked(0), g) <= (n - 1) \div STAGES + 1
    BY <1>5, <1>6, AsksMonotone, AsksStep
  <1>8. \A x : One(x) \in {0, 1} /\ (One(x) = 0 <=> ~x)
    BY DEF One
  <1>9. One(clc_response[c][g] # UNSET) = 0
    BY <1>2, <1>3, <1>4, <1>7, <1>8
  <1>10. QED
    BY <1>1, <1>3, <1>8, <1>9 DEF Answer

\* Requests of rank 0: it never asks for an iteration that some controller
\* has its answer for.
LEMMA AskedBefore ==
  ASSUME IInv, GLOBAL_WORK_QUEUE, cpc[0] = "fetch", NEW n \in Nat, n > 0,
         n = citer[0], NEW d \in CTAS, NEW m \in Nat, Stage(m) = Stage(n),
         m < Answered(d)
  PROVE  m < n
  <1> DEFINE g == Stage(n)
  <1>1. g \in RINGS /\ Answered(d) \in Nat
    BY AnsweredLag, UsesAt
  <1>2. /\ clc_phase[d][g] \in Nat
        /\ clc_phase[d][g] >= Asks(Answered(d), g)
        /\ clc_phase[d][g] + One("bytes" \notin clc_missing[d][g])
             + One(clc_response[d][g] # UNSET) = Asks(Asked(0), g)
    BY <1>1, SMTT(30) DEF IInv, ClcInv, TypeOK
  <1>3. \A x : One(x) \in {0, 1}
    BY DEF One
  <1>4. Asked(0) = n
    BY DEF Asked
  <1>5. Asks(n, g) \in Nat /\ Asks(Answered(d), g) \in Nat
    BY <1>1, AsksStep
  <1>6. Asks(Answered(d), g) <= Asks(n, g)
    BY <1>2, <1>3, <1>4, <1>5
  <1>7. SUFFICES ASSUME m >= n PROVE FALSE
    OBVIOUS
  <1>8. Asks(m + 1, g) <= Asks(Answered(d), g)
    BY <1>1, AsksMonotone
  <1>9. Asks(m + 1, g) = (m - 1) \div 2 + 1 /\ Asks(n, g) = (n - 1) \div 2
    <2>1. m > 0 /\ g = Stage(m)
      BY <1>7
    <2>2. QED
      BY <2>1, AsksAt DEF STAGES
  <1>10. QED
    BY <1>5, <1>6, <1>7, <1>8, <1>9

---------------------------------------------------------------------------
(* The invariant of the rows, step by step.                                *)

LEMMA RowsInit == Init => RowsInv
  <1> SUFFICES ASSUME Init PROVE RowsInv
    OBVIOUS
  <1>1. \A c \in CTAS : Pub(c) = 0 /\ cpc[c] = "reclaim"
    BY DEF Init, Pub
  <1>2. \A c \in CTAS, g \in RINGS : Answer(c, g) = UNSET
    BY DEF Init, PerSlot, Answer
  <1>3. QED
    BY <1>1, <1>2 DEF RowsInv, RowsOK, MatchOK

\* Steps that do not concern what is being published: no controller gets to
\* another answer or enters or leaves its last two steps.
LEMMA RowsKept ==
  ASSUME IInv, RowsInv, UNCHANGED <<citer, slot, issued>>,
         \A c \in CTAS, g \in RINGS : Answer(c, g)' = Answer(c, g),
         \A c \in CTAS : cpc'[c] \in {"prepare", "publish"} =>
                           cpc[c] \in {"prepare", "publish"},
         GLOBAL_WORK_QUEUE => Asked(0) <= Asked(0)'
  PROVE  RowsInv'
  <1>1. \A c \in CTAS : Pub(c) \in Nat /\ citer[c] \in Nat
    BY DEF IInv, TypeOK, Pub
  <1>2. \A n \in Nat, c \in CTAS : RowAt(c, n)' = RowAt(c, n)
    BY UsesAt DEF RowAt
  <1>3. ASSUME NEW n \in Nat, Latest(n)' PROVE Latest(n)
    <2>1. GLOBAL_WORK_QUEUE => Asked(0) \in Nat /\ Asked(0)' \in Nat
      BY ZeroRank, <1>1 DEF Asked
    <2>2. QED
      BY <1>3, <2>1 DEF Latest
  <1>4. \A c \in CTAS : RowsOK(c)'
    <2> SUFFICES ASSUME NEW c \in CTAS PROVE RowsOK(c)'
      OBVIOUS
    <2>1. RowsOK(c) /\ Pub(c)' = Pub(c)
      BY DEF RowsInv, Pub
    <2>2. cpc'[c] \in {"prepare", "publish"} =>
            slot'[c][Stage(citer'[c])] = RowAt(c, citer[c])'
      BY <1>1, <1>2, <2>1 DEF RowsOK
    <2>3. ASSUME NEW n \in 0 .. Pub(c)' - 1, Latest(n)'
          PROVE  issued'[c][n + 1] = RowAt(c, n)'
      BY <1>1, <1>2, <1>3, <2>1, <2>3 DEF RowsOK
    <2>4. QED
      BY <2>2, <2>3 DEF RowsOK
  <1>5. \A c, d \in CTAS : MatchOK(c, d)'
    BY DEF RowsInv, MatchOK, Pub
  <1>6. QED
    BY <1>4, <1>5 DEF RowsInv

\* A controller publishes what the invariant says it should.
LEMMA RowsAppend ==
  ASSUME IInv, RowsInv, NEW c \in CTAS, cpc[c] # "exited",
         NEW n \in Nat, n = citer[c],
         GLOBAL_WORK_QUEUE /\ n > 0 => Answer(c, Stage(n)) \in FirstRows \cup {FAILED},
         issued' = [issued EXCEPT ![c] = Append(@, RowAt(c, n))],
         RowAt(c, n) \in ROWIDS \cup {STOP},
         UNCHANGED <<clc_handle, clc_response>>,
         cpc'[c] \notin {"prepare", "publish"},
         \A d \in CTAS \ {c} : /\ cpc'[d] = cpc[d] /\ citer'[d] = citer[d]
                               /\ slot'[d] = slot[d],
         GLOBAL_WORK_QUEUE => Asked(0)' = Asked(0)
  PROVE  RowsInv'
  <1>1. \A d \in CTAS : Pub(d) \in Nat /\ citer[d] \in Nat
                        /\ issued[d] \in Seq(ROWIDS \cup {STOP})
    BY DEF IInv, TypeOK, Pub
  <1>2. Pub(c) = n
    BY DEF IInv, PublishedInv
  <1>3. /\ Pub(c)' = n + 1 /\ issued'[c][n + 1] = RowAt(c, n)
        /\ \A m \in Nat : m < n => issued'[c][m + 1] = issued[c][m + 1]
        /\ \A d \in CTAS \ {c} : Pub(d)' = Pub(d) /\ issued'[d] = issued[d]
    <2>1. issued'[c] = Append(issued[c], RowAt(c, n))
      BY DEF IInv, TypeOK
    <2>2. \A d \in CTAS \ {c} : issued'[d] = issued[d]
      OBVIOUS
    <2>3. QED
      BY <1>1, <1>2, <2>1, <2>2 DEF Pub
  <1>4. \A m \in Nat, d \in CTAS : RowAt(d, m)' = RowAt(d, m)
    BY DEF RowAt, Answer
  <1>5. \A m \in Nat : Latest(m)' => Latest(m)
    BY DEF Latest
  <1>6. \A d, e \in CTAS, g \in RINGS : Answer(d, g)' = Answer(e, g)'
    BY DEF RowsInv, Answer
  <1>7. ASSUME NEW d \in CTAS PROVE RowsOK(d)'
    <2>1. CASE d = c
      <3>1. \A m \in 0 .. Pub(c) - 1 : Latest(m) => issued[c][m + 1] = RowAt(c, m)
        BY DEF RowsInv, RowsOK
      <3>2. ASSUME NEW m \in 0 .. Pub(d)' - 1, Latest(m)'
            PROVE  issued'[d][m + 1] = RowAt(d, m)'
        <4>1. m \in Nat /\ m <= n
          BY <1>1, <1>3, <2>1, <3>2
        <4>2. Latest(m) /\ RowAt(d, m)' = RowAt(d, m)
          BY <1>4, <1>5, <3>2, <4>1
        <4>3. SUFFICES issued'[c][m + 1] = RowAt(c, m)
          BY <2>1, <4>2
        <4>4. CASE m < n
          <5>1. issued[c][m + 1] = RowAt(c, m)
            BY <1>2, <3>1, <4>1, <4>2, <4>4
          <5>2. QED
            BY <1>3, <4>1, <4>4, <5>1
        <4>5. CASE m = n
          BY <1>3, <4>5
        <4>6. m < n \/ m = n
          BY <4>1
        <4>7. QED
          BY <4>4, <4>5, <4>6
      <3>3. QED
        BY <2>1, <3>2 DEF RowsOK
    <2>2. CASE d # c
      <3>1. RowsOK(d) /\ Pub(d)' = Pub(d) /\ issued'[d] = issued[d]
        BY <1>3, <2>2 DEF RowsInv
      <3>2. cpc'[d] \in {"prepare", "publish"} =>
              slot'[d][Stage(citer'[d])] = RowAt(d, citer[d])'
        <4>1. RowAt(d, citer[d])' = RowAt(d, citer[d])
          BY <1>1, <1>4, <2>2 DEF RowAt, Answer
        <4>2. QED
          BY <2>2, <3>1, <4>1 DEF RowsOK
      <3>3. ASSUME NEW m \in 0 .. Pub(d)' - 1, Latest(m)'
            PROVE  issued'[d][m + 1] = RowAt(d, m)'
        <4>1. m \in Nat /\ m \in 0 .. Pub(d) - 1
          BY <1>1, <3>1, <3>3
        <4>2. Latest(m) /\ RowAt(d, m)' = RowAt(d, m)
          BY <1>4, <1>5, <3>3, <4>1
        <4>3. issued[d][m + 1] = RowAt(d, m)
          BY <3>1, <4>1, <4>2 DEF RowsOK
        <4>4. QED
          BY <3>1, <4>2, <4>3
      <3>4. QED
        BY <3>2, <3>3 DEF RowsOK
    <2>3. QED
      BY <2>1, <2>2
  <1>8. ASSUME NEW d \in CTAS \ {c}, n < Pub(d)
        PROVE  /\ Match(c, RowAt(c, n), d, issued[d][n + 1])
               /\ Match(d, issued[d][n + 1], c, RowAt(c, n))
    <2>1. Latest(n)
      BY LatestAtPublish DEF Latest
    <2>2. issued[d][n + 1] = RowAt(d, n)
      BY <1>1, <1>8, <2>1 DEF RowsInv, RowsOK
    <2>3. GLOBAL_WORK_QUEUE /\ n > 0 => Answer(d, Stage(n)) = Answer(c, Stage(n))
      BY UsesAt DEF RowsInv
    <2>4. QED
      BY <2>2, <2>3, RowsMatch
  <1>9. ASSUME NEW d \in CTAS, NEW e \in CTAS PROVE MatchOK(d, e)'
    <2> SUFFICES ASSUME NEW m \in Nat, m < Pub(d)', m < Pub(e)'
                 PROVE  Match(d, issued'[d][m + 1], e, issued'[e][m + 1])
      BY DEF MatchOK
    <2>1. MatchOK(d, e) /\ MatchOK(e, d)
      BY DEF RowsInv
    <2>2. CASE d # c /\ e # c
      BY <1>3, <2>1, <2>2 DEF MatchOK
    <2>3. CASE d = c /\ e = c
      <3>1. issued'[c][m + 1] \in ROWIDS \cup {STOP}
        BY <1>1, <1>2, <1>3, <2>3 DEF Pub
      <3>2. QED
        BY <2>3, <3>1, ConfigAssumption DEF Match, CTAS, ROWIDS
    <2>4. CASE d = c /\ e # c
      <3>1. CASE m < n
        BY <1>1, <1>2, <1>3, <2>1, <2>4, <3>1, ZenonT(60) DEF MatchOK
      <3>2. CASE ~(m < n)
        <4>1. m = n /\ n < Pub(e)
          BY <1>3, <2>4, <3>2
        <4>2. issued'[c][n + 1] = RowAt(c, n) /\ issued'[e] = issued[e]
          BY <1>3, <2>4
        <4>3. QED
          BY <1>8, <2>4, <4>1, <4>2
      <3>3. QED
        BY <3>1, <3>2
    <2>5. CASE d # c /\ e = c
      <3>1. CASE m < n
        BY <1>1, <1>2, <1>3, <2>1, <2>5, <3>1, ZenonT(60) DEF MatchOK
      <3>2. CASE ~(m < n)
        <4>1. m = n /\ n < Pub(d)
          BY <1>3, <2>5, <3>2
        <4>2. issued'[c][n + 1] = RowAt(c, n) /\ issued'[d] = issued[d]
          BY <1>3, <2>5
        <4>3. QED
          BY <1>8, <2>5, <4>1, <4>2
      <3>3. QED
        BY <3>1, <3>2
    <2>6. QED
      BY <2>2, <2>3, <2>4, <2>5
  <1>10. QED
    BY <1>6, <1>7, <1>9 DEF RowsInv

\* A controller takes the row it should, or stops when it should.
LEMMA RowsLoadOrStop ==
  ASSUME IInv, RowsInv, NEW c \in CTAS, cpc[c] \in {"fetch", "query"},
         NEW n \in Nat, n = citer[c], NEW row \in Int, NEW inRange \in BOOLEAN,
         LoadOrStop(c, inRange, row),
         RowAt(c, n) = IF inRange THEN row ELSE STOP,
         RowAt(c, n) \in ROWIDS \cup {STOP},
         GLOBAL_WORK_QUEUE /\ n > 0 =>
           /\ cpc[c] = "query"
           /\ Answer(c, Stage(n)) \in FirstRows \cup {FAILED},
         GLOBAL_WORK_QUEUE /\ n = 0 => inRange,
         UNCHANGED <<citer, clc_handle, clc_response>>
  PROVE  RowsInv'
  <1>1. Stage(n) \in RINGS /\ citer[0] \in Nat
    BY UsesAt, ZeroRank DEF IInv, TypeOK
  <1>2. CASE ~inRange
    <2>1. /\ slot' = [slot EXCEPT ![c][Stage(n)] = STOP]
          /\ issued' = [issued EXCEPT ![c] = Append(@, STOP)]
          /\ cpc' = [cpc EXCEPT ![c] = "exited"]
      BY <1>2 DEF LoadOrStop, Stop
    <2>2. /\ cpc'[c] = "exited"
          /\ \A d \in CTAS \ {c} : cpc'[d] = cpc[d] /\ slot'[d] = slot[d]
      BY <2>1 DEF IInv, TypeOK
    <2>3. GLOBAL_WORK_QUEUE => Asked(0)' = Asked(0)
      <3>1. GLOBAL_WORK_QUEUE => cpc[c] = "query"
        BY <1>2
      <3>2. QED
        BY <2>2, <3>1, ZeroRank DEF Asked
    <2>4. QED
      BY <1>2, <2>1, <2>2, <2>3, RowsAppend
  <1>3. CASE inRange
    <2>1. /\ slot' = [slot EXCEPT ![c][Stage(n)] = row]
          /\ cpc' = [cpc EXCEPT ![c] = "prepare"]
          /\ UNCHANGED issued
      BY <1>3 DEF LoadOrStop, Load
    <2>2. /\ cpc'[c] = "prepare" /\ slot'[c][Stage(n)] = row
          /\ \A d \in CTAS \ {c} : cpc'[d] = cpc[d] /\ slot'[d] = slot[d]
      BY <1>1, <2>1 DEF IInv, TypeOK
    <2>3. \A m \in Nat, d \in CTAS : RowAt(d, m)' = RowAt(d, m)
      BY DEF RowAt, Answer
    <2>4. GLOBAL_WORK_QUEUE => Asked(0) \in Nat /\ Asked(0)' \in Nat /\ Asked(0) <= Asked(0)'
      BY <1>1, <2>2, ZeroRank DEF Asked
    <2>5. \A m \in Nat : Latest(m)' => Latest(m)
      BY <2>4 DEF Latest
    <2>6. \A d \in CTAS : Pub(d)' = Pub(d) /\ Pub(d) \in Nat /\ citer[d] \in Nat
      BY <2>1 DEF Pub, IInv, TypeOK
    <2>7. ASSUME NEW d \in CTAS PROVE RowsOK(d)'
      <3>1. RowsOK(d)
        BY DEF RowsInv
      <3>2. cpc'[d] \in {"prepare", "publish"} =>
              slot'[d][Stage(citer'[d])] = RowAt(d, citer[d])'
        BY <1>3, <2>2, <2>3, <2>6, <3>1 DEF RowsOK
      <3>3. ASSUME NEW m \in 0 .. Pub(d)' - 1, Latest(m)'
            PROVE  issued'[d][m + 1] = RowAt(d, m)'
        BY <2>1, <2>3, <2>5, <2>6, <3>1, <3>3 DEF RowsOK
      <3>4. QED
        BY <3>2, <3>3 DEF RowsOK
    <2>8. /\ \A d, e \in CTAS : MatchOK(d, e)'
          /\ \A d, e \in CTAS, g \in RINGS : Answer(d, g)' = Answer(e, g)'
      BY <2>1 DEF RowsInv, MatchOK, Pub, Answer
    <2>9. QED
      BY <2>7, <2>8 DEF RowsInv
  <1>4. QED
    BY <1>2, <1>3

LEMMA RowsFetchStatic ==
  ASSUME IInv, RowsInv, NEW c \in CTAS, FetchStatic(c) PROVE RowsInv'
  <1>1. PICK n \in Nat, row \in Int : n = citer[c] /\ row = n * CLUSTER_SIZE + c
    BY ConfigAssumption DEF IInv, TypeOK, CTAS
  <1>2. /\ cpc[c] = "fetch" /\ ~GLOBAL_WORK_QUEUE
        /\ LoadOrStop(c, n < ROWS \div CLUSTER_SIZE, row)
        /\ UNCHANGED <<citer, clc_handle, clc_response>>
    BY <1>1 DEF FetchStatic, clc
  <1>3. RowAt(c, n) = IF n < ROWS \div CLUSTER_SIZE THEN row ELSE STOP
    BY <1>1, <1>2 DEF RowAt
  <1>4. n < ROWS \div CLUSTER_SIZE => row \in ROWIDS
    <2>1. CASE CLUSTER_SIZE = 1
      BY <1>1, <2>1, ConfigAssumption DEF CTAS, ROWIDS
    <2>2. CASE CLUSTER_SIZE = 2
      BY <1>1, <2>2, ConfigAssumption DEF CTAS, ROWIDS
    <2>3. QED
      BY <2>1, <2>2, ConfigAssumption
  <1>5. CASE n < ROWS \div CLUSTER_SIZE
    <2>1. /\ LoadOrStop(c, TRUE, row)
          /\ RowAt(c, n) = row /\ RowAt(c, n) \in ROWIDS \cup {STOP}
      BY <1>2, <1>3, <1>4, <1>5 DEF LoadOrStop
    <2>2. QED
      BY <1>1, <1>2, <2>1, RowsLoadOrStop
  <1>6. CASE ~(n < ROWS \div CLUSTER_SIZE)
    <2>1. /\ LoadOrStop(c, FALSE, row)
          /\ RowAt(c, n) = STOP /\ RowAt(c, n) \in ROWIDS \cup {STOP}
      BY <1>2, <1>3, <1>6 DEF LoadOrStop
    <2>2. QED
      BY <1>1, <1>2, <2>1, RowsLoadOrStop
  <1>7. QED
    BY <1>5, <1>6

LEMMA RowsFetchFirst ==
  ASSUME IInv, RowsInv, NEW c \in CTAS, FetchFirst(c) PROVE RowsInv'
  <1>1. /\ cpc[c] = "fetch" /\ GLOBAL_WORK_QUEUE /\ citer[c] = 0
        /\ LoadOrStop(c, c < ROWS, c)
        /\ UNCHANGED <<citer, clc_handle, clc_response>>
    BY DEF FetchFirst, clc
  <1>2. c \in Int /\ c \in ROWIDS /\ c < ROWS
    <2>1. CASE CLUSTER_SIZE = 1
      BY <2>1, ConfigAssumption DEF CTAS, ROWIDS
    <2>2. CASE CLUSTER_SIZE = 2
      BY <2>2, ConfigAssumption DEF CTAS, ROWIDS
    <2>3. QED
      BY <2>1, <2>2, ConfigAssumption
  <1>3. PICK n \in Nat : n = 0
    OBVIOUS
  <1>4. RowAt(c, n) = c /\ RowAt(c, n) \in ROWIDS \cup {STOP}
    BY <1>1, <1>2, <1>3 DEF RowAt
  <1>5. LoadOrStop(c, TRUE, c)
    BY <1>1, <1>2 DEF LoadOrStop
  <1>6. /\ n = citer[c] /\ ~(GLOBAL_WORK_QUEUE /\ n > 0)
        /\ RowAt(c, n) = IF TRUE THEN c ELSE STOP
        /\ cpc[c] \in {"fetch", "query"}
    BY <1>1, <1>3, <1>4
  <1>7. QED
    BY <1>1, <1>2, <1>4, <1>5, <1>6, RowsLoadOrStop

LEMMA RowsClcQuery ==
  ASSUME IInv, RowsInv, NEW c \in CTAS, ClcQuery(c) PROVE RowsInv'
  <1>1. PICK n \in Nat, g \in RINGS : n = citer[c] /\ g = Stage(n)
    BY UsesAt DEF IInv, TypeOK
  <1>2. PICK schedule : schedule = clc_handle[c][g]
    OBVIOUS
  <1>3. /\ cpc[c] = "query"
        /\ Completed(clc_phase[c][g], Phasebit(n - 1))
        /\ LoadOrStop(c, schedule # FAILED /\ schedule + c < ROWS, schedule + c)
        /\ UNCHANGED <<citer, clc_handle, clc_response>>
    BY <1>1, <1>2 DEF ClcQuery, clc
  <1>4. GLOBAL_WORK_QUEUE
    BY <1>3 DEF IInv, ModeInv
  <1>5. n > 0
    BY <1>1, <1>3, <1>4 DEF IInv, ClcInv
  <1>6. schedule \in FirstRows \cup {FAILED} /\ Answer(c, g) = schedule
    BY <1>1, <1>2, <1>3, <1>4, AnswerAtQuery
  <1>7. Answer(c, Stage(n)) \in FirstRows \cup {FAILED}
    BY <1>1, <1>6
  <1>8. RowAt(c, n) = IF schedule # FAILED /\ schedule + c < ROWS
                        THEN schedule + c ELSE STOP
    BY <1>1, <1>4, <1>5, <1>6 DEF RowAt
  <1>9. PICK row \in Int : row = schedule + c
    BY <1>6, ConfigAssumption DEF FirstRows, ROWIDS, CTAS, FAILED
  <1>10. CASE schedule # FAILED /\ schedule + c < ROWS
    <2>1. row \in ROWIDS
      BY <1>6, <1>9, <1>10, ConfigAssumption DEF FirstRows, ROWIDS, CTAS
    <2>2. /\ LoadOrStop(c, TRUE, row)
          /\ RowAt(c, n) = row /\ RowAt(c, n) \in ROWIDS \cup {STOP}
      BY <1>3, <1>8, <1>9, <1>10, <2>1 DEF LoadOrStop
    <2>3. QED
      BY <1>1, <1>3, <1>5, <1>7, <2>2, RowsLoadOrStop
  <1>11. CASE ~(schedule # FAILED /\ schedule + c < ROWS)
    <2>1. /\ LoadOrStop(c, FALSE, row)
          /\ RowAt(c, n) = STOP /\ RowAt(c, n) \in ROWIDS \cup {STOP}
      BY <1>3, <1>8, <1>9, <1>11 DEF LoadOrStop
    <2>2. /\ RowAt(c, n) = IF FALSE THEN row ELSE STOP
          /\ cpc[c] \in {"fetch", "query"}
          /\ GLOBAL_WORK_QUEUE /\ n = 0 => FALSE
      BY <1>3, <1>5, <2>1
    <2>3. QED
      BY <1>1, <1>3, <1>5, <1>7, <2>1, <2>2, RowsLoadOrStop
  <1>12. QED
    BY <1>10, <1>11

LEMMA RowsPublish ==
  ASSUME IInv, RowsInv, NEW c \in CTAS, Publish(c) PROVE RowsInv'
  <1>1. PICK n \in Nat : n = citer[c]
    BY DEF IInv, TypeOK
  <1>2. /\ cpc[c] = "publish"
        /\ issued' = [issued EXCEPT ![c] = Append(@, slot[c][Stage(n)])]
        /\ citer' = [citer EXCEPT ![c] = n + 1]
        /\ cpc' = [cpc EXCEPT ![c] = "reclaim"]
        /\ UNCHANGED <<slot, clc_handle, clc_response>>
    BY <1>1 DEF Publish, slots, clc
  <1>3. RowAt(c, n) = slot[c][Stage(n)] /\ RowAt(c, n) \in ROWIDS \cup {STOP}
    BY <1>1, <1>2 DEF RowsInv, RowsOK, IInv, SlotInv, SlotOK
  <1>4. /\ cpc'[c] = "reclaim" /\ citer'[c] = n + 1
        /\ \A d \in CTAS \ {c} : cpc'[d] = cpc[d] /\ citer'[d] = citer[d]
    BY <1>2 DEF IInv, TypeOK
  <1>5. Asked(0)' = Asked(0)
    BY <1>1, <1>2, <1>4, ZeroRank DEF Asked
  <1>6. GLOBAL_WORK_QUEUE /\ n > 0 => Answer(c, Stage(n)) \in FirstRows \cup {FAILED}
    <2> SUFFICES ASSUME GLOBAL_WORK_QUEUE, n > 0
                 PROVE  Answer(c, Stage(n)) \in FirstRows \cup {FAILED}
      OBVIOUS
    <2>1. Stage(n) \in RINGS
      BY UsesAt
    <2>2. Answered(c) = n + 1
      BY <1>1, <1>2 DEF Answered
    <2>3. clc_phase[c][Stage(n)] >= Asks(n + 1, Stage(n))
          /\ clc_phase[c][Stage(n)] \in Nat
      BY <2>1, <2>2 DEF IInv, TypeOK, ClcInv
    <2>4. Asks(n + 1, Stage(n)) >= 1
      BY AsksAt DEF STAGES
    <2>5. clc_phase[c][Stage(n)] + One("bytes" \notin clc_missing[c][Stage(n)]) >= 1
      BY <2>3, <2>4 DEF One, Asks
    <2>6. /\ clc_handle[c][Stage(n)] # UNSET
          /\ clc_handle[c][Stage(n)] \in FirstRows \cup {FAILED, UNSET}
          /\ clc_response[c][Stage(n)] \in FirstRows \cup {FAILED, UNSET}
      BY <2>1, <2>5 DEF IInv, ClcInv
    <2>7. QED
      BY <2>6 DEF Answer
  <1>7. issued' = [issued EXCEPT ![c] = Append(@, RowAt(c, n))]
    BY <1>2, <1>3
  <1>8. \A d \in CTAS \ {c} : /\ cpc'[d] = cpc[d] /\ citer'[d] = citer[d]
                              /\ slot'[d] = slot[d]
    BY <1>2, <1>4
  <1>9. cpc'[c] \notin {"prepare", "publish"} /\ cpc[c] # "exited"
    BY <1>2, <1>4
  <1>10. UNCHANGED <<clc_handle, clc_response>>
    BY <1>2
  <1>11. QED
    BY <1>1, <1>3, <1>5, <1>6, <1>7, <1>8, <1>9, <1>10, RowsAppend

\* Rank 0 fetches at most one iteration ahead of what the others published.
LEMMA FetchLag ==
  ASSUME IInv, cpc[0] = "fetch", NEW d \in CTAS PROVE citer[0] <= Pub(d) + 1
  <1>1. PICK w \in WORKERS : TRUE
    BY ConfigAssumption
  <1>2. citer[0] \in Nat /\ witer[0][w] \in Nat /\ citer[0] <= witer[0][w] + 1
    BY <1>1, ZeroRank DEF IInv, TypeOK, OrderInv
  <1>3. witer[0][w] <= Pub(d) /\ Pub(d) \in Nat
    BY <1>1, ZeroRank, Window
  <1>4. QED
    BY <1>2, <1>3

\* A new request changes the answers of its slot, but nobody publishes those
\* of the last request for the slot any more.
LEMMA RowsClcSchedule ==
  ASSUME IInv, RowsInv, NEW c \in CTAS, ClcSchedule(c) PROVE RowsInv'
  <1>1. PICK n \in Nat, g \in RINGS : n = citer[c] /\ g = Stage(n)
    BY UsesAt DEF IInv, TypeOK
  <1>2. /\ cpc[c] = "fetch" /\ GLOBAL_WORK_QUEUE /\ n > 0
        /\ cpc' = [cpc EXCEPT ![c] = "query"]
        /\ UNCHANGED <<citer, slot, issued, clc_handle>>
    BY <1>1 DEF ClcSchedule, slots
  <1>3. /\ cpc'[c] = "query"
        /\ \A d \in CTAS \ {c} : cpc'[d] = cpc[d]
    BY <1>2 DEF IInv, TypeOK
  <1>4. /\ Asked(0) \in Nat /\ Asked(0)' \in Nat /\ Asked(0) <= Asked(0)'
        /\ c = 0 => Asked(0) = n /\ Asked(0)' = n + 1
    <2>1. citer[0] \in Nat
      BY ZeroRank DEF IInv, TypeOK
    <2>2. QED
      BY <1>1, <1>2, <1>3, <2>1, ZeroRank DEF Asked
  <1>5. \A d \in CTAS : cpc'[d] \in {"prepare", "publish"} =>
                          cpc[d] \in {"prepare", "publish"} /\ cpc'[d] = cpc[d]
    BY <1>3
  <1>6. CASE c # 0
    <2>1. UNCHANGED clc_response
      BY <1>6 DEF ClcSchedule, AsksForCluster
    <2>2. \A d \in CTAS, h \in RINGS : Answer(d, h)' = Answer(d, h)
      BY <1>2, <2>1 DEF Answer
    <2>3. QED
      BY <1>2, <1>4, <1>5, <2>2, RowsKept
  <1>7. CASE c = 0
    <2>1. PICK response \in unlaunched \cup {FAILED} :
            clc_response' = [d \in CTAS |->
                               [clc_response[d] EXCEPT ![g] = response]]
      BY <1>1, <1>7 DEF ClcSchedule, AsksForCluster
    <2>2. response # UNSET
      BY <2>1, ConfigAssumption DEF IInv, TypeOK, ROWIDS, UNSET, FAILED
    <2>3. \A d \in CTAS, h \in RINGS :
            clc_response'[d][h] = IF h = g THEN response ELSE clc_response[d][h]
      BY <2>1 DEF IInv, TypeOK
    <2>4. \A d \in CTAS, h \in RINGS :
            Answer(d, h)' = IF h = g THEN response ELSE Answer(d, h)
      BY <1>2, <2>2, <2>3 DEF Answer
    <2>5. \A d, e \in CTAS, h \in RINGS : Answer(d, h)' = Answer(e, h)'
      BY <2>4 DEF RowsInv
    <2>6. \A d \in CTAS : /\ Pub(d) \in Nat /\ Pub(d)' = Pub(d)
                          /\ citer[d] \in Nat /\ Answered(d) \in Nat
                          /\ Pub(d) <= Answered(d)
      <3>1. \A d \in CTAS : citer[d] \in Nat /\ Answered(d) \in Nat
        BY AnsweredLag DEF IInv, TypeOK
      <3>2. \A d \in CTAS : Pub(d) \in Nat /\ Pub(d)' = Pub(d)
        BY <1>2 DEF IInv, TypeOK, Pub
      <3>3. QED
        BY <3>1, <3>2 DEF IInv, PublishedInv, Answered
    <2>7. ASSUME NEW d \in CTAS, NEW m \in Nat, m < Answered(d), m >= n - 1
          PROVE  RowAt(d, m)' = RowAt(d, m)
      <3>1. Stage(m) # g
        <4>1. SUFFICES ASSUME Stage(m) = Stage(n) PROVE FALSE
          BY <1>1
        <4>2. m < n
          BY <1>1, <1>2, <1>7, <2>7, <4>1, AskedBefore
        <4>3. QED
          BY <2>7, <4>1, <4>2 DEF Stage, STAGES
      <3>2. Stage(m) \in RINGS
        BY UsesAt
      <3>3. Answer(d, Stage(m))' = Answer(d, Stage(m))
        BY <2>4, <3>1, <3>2
      <3>4. QED
        BY <3>3 DEF RowAt
    <2>8. ASSUME NEW d \in CTAS PROVE RowsOK(d)'
      <3>1. RowsOK(d)
        BY DEF RowsInv
      <3>2. ASSUME cpc'[d] \in {"prepare", "publish"}
            PROVE  slot'[d][Stage(citer'[d])] = RowAt(d, citer[d])'
        <4>1. cpc[d] \in {"prepare", "publish"}
          BY <1>5, <3>2
        <4>2. Answered(d) = citer[d] + 1 /\ Pub(d) = citer[d]
          BY <4>1 DEF IInv, PublishedInv, Answered
        <4>3. n <= citer[d] + 1
          BY <1>1, <1>2, <1>7, <4>2, FetchLag
        <4>4. RowAt(d, citer[d])' = RowAt(d, citer[d])
          <5>1. PICK m \in Nat : m = citer[d]
            BY <2>6
          <5>2. RowAt(d, m)' = RowAt(d, m)
            BY <2>7, <4>2, <4>3, <5>1
          <5>3. citer'[d] = citer[d]
            BY <1>2
          <5>4. QED
            BY <5>1, <5>2, <5>3 DEF RowAt, Answer
        <4>5. slot[d][Stage(citer[d])] = RowAt(d, citer[d])
          BY <3>1, <4>1 DEF RowsOK
        <4>6. QED
          BY <1>2, <4>4, <4>5
      <3>3. ASSUME NEW m \in 0 .. Pub(d)' - 1, Latest(m)'
            PROVE  issued'[d][m + 1] = RowAt(d, m)'
        <4>1. m \in Nat /\ m \in 0 .. Pub(d) - 1
          BY <2>6
        <4>2. CASE m = 0
          <5>1. Latest(m) /\ RowAt(d, m)' = RowAt(d, m)
            BY <1>2, <4>2 DEF Latest, RowAt
          <5>2. QED
            BY <1>2, <3>1, <4>1, <5>1 DEF RowsOK
        <4>3. CASE m # 0
          <5>1. n + 1 <= m + 2
            BY <1>2, <1>4, <1>7, <3>3, <4>3 DEF Latest
          <5>2. Latest(m)
            BY <1>4, <1>7, <4>1, <5>1 DEF Latest
          <5>3. m < Answered(d)
            BY <2>6, <4>1
          <5>4. RowAt(d, m)' = RowAt(d, m)
            BY <2>7, <4>1, <5>1, <5>3
          <5>5. QED
            BY <1>2, <3>1, <4>1, <5>2, <5>4 DEF RowsOK
        <4>4. QED
          BY <4>2, <4>3
      <3>4. QED
        BY <3>2, <3>3 DEF RowsOK
    <2>9. \A d, e \in CTAS : MatchOK(d, e)'
      BY <1>2 DEF RowsInv, MatchOK, Pub
    <2>10. QED
      BY <2>5, <2>8, <2>9 DEF RowsInv
  <1>8. QED
    BY <1>6, <1>7

\* The steps that leave the answers and what is being published alone.
LEMMA RowsOtherSteps ==
  ASSUME IInv, RowsInv,
         \/ \E c \in CTAS : Reclaim(c) \/ Prepare(c)
         \/ \E c \in CTAS, w \in WORKERS : Worker(c, w)
         \/ \E c \in CTAS, g \in RINGS : DeliverCommit(c, g) \/ ClcDeliver(c, g)
         \/ LaunchElsewhere \/ KernelExit \/ UNCHANGED vars
  PROVE  RowsInv'
  <1>1. /\ UNCHANGED <<citer, slot, issued>>
        /\ GLOBAL_WORK_QUEUE => Asked(0) <= Asked(0)'
        /\ \A d \in CTAS : cpc'[d] \in {"prepare", "publish"} =>
                             cpc[d] \in {"prepare", "publish"}
    <2>0. DOMAIN cpc = CTAS /\ citer[0] \in Nat
      BY ZeroRank DEF IInv, TypeOK
    <2>1. ASSUME NEW c \in CTAS, Reclaim(c) PROVE <1>1!:
      BY <2>0, <2>1, ZeroRank DEF Reclaim, Asked
    <2>2. ASSUME NEW c \in CTAS, Prepare(c) PROVE <1>1!:
      BY <2>0, <2>2, ZeroRank DEF Prepare, Asked
    <2>3. CASE UNCHANGED <<cpc, citer, slot, issued>>
      BY <2>0, <2>3 DEF Asked
    <2>4. QED
      BY <2>1, <2>2, <2>3
         DEF Worker, WorkerTake, WorkerFinish, DeliverCommit, ClcDeliver,
             LaunchElsewhere, KernelExit, vars, slots
  <1>2. \A d \in CTAS, h \in RINGS : Answer(d, h)' = Answer(d, h)
    <2>1. CASE UNCHANGED <<clc_handle, clc_response>>
      BY <2>1 DEF Answer
    <2>2. ASSUME NEW c \in CTAS, NEW g \in RINGS, ClcDeliver(c, g)
          PROVE  \A d \in CTAS, h \in RINGS : Answer(d, h)' = Answer(d, h)
      <3>1. /\ clc_response[c][g] # UNSET
            /\ clc_handle' = [clc_handle EXCEPT ![c][g] = clc_response[c][g]]
            /\ clc_response' = [clc_response EXCEPT ![c][g] = UNSET]
        BY <2>2 DEF ClcDeliver
      <3>2. /\ clc_handle'[c][g] = clc_response[c][g]
            /\ clc_response'[c][g] = UNSET
            /\ \A d \in CTAS, h \in RINGS :
                 ~(d = c /\ h = g) => /\ clc_handle'[d][h] = clc_handle[d][h]
                                      /\ clc_response'[d][h] = clc_response[d][h]
        BY <3>1 DEF IInv, TypeOK
      <3>3. QED
        BY <3>1, <3>2 DEF Answer
    <2>3. QED
      BY <2>1, <2>2
         DEF Reclaim, Prepare, Worker, WorkerTake, WorkerFinish, DeliverCommit,
             LaunchElsewhere, KernelExit, vars, clc
  <1>3. QED
    BY <1>1, <1>2, RowsKept

LEMMA RowsNext == IInv /\ RowsInv /\ [Next]_vars => RowsInv'
  <1> SUFFICES ASSUME IInv, RowsInv, [Next]_vars PROVE RowsInv'
    OBVIOUS
  <1>1. ASSUME NEW c \in CTAS, Controller(c) PROVE RowsInv'
    BY <1>1, RowsOtherSteps, RowsFetchStatic, RowsFetchFirst, RowsClcSchedule,
       RowsClcQuery, RowsPublish DEF Controller
  <1>2. QED
    BY <1>1, RowsOtherSteps DEF Next

\* At each position of the stream the CTAs of a cluster publish rows of one
\* claim, or all of them the stop signal (controller.cuh step 1), although
\* rank 0 asks the CLC for all of them and overwrites their answers.
THEOREM ClusterRowsAgree == Spec => []ClusterRowsMatch
  <1>1. IInv /\ RowsInv => ClusterRowsMatch
    <2> SUFFICES ASSUME IInv, RowsInv, NEW c \in CTAS, NEW d \in CTAS,
                        NEW n \in DOMAIN issued[c] \cap DOMAIN issued[d]
                 PROVE  Match(c, issued[c][n], d, issued[d][n])
      BY DEF ClusterRowsMatch, Match
    <2>1. \A e \in CTAS : issued[e] \in Seq(ROWIDS \cup {STOP})
      BY DEF IInv, TypeOK
    <2>2. n \in Nat /\ n >= 1 /\ n <= Pub(c) /\ n <= Pub(d)
          /\ Pub(c) \in Nat /\ Pub(d) \in Nat
      BY <2>1 DEF Pub
    <2>3. PICK m \in Nat : n = m + 1
      BY <2>2
    <2>4. m < Pub(c) /\ m < Pub(d)
      BY <2>2, <2>3
    <2>5. QED
      BY <2>3, <2>4 DEF RowsInv, MatchOK
  <1>2. QED
    BY <1>1, PipelineInvariant, InitIInv, RowsInit, NextIInv, RowsNext, PTL DEF Spec

---------------------------------------------------------------------------
(* The final sync.                                                         *)

\* The static schedule gives each controller ROWS \div CLUSTER_SIZE rows.
StaticOK(c) ==
  LET last == ROWS \div CLUSTER_SIZE IN
  /\ citer[c] <= last
  /\ cpc[c] = "exited" => citer[c] = last
  /\ cpc[c] \in {"prepare", "publish"} => citer[c] < last

ExitInv ==
  /\ ~GLOBAL_WORK_QUEUE => \A c \in CTAS : StaticOK(c)
  /\ done => EveryoneLeft

LEMMA ExitInit == Init => ExitInv
  <1> SUFFICES ASSUME Init PROVE ExitInv
    OBVIOUS
  <1>1. ROWS \div CLUSTER_SIZE \in Nat
    BY ConfigAssumption
  <1>2. QED
    BY <1>1 DEF Init, ExitInv, StaticOK

\* A step of a controller keeps to the static schedule.
LEMMA StaticStep ==
  ASSUME IInv, ~GLOBAL_WORK_QUEUE, NEW c \in CTAS, StaticOK(c),
         NEW d \in CTAS, Controller(d)
  PROVE  StaticOK(c)'
  <1>1. PICK n \in Nat, last \in Nat : n = citer[c] /\ last = ROWS \div CLUSTER_SIZE
    <2>1. citer[c] \in Nat
      BY DEF IInv, TypeOK
    <2>2. ROWS \div CLUSTER_SIZE \in Nat
      BY ConfigAssumption
    <2>3. QED
      BY <2>1, <2>2
  <1>2. /\ n <= last
        /\ cpc[c] = "exited" => n = last
        /\ cpc[c] \in {"prepare", "publish"} => n < last
    BY <1>1 DEF StaticOK
  <1>3. cpc[d] # "query"
    BY DEF IInv, ModeInv
  <1>4. DOMAIN cpc = CTAS /\ DOMAIN citer = CTAS
    BY DEF IInv, TypeOK
  <1>5. CASE d # c
    <2>1. cpc'[c] = cpc[c] /\ citer'[c] = citer[c]
      BY <1>3, <1>4, <1>5
         DEF Controller, Reclaim, FetchStatic, FetchFirst, ClcSchedule, ClcQuery,
             Prepare, Publish, LoadOrStop, Load, Stop
    <2>2. QED
      BY <2>1 DEF StaticOK
  <1>6. CASE d = c
    <2>1. CASE Reclaim(c)
      BY <1>1, <1>2, <1>4, <2>1 DEF Reclaim, StaticOK
    <2>2. CASE FetchStatic(c)
      <3>1. cpc'[c] = IF n < last THEN "prepare" ELSE "exited"
        BY <1>1, <1>4, <2>2 DEF FetchStatic, LoadOrStop, Load, Stop
      <3>2. citer'[c] = n
        BY <1>1, <2>2 DEF FetchStatic
      <3>3. QED
        BY <1>1, <1>2, <3>1, <3>2 DEF StaticOK
    <2>3. CASE Prepare(c)
      BY <1>1, <1>2, <1>4, <2>3 DEF Prepare, StaticOK
    <2>4. CASE Publish(c)
      <3>1. n < last /\ cpc'[c] = "reclaim" /\ citer'[c] = n + 1
        BY <1>1, <1>2, <1>4, <2>4 DEF Publish
      <3>2. QED
        BY <1>1, <3>1 DEF StaticOK
    <2>5. ~FetchFirst(c) /\ ~ClcSchedule(c) /\ ~ClcQuery(c)
      BY <1>3, <1>6 DEF FetchFirst, ClcSchedule, ClcQuery
    <2>6. QED
      BY <1>6, <2>1, <2>2, <2>3, <2>4, <2>5 DEF Controller
  <1>7. QED
    BY <1>5, <1>6

LEMMA ExitNext == IInv /\ ExitInv /\ [Next]_vars => ExitInv'
  <1> SUFFICES ASSUME IInv, ExitInv, [Next]_vars PROVE ExitInv'
    OBVIOUS
  <1>1. ~GLOBAL_WORK_QUEUE => \A c \in CTAS : StaticOK(c)'
    <2> SUFFICES ASSUME ~GLOBAL_WORK_QUEUE, NEW c \in CTAS PROVE StaticOK(c)'
      OBVIOUS
    <2>1. StaticOK(c)
      BY DEF ExitInv
    <2>2. ASSUME NEW d \in CTAS, Controller(d) PROVE StaticOK(c)'
      BY <2>1, <2>2, StaticStep
    <2>3. CASE UNCHANGED <<cpc, citer>>
      BY <2>1, <2>3 DEF StaticOK
    <2>4. QED
      BY <2>2, <2>3
         DEF Next, Worker, WorkerTake, WorkerFinish, DeliverCommit, ClcDeliver,
             LaunchElsewhere, KernelExit, vars
  <1>2. EveryoneLeft => EveryoneLeft'
    <2> SUFFICES ASSUME EveryoneLeft PROVE UNCHANGED <<cpc, wpc>>
      BY DEF EveryoneLeft
    <2>1. \A c \in CTAS : ~Controller(c)
      BY DEF EveryoneLeft, Controller, Reclaim, FetchStatic, FetchFirst,
             ClcSchedule, ClcQuery, Prepare, Publish
    <2>2. \A c \in CTAS, w \in WORKERS : ~Worker(c, w)
      BY DEF EveryoneLeft, Worker, WorkerTake, WorkerFinish
    <2>3. QED
      BY <2>1, <2>2
         DEF Next, DeliverCommit, ClcDeliver, LaunchElsewhere, KernelExit, vars,
             workers
  <1>3. done' => done \/ EveryoneLeft
    BY DEF Next, Controller, Reclaim, FetchStatic, FetchFirst, ClcSchedule,
           ClcQuery, Prepare, Publish, Worker, WorkerTake, WorkerFinish,
           DeliverCommit, ClcDeliver, LaunchElsewhere, KernelExit, vars
  <1>4. QED
    BY <1>1, <1>2, <1>3 DEF ExitInv

\* When every warp has left its loop, every worker has run all its controller
\* published, and all the controllers of the cluster published as much.
LEMMA LeftTogether ==
  ASSUME IInv, EveryoneLeft, NEW c \in CTAS
  PROVE  /\ \A d \in CTAS : Pub(d) = Pub(c)
         /\ \A w \in WORKERS : witer[c][w] + 1 = Pub(c) /\ Begun(c, w) = Pub(c)
  <1>1. ASSUME NEW d \in CTAS, NEW w \in WORKERS
        PROVE  /\ witer[d][w] + 1 = Pub(d) /\ Begun(d, w) = Pub(d)
               /\ \A e \in CTAS : Pub(d) <= Pub(e)
    <2>1. /\ Pub(d) \in Nat /\ witer[d][w] \in Nat
          /\ \A e \in CTAS : Begun(d, w) <= Pub(e)
      BY Window
    <2>2. Begun(d, w) = witer[d][w] + 1
      BY DEF Begun, EveryoneLeft
    <2>3. issued[d][witer[d][w] + 1] = STOP
      BY DEF EveryoneLeft, IInv, SlotInv, SlotOK
    <2>4. \A i \in 1 .. Pub(d) : i # Pub(d) => issued[d][i] \in ROWIDS
      BY DEF IInv, SlotInv, SlotOK
    <2>5. STOP \notin ROWIDS
      BY ConfigAssumption DEF STOP, ROWIDS
    <2>6. witer[d][w] + 1 = Pub(d)
      BY <2>1, <2>2, <2>3, <2>4, <2>5
    <2>7. QED
      BY <2>1, <2>2, <2>6
  <1>2. \A d \in CTAS : Pub(d) \in Nat
    BY DEF IInv, TypeOK, Pub
  <1>3. PICK v \in WORKERS : TRUE
    BY ConfigAssumption
  <1>4. QED
    BY <1>1, <1>2, <1>3

\* After the final sync no arrival and no response is under way, and the
\* workers of the cluster have all run to the one stop signal (workers.cuh,
\* megakittens.cuh).
THEOREM NothingLeftInFlight == Spec => []NothingInFlightAtExit
  <1>1. IInv /\ ExitInv => NothingInFlightAtExit
    <2> SUFFICES ASSUME IInv, ExitInv, done, NEW c \in CTAS, NEW g \in RINGS
                 PROVE  /\ commits[c][g] = 0
                        /\ clc_response[c][g] = UNSET
                        /\ \A w \in WORKERS : witer[c][w] = Len(issued[c]) - 1
                        /\ ~GLOBAL_WORK_QUEUE =>
                             Len(issued[c]) = ROWS \div CLUSTER_SIZE + 1
      BY DEF NothingInFlightAtExit
    <2>1. EveryoneLeft
      BY DEF ExitInv
    <2>2. PICK p \in Nat : p = Pub(c)
      BY DEF IInv, TypeOK, Pub
    <2>3. \A d \in CTAS : Pub(d) = p /\ citer[d] + 1 = p /\ cpc[d] = "exited"
      BY <2>1, <2>2, LeftTogether DEF EveryoneLeft, IInv, PublishedInv
    <2>4. \A w \in WORKERS : witer[c][w] \in Nat /\ witer[c][w] + 1 = p
                             /\ Begun(c, w) = p
      BY <2>1, <2>2, LeftTogether DEF IInv, TypeOK
    <2>5. citer[c] \in Nat
      BY DEF IInv, TypeOK
    <2>6. commits[c][g] = 0
      <3>1. PICK w \in WORKERS : TRUE
        BY ConfigAssumption
      <3>2. /\ arrived_phase[c][g] \in Nat /\ arrived_count[c][g] \in Nat
            /\ commits[c][g] \in Nat
        BY ConfigAssumption DEF IInv, TypeOK
      <3>3. /\ arrived_phase[c][g] * CLUSTER_SIZE + arrived_count[c][g]
                 + commits[c][g] = TotalPub(g)
            /\ Uses(p, g) <= arrived_phase[c][g]
        BY <2>4, <3>1 DEF IInv, ArrivalsInv, OrderInv
      <3>4. Uses(p, g) \in Nat
        BY UsesStep
      <3>5. CASE CLUSTER_SIZE = 1
        <4>1. TotalPub(g) = Uses(p, g)
          BY <2>3, <3>4, <3>5, ZeroRank DEF TotalPub
        <4>2. QED
          BY <3>2, <3>3, <3>4, <3>5, <4>1
      <3>6. CASE CLUSTER_SIZE = 2
        <4>1. TotalPub(g) = Uses(p, g) + Uses(p, g)
          BY <2>3, <3>6 DEF TotalPub, CTAS
        <4>2. QED
          BY <3>2, <3>3, <3>4, <3>6, <4>1
      <3>7. QED
        BY <3>5, <3>6, ConfigAssumption
    <2>7. clc_response[c][g] = UNSET
      <3>1. CASE ~GLOBAL_WORK_QUEUE
        BY <3>1 DEF IInv, ModeInv
      <3>2. CASE GLOBAL_WORK_QUEUE
        <4>1. Asked(0) = p /\ Answered(c) = p
          BY <2>3, ZeroRank DEF Asked, Answered
        <4>2. /\ clc_phase[c][g] \in Nat
              /\ clc_phase[c][g] + One("bytes" \notin clc_missing[c][g])
                   + One(clc_response[c][g] # UNSET) = Asks(p, g)
              /\ clc_phase[c][g] >= Asks(p, g)
          BY <3>2, <4>1 DEF IInv, TypeOK, ClcInv
        <4>3. Asks(p, g) \in Nat
          BY AsksStep
        <4>4. \A x : One(x) \in {0, 1} /\ (One(x) = 0 <=> ~x)
          BY DEF One
        <4>5. One(clc_response[c][g] # UNSET) = 0
          BY <4>2, <4>3, <4>4
        <4>6. QED
          BY <4>4, <4>5
      <3>3. QED
        BY <3>1, <3>2
    <2>8. ~GLOBAL_WORK_QUEUE => p = ROWS \div CLUSTER_SIZE + 1
      BY <2>3 DEF ExitInv, StaticOK
    <2>9. QED
      BY <2>2, <2>4, <2>6, <2>7, <2>8 DEF Pub
  <1>2. QED
    BY <1>1, PipelineInvariant, InitIInv, ExitInit, NextIInv, ExitNext, PTL DEF Spec

---------------------------------------------------------------------------
(* The page orders.                                                        *)

\* f is the sequence of page orders of the instruction stream rows, from the
\* one before its first instruction to the one after its last.
PageStep(rows, f, n) ==
  IF n = 0 THEN [l \in LIDS |-> l]
  ELSE IF rows[n] = STOP THEN f[n - 1]
  ELSE [k \in LIDS |->
          f[n - 1][LID_RELEASE_ORDER[INSTRUCTIONS[rows[n]]][k]]]

IsChain(rows, f) == f = [n \in 0 .. Len(rows) |-> PageStep(rows, f, n)]

\* A page order names each page once.
Orders == {order \in [LIDS -> LIDS] :
             \A k, l \in LIDS : order[k] = order[l] => k = l}

\* The two slots hold the page orders of the last two positions, and while
\* the controller publishes, of the next one.
ChainOK(c, f) ==
  /\ \A n \in 0 .. Pub(c) : f[n] \in Orders
  /\ Pub(c) >= 1 /\ cpc[c] # "exited" =>
       pid_order[c][Stage(Pub(c) - 1)] = f[Pub(c) - 1]
  /\ Pub(c) >= 2 /\ cpc[c] # "publish" =>
       pid_order[c][Stage(Pub(c) - 2)] = f[Pub(c) - 2]
  /\ cpc[c] = "publish" => pid_order[c][Stage(Pub(c))] = f[Pub(c)]

PagesInv ==
  \A c \in CTAS : /\ \E f : IsChain(issued[c], f)
                  /\ \A f : IsChain(issued[c], f) => ChainOK(c, f)

\* PageOrders is such a sequence whenever there is one.
LEMMA ChainExists ==
  ASSUME NEW c \in CTAS, NEW f, IsChain(issued[c], f)
  PROVE  IsChain(issued[c], PageOrders(c))
  <1> DEFINE Chain(h) ==
        h = [n \in 0 .. Len(issued[c]) |->
               IF n = 0 THEN [l \in LIDS |-> l]
               ELSE IF issued[c][n] = STOP THEN h[n - 1]
               ELSE [k \in LIDS |->
                 h[n - 1][LID_RELEASE_ORDER[INSTRUCTIONS[issued[c][n]]][k]]]]
  <1>1. PageOrders(c) = CHOOSE h : Chain(h)
    BY DEF PageOrders
  <1>2. Chain(f)
    BY DEF IsChain, PageStep
  <1> HIDE DEF Chain
  <1>3. Chain(PageOrders(c))
    BY <1>1, <1>2
  <1>4. QED
    BY <1>3 DEF Chain, IsChain, PageStep

\* An instruction leaves a page order behind.
LEMMA PageStepOrders ==
  ASSUME NEW row \in ROWIDS, NEW order \in Orders
  PROVE  [k \in LIDS |-> order[LID_RELEASE_ORDER[INSTRUCTIONS[row]][k]]] \in Orders
  <1>1. INSTRUCTIONS[row] \in ICODES
    BY ConfigAssumption
  <1>2. PICK release \in [LIDS -> LIDS] : release = LID_RELEASE_ORDER[INSTRUCTIONS[row]]
    BY <1>1, ConfigAssumption
  <1>3. \A k, l \in LIDS : release[k] = release[l] => k = l
    BY <1>1, <1>2, ReleaseAssumption
  <1>4. QED
    BY <1>2, <1>3 DEF Orders

\* A stream has its orders, and each of those of a longer one begins with them.
HasOrders(rows) ==
  /\ \E f : IsChain(rows, f)
  /\ \A f : IsChain(rows, f) => f[Len(rows)] \in Orders

Prolongs(longer, rows) ==
  \A f : IsChain(longer, f) =>
    \E h : IsChain(rows, h) /\ \A n \in 0 .. Len(rows) : f[n] = h[n]

\* The orders of a stream that has become longer by row: those of the stream
\* before, and one more.
LEMMA ChainAppend ==
  ASSUME NEW rows \in Seq(ROWIDS \cup {STOP}), NEW row \in ROWIDS \cup {STOP},
         NEW p \in Nat, p = Len(rows), NEW longer, longer = Append(rows, row),
         HasOrders(rows)
  PROVE  HasOrders(longer) /\ Prolongs(longer, rows)
  <1>1. /\ Len(longer) = p + 1 /\ longer[p + 1] = row
        /\ \A n \in Nat : n > 0 /\ n <= p => longer[n] = rows[n]
        /\ p + 1 # 0 /\ (p + 1) - 1 = p
    OBVIOUS
  <1>2. ASSUME NEW f, NEW h, NEW n \in Nat, n <= p, n > 0 => f[n - 1] = h[n - 1]
        PROVE  PageStep(longer, f, n) = PageStep(rows, h, n)
    <2>1. CASE n = 0
      BY <2>1 DEF PageStep
    <2>2. CASE n # 0
      <3>1. n > 0 /\ longer[n] = rows[n] /\ f[n - 1] = h[n - 1]
        BY <1>1, <1>2, <2>2
      <3>2. QED
        BY <2>2, <3>1, Zenon DEF PageStep
    <2>3. QED
      BY <2>1, <2>2
  <1>3. \E f : IsChain(longer, f)
    <2>1. PICK h : IsChain(rows, h)
      BY DEF HasOrders
    <2>2. h = [n \in 0 .. p |-> PageStep(rows, h, n)]
      BY <2>1 DEF IsChain
    <2>3. PICK f : f = [n \in 0 .. p + 1 |->
                          IF n <= p THEN h[n] ELSE PageStep(longer, h, p + 1)]
      OBVIOUS
    <2>4. \A n \in Nat : n <= p => f[n] = h[n]
      BY <2>3
    <2>5. ASSUME NEW n \in Nat, n <= p PROVE f[n] = PageStep(longer, f, n)
      <3>1. f[n] = PageStep(rows, h, n)
        BY <2>2, <2>4, <2>5
      <3>2. n > 0 => f[n - 1] = h[n - 1]
        BY <2>4, <2>5
      <3>3. QED
        BY <1>2, <2>5, <3>1, <3>2
    <2>6. f[p + 1] = PageStep(longer, f, p + 1)
      <3>1. f[p + 1] = PageStep(longer, h, p + 1)
        BY <2>3
      <3>2. f[p] = h[p]
        BY <2>4
      <3>3. QED
        <4>1. \A n : f[n - 1] = h[n - 1] =>
                PageStep(longer, f, n) = PageStep(longer, h, n)
          BY DEF PageStep
        <4>2. f[(p + 1) - 1] = h[(p + 1) - 1]
          BY <1>1, <3>2
        <4>3. QED
          BY <3>1, <4>1, <4>2
    <2>7. f = [n \in 0 .. p + 1 |-> PageStep(longer, f, n)]
      BY <2>3, <2>5, <2>6, SMTT(30)
    <2>8. QED
      BY <1>1, <2>7 DEF IsChain
  <1>4. ASSUME NEW f, IsChain(longer, f)
        PROVE  /\ \E h : IsChain(rows, h) /\ \A n \in 0 .. p : f[n] = h[n]
               /\ f[p + 1] \in Orders
    <2>1. f = [n \in 0 .. p + 1 |-> PageStep(longer, f, n)]
      BY <1>1, <1>4 DEF IsChain
    <2>2. PICK h : h = [n \in 0 .. p |-> f[n]]
      OBVIOUS
    <2>3. \A n \in Nat : n <= p => f[n] = h[n]
      BY <2>2
    <2>4. ASSUME NEW n \in Nat, n <= p PROVE h[n] = PageStep(rows, h, n)
      <3>1. f[n] = PageStep(longer, f, n)
        BY <2>1, <2>4, SMTT(30)
      <3>2. n > 0 => f[n - 1] = h[n - 1]
        BY <2>3, <2>4
      <3>3. QED
        BY <1>2, <2>3, <2>4, <3>1, <3>2
    <2>5. IsChain(rows, h)
      <3>1. h = [n \in 0 .. p |-> PageStep(rows, h, n)]
        BY <2>2, <2>4
      <3>2. QED
        BY <3>1 DEF IsChain
    <2>6. f[p] \in Orders
      BY <2>3, <2>5 DEF HasOrders
    <2>7. f[p + 1] = PageStep(longer, f, p + 1)
      BY <2>1
    <2>8. ASSUME row = STOP PROVE f[p + 1] \in Orders
      <3>1. f[p + 1] = f[p]
        BY <1>1, <2>7, <2>8, Zenon DEF PageStep
      <3>2. QED
        BY <2>6, <3>1
    <2>9. ASSUME row # STOP PROVE f[p + 1] \in Orders
      <3>1. f[p + 1] = [k \in LIDS |->
                          f[p][LID_RELEASE_ORDER[INSTRUCTIONS[row]][k]]]
        BY <1>1, <2>7, <2>9, Zenon DEF PageStep
      <3>2. row \in ROWIDS
        BY <2>9
      <3>3. \A order \in Orders :
              [k \in LIDS |-> order[LID_RELEASE_ORDER[INSTRUCTIONS[row]][k]]] \in Orders
        BY <3>2, PageStepOrders
      <3>4. QED
        BY <2>6, <3>1, <3>3, Zenon
    <2>10. QED
      BY <2>3, <2>5, <2>8, <2>9
  <1>5. QED
    BY <1>1, <1>3, <1>4 DEF HasOrders, Prolongs

LEMMA PagesInit == Init => PagesInv
  <1> SUFFICES ASSUME Init, NEW c \in CTAS
               PROVE  /\ \E f : IsChain(issued[c], f)
                      /\ \A f : IsChain(issued[c], f) => ChainOK(c, f)
    BY DEF PagesInv
  <1>1. issued[c] = << >> /\ Pub(c) = 0 /\ cpc[c] = "reclaim"
    BY DEF Init, Pub
  <1>2. 0 .. 0 = {0} /\ Len(<< >>) = 0
    OBVIOUS
  <1>3. \A f : IsChain(issued[c], f) <=> f = [n \in {0} |-> [l \in LIDS |-> l]]
    BY <1>1, <1>2 DEF IsChain, PageStep
  <1>4. [l \in LIDS |-> l] \in Orders
    BY DEF Orders
  <1>5. \A f : IsChain(issued[c], f) => f[0] \in Orders
    BY <1>3, <1>4
  <1>6. \A f : IsChain(issued[c], f) => ChainOK(c, f)
    BY <1>1, <1>5 DEF ChainOK
  <1>7. \E f : IsChain(issued[c], f)
    BY <1>3
  <1>8. QED
    BY <1>6, <1>7

\* Steps that neither publish nor move a controller into or out of "publish".
LEMMA PagesKept ==
  ASSUME PagesInv, UNCHANGED <<issued, pid_order>>,
         \A c \in CTAS : /\ cpc'[c] = "publish" <=> cpc[c] = "publish"
                         /\ cpc'[c] = "exited" <=> cpc[c] = "exited"
  PROVE  PagesInv'
  BY DEF PagesInv, ChainOK, Pub

\* The page order of a new instruction is the next one of the sequence: the
\* slot of the instruction before it still holds that instruction's.
LEMMA PagesPrepare ==
  ASSUME IInv, PagesInv, NEW c \in CTAS, Prepare(c) PROVE PagesInv'
  <1>1. PICK n \in Nat : n = citer[c]
    BY DEF IInv, TypeOK
  <1>2. PICK order : order = IF n = 0 THEN [k \in LIDS |-> k]
                             ELSE NextPidOrder(c, Stage(n - 1))
    OBVIOUS
  <1>3. /\ cpc[c] = "prepare" /\ cpc' = [cpc EXCEPT ![c] = "publish"]
        /\ pid_order' = [pid_order EXCEPT ![c][Stage(n)] = order]
        /\ UNCHANGED issued
    BY <1>1, <1>2 DEF Prepare
  <1>4. Pub(c) = n /\ Len(issued[c]) = n /\ Stage(n) \in RINGS
    BY <1>1, <1>3, UsesAt DEF IInv, PublishedInv, Pub
  <1>5. /\ cpc'[c] = "publish" /\ pid_order'[c][Stage(n)] = order
        /\ \A g \in RINGS \ {Stage(n)} : pid_order'[c][g] = pid_order[c][g]
        /\ \A d \in CTAS \ {c} : pid_order'[d] = pid_order[d] /\ cpc'[d] = cpc[d]
    BY <1>3, <1>4 DEF IInv, TypeOK
  <1>6. ASSUME NEW f, IsChain(issued[c], f) PROVE ChainOK(c, f)'
    <2>1. ChainOK(c, f)
      BY <1>6 DEF PagesInv
    <2>2. n > 0 => /\ pid_order[c][Stage(n - 1)] = f[n - 1]
                   /\ slot[c][Stage(n - 1)] = issued[c][n]
                   /\ issued[c][n] # STOP
      <3>1. STOP \notin ROWIDS
        BY ConfigAssumption DEF STOP, ROWIDS
      <3>2. QED
        BY <1>3, <1>4, <2>1, <3>1 DEF ChainOK, IInv, SlotInv, SlotOK
    <2>3. order = f[n]
      <3>1. f[n] = PageStep(issued[c], f, n)
        BY <1>4, <1>6 DEF IsChain
      <3>2. CASE n = 0
        BY <1>2, <3>1, <3>2 DEF PageStep
      <3>3. CASE n # 0
        <4>1. /\ pid_order[c][Stage(n - 1)] = f[n - 1]
              /\ slot[c][Stage(n - 1)] = issued[c][n]
              /\ issued[c][n] # STOP
          BY <2>2, <3>3
        <4>2. order = NextPidOrder(c, Stage(n - 1))
          BY <1>2, <3>3
        <4>3. QED
          BY <3>1, <3>3, <4>1, <4>2, Zenon DEF PageStep, NextPidOrder
      <3>4. QED
        BY <3>2, <3>3
    <2>4. n >= 1 => Stage(n - 1) \in RINGS \ {Stage(n)}
      BY DEF Stage, STAGES, RINGS
    <2>5. Pub(c)' = n
      BY <1>3, <1>4 DEF Pub
    <2>6. QED
      BY <1>3, <1>4, <1>5, <2>1, <2>3, <2>4, <2>5 DEF ChainOK
  <1>7. ASSUME NEW d \in CTAS, d # c, NEW f, IsChain(issued[d], f)
        PROVE  ChainOK(d, f)'
    BY <1>3, <1>5, <1>7 DEF PagesInv, ChainOK, Pub
  <1>8. QED
    BY <1>3, <1>6, <1>7 DEF PagesInv

\* Publishing: the orders of the last two positions are in the slots.
LEMMA PagesAppend ==
  ASSUME IInv, PagesInv, NEW c \in CTAS, NEW row \in ROWIDS \cup {STOP},
         issued' = [issued EXCEPT ![c] = Append(@, row)],
         cpc[c] \in {"publish", "fetch", "query"},
         IF cpc[c] = "publish" THEN cpc'[c] = "reclaim" ELSE cpc'[c] = "exited",
         \A d \in CTAS \ {c} : cpc'[d] = cpc[d],
         UNCHANGED pid_order
  PROVE  PagesInv'
  <1>1. PICK p \in Nat : p = Pub(c)
    BY DEF IInv, TypeOK, Pub
  <1>2. /\ issued[c] \in Seq(ROWIDS \cup {STOP})
        /\ issued'[c] = Append(issued[c], row)
        /\ \A d \in CTAS \ {c} : issued'[d] = issued[d]
    BY DEF IInv, TypeOK
  <1>3. p = Len(issued[c]) /\ Pub(c)' = p + 1
    BY <1>1, <1>2 DEF Pub
  <1>4. /\ \E f : IsChain(issued[c], f)
        /\ \A f : IsChain(issued[c], f) => ChainOK(c, f) /\ f[p] \in Orders
    BY <1>1 DEF PagesInv, ChainOK
  <1>5. /\ \E f : IsChain(issued'[c], f)
        /\ \A f : IsChain(issued'[c], f) =>
             /\ \E h : IsChain(issued[c], h) /\ \A n \in 0 .. p : f[n] = h[n]
             /\ f[p + 1] \in Orders
    <2>1. PICK rows, longer : rows = issued[c] /\ longer = issued'[c]
      OBVIOUS
    <2>2. HasOrders(rows)
      BY <1>3, <1>4, <2>1 DEF HasOrders
    <2>3. HasOrders(longer) /\ Prolongs(longer, rows)
      <3>1. rows \in Seq(ROWIDS \cup {STOP}) /\ p = Len(rows) /\ longer = Append(rows, row)
        BY <1>2, <1>3, <2>1
      <3>2. QED
        BY <2>2, <3>1, ChainAppend
    <2>4. Len(rows) = p /\ Len(longer) = p + 1
      BY <1>2, <1>3, <2>1
    <2>5. QED
      BY <2>1, <2>3, <2>4 DEF HasOrders, Prolongs
  <1>6. ASSUME NEW f, IsChain(issued'[c], f) PROVE ChainOK(c, f)'
    <2>1. PICK h : IsChain(issued[c], h) /\ \A n \in 0 .. p : f[n] = h[n]
      BY <1>5, <1>6
    <2>2. ChainOK(c, h)
      BY <1>4, <2>1
    <2>3. \A n \in 0 .. p + 1 : f[n] \in Orders
      BY <1>1, <1>5, <1>6, <2>1, <2>2 DEF ChainOK
    <2>4. CASE cpc[c] = "publish"
      <3>1. pid_order[c][Stage(p)] = f[p]
        BY <1>1, <2>1, <2>2, <2>4 DEF ChainOK
      <3>2. p >= 1 => pid_order[c][Stage(p - 1)] = f[p - 1]
        BY <1>1, <2>1, <2>2, <2>4 DEF ChainOK
      <3>3. QED
        BY <1>3, <2>3, <2>4, <3>1, <3>2 DEF ChainOK
    <2>5. CASE cpc[c] # "publish"
      <3>1. p >= 1 => pid_order[c][Stage(p - 1)] = f[p - 1]
        BY <1>1, <2>1, <2>2 DEF ChainOK
      <3>2. QED
        BY <1>3, <2>3, <2>5, <3>1 DEF ChainOK
    <2>6. QED
      BY <2>4, <2>5
  <1>7. ASSUME NEW d \in CTAS, d # c, NEW f, IsChain(issued[d], f)
        PROVE  ChainOK(d, f)'
    BY <1>2, <1>7 DEF PagesInv, ChainOK, Pub
  <1>8. QED
    BY <1>2, <1>5, <1>6, <1>7 DEF PagesInv

LEMMA PagesNext == IInv /\ PagesInv /\ [Next]_vars => PagesInv'
  <1> SUFFICES ASSUME IInv, PagesInv, [Next]_vars PROVE PagesInv'
    OBVIOUS
  <1>1. DOMAIN cpc = CTAS
    BY DEF IInv, TypeOK
  <1>2. ASSUME NEW c \in CTAS, Reclaim(c) \/ ClcSchedule(c) PROVE PagesInv'
    <2>1. UNCHANGED <<issued, pid_order>>
      BY <1>2 DEF Reclaim, ClcSchedule, slots
    <2>2. /\ cpc[c] \in {"reclaim", "fetch"} /\ cpc'[c] \in {"fetch", "query"}
          /\ \A d \in CTAS \ {c} : cpc'[d] = cpc[d]
      BY <1>1, <1>2 DEF Reclaim, ClcSchedule
    <2>3. QED
      BY <2>1, <2>2, PagesKept
  <1>3. ASSUME NEW c \in CTAS, NEW inRange, NEW row,
               cpc[c] \in {"fetch", "query"}, LoadOrStop(c, inRange, row),
               UNCHANGED pid_order
        PROVE  PagesInv'
    <2>1. CASE Load(c, row)
      <3>1. cpc'[c] = "prepare" /\ \A d \in CTAS \ {c} : cpc'[d] = cpc[d]
        BY <1>1, <2>1 DEF Load
      <3>2. UNCHANGED issued
        BY <2>1 DEF Load
      <3>3. QED
        BY <1>3, <3>1, <3>2, PagesKept
    <2>2. CASE Stop(c)
      <3>1. cpc'[c] = "exited" /\ \A d \in CTAS \ {c} : cpc'[d] = cpc[d]
        BY <1>1, <2>2 DEF Stop
      <3>2. issued' = [issued EXCEPT ![c] = Append(@, STOP)]
        BY <2>2 DEF Stop
      <3>3. QED
        BY <1>3, <3>1, <3>2, PagesAppend
    <2>3. QED
      BY <1>3, <2>1, <2>2 DEF LoadOrStop
  <1>4. ASSUME NEW c \in CTAS, FetchStatic(c) \/ FetchFirst(c) \/ ClcQuery(c)
        PROVE  PagesInv'
    BY <1>3, <1>4 DEF FetchStatic, FetchFirst, ClcQuery
  <1>5. ASSUME NEW c \in CTAS, Publish(c) PROVE PagesInv'
    <2>1. /\ cpc[c] = "publish" /\ cpc'[c] = "reclaim"
          /\ \A d \in CTAS \ {c} : cpc'[d] = cpc[d]
          /\ UNCHANGED pid_order
      BY <1>1, <1>5 DEF Publish, slots
    <2>2. PICK row \in ROWIDS : row = slot[c][Stage(citer[c])]
      BY <2>1 DEF IInv, SlotInv, SlotOK
    <2>3. issued' = [issued EXCEPT ![c] = Append(@, row)]
      BY <1>5, <2>2 DEF Publish
    <2>4. QED
      BY <2>1, <2>3, PagesAppend
  <1>6. CASE UNCHANGED <<cpc, issued, pid_order>>
    BY <1>6, PagesKept
  <1>7. ASSUME NEW c \in CTAS, Controller(c) PROVE PagesInv'
    BY <1>2, <1>4, <1>5, <1>7, PagesPrepare DEF Controller
  <1>8. QED
    BY <1>6, <1>7
       DEF Next, Worker, WorkerTake, WorkerFinish, DeliverCommit, ClcDeliver,
           LaunchElsewhere, KernelExit, vars, slots

\* A worker inside an instruction finds the page order its predecessors leave
\* behind, with each page in it once (controller.cuh step 2).
THEOREM PageOrdersReplay == Spec => []PageOrderReplays
  <1>1. IInv /\ PagesInv => PageOrderReplays
    <2> SUFFICES ASSUME IInv, PagesInv, NEW c \in CTAS, NEW w \in WORKERS,
                        wpc[c][w] = "run"
                 PROVE  LET order == pid_order[c][Stage(witer[c][w])] IN
                        /\ order = PageOrders(c)[witer[c][w]]
                        /\ \A k, l \in LIDS : order[k] = order[l] => k = l
      BY DEF PageOrderReplays
    <2>1. PICK n \in Nat : n = witer[c][w]
      BY DEF IInv, TypeOK
    <2>2. PICK p \in Nat : p = Pub(c)
      BY DEF IInv, TypeOK, Pub
    <2>3. /\ n + 1 <= p /\ p <= n + 2
          /\ cpc[c] \notin {"reclaim", "exited"} => p <= n + 1
      BY <2>1, <2>2, Window DEF Begun
    <2>4. cpc[c] = "exited" => p = n + 2
      <3>1. issued[c][n + 1] # STOP
        BY <2>1 DEF IInv, SlotInv, SlotOK
      <3>2. cpc[c] = "exited" => issued[c][p] = STOP
        BY <2>2, <2>3 DEF IInv, SlotInv, SlotOK
      <3>3. QED
        BY <2>3, <3>1, <3>2
    <2>5. ChainOK(c, PageOrders(c))
      BY ChainExists DEF PagesInv
    <2>6. pid_order[c][Stage(n)] = PageOrders(c)[n] /\ PageOrders(c)[n] \in Orders
      <3>1. p = n + 1 \/ p = n + 2
        BY <2>3
      <3>2. CASE p = n + 1
        BY <2>2, <2>4, <2>5, <3>2 DEF ChainOK
      <3>3. CASE p = n + 2
        BY <2>2, <2>3, <2>5, <3>3 DEF ChainOK
      <3>4. QED
        BY <3>1, <3>2, <3>3
    <2>7. QED
      BY <2>1, <2>6 DEF Orders
  <1>2. QED
    BY <1>1, PipelineInvariant, InitIInv, PagesInit, NextIInv, PagesNext, PTL DEF Spec

====
