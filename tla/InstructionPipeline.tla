------------------------ MODULE InstructionPipeline ------------------------
(***************************************************************************)
(* The instruction pipeline of one cluster of CTAs running the persistent  *)
(* kernel (csrc/megakittens.cuh, controller.cuh, workers.cuh).             *)
(*                                                                         *)
(* In each CTA one controller warp fetches instructions into a ring of two *)
(* slots and every worker warp (loader, launcher, storer, the consumers)   *)
(* runs each instruction out of its slot.  The warps meet only at          *)
(* mbarriers, and a wait on an mbarrier names the PARITY of a phase and    *)
(* not the phase: a waiter that is two phases late, or a phase that        *)
(* completes early, would go unnoticed by the hardware.                    *)
(*                                                                         *)
(* Both fetch modes are modelled: the static per-SM schedule and the       *)
(* cluster-launch-control (CLC) work queue.                                *)
(***************************************************************************)
EXTENDS Integers, Sequences, FiniteSets

CONSTANTS
  CLUSTER_SIZE,       \* CTAs per cluster
  WORKERS,            \* the worker warps of a CTA (NUM_WARPS - 1 of them)
  GLOBAL_WORK_QUEUE,  \* TRUE: rows come from the CLC queue; FALSE: static
  NUM_PAGES,          \* physical pages of a CTA
  ROWS,               \* rows of the instruction tensor
  ICODES,             \* instruction types
  INSTRUCTIONS,       \* the icode of every row
  LID_RELEASE_ORDER   \* per icode: the k-th logical page the type releases

STAGES == 2           \* INSTRUCTION_PIPE_STAGES, which schema.cuh fixes at 2
CTAS == 0 .. CLUSTER_SIZE - 1
RINGS == 0 .. STAGES - 1
LIDS == 0 .. NUM_PAGES - 1
ROWIDS == 0 .. ROWS - 1

\* schema.cuh asserts the cluster sizes; the scheduler pads every op with
\* Noops to a multiple of the cluster size.
ASSUME ConfigAssumption ==
  /\ CLUSTER_SIZE \in {1, 2}
  /\ IsFiniteSet(WORKERS) /\ WORKERS # {}
  /\ GLOBAL_WORK_QUEUE \in BOOLEAN
  /\ NUM_PAGES \in Nat \ {0}
  /\ ROWS \in Nat \ {0} /\ ROWS % CLUSTER_SIZE = 0
  /\ INSTRUCTIONS \in [ROWIDS -> ICODES]
  /\ LID_RELEASE_ORDER \in [ICODES -> [LIDS -> LIDS]]

\* An instruction type releases each of its logical pages once.
ASSUME ReleaseAssumption ==
  \A i \in ICODES : \A k, l \in LIDS :
    LID_RELEASE_ORDER[i][k] = LID_RELEASE_ORDER[i][l] => k = l

STOP == -1            \* the icode that ends every loop
UNSET == -2           \* shared memory nobody has written yet
FAILED == -3          \* a CLC response without a cluster

\* What a phase of the mbarrier clc_arrived counts.
CLC_PHASE == {"arrival", "bytes"}

VARIABLES
  cpc,            \* controller of a CTA: the step of its loop body it is at
  citer,          \* controller: s.iter
  slot,           \* instruction_states[stage].instruction: a row, or STOP
  pid_order,      \* instruction_states[stage].pid_order
  semaphores,     \* are the slot's dynamic semaphores initialised?
  commits,        \* tensor_commit arrivals under way to a CTA's slot barrier
  arrived_phase, arrived_count,    \* mbarrier instruction_arrived[stage]
  finished_phase, finished_count,  \* mbarrier instruction_finished[stage]
  wpc,            \* worker warp: "wait", "run" or "exited"
  witer,          \* worker warp: s.iter
  wrow,           \* worker warp: the row it is dispatched on
  clc_handle,     \* clc_handle[stage]
  clc_phase, clc_missing,          \* mbarrier clc_arrived[stage]
  clc_response,   \* a CLC response under way to a CTA, or UNSET
  unlaunched,     \* first rows of the clusters the grid has not launched
  done,           \* has the cluster passed the kernel's final sync?
  issued          \* history: the rows each controller published, STOP last

barriers == <<arrived_phase, arrived_count, finished_phase, finished_count>>
workers == <<wpc, witer, wrow>>
slots == <<slot, pid_order, semaphores>>
clc == <<clc_handle, clc_phase, clc_missing, clc_response>>
vars == <<cpc, citer, slots, commits, barriers, workers, clc, unlaunched,
          done, issued>>

---------------------------------------------------------------------------

Stage(n) == n % STAGES
Phasebit(n) == (n \div STAGES) % 2

\* kittens::wait(sem, phasebit) returns once the phase of that parity is over.
Completed(phase, phasebit) == phase % 2 # phasebit

\* Every CTA's barrier and slot of the ring, all equal to x.
PerSlot(x) == [c \in CTAS |-> [g \in RINGS |-> x]]

\* Bugs in the arrival counts the barriers are initialised with: one CTA's
\* arrival suffices, one too many is awaited, the controller is counted too.
OneArrival == 1
OneArrivalMore == CLUSTER_SIZE + 1
EveryWarp == Cardinality(WORKERS) + 1

\* How many arrivals end a phase of instruction_arrived: a tensor_commit of
\* every controller of the cluster.
InstructionArrivals == CLUSTER_SIZE

\* How many end a phase of instruction_finished: every warp of the CTA but
\* the controller.
InstructionFinishers == Cardinality(WORKERS)

\* tensor_commit<CLUSTER_SIZE>: an asynchronous arrival at the barrier of
\* ring slot g in every CTA of the cluster.
TensorCommit(g) ==
  commits' = [d \in CTAS |-> [commits[d] EXCEPT ![g] = @ + 1]]

Init ==
  /\ cpc = [c \in CTAS |-> "reclaim"]
  /\ citer = [c \in CTAS |-> 0]
  /\ slot = PerSlot(UNSET)
  /\ pid_order = PerSlot([l \in LIDS |-> l])
  /\ semaphores = PerSlot(FALSE)
  /\ commits = PerSlot(0)
  /\ arrived_phase = PerSlot(0) /\ arrived_count = PerSlot(0)
  /\ finished_phase = PerSlot(0) /\ finished_count = PerSlot(0)
  /\ wpc = [c \in CTAS |-> [w \in WORKERS |-> "wait"]]
  /\ witer = [c \in CTAS |-> [w \in WORKERS |-> 0]]
  /\ wrow = [c \in CTAS |-> [w \in WORKERS |-> UNSET]]
  /\ clc_handle = PerSlot(UNSET)
  /\ clc_phase = PerSlot(0) /\ clc_missing = PerSlot(CLC_PHASE)
  /\ clc_response = PerSlot(UNSET)
  /\ unlaunched = IF GLOBAL_WORK_QUEUE
                    THEN {r \in ROWIDS : r > 0 /\ r % CLUSTER_SIZE = 0}
                    ELSE {}
  /\ done = FALSE
  /\ issued = [c \in CTAS |-> << >>]

---------------------------------------------------------------------------
(* The controller's loop body, one action per step of the source.          *)

\* Bugs in the test below: no test, and the parity of the wrong iteration.
AlwaysReleased(c) == TRUE
ReleasedByThisPhase(c) ==
  citer[c] >= STAGES =>
    Completed(finished_phase[c][Stage(citer[c])], Phasebit(citer[c]))

\* Step 0: is the slot of the iteration free?  From the third iteration on,
\* once every worker has finished the instruction two iterations ago.
SlotReleased(c) ==
  citer[c] >= STAGES =>
    Completed(finished_phase[c][Stage(citer[c])], Phasebit(citer[c] - STAGES))

\* Step 0: before the slot is used again, wait until every worker finished
\* the instruction in it and invalidate that instruction's semaphores.
Reclaim(c) ==
  LET n == citer[c]
      g == Stage(n) IN
  /\ cpc[c] = "reclaim"
  /\ SlotReleased(c)
  /\ semaphores' = IF n >= STAGES
                     THEN [semaphores EXCEPT ![c][g] = FALSE]
                     ELSE semaphores
  /\ cpc' = [cpc EXCEPT ![c] = "fetch"]
  /\ UNCHANGED <<citer, slot, pid_order, commits, barriers, workers, clc,
                 unlaunched, done, issued>>

\* Step 1, the row is in range: copy the instruction into the slot.
Load(c, row) ==
  /\ slot' = [slot EXCEPT ![c][Stage(citer[c])] = row]
  /\ cpc' = [cpc EXCEPT ![c] = "prepare"]
  /\ UNCHANGED <<commits, issued>>

\* Step 1, the row is out of range: publish the stop signal and leave.
Stop(c) ==
  /\ slot' = [slot EXCEPT ![c][Stage(citer[c])] = STOP]
  /\ issued' = [issued EXCEPT ![c] = Append(@, STOP)]
  /\ TensorCommit(Stage(citer[c]))
  /\ cpc' = [cpc EXCEPT ![c] = "exited"]

LoadOrStop(c, inRange, row) == IF inRange THEN Load(c, row) ELSE Stop(c)

\* Step 1, static schedule: row (iter, blockIdx) of the packed tensor.
FetchStatic(c) ==
  /\ cpc[c] = "fetch" /\ ~GLOBAL_WORK_QUEUE
  /\ LoadOrStop(c, citer[c] < ROWS \div CLUSTER_SIZE,
                citer[c] * CLUSTER_SIZE + c)
  /\ UNCHANGED <<citer, pid_order, semaphores, barriers, workers, clc,
                 unlaunched, done>>

\* Step 1, work queue, first iteration: the CTA's own block index.
FetchFirst(c) ==
  /\ cpc[c] = "fetch" /\ GLOBAL_WORK_QUEUE /\ citer[c] = 0
  /\ LoadOrStop(c, c < ROWS, c)
  /\ UNCHANGED <<citer, pid_order, semaphores, barriers, workers, clc,
                 unlaunched, done>>

\* The mbarrier clc_arrived waits for one arrival and for the bytes of the
\* response: its phase ends when both have come, in either order.
ClcArrive(d, g, what) ==
  LET last == clc_missing[d][g] = {what} IN
  /\ clc_missing' = [clc_missing EXCEPT ![d][g] =
                       IF last THEN CLC_PHASE ELSE @ \ {what}]
  /\ clc_phase' = [clc_phase EXCEPT ![d][g] = IF last THEN @ + 1 ELSE @]

\* A bug in the test below: every CTA asks for itself.
EachAsks(c) == TRUE

\* One CTA asks the CLC for a cluster on behalf of all of them.
AsksForCluster(c) == c = 0

\* Step 1, later iterations: rank 0 asks the CLC for a cluster on behalf of
\* every CTA (a failure is always a possible answer), and each CTA's elected
\* lane expects the response's bytes.
ClcSchedule(c) ==
  LET g == Stage(citer[c]) IN
  /\ cpc[c] = "fetch" /\ GLOBAL_WORK_QUEUE /\ citer[c] > 0
  /\ IF AsksForCluster(c)
       THEN \E response \in unlaunched \cup {FAILED} :
              /\ unlaunched' = unlaunched \ {response}
              /\ clc_response' = [d \in CTAS |->
                                    [clc_response[d] EXCEPT ![g] = response]]
       ELSE UNCHANGED <<unlaunched, clc_response>>
  /\ ClcArrive(c, g, "arrival")
  /\ cpc' = [cpc EXCEPT ![c] = "query"]
  /\ UNCHANGED <<citer, slots, commits, barriers, workers, clc_handle, done,
                 issued>>

\* The CLC writes its response into one CTA's handle and counts its bytes.
ClcDeliver(d, g) ==
  /\ clc_response[d][g] # UNSET
  /\ clc_handle' = [clc_handle EXCEPT ![d][g] = clc_response[d][g]]
  /\ clc_response' = [clc_response EXCEPT ![d][g] = UNSET]
  /\ ClcArrive(d, g, "bytes")
  /\ UNCHANGED <<cpc, citer, slots, commits, barriers, workers, unlaunched,
                 done, issued>>

\* Step 1, later iterations: take the row out of the response.
ClcQuery(c) ==
  LET g == Stage(citer[c])
      schedule == clc_handle[c][g] IN
  /\ cpc[c] = "query"
  /\ Completed(clc_phase[c][g], Phasebit(citer[c] - 1))
  /\ LoadOrStop(c, schedule # FAILED /\ schedule + c < ROWS, schedule + c)
  /\ UNCHANGED <<citer, pid_order, semaphores, barriers, workers, clc,
                 unlaunched, done>>

\* The hardware launches another cluster of the grid, or hands it to a
\* running one: this cluster can no longer be given its rows.
LaunchElsewhere ==
  /\ \E first \in unlaunched : unlaunched' = unlaunched \ {first}
  /\ UNCHANGED <<cpc, citer, slots, commits, barriers, workers, clc, done,
                 issued>>

\* A bug in the order below: it takes the release order of the instruction
\* being prepared and not of the one before it.
PidOrderByThisRelease(c, g) ==
  LET release == LID_RELEASE_ORDER[INSTRUCTIONS[slot[c][Stage(citer[c])]]] IN
  [k \in LIDS |-> pid_order[c][g][release[k]]]

\* The page order of the instruction after the one in ring slot g of CTA c:
\* its k-th page is the page that instruction releases k-th.
NextPidOrder(c, g) ==
  LET release == LID_RELEASE_ORDER[INSTRUCTIONS[slot[c][g]]] IN
  [k \in LIDS |-> pid_order[c][g][release[k]]]

\* Steps 2 and 3: establish the page order, initialise the semaphores.
Prepare(c) ==
  LET g == Stage(citer[c]) IN
  /\ cpc[c] = "prepare"
  /\ pid_order' = [pid_order EXCEPT ![c][g] =
                     IF citer[c] = 0 THEN [k \in LIDS |-> k]
                     ELSE NextPidOrder(c, Stage(citer[c] - 1))]
  /\ semaphores' = [semaphores EXCEPT ![c][g] = TRUE]
  /\ cpc' = [cpc EXCEPT ![c] = "publish"]
  /\ UNCHANGED <<citer, slot, commits, barriers, workers, clc, unlaunched,
                 done, issued>>

\* Step 4: signal every CTA of the cluster, advance the ring.
Publish(c) ==
  /\ cpc[c] = "publish"
  /\ TensorCommit(Stage(citer[c]))
  /\ issued' = [issued EXCEPT ![c] = Append(@, slot[c][Stage(citer[c])])]
  /\ citer' = [citer EXCEPT ![c] = @ + 1]
  /\ cpc' = [cpc EXCEPT ![c] = "reclaim"]
  /\ UNCHANGED <<slots, barriers, workers, clc, unlaunched, done>>

\* One arrival of a tensor_commit reaches CTA c's instruction_arrived[g],
\* the last one of a phase ends it.
DeliverCommit(c, g) ==
  LET last == arrived_count[c][g] = InstructionArrivals - 1 IN
  /\ commits[c][g] > 0
  /\ commits' = [commits EXCEPT ![c][g] = @ - 1]
  /\ arrived_count' = [arrived_count EXCEPT ![c][g] =
                         IF last THEN 0 ELSE @ + 1]
  /\ arrived_phase' = [arrived_phase EXCEPT ![c][g] =
                         IF last THEN @ + 1 ELSE @]
  /\ UNCHANGED <<cpc, citer, slots, finished_phase, finished_count, workers,
                 clc, unlaunched, done, issued>>

---------------------------------------------------------------------------
(* The loop every worker warp runs (MAKE_WORKER).                          *)

\* Wait for the slot to be published, read its icode, leave on the stop
\* signal, otherwise dispatch.
WorkerTake(c, w) ==
  LET n == witer[c][w]
      row == slot[c][Stage(n)] IN
  /\ wpc[c][w] = "wait"
  /\ Completed(arrived_phase[c][Stage(n)], Phasebit(n))
  /\ wpc' = [wpc EXCEPT ![c][w] = IF row = STOP THEN "exited" ELSE "run"]
  /\ wrow' = [wrow EXCEPT ![c][w] = row]
  /\ UNCHANGED <<cpc, citer, slots, commits, barriers, witer, clc,
                 unlaunched, done, issued>>

\* The instruction's handler has returned: arrive at instruction_finished,
\* where the last one ends the phase, and advance the ring.
WorkerFinish(c, w) ==
  LET g == Stage(witer[c][w])
      last == finished_count[c][g] = InstructionFinishers - 1 IN
  /\ wpc[c][w] = "run"
  /\ finished_count' = [finished_count EXCEPT ![c][g] =
                          IF last THEN 0 ELSE @ + 1]
  /\ finished_phase' = [finished_phase EXCEPT ![c][g] =
                          IF last THEN @ + 1 ELSE @]
  /\ witer' = [witer EXCEPT ![c][w] = @ + 1]
  /\ wpc' = [wpc EXCEPT ![c][w] = "wait"]
  /\ UNCHANGED <<cpc, citer, slots, commits, arrived_phase, arrived_count,
                 wrow, clc, unlaunched, done, issued>>

\* A bug in the test below: the final sync is left out by the workers.
ControllersLeft == \A c \in CTAS : cpc[c] = "exited"

\* Every warp of the cluster has left its loop.
EveryoneLeft ==
  \A c \in CTAS : /\ cpc[c] = "exited"
                  /\ \A w \in WORKERS : wpc[c][w] = "exited"

\* The kernel's final sync.
KernelExit ==
  /\ EveryoneLeft
  /\ done' = TRUE
  /\ UNCHANGED <<cpc, citer, slots, commits, barriers, workers, clc,
                 unlaunched, issued>>

Controller(c) ==
  \/ Reclaim(c)
  \/ FetchStatic(c)
  \/ FetchFirst(c)
  \/ ClcSchedule(c)
  \/ ClcQuery(c)
  \/ Prepare(c)
  \/ Publish(c)

Worker(c, w) == WorkerTake(c, w) \/ WorkerFinish(c, w)

Next ==
  \/ \E c \in CTAS : Controller(c)
  \/ \E c \in CTAS, w \in WORKERS : Worker(c, w)
  \/ \E c \in CTAS, g \in RINGS : DeliverCommit(c, g)
  \/ \E c \in CTAS, g \in RINGS : ClcDeliver(c, g)
  \/ LaunchElsewhere
  \/ KernelExit

Spec == Init /\ [][Next]_vars

\* Every warp of a resident cluster is scheduled, arrivals and responses
\* under way arrive.  What the rest of the grid does is not constrained.
Fairness ==
  /\ \A c \in CTAS : WF_vars(Controller(c))
  /\ \A c \in CTAS, w \in WORKERS : WF_vars(Worker(c, w))
  /\ \A c \in CTAS, g \in RINGS :
       WF_vars(DeliverCommit(c, g)) /\ WF_vars(ClcDeliver(c, g))
  /\ WF_vars(KernelExit)

FairSpec == Spec /\ Fairness

---------------------------------------------------------------------------
(* Properties.                                                             *)

TypeOK ==
  /\ cpc \in [CTAS -> {"reclaim", "fetch", "query", "prepare", "publish",
                       "exited"}]
  /\ citer \in [CTAS -> Nat]
  /\ slot \in [CTAS -> [RINGS -> ROWIDS \cup {STOP, UNSET}]]
  /\ pid_order \in [CTAS -> [RINGS -> [LIDS -> LIDS]]]
  /\ semaphores \in [CTAS -> [RINGS -> BOOLEAN]]
  /\ commits \in [CTAS -> [RINGS -> Nat]]
  /\ arrived_phase \in [CTAS -> [RINGS -> Nat]]
  /\ arrived_count \in [CTAS -> [RINGS -> 0 .. CLUSTER_SIZE - 1]]
  /\ finished_phase \in [CTAS -> [RINGS -> Nat]]
  /\ finished_count \in [CTAS -> [RINGS -> 0 .. Cardinality(WORKERS) - 1]]
  /\ wpc \in [CTAS -> [WORKERS -> {"wait", "run", "exited"}]]
  /\ witer \in [CTAS -> [WORKERS -> Nat]]
  /\ wrow \in [CTAS -> [WORKERS -> ROWIDS \cup {STOP, UNSET}]]
  /\ clc_handle \in [CTAS -> [RINGS -> ROWIDS \cup {FAILED, UNSET}]]
  /\ clc_phase \in [CTAS -> [RINGS -> Nat]]
  /\ clc_missing \in [CTAS -> [RINGS -> (SUBSET CLC_PHASE) \ {{}}]]
  /\ clc_response \in [CTAS -> [RINGS -> ROWIDS \cup {FAILED, UNSET}]]
  /\ unlaunched \subseteq ROWIDS
  /\ done \in BOOLEAN
  /\ issued \in [CTAS -> Seq(ROWIDS \cup {STOP})]

\* A parity wait is exact: whoever waits for a phase of an mbarrier finds it
\* running or just over.  One phase more and the wait for it would block
\* (or a wait for the next one would pass) although the parity is right.
WaitsExact ==
  \A c \in CTAS :
    /\ \A w \in WORKERS :
         wpc[c][w] = "wait" =>
           LET n == witer[c][w] IN
           arrived_phase[c][Stage(n)] \in {n \div STAGES, n \div STAGES + 1}
    /\ LET n == citer[c] IN
       /\ cpc[c] = "reclaim" /\ n >= STAGES =>
            finished_phase[c][Stage(n)] \in {n \div STAGES - 1, n \div STAGES}
       /\ cpc[c] = "query" =>
            clc_phase[c][Stage(n)] \in
              {(n - 1) \div STAGES, (n - 1) \div STAGES + 1}

\* While a worker is inside an instruction, its ring slot holds the row the
\* worker was dispatched on, that row is the one published at this position
\* of the stream, and the slot's semaphores are initialised: the controller
\* never reuses a slot under a worker (controller.cuh steps 0 to 3).
SlotIntact ==
  \A c \in CTAS, w \in WORKERS :
    wpc[c][w] = "run" =>
      LET n == witer[c][w] IN
      /\ slot[c][Stage(n)] = wrow[c][w]
      /\ n < Len(issued[c]) /\ issued[c][n + 1] = wrow[c][w]
      /\ semaphores[c][Stage(n)]

\* A worker begins its n-th instruction only after the controllers of ALL the
\* CTAs of the cluster have published theirs: the arrivals are counted, not
\* named, yet two from one controller never stand in for one of each.
ClusterPublished ==
  \A c, d \in CTAS, w \in WORKERS :
    wpc[c][w] # "wait" => Len(issued[d]) > witer[c][w]

\* The CTAs of a cluster run matching rows: at each position of the stream
\* either rows of one and the same cluster-wide claim, or the stop signal in
\* all of them.  (In queue mode the claim travels through clc_handle, which
\* rank 0 has overwritten in the other CTA's memory.)
ClusterRowsMatch ==
  \A c, d \in CTAS :
    \A n \in DOMAIN issued[c] \cap DOMAIN issued[d] :
      \/ issued[c][n] = STOP /\ issued[d][n] = STOP
      \/ issued[c][n] # STOP /\ issued[d][n] # STOP
         /\ issued[c][n] - c = issued[d][n] - d

\* The page order every position of CTA c's stream has to get: the release
\* orders of all the instructions before it, composed.
PageOrders(c) ==
  LET order[n \in 0 .. Len(issued[c])] ==
        IF n = 0 THEN [l \in LIDS |-> l]
        ELSE IF issued[c][n] = STOP THEN order[n - 1]
        ELSE [k \in LIDS |->
                order[n - 1][LID_RELEASE_ORDER[INSTRUCTIONS[issued[c][n]]][k]]]
  IN order

\* While a worker runs an instruction its slot's page order is the one its
\* predecessors leave behind, although the controller derives it from the
\* other slot of a ring that is being reused, and it names each page once.
PageOrderReplays ==
  \A c \in CTAS, w \in WORKERS :
    wpc[c][w] = "run" =>
      LET order == pid_order[c][Stage(witer[c][w])] IN
      /\ order = PageOrders(c)[witer[c][w]]
      /\ \A k, l \in LIDS : order[k] = order[l] => k = l

\* Once the cluster is past the kernel's final sync nothing is still under
\* way to its shared memory, and every warp of every CTA ran the stream to
\* the same stop signal.
NothingInFlightAtExit ==
  done =>
    \A c \in CTAS, g \in RINGS :
      /\ commits[c][g] = 0
      /\ clc_response[c][g] = UNSET
      /\ \A w \in WORKERS : witer[c][w] = Len(issued[c]) - 1
      /\ ~GLOBAL_WORK_QUEUE => Len(issued[c]) = ROWS \div CLUSTER_SIZE + 1

\* The kernel returns.
Terminates == <>done

---------------------------------------------------------------------------
(* What the pipeline promises, without slots, parities or arrivals.        *)

Stream == INSTANCE InstructionStream WITH
  LEAD <- STAGES,
  INSTRUCTION_ROWS <- ROWIDS,
  stream <- issued,
  retired <- witer,
  taken <- [c \in CTAS |-> [w \in WORKERS |->
              IF wpc[c][w] = "wait" THEN witer[c][w] ELSE witer[c][w] + 1]],
  current <- wrow

\* The cluster implements the in-order instruction stream.
ImplementsStream == Stream!Spec

====
