----------------------------- MODULE MatmulOps -----------------------------
(***************************************************************************)
(* Scripts of the matrix multiplications by a cluster of two CTAs:         *)
(* csrc/itypes/gemm.cuh and, in csrc/itypes/llama70b, matmul_pipeline.cuh  *)
(* with the epilogues of lm_head.cuh, o_proj_residual.cuh and              *)
(* gate_silu.cuh, and up_matmul.cuh.  A consumer stands for a warpgroup,   *)
(* and part w of tensor memory is what warpgroup w accumulates.  The tiles *)
(* a CTA loads for one iteration are one load: they signal together.  The  *)
(* code has NUM_CONSUMERS = 2.                                             *)
(***************************************************************************)
EXTENDS PageSteps, TLC

CONSTANTS NUM_CONSUMERS

ASSUME ConsumersAssumption == NUM_CONSUMERS \in {1, 2}

CONSUMERS == 0 .. NUM_CONSUMERS - 1

MatmulLids == 0 .. 6
LOAD_PIPE_DEPTH == 4
STAGES == 0 .. LOAD_PIPE_DEPTH - 1
A_LIDS == <<0, 2, 3, 5>>
B_LIDS == <<1, 4>>
ALid(stage) == A_LIDS[stage + 1]
BLid(stage) == B_LIDS[(stage \div 2) + 1]

\* A stage has a page for the consumers' tiles of A, and half a page for B.
Inputs(stage) ==
  (UNION {Part(ALid(stage), w) : w \in CONSUMERS}) \cup Part(BLid(stage), stage % 2)

Stage(i) == i % LOAD_PIPE_DEPTH

\* A bug in the operator below: phase bits start inverted.
LapFromOne(i) == (i \div LOAD_PIPE_DEPTH) + 1

Lap(i) == i \div LOAD_PIPE_DEPTH

\* Tags: the inputs of iteration i are tagged i, and so are sums up to it.
RESULT == 20

MatmulRelease(iters) ==
  LET released ==
        CASE iters % LOAD_PIPE_DEPTH \in {0, 1} -> <<6, 2, 1, 3, 5, 4, 0>>
          [] iters % LOAD_PIPE_DEPTH = 2 -> <<6, 3, 5, 4, 2, 1, 0>>
          [] iters % LOAD_PIPE_DEPTH = 3 -> <<6, 5, 4, 2, 1, 3, 0>>
  IN  [query \in MatmulLids |-> released[query + 1]]

MatmulSemaphores ==
  [sem \in ({"inputs_arrived", "inputs_finished"} \X STAGES)
           \cup {<<"outputs_arrived", 0>>} \cup ({"sync"} \X (0 .. 2)) |->
     IF sem[1] \in {"inputs_finished", "sync"} THEN NUM_CONSUMERS ELSE 1]

\* A bug in the operator below: the page of the results is not spared.
DrainedWithResult ==
  [stage \in STAGES |->
     {ALid(stage)} \cup (IF stage % 2 = 1 THEN {BLid(stage)} ELSE {})]

\* The pages the loader has no more use for when it drains a stage.
DrainedPages ==
  [stage \in STAGES |-> (IF stage # 0 THEN {ALid(stage)} ELSE {})
                        \cup (IF stage % 2 = 1 THEN {BLid(stage)} ELSE {})]

\* A bug in the operator below: the drain does not wait for the multiplications.
HastyLoader(iters, drained) ==
  [k \in 1 .. iters + LOAD_PIPE_DEPTH |->
     LET i == k - 1
         stage == Stage(i)
     IN  [Step EXCEPT
            !.pages = IF i >= LOAD_PIPE_DEPTH THEN {}
                      ELSE {ALid(stage)} \cup
                           (IF stage % 2 = 0 THEN {BLid(stage)} ELSE {}),
            !.waits = IF i < LOAD_PIPE_DEPTH \/ i >= iters THEN {}
                      ELSE {Wait("inputs_finished", stage, (Lap(i) + 1) % 2)},
            !.loads = IF i >= iters THEN {}
                      ELSE {LoadTo(Inputs(stage), i, 0, "inputs_arrived", stage)},
            !.finishes = IF i < iters THEN {} ELSE drained[stage]]]

\* The loader's leader fills the stages, refills them as they are done with,
\* and drains them.  CTA 0 counts the bytes of both CTAs.
MatmulLoader(iters, drained) ==
  [k \in 1 .. iters + LOAD_PIPE_DEPTH |->
     LET i == k - 1
         stage == Stage(i)
     IN  [Step EXCEPT
            !.pages = IF i >= LOAD_PIPE_DEPTH THEN {}
                      ELSE {ALid(stage)} \cup
                           (IF stage % 2 = 0 THEN {BLid(stage)} ELSE {}),
            !.waits = IF i < LOAD_PIPE_DEPTH THEN {}
                      ELSE {Wait("inputs_finished", stage, (Lap(i) + 1) % 2)},
            !.loads = IF i >= iters THEN {}
                      ELSE {LoadTo(Inputs(stage), i, 0, "inputs_arrived", stage)},
            !.finishes = IF i < iters THEN {} ELSE drained[stage]]]

\* The multiplication of iteration i for warpgroup w, by both CTAs.
Multiply(i, w) ==
  [tag |-> i, ctas |-> {0, 1}, part |-> w,
   reads |-> {[lid |-> ALid(Stage(i)), part |-> w, tag |-> i],
              [lid |-> BLid(Stage(i)), part |-> Stage(i) % 2, tag |-> i]},
   commits |-> {<<"inputs_finished", Stage(i)>>}]

\* tensor_commit: a signal to both CTAs when all before it is done.
NO_PART == 99
TensorCommit(sem) ==
  [tag |-> 0, ctas |-> {0, 1}, part |-> NO_PART, reads |-> {}, commits |-> {sem}]

ExpectInputs(i) == {Expect(0, "inputs_arrived", Stage(i), 2)}

\* What the launcher starts in iteration i of iters, with the commit behind
\* the last one.
Multiplications(i, iters) ==
  [x \in 1 .. NUM_CONSUMERS |-> Multiply(i, x - 1)]
  \o (IF i + 1 < iters THEN << >> ELSE <<TensorCommit(<<"outputs_arrived", 0>>)>>)

\* The launcher of CTA 0 multiplies for both CTAs; that of CTA 1 does nothing.
MatmulLauncher(c, iters) ==
  IF c # 0 THEN Nothing
  ELSE <<[Step EXCEPT !.tensor = TRUE, !.signals = ExpectInputs(0)]>>
       \o [k \in 1 .. iters |->
             LET i == k - 1 IN
             [Step EXCEPT
                !.waits = {Wait("inputs_arrived", Stage(i), Lap(i) % 2)},
                !.mmas = Multiplications(i, iters),
                !.signals = IF k < iters THEN ExpectInputs(k) ELSE {}]]

---------------------------------------------------------------------------
(* Epilogues.  Warpgroup w stores its tiles from half w of page 0.         *)

\* consumer_group::sync, the k-th of the epilogue: arrive, and later wait.
Meets(c, k) == {Arrival(c, "sync", k)}
Met(k) == {Wait("sync", k, 0)}

Sums(iters, w) == TensorTagged(w, iters - 1)
Stored(w) == Tagged(Part(0, w), RESULT)

AwaitSums == <<[Step EXCEPT !.waits = {Wait("outputs_arrived", 0, 0)}]>>

\* The stores complete, the groups meet, and the leader finishes the pages.
FinishStored(c, w, k, lids) ==
  <<[Step EXCEPT !.holds = Stored(w), !.signals = Meets(c, k)],
    [Step EXCEPT !.waits = Met(k), !.finishes = IF w = 0 THEN lids ELSE {}]>>

\* A bug in the operator below: the group does not meet before tensor_finish.
HastyEpilogue(c, iters, w) ==
  AwaitSums
  \o <<[Step EXCEPT !.tensorHolds = Sums(iters, w),
                    !.tensorFinish = w = 0, !.puts = Stored(w)]>>
  \o FinishStored(c, w, 1, {0})

\* gemm.cuh, lm_head.cuh, o_proj_residual.cuh: all sums go to registers first.
PlainEpilogue(c, iters, w) ==
  AwaitSums
  \o <<[Step EXCEPT !.tensorHolds = Sums(iters, w), !.signals = Meets(c, 0)],
       [Step EXCEPT !.waits = Met(0), !.tensorFinish = w = 0, !.puts = Stored(w)]>>
  \o FinishStored(c, w, 1, {0})

\* gate_silu.cuh: the sums go out chunk by chunk, and the leader signals
\* tensor_finish when its own warpgroup is done.
SiluEpilogue(c, iters, w) ==
  AwaitSums
  \o <<[Step EXCEPT !.signals = Meets(c, 0)],
       [Step EXCEPT !.waits = Met(0)],
       [Step EXCEPT !.tensorHolds = Sums(iters, w), !.puts = Stored(w),
                    !.tensorFinish = w = 0]>>
  \o FinishStored(c, w, 1, {0})

Matmul(c, iters, epilogue(_, _, _)) ==
  [release |-> MatmulRelease(iters),
   semaphores |-> MatmulSemaphores,
   lanes |-> <<{6}>>,
   script |-> [loader |-> MatmulLoader(iters, DrainedPages),
               launcher |-> MatmulLauncher(c, iters),
               consumer0 |-> epilogue(c, iters, 0),
               consumer1 |-> epilogue(c, iters, 1),
               storer |-> Nothing]]

GemmOp(c, iters) == Matmul(c, iters, PlainEpilogue)
GateSiluOp(c, iters) == Matmul(c, iters, SiluEpilogue)

---------------------------------------------------------------------------
(* up_matmul.cuh: when the inputs are done with, pages 1 to 4 take the     *)
(* gate's tiles the sums are multiplied by.                                *)

GATE == 21
GateLids(w) == {2 * w + 1, 2 * w + 2}
GateRegions(w) == UNION {Page(lid) : lid \in GateLids(w)}

UpRelease == [query \in MatmulLids |-> <<6, 5, 1, 2, 3, 4, 0>>[query + 1]]
UpDrainedPages == [stage \in STAGES |-> IF stage = 3 THEN {ALid(3)} ELSE {}]

LoadGates(c) ==
  <<[Step EXCEPT !.signals = {Expect(c, "gate_arrived", w, 1) : w \in CONSUMERS},
                 !.loads = {LoadTo(GateRegions(w), GATE, c, "gate_arrived", w) :
                              w \in CONSUMERS}]>>

UpEpilogue(c, iters, w) ==
  AwaitSums
  \o <<[Step EXCEPT !.signals = Meets(c, 0)],
       [Step EXCEPT !.waits = Met(0) \cup {Wait("gate_arrived", w, 0)}],
       [Step EXCEPT !.tensorHolds = Sums(iters, w),
                    !.holds = Tagged(GateRegions(w), GATE),
                    !.puts = Stored(w), !.signals = Meets(c, 2)],
       [Step EXCEPT !.holds = Stored(w), !.waits = Met(2), !.tensorFinish = w = 0]>>
  \o FinishStored(c, w, 1, {0, 1, 2, 3, 4})

UpMatmulOp(c, iters) ==
  [release |-> UpRelease,
   semaphores |-> MatmulSemaphores @@ Counts("gate_arrived", CONSUMERS, 1),
   lanes |-> <<{6}>>,
   script |-> [loader |-> MatmulLoader(iters, UpDrainedPages) \o LoadGates(c),
               launcher |-> MatmulLauncher(c, iters),
               consumer0 |-> UpEpilogue(c, iters, 0),
               consumer1 |-> UpEpilogue(c, iters, 1),
               storer |-> Nothing]]

====
