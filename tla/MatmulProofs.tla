---------------------------- MODULE MatmulProofs ----------------------------
(***************************************************************************)
(* gemm and gate_silu (MatmulOps) are sound (OpProtocol), whatever the     *)
(* even number of their iterations.                                        *)
(*                                                                         *)
(* The set of states an instruction does not leave is Good.  It is told by *)
(* how far the warps are: ld[c] is how many steps the loader's leader in   *)
(* CTA c has done, la the launcher, co[c][w] consumer w; m is how many     *)
(* multiplications are done, and in[c] the iterations whose inputs have    *)
(* landed.  View says that the semaphores (Counters), the pages (AllPages),*)
(* their contents and tensor memory are what these make of them, and how   *)
(* far apart they can be: a stage is loaded again when its multiplications *)
(* are done (Spread), the launcher never passes a load that has not landed *)
(* (InFlight), and the consumers wait for all multiplications and then for *)
(* each other (Consuming).                                                 *)
(***************************************************************************)
EXTENDS OpProtocol, MatmulOps, TLAPS

\* The configuration of the code: clusters of two CTAs, two consumer groups.
MatmulConfig ==
  /\ CLUSTER_SIZE = 2 /\ NUM_PAGES = 7 /\ NUM_CONSUMERS = 2
  /\ WARPS \ {"storer"} = {"loader", "launcher", "consumer0", "consumer1"}

\* The code's instructions have an even number of iterations.
Iterations(n) == n \in Nat \ {0} /\ n % 2 = 0

\* gemm and gate_silu, whose consumers meet again behind step GEMM or SILU.
GEMM == 3
SILU == 4
Epilogue(k) == k \in {GEMM, SILU}
Matmuls(n, k) ==
  [c \in CTAS |-> IF k = GEMM THEN GemmOp(c, n) ELSE GateSiluOp(c, n)]

Consumer(w) == IF w = 0 THEN "consumer0" ELSE "consumer1"

\* How many of their steps the warps have done.
Loaded(n, st) ==
  [c \in CTAS |-> IF st.done[c]["loader"] THEN n + 4 ELSE st.at[c]["loader"]]
Launched(n, st) == IF st.done[0]["launcher"] THEN n + 1 ELSE st.at[0]["launcher"]
Consumed(k, st) ==
  [c \in CTAS |-> [w \in {0, 1} |->
     IF st.done[c][Consumer(w)] THEN k + 2 ELSE st.at[c][Consumer(w)]]]

ArrivedSem(s) == <<"inputs_arrived", s>>
MultipliedSem(s) == <<"inputs_finished", s>>
SumsSem == <<"outputs_arrived", 0>>
SyncSem(i) == <<"sync", i>>

InputLoad(c, i) ==
  [cta |-> c, tag |-> i, places |-> Inputs(Stage(i)),
   signal |-> [cta |-> 0, sem |-> ArrivedSem(Stage(i)), arrivals |-> 0, bytes |-> -1]]

SEMAPHORES == DOMAIN MatmulSemaphores
BARRIERS == [phase : Nat, left : Nat, bytes : Int]

\* The loads whose inputs are there, per CTA.
Landed(n, ld, loading) ==
  [c \in CTAS |-> {i \in 0 .. n - 1 : i < ld[c] /\ InputLoad(c, i) \notin loading}]

\* How many multiplications the launcher has started, and which.
QueueLength(n, la) == IF la = 0 THEN 0 ELSE IF la = n + 1 THEN 2 * n + 1 ELSE 2 * la - 2
Started(x) ==
     [tag |-> x.tag, ctas |-> x.ctas, part |-> x.part, reads |-> x.reads,
      signals |-> {[cta |-> d, sem |-> sem, arrivals |-> 1, bytes |-> 0] :
                     d \in x.ctas, sem \in x.commits}]
QueueAt(n, j) ==
  IF j = 2 * n + 1 THEN Started(TensorCommit(SumsSem))
  ELSE Started(Multiply((j - 1) \div 2, (j - 1) % 2))
Queue(n, la) == [j \in 1 .. QueueLength(n, la) |-> QueueAt(n, j)]

FACTS == [cta : CTAS, lid : LIDS, part : {0, 1}, tag : Nat]
SUMS == [cta : CTAS, part : {0, 1, NO_PART}, tag : Nat]

Universe(n, k) ==
  [at : [CTAS -> [WARPS -> Nat]],
   done : [CTAS -> [WARPS -> BOOLEAN]],
   passed : [CTAS -> SUBSET {6}],
   semaphore : [CTAS -> [SEMAPHORES -> BARRIERS]],
   given : [CTAS -> SUBSET LIDS],
   finished : [CTAS -> SUBSET LIDS],
   contents : SUBSET FACTS,
   tensor : SUBSET SUMS,
   tensorFinished : SUBSET CTAS,
   loading : SUBSET {InputLoad(c, i) : c \in CTAS, i \in 0 .. n - 1},
   mmas : {Queue(n, la) : la \in 0 .. n + 1},
   multiplied : Nat]

\* The warps are inside their scripts.  The storer, and the launcher of CTA 1,
\* have none.
InControl(n, k, at, done) ==
  \A c \in CTAS :
    /\ at[c]["loader"] <= n + 4
    /\ at[c]["launcher"] <= IF c = 0 THEN n ELSE 0
    /\ \A w \in {0, 1} : at[c][Consumer(w)] <= k + 1
    /\ "storer" \in WARPS => at[c]["storer"] = 0
    /\ \A w \in WARPS : done[c][w] => at[c][w] = 0

\* How far apart the loaders, the launcher and the multiplications can be.
Spread(n, ld, la, m) ==
  /\ \A c \in CTAS : /\ ld[c] \in 0 .. n + 4
                     /\ la <= ld[c] + 1
                     /\ ld[c] >= 5 => m >= 2 * ld[c] - 8
  /\ la \in 0 .. n + 1
  /\ m \in 0 .. QueueLength(n, la)

\* The loads in flight are of iterations the launcher has yet to come to.
InFlight(n, ld, la, loading) ==
  \A c \in CTAS, i \in 0 .. n - 1 :
    InputLoad(c, i) \in loading => i < ld[c] /\ i + 1 >= la

\* What inputs_arrived in CTA 0 counts; i is the iteration its phase is for.
Got(in, i) == (IF i \in in[0] THEN 1 ELSE 0) + (IF i \in in[1] THEN 1 ELSE 0)
CountedAt(n, b, s, la, in) ==
  LET i == 4 * b.phase + s IN
  /\ b.left = IF i < la /\ i < n THEN 0 ELSE 1
  /\ b.bytes = (IF i < la /\ i < n THEN 2 ELSE 0) - Got(in, i)
  /\ i + 1 >= la
  /\ i < la /\ i < n => Got(in, i) < 2
  /\ i >= 4 => i - 4 < la /\ i - 4 < n /\ i - 4 \in in[0] /\ i - 4 \in in[1]
ArrivedIs(n, sem, la, in) ==
  \A s \in 0 .. 3 : CountedAt(n, sem[ArrivedSem(s)], s, la, in)

MultipliedAt(n, b, s, m) ==
  LET i == 4 * b.phase + s IN
  /\ b.bytes = 0
  /\ b.left = IF i < n /\ m = 2 * i + 1 THEN 1 ELSE 2
  /\ i < n => m < 2 * i + 2
  /\ i >= 4 => i - 4 < n /\ m >= 2 * i - 6
MultipliedIs(n, sem, m) ==
  \A s \in 0 .. 3 : MultipliedAt(n, sem[MultipliedSem(s)], s, m)

BarrierIs(b, phase, left) == b.phase = phase /\ b.left = left /\ b.bytes = 0

SumsIs(n, sem, m) ==
  BarrierIs(sem[SumsSem], IF m = 2 * n + 1 THEN 1 ELSE 0, 1)

\* A meeting of the consumers, behind their step j.
MeetingIs(b, co, j) ==
  BarrierIs(b, IF co[0] >= j /\ co[1] >= j THEN 1 ELSE 0,
               IF (co[0] >= j) <=> (co[1] >= j) THEN 2 ELSE 1)
MeetingsAre(k, sem, co) ==
  MeetingIs(sem[SyncSem(0)], co, 2) /\ MeetingIs(sem[SyncSem(1)], co, k + 1)

\* The consumers come after all multiplications, and stay together.
Consuming(n, k, co, m) ==
  \A w \in {0, 1} :
    /\ co[w] \in 0 .. k + 2
    /\ co[w] >= 1 => m = 2 * n + 1
    /\ co[w] >= 3 => co[1 - w] >= 2
    /\ co[w] >= k + 2 => co[1 - w] >= k + 1

\* How many iterations the loader has begun when it has waited for a page, and
\* the stage of the drain at which it finishes it.
GivenAt(lid) ==
  CASE lid = 0 -> 1 [] lid = 1 -> 1 [] lid = 2 -> 2 [] lid = 3 -> 3
    [] lid = 4 -> 3 [] OTHER -> 4
DrainAt(lid) ==
  CASE lid = 1 -> 1 [] lid = 2 -> 1 [] lid = 3 -> 2 [] OTHER -> 3

Drained(n, i, s) == \E j \in n .. n + 3 : j < i /\ Stage(j) = s

PagesAre(n, k, given, finished, i, six, co) ==
  /\ \A lid \in 0 .. 5 : lid \in given <=> i >= GivenAt(lid)
  /\ 6 \in given <=> six
  /\ \A lid \in 1 .. 5 : lid \in finished <=> Drained(n, i, DrainAt(lid))
  /\ 0 \in finished <=> co[0] = k + 2
  /\ 6 \in finished <=> six

InputFact(c, r, i) == [cta |-> c, lid |-> r[1], part |-> r[2], tag |-> i]
ResultFact(c, w) == [cta |-> c, lid |-> 0, part |-> w, tag |-> RESULT]
SumFact(c, w, i) == [cta |-> c, part |-> w, tag |-> i]

\* The inputs stay until they are multiplied, the results until they are stored.
ContentsAre(n, k, contents, m, in, co) ==
  \A c \in CTAS :
    /\ \A i \in in[c] : m < 2 * i + 2 =>
         \A r \in Inputs(Stage(i)) : InputFact(c, r, i) \in contents
    /\ \A w \in {0, 1} : co[c][w] >= k => ResultFact(c, w) \in contents

SumsAre(n, tensor, m) ==
  \A c \in CTAS, w \in {0, 1} : m >= 2 * n - 1 + w => SumFact(c, w, n - 1) \in tensor

TensorPassed(tensorFinished, co) ==
  \A c \in tensorFinished : co[c][0] >= 3

Six(done, passed, c) == done[c]["loader"] \/ 6 \in passed[c]

\* The dynamic semaphores.
Counters(n, k, sem, la, co, m, in) ==
  /\ ArrivedIs(n, sem[0], la, in)
  /\ \A c \in CTAS : /\ MultipliedIs(n, sem[c], m)
                     /\ SumsIs(n, sem[c], m)
                     /\ MeetingsAre(k, sem[c], co[c])

AllPages(n, k, st, ld, co) ==
  \A c \in CTAS : PagesAre(n, k, st.given[c], st.finished[c], ld[c],
                           Six(st.done, st.passed, c), co[c])

AllConsuming(n, k, co, m) == \A c \in CTAS : Consuming(n, k, co[c], m)

View(n, k, st, ld, la, co, m, in) ==
  /\ Spread(n, ld, la, m)
  /\ st.mmas = Queue(n, la)
  /\ InFlight(n, ld, la, st.loading)
  /\ Counters(n, k, st.semaphore, la, co, m, in)
  /\ AllConsuming(n, k, co, m)
  /\ AllPages(n, k, st, ld, co)
  /\ ContentsAre(n, k, st.contents, m, in, co)
  /\ SumsAre(n, st.tensor, m)
  /\ k = GEMM => TensorPassed(st.tensorFinished, co)

GInv(n, k, st) ==
  /\ InControl(n, k, st.at, st.done)
  /\ View(n, k, st, Loaded(n, st), Launched(n, st), Consumed(k, st), st.multiplied,
          Landed(n, Loaded(n, st), st.loading))

\* The constants, in that configuration.
LEMMA ConfigIs ==
  ASSUME MatmulConfig
  PROVE  /\ CTAS = {0, 1} /\ LIDS = 0 .. 6 /\ CONSUMERS = {0, 1}
         /\ STAGES = {0, 1, 2, 3} /\ LOAD_PIPE_DEPTH = 4
  BY DEF MatmulConfig, CTAS, LIDS, CONSUMERS, STAGES, LOAD_PIPE_DEPTH

\* What the standard module says of sequences one after another.
LEMMA ConcatIs ==
  ASSUME NEW S, NEW p \in Seq(S), NEW q \in Seq(S)
  PROVE  /\ p \o q \in Seq(S) /\ Len(p \o q) = Len(p) + Len(q)
         /\ \A i \in 1 .. Len(p) : (p \o q)[i] = p[i]
         /\ \A i \in 1 .. Len(q) : (p \o q)[i + Len(p)] = q[i]
  OBVIOUS

\* Sequences of the same length and elements are the same.
LEMMA SequencesEqual ==
  ASSUME NEW S, NEW p \in Seq(S), NEW q \in Seq(S), Len(p) = Len(q),
         \A i \in 1 .. Len(p) : p[i] = q[i]
  PROVE  p = q
  OBVIOUS

\* Tuples one after another, as the scripts put them together.
LEMMA OneAndTwo ==
  ASSUME NEW a, NEW b, NEW c
  PROVE  <<a>> \o <<b, c>> = <<a, b, c>>
<1> DEFINE S == {a, b, c}
           u == <<a>>
           v == <<b, c>>
           r == <<a, b, c>>
<1>1. /\ u \in Seq(S) /\ v \in Seq(S) /\ r \in Seq(S)
      /\ Len(u) = 1 /\ Len(v) = 2 /\ Len(r) = 3
  OBVIOUS
<1>2. /\ u[1] = a /\ v[1] = b /\ v[2] = c
      /\ r[1] = a /\ r[2] = b /\ r[3] = c
  OBVIOUS
<1> HIDE DEF S, u, v, r
<1>3. /\ u \o v \in Seq(S) /\ Len(u \o v) = Len(u) + Len(v)
      /\ \A i \in 1 .. Len(u) : (u \o v)[i] = u[i]
      /\ \A i \in 1 .. Len(v) : (u \o v)[i + Len(u)] = v[i]
  <2>1. u \in Seq(S) /\ v \in Seq(S) BY <1>1
  <2> QED BY <2>1, ConcatIs
<1>4. Len(u \o v) = 3 /\ (u \o v)[1] = a /\ (u \o v)[2] = b /\ (u \o v)[3] = c
  <2>1. 1 + 1 = 2 /\ 2 + 1 = 3 /\ 1 \in 1 .. 1 /\ 1 \in 1 .. 2 /\ 2 \in 1 .. 2 /\ 1 + 2 = 3
    OBVIOUS
  <2> QED BY <1>1, <1>2, <1>3, <2>1
<1>5. \A i \in 1 .. 3 : (u \o v)[i] = r[i] BY <1>2, <1>4
<1>6. u \o v = r BY <1>1, <1>3, <1>4, <1>5, SequencesEqual
<1> QED BY <1>6 DEF u, v, r

\* One element and three.
LEMMA OneAndThree ==
  ASSUME NEW a, NEW b, NEW c, NEW d
  PROVE  <<a>> \o <<b, c, d>> = <<a, b, c, d>>
<1> DEFINE S == {a, b, c, d}
           u == <<a>>
           v == <<b, c, d>>
           r == <<a, b, c, d>>
<1>1. /\ u \in Seq(S) /\ v \in Seq(S) /\ r \in Seq(S)
      /\ Len(u) = 1 /\ Len(v) = 3 /\ Len(r) = 4
  OBVIOUS
<1>2. /\ u[1] = a /\ v[1] = b /\ v[2] = c /\ v[3] = d
      /\ r[1] = a /\ r[2] = b /\ r[3] = c /\ r[4] = d
  OBVIOUS
<1> HIDE DEF S, u, v, r
<1>3. /\ u \o v \in Seq(S) /\ Len(u \o v) = Len(u) + Len(v)
      /\ \A i \in 1 .. Len(u) : (u \o v)[i] = u[i]
      /\ \A i \in 1 .. Len(v) : (u \o v)[i + Len(u)] = v[i]
  <2>1. u \in Seq(S) /\ v \in Seq(S) BY <1>1
  <2> QED BY <2>1, ConcatIs
<1>4. Len(u \o v) = 4 /\ (u \o v)[1] = a /\ (u \o v)[2] = b /\ (u \o v)[3] = c /\ (u \o v)[4] = d
  <2>1. 1 + 1 = 2 /\ 2 + 1 = 3 /\ 3 + 1 = 4 /\ 1 \in 1 .. 1 /\ 1 \in 1 .. 3 /\ 2 \in 1 .. 3
        /\ 3 \in 1 .. 3 /\ 1 + 3 = 4
    OBVIOUS
  <2> QED BY <1>1, <1>2, <1>3, <2>1
<1>5. \A i \in 1 .. 4 : (u \o v)[i] = r[i] BY <1>2, <1>4
<1>6. u \o v = r BY <1>1, <1>3, <1>4, <1>5, SequencesEqual
<1> QED BY <1>6 DEF u, v, r

\* Three elements and two.
LEMMA ThreeAndTwo ==
  ASSUME NEW a, NEW b, NEW c, NEW d, NEW e
  PROVE  <<a, b, c>> \o <<d, e>> = <<a, b, c, d, e>>
<1> DEFINE S == {a, b, c, d, e}
           u == <<a, b, c>>
           v == <<d, e>>
           r == <<a, b, c, d, e>>
<1>1. /\ u \in Seq(S) /\ v \in Seq(S) /\ r \in Seq(S)
      /\ Len(u) = 3 /\ Len(v) = 2 /\ Len(r) = 5
  OBVIOUS
<1>2. /\ u[1] = a /\ u[2] = b /\ u[3] = c /\ v[1] = d /\ v[2] = e
      /\ r[1] = a /\ r[2] = b /\ r[3] = c /\ r[4] = d /\ r[5] = e
  OBVIOUS
<1> HIDE DEF S, u, v, r
<1>3. /\ u \o v \in Seq(S) /\ Len(u \o v) = Len(u) + Len(v)
      /\ \A i \in 1 .. Len(u) : (u \o v)[i] = u[i]
      /\ \A i \in 1 .. Len(v) : (u \o v)[i + Len(u)] = v[i]
  <2>1. u \in Seq(S) /\ v \in Seq(S) BY <1>1
  <2> QED BY <2>1, ConcatIs
<1>4. Len(u \o v) = 5 /\ (u \o v)[1] = a /\ (u \o v)[2] = b /\ (u \o v)[3] = c
      /\ (u \o v)[4] = d /\ (u \o v)[5] = e
  <2>1. 1 + 3 = 4 /\ 2 + 3 = 5 /\ 1 \in 1 .. 3 /\ 2 \in 1 .. 3 /\ 3 \in 1 .. 3
        /\ 1 \in 1 .. 2 /\ 2 \in 1 .. 2 /\ 3 + 2 = 5
    OBVIOUS
  <2> QED BY <1>1, <1>2, <1>3, <2>1
<1>5. \A i \in 1 .. 5 : (u \o v)[i] = r[i] BY <1>2, <1>4
<1>6. u \o v = r BY <1>1, <1>3, <1>4, <1>5, SequencesEqual
<1> QED BY <1>6 DEF u, v, r

\* Four elements and two.
LEMMA FourAndTwo ==
  ASSUME NEW a, NEW b, NEW c, NEW d, NEW e, NEW f
  PROVE  <<a, b, c, d>> \o <<e, f>> = <<a, b, c, d, e, f>>
<1> DEFINE S == {a, b, c, d, e, f}
           u == <<a, b, c, d>>
           v == <<e, f>>
           r == <<a, b, c, d, e, f>>
<1>1. /\ u \in Seq(S) /\ v \in Seq(S) /\ r \in Seq(S)
      /\ Len(u) = 4 /\ Len(v) = 2 /\ Len(r) = 6
  OBVIOUS
<1>2. /\ u[1] = a /\ u[2] = b /\ u[3] = c /\ u[4] = d /\ v[1] = e /\ v[2] = f
      /\ r[1] = a /\ r[2] = b /\ r[3] = c /\ r[4] = d /\ r[5] = e /\ r[6] = f
  OBVIOUS
<1> HIDE DEF S, u, v, r
<1>3. /\ u \o v \in Seq(S) /\ Len(u \o v) = Len(u) + Len(v)
      /\ \A i \in 1 .. Len(u) : (u \o v)[i] = u[i]
      /\ \A i \in 1 .. Len(v) : (u \o v)[i + Len(u)] = v[i]
  <2>1. u \in Seq(S) /\ v \in Seq(S) BY <1>1
  <2> QED BY <2>1, ConcatIs
<1>4. Len(u \o v) = 6 /\ (u \o v)[1] = a /\ (u \o v)[2] = b /\ (u \o v)[3] = c
      /\ (u \o v)[4] = d /\ (u \o v)[5] = e /\ (u \o v)[6] = f
  <2>1. 1 + 4 = 5 /\ 2 + 4 = 6 /\ 1 \in 1 .. 4 /\ 2 \in 1 .. 4 /\ 3 \in 1 .. 4
        /\ 4 \in 1 .. 4 /\ 1 \in 1 .. 2 /\ 2 \in 1 .. 2 /\ 4 + 2 = 6
    OBVIOUS
  <2> QED BY <1>1, <1>2, <1>3, <2>1
<1>5. \A i \in 1 .. 6 : (u \o v)[i] = r[i] BY <1>2, <1>4
<1>6. u \o v = r BY <1>1, <1>3, <1>4, <1>5, SequencesEqual
<1> QED BY <1>6 DEF u, v, r

\* The consumers' scripts of gemm have five steps,
LEMMA LengthFive ==
  ASSUME NEW a, NEW b, NEW c, NEW d, NEW e PROVE Len(<<a, b, c, d, e>>) = 5
  OBVIOUS

\* and those of gate_silu six.
LEMMA LengthSix ==
  ASSUME NEW a, NEW b, NEW c, NEW d, NEW e, NEW f
  PROVE  Len(<<a, b, c, d, e, f>>) = 6
  OBVIOUS

\* A function on 1 .. m is a sequence.
LEMMA FunctionIs ==
  ASSUME NEW m \in Nat, NEW F(_)
  PROVE  /\ [i \in 1 .. m |-> F(i)] \in Seq({F(i) : i \in 1 .. m})
         /\ Len([i \in 1 .. m |-> F(i)]) = m
  OBVIOUS

---------------------------------------------------------------------------
(* The steps of the scripts.                                               *)

LoaderAt(n, i) ==
  [Step EXCEPT
     !.pages = IF i >= LOAD_PIPE_DEPTH THEN {}
               ELSE {ALid(Stage(i))} \cup
                    (IF Stage(i) % 2 = 0 THEN {BLid(Stage(i))} ELSE {}),
     !.waits = IF i < LOAD_PIPE_DEPTH THEN {}
               ELSE {Wait("inputs_finished", Stage(i), (Lap(i) + 1) % 2)},
     !.loads = IF i >= n THEN {}
               ELSE {LoadTo(Inputs(Stage(i)), i, 0, "inputs_arrived", Stage(i))},
     !.finishes = IF i < n THEN {} ELSE DrainedPages[Stage(i)]]

LauncherAt(n, i) ==
  IF i = 0 THEN [Step EXCEPT !.tensor = TRUE, !.signals = ExpectInputs(0)]
  ELSE [Step EXCEPT
          !.waits = {Wait("inputs_arrived", Stage(i - 1), Lap(i - 1) % 2)},
          !.mmas = Multiplications(i - 1, n),
          !.signals = IF i < n THEN ExpectInputs(i) ELSE {}]

PlainAt(c, n, w) ==
  <<[Step EXCEPT !.waits = {Wait("outputs_arrived", 0, 0)}],
    [Step EXCEPT !.tensorHolds = Sums(n, w), !.signals = Meets(c, 0)],
    [Step EXCEPT !.waits = Met(0), !.tensorFinish = w = 0, !.puts = Stored(w)],
    [Step EXCEPT !.holds = Stored(w), !.signals = Meets(c, 1)],
    [Step EXCEPT !.waits = Met(1), !.finishes = IF w = 0 THEN {0} ELSE {}]>>

SiluAt(c, n, w) ==
  <<[Step EXCEPT !.waits = {Wait("outputs_arrived", 0, 0)}],
    [Step EXCEPT !.signals = Meets(c, 0)],
    [Step EXCEPT !.waits = Met(0)],
    [Step EXCEPT !.tensorHolds = Sums(n, w), !.puts = Stored(w),
                 !.tensorFinish = w = 0],
    [Step EXCEPT !.holds = Stored(w), !.signals = Meets(c, 1)],
    [Step EXCEPT !.waits = Met(1), !.finishes = IF w = 0 THEN {0} ELSE {}]>>

ConsumerAt(c, n, k, w) == IF k = GEMM THEN PlainAt(c, n, w) ELSE SiluAt(c, n, w)

\* The loader's leader has n + 4 steps.
LEMMA LoaderScript ==
  ASSUME MatmulConfig, NEW n, Iterations(n), NEW k, Epilogue(k), NEW c \in CTAS
  PROVE  /\ Len(Matmuls(n, k)[c].script["loader"]) = n + 4
         /\ \A i \in 0 .. n + 3 :
              Matmuls(n, k)[c].script["loader"][i + 1] = LoaderAt(n, i)
<1> DEFINE F(j) == LoaderAt(n, j - 1)
           q == [j \in 1 .. n + 4 |-> F(j)]
<1>1. MatmulLoader(n, DrainedPages) = q
  <2> QED BY DEF MatmulLoader, LoaderAt, LOAD_PIPE_DEPTH
<1>2. Matmuls(n, k)[c].script["loader"] = q
  BY <1>1 DEF Matmuls, GemmOp, GateSiluOp, Matmul
<1>3. n + 4 \in Nat BY DEF Iterations
<1>4. Len(q) = n + 4
  <2> HIDE DEF F
  <2> QED BY <1>3, FunctionIs
<1>5. ASSUME NEW i \in 0 .. n + 3 PROVE q[i + 1] = LoaderAt(n, i)
  <2>1. i + 1 \in 1 .. n + 4 /\ i + 1 - 1 = i BY DEF Iterations
  <2> HIDE DEF F
  <2>2. q[i + 1] = F(i + 1) BY <2>1
  <2> QED BY <2>1, <2>2 DEF F
<1> HIDE DEF q
<1> QED BY <1>2, <1>4, <1>5

\* The launcher of CTA 0 has n + 1 steps, that of CTA 1 none.
LEMMA LauncherScript ==
  ASSUME MatmulConfig, NEW n, Iterations(n), NEW k, Epilogue(k)
  PROVE  /\ Len(Matmuls(n, k)[0].script["launcher"]) = n + 1
         /\ \A i \in 0 .. n :
              Matmuls(n, k)[0].script["launcher"][i + 1] = LauncherAt(n, i)
         /\ Matmuls(n, k)[1].script["launcher"] = << >>
<1>1. 0 \in CTAS /\ 1 \in CTAS BY ConfigIs
<1> DEFINE F(j) == LauncherAt(n, j)
           q == [j \in 1 .. n |-> F(j)]
           p == <<LauncherAt(n, 0)>>
           S == {LauncherAt(n, j) : j \in 0 .. n}
<1>2. MatmulLauncher(0, n) = p \o q
  <2>1. ASSUME NEW j \in 1 .. n
        PROVE  F(j) = [Step EXCEPT
                !.waits = {Wait("inputs_arrived", Stage(j - 1), Lap(j - 1) % 2)},
                !.mmas = Multiplications(j - 1, n),
                !.signals = IF j < n THEN ExpectInputs(j) ELSE {}]
    BY <2>1 DEF LauncherAt
  <2>2. LauncherAt(n, 0) = [Step EXCEPT !.tensor = TRUE, !.signals = ExpectInputs(0)]
    BY DEF LauncherAt
  <2> HIDE DEF F
  <2> QED BY <2>1, <2>2 DEF MatmulLauncher
<1>3. Matmuls(n, k)[0].script["launcher"] = p \o q
  BY <1>1, <1>2 DEF Matmuls, GemmOp, GateSiluOp, Matmul
<1>4. Matmuls(n, k)[1].script["launcher"] = << >>
  BY <1>1 DEF Matmuls, GemmOp, GateSiluOp, Matmul, MatmulLauncher, Nothing
<1>5. n \in Nat BY DEF Iterations
<1>6. p \in Seq(S) /\ Len(p) = 1 /\ p[1] = LauncherAt(n, 0)
  <2>1. LauncherAt(n, 0) \in S BY <1>5
  <2> HIDE DEF S
  <2> QED BY <2>1
<1>7. q \in Seq(S) /\ Len(q) = n
  <2> HIDE DEF F
  <2>1. q \in Seq({F(i) : i \in 1 .. n}) /\ Len(q) = n BY <1>5, FunctionIs
  <2>2. {F(i) : i \in 1 .. n} \subseteq S BY <1>5 DEF F
  <2> HIDE DEF S, q
  <2> QED BY <2>1, <2>2
<1>8. \A j \in 1 .. n : q[j] = LauncherAt(n, j) OBVIOUS
<1>9. /\ Len(p \o q) = 1 + n
      /\ \A i \in 1 .. 1 : (p \o q)[i] = p[i]
      /\ \A i \in 1 .. n : (p \o q)[i + 1] = q[i]
  <2> HIDE DEF p, q, S
  <2>1. p \in Seq(S) /\ q \in Seq(S) BY <1>6, <1>7
  <2>2. /\ Len(p \o q) = Len(p) + Len(q)
        /\ \A i \in 1 .. Len(p) : (p \o q)[i] = p[i]
        /\ \A i \in 1 .. Len(q) : (p \o q)[i + Len(p)] = q[i]
    BY <2>1, ConcatIs
  <2> QED BY <2>2, <1>6, <1>7
<1>10. ASSUME NEW i \in 0 .. n PROVE (p \o q)[i + 1] = LauncherAt(n, i)
  <2> HIDE DEF p, q
  <2>1. CASE i = 0 BY <2>1, <1>6, <1>9
  <2>2. CASE i # 0
    <3>1. i \in 1 .. n BY <2>2, <1>5
    <3> QED BY <3>1, <1>8, <1>9
  <2> QED BY <2>1, <2>2
<1> HIDE DEF p, q
<1> QED BY <1>3, <1>4, <1>5, <1>9, <1>10

\* The consumers have k + 2 steps.
LEMMA ConsumerScript ==
  ASSUME MatmulConfig, NEW n, Iterations(n), NEW k, Epilogue(k), NEW c \in CTAS,
         NEW w \in {0, 1}
  PROVE  /\ Matmuls(n, k)[c].script[Consumer(w)] = ConsumerAt(c, n, k, w)
         /\ Len(ConsumerAt(c, n, k, w)) = k + 2
<1>1. k = GEMM => Matmuls(n, k)[c].script[Consumer(w)] = PlainEpilogue(c, n, w)
  BY DEF Matmuls, GemmOp, Matmul, Consumer
<1>2. k # GEMM => Matmuls(n, k)[c].script[Consumer(w)] = SiluEpilogue(c, n, w)
  BY DEF Matmuls, GateSiluOp, Matmul, Consumer
<1> DEFINE a == [Step EXCEPT !.waits = {Wait("outputs_arrived", 0, 0)}]
           b == [Step EXCEPT !.tensorHolds = Sums(n, w), !.signals = Meets(c, 0)]
           d == [Step EXCEPT !.waits = Met(0), !.tensorFinish = w = 0, !.puts = Stored(w)]
           e == [Step EXCEPT !.signals = Meets(c, 0)]
           f == [Step EXCEPT !.waits = Met(0)]
           g == [Step EXCEPT !.tensorHolds = Sums(n, w), !.puts = Stored(w),
                              !.tensorFinish = w = 0]
           p == [Step EXCEPT !.holds = Stored(w), !.signals = Meets(c, 1)]
           q == [Step EXCEPT !.waits = Met(1), !.finishes = IF w = 0 THEN {0} ELSE {}]
<1>3. PlainEpilogue(c, n, w) = PlainAt(c, n, w) /\ Len(PlainAt(c, n, w)) = 5
  <2>1. PlainEpilogue(c, n, w) = (<<a>> \o <<b, d>>) \o <<p, q>>
    BY DEF PlainEpilogue, FinishStored, AwaitSums
  <2>2. PlainAt(c, n, w) = <<a, b, d, p, q>> BY DEF PlainAt
  <2> HIDE DEF a, b, d, p, q
  <2>3. (<<a>> \o <<b, d>>) \o <<p, q>> = <<a, b, d, p, q>>
    <3>1. <<a>> \o <<b, d>> = <<a, b, d>> BY OneAndTwo
    <3>2. <<a, b, d>> \o <<p, q>> = <<a, b, d, p, q>> BY ThreeAndTwo
    <3> QED BY <3>1, <3>2
  <2> QED BY <2>1, <2>2, <2>3, LengthFive
<1>4. SiluEpilogue(c, n, w) = SiluAt(c, n, w) /\ Len(SiluAt(c, n, w)) = 6
  <2>1. SiluEpilogue(c, n, w) = (<<a>> \o <<e, f, g>>) \o <<p, q>>
    BY DEF SiluEpilogue, FinishStored, AwaitSums
  <2>2. SiluAt(c, n, w) = <<a, e, f, g, p, q>> BY DEF SiluAt
  <2> HIDE DEF a, e, f, g, p, q
  <2>3. (<<a>> \o <<e, f, g>>) \o <<p, q>> = <<a, e, f, g, p, q>>
    <3>1. <<a>> \o <<e, f, g>> = <<a, e, f, g>> BY OneAndThree
    <3>2. <<a, e, f, g>> \o <<p, q>> = <<a, e, f, g, p, q>> BY FourAndTwo
    <3> QED BY <3>1, <3>2
  <2> QED BY <2>1, <2>2, <2>3, LengthSix
<1> HIDE DEF a, b, d, e, f, g, p, q
<1>5. CASE k = GEMM
  <2>1. ConsumerAt(c, n, k, w) = PlainAt(c, n, w) BY <1>5 DEF ConsumerAt
  <2>2. k + 2 = 5 BY <1>5 DEF GEMM
  <2> QED BY <1>1, <1>3, <1>5, <2>1, <2>2
<1>6. CASE k # GEMM
  <2>1. ConsumerAt(c, n, k, w) = SiluAt(c, n, w) BY <1>6 DEF ConsumerAt
  <2>2. k + 2 = 6 BY <1>6 DEF Epilogue, GEMM, SILU
  <2> QED BY <1>2, <1>4, <1>6, <2>1, <2>2
<1> QED BY <1>5, <1>6

---------------------------------------------------------------------------
(* Signals.                                                                *)

\* The arrivals of a single signal,
LEMMA SumOfOneArrival ==
  ASSUME NEW x, x.arrivals \in Int
  PROVE  MapThenSumSet(LAMBDA g : g.arrivals, {x}) = x.arrivals
<1> DEFINE S == {x}
           F(f) == f = [s \in SUBSET S |->
                IF s = {} THEN 0
                ELSE (CHOOSE y \in s : TRUE).arrivals + f[s \ {CHOOSE y \in s : TRUE}]]
           f0 == [s \in SUBSET S |-> IF s = {} THEN 0 ELSE x.arrivals]
           g == CHOOSE f : F(f)
<1>1. SUBSET S = {{}, {x}} OBVIOUS
<1>2. (CHOOSE y \in {x} : TRUE) = x OBVIOUS
<1>3. {x} \ {x} = {} OBVIOUS
<1>4. F(f0)
  <2>1. f0[{}] = 0 BY <1>1
  <2>2. ASSUME NEW s \in SUBSET S
        PROVE  f0[s] = IF s = {} THEN 0
                ELSE (CHOOSE y \in s : TRUE).arrivals + f0[s \ {CHOOSE y \in s : TRUE}]
    <3>1. CASE s = {} BY <3>1
    <3>2. CASE s = {x} BY <3>2, <1>2, <1>3, <2>1
    <3> QED BY <1>1, <3>1, <3>2
  <2> QED BY <2>2
<1>5. F(g) BY <1>4
<1>6. g[{}] = 0 BY <1>1, <1>5
<1>7. g[{x}] = x.arrivals
  <2>1. g = [s \in SUBSET S |-> IF s = {} THEN 0
                ELSE (CHOOSE y \in s : TRUE).arrivals + g[s \ {CHOOSE y \in s : TRUE}]]
    BY <1>5
  <2>2. g[{x}] = IF {x} = {} THEN 0
                ELSE (CHOOSE y \in {x} : TRUE).arrivals + g[{x} \ {CHOOSE y \in {x} : TRUE}]
    <3> HIDE DEF g
    <3>1. {x} \in SUBSET S OBVIOUS
    <3> QED BY <2>1, <3>1
  <2>3. g[{x}] = x.arrivals + g[{}]
    <3> HIDE DEF g
    <3> QED BY <2>2, <1>2, <1>3
  <2> HIDE DEF g
  <2> QED BY <2>3, <1>6
<1>8. MapThenSumSet(LAMBDA e : e.arrivals, {x}) = g[{x}]
  BY DEF MapThenSumSet, MapThenFoldSet
<1> QED BY <1>7, <1>8

\* and its bytes.
LEMMA SumOfOneBytes ==
  ASSUME NEW x, x.bytes \in Int
  PROVE  MapThenSumSet(LAMBDA g : g.bytes, {x}) = x.bytes
<1> DEFINE S == {x}
           F(f) == f = [s \in SUBSET S |->
                IF s = {} THEN 0
                ELSE (CHOOSE y \in s : TRUE).bytes + f[s \ {CHOOSE y \in s : TRUE}]]
           f0 == [s \in SUBSET S |-> IF s = {} THEN 0 ELSE x.bytes]
           g == CHOOSE f : F(f)
<1>1. SUBSET S = {{}, {x}} OBVIOUS
<1>2. (CHOOSE y \in {x} : TRUE) = x OBVIOUS
<1>3. {x} \ {x} = {} OBVIOUS
<1>4. F(f0)
  <2>1. f0[{}] = 0 BY <1>1
  <2>2. ASSUME NEW s \in SUBSET S
        PROVE  f0[s] = IF s = {} THEN 0
                ELSE (CHOOSE y \in s : TRUE).bytes + f0[s \ {CHOOSE y \in s : TRUE}]
    <3>1. CASE s = {} BY <3>1
    <3>2. CASE s = {x} BY <3>2, <1>2, <1>3, <2>1
    <3> QED BY <1>1, <3>1, <3>2
  <2> QED BY <2>2
<1>5. F(g) BY <1>4
<1>6. g[{}] = 0 BY <1>1, <1>5
<1>7. g[{x}] = x.bytes
  <2>1. g = [s \in SUBSET S |-> IF s = {} THEN 0
                ELSE (CHOOSE y \in s : TRUE).bytes + g[s \ {CHOOSE y \in s : TRUE}]]
    BY <1>5
  <2>2. g[{x}] = IF {x} = {} THEN 0
                ELSE (CHOOSE y \in {x} : TRUE).bytes + g[{x} \ {CHOOSE y \in {x} : TRUE}]
    <3> HIDE DEF g
    <3>1. {x} \in SUBSET S OBVIOUS
    <3> QED BY <2>1, <3>1
  <2>3. g[{x}] = x.bytes + g[{}]
    <3> HIDE DEF g
    <3> QED BY <2>2, <1>2, <1>3
  <2> HIDE DEF g
  <2> QED BY <2>3, <1>6
<1>8. MapThenSumSet(LAMBDA e : e.bytes, {x}) = g[{x}]
  BY DEF MapThenSumSet, MapThenFoldSet
<1> QED BY <1>7, <1>8

UNCHECKED == [phase : Nat, left : Int, bytes : Int]

\* What one signal does to an mbarrier.
Ends(b, g) == b.left = g.arrivals /\ b.bytes + g.bytes = 0
After(t, b, count, g) ==
  /\ t \in UNCHECKED
  /\ t.phase = IF Ends(b, g) THEN b.phase + 1 ELSE b.phase
  /\ t.left = IF Ends(b, g) THEN count ELSE b.left - g.arrivals
  /\ t.bytes = IF Ends(b, g) THEN 0 ELSE b.bytes + g.bytes

\* AfterSignals, for one signal.
LEMMA AfterOne ==
  ASSUME NEW b \in BARRIERS, NEW count \in Nat, NEW g, g.arrivals \in Int, g.bytes \in Int
  PROVE  After(AfterSignals(b, count, {g}), b, count, g)
<1>1. MapThenSumSet(LAMBDA e : e.arrivals, {g}) = g.arrivals BY SumOfOneArrival
<1>2. MapThenSumSet(LAMBDA e : e.bytes, {g}) = g.bytes BY SumOfOneBytes
<1>3. b.left \in Int /\ b.bytes \in Int /\ b.phase \in Nat BY DEF BARRIERS
<1> DEFINE next == b.phase + 1
           left == b.left - g.arrivals
           bytes == b.bytes + g.bytes
           t == AfterSignals(b, count, {g})
<1>4. t = IF left = 0 /\ bytes = 0
          THEN [b EXCEPT !.phase = next, !.left = count, !.bytes = 0]
          ELSE [b EXCEPT !.left = left, !.bytes = bytes]
  BY <1>1, <1>2 DEF AfterSignals
<1>5. next \in Nat /\ left \in Int /\ bytes \in Int BY <1>3
<1>6. left = 0 <=> b.left = g.arrivals
  <2>1. \A x, y \in Int : x - y = 0 <=> x = y OBVIOUS
  <2> QED BY <1>3, <2>1
<1>7. ASSUME NEW x \in Nat, NEW y \in Int, NEW z \in Int
      PROVE  LET u == [b EXCEPT !.phase = x, !.left = y, !.bytes = z]
             IN  u \in UNCHECKED /\ u.phase = x /\ u.left = y /\ u.bytes = z
  BY DEF BARRIERS, UNCHECKED
<1>8. ASSUME NEW y \in Int, NEW z \in Int
      PROVE  LET u == [b EXCEPT !.left = y, !.bytes = z]
             IN  u \in UNCHECKED /\ u.phase = b.phase /\ u.left = y /\ u.bytes = z
  BY DEF BARRIERS, UNCHECKED
<1>9. next = b.phase + 1 /\ left = b.left - g.arrivals /\ bytes = b.bytes + g.bytes
  OBVIOUS
<1>10. Ends(b, g) <=> left = 0 /\ bytes = 0 BY <1>6 DEF Ends
<1>11. count \in Int /\ 0 \in Int OBVIOUS
<1> HIDE DEF next, left, bytes, t
<1>12. CASE Ends(b, g)
  <2>1. t = [b EXCEPT !.phase = next, !.left = count, !.bytes = 0]
    BY <1>4, <1>10, <1>12
  <2>2. t \in UNCHECKED /\ t.phase = next /\ t.left = count /\ t.bytes = 0
    <3> DEFINE u == [b EXCEPT !.phase = next, !.left = count, !.bytes = 0]
    <3>1. next \in Nat /\ count \in Int /\ 0 \in Int BY <1>5, <1>11
    <3>2. u \in UNCHECKED /\ u.phase = next /\ u.left = count /\ u.bytes = 0
      BY <3>1 DEF BARRIERS, UNCHECKED
    <3> QED BY <2>1, <3>2
  <2>3. After(t, b, count, g) BY <1>9, <1>12, <2>2 DEF After
  <2> QED BY <2>3 DEF t
<1>13. CASE ~Ends(b, g)
  <2>1. t = [b EXCEPT !.left = left, !.bytes = bytes]
    BY <1>4, <1>10, <1>13
  <2>2. t \in UNCHECKED /\ t.phase = b.phase /\ t.left = left /\ t.bytes = bytes
    BY <1>5, <1>8, <2>1
  <2>3. After(t, b, count, g) BY <1>9, <1>13, <2>2 DEF After
  <2> QED BY <2>3 DEF t
<1> QED BY <1>12, <1>13

SemaphoresTyped(sem) == sem \in [CTAS -> [SEMAPHORES -> BARRIERS]]

\* At most one of the signals is for a semaphore.
Apart(G) ==
  \A g \in G : /\ g.cta \in CTAS /\ g.arrivals \in Int /\ g.bytes \in Int
               /\ \A h \in G : g.cta = h.cta /\ g.sem = h.sem => g = h

\* SignalAll, for signals to different semaphores: each changes its own.
LEMMA SignalsAre ==
  ASSUME MatmulConfig, NEW n, NEW k, NEW st, SemaphoresTyped(st.semaphore),
         NEW G, Apart(G)
  PROVE  LET t == SignalAll(Matmuls(n, k), st, G)
             b(c, sem) == st.semaphore[c][sem]
         IN  /\ t = [c \in CTAS |-> [sem \in SEMAPHORES |-> t[c][sem]]]
             /\ \A c \in CTAS, sem \in SEMAPHORES :
                  /\ \A g \in G : g.cta = c /\ g.sem = sem =>
                       After(t[c][sem], b(c, sem), MatmulSemaphores[sem], g)
                  /\ (\A g \in G : ~(g.cta = c /\ g.sem = sem)) => t[c][sem] = b(c, sem)
<1> DEFINE inst == Matmuls(n, k)
           t == SignalAll(inst, st, G)
           b(c, sem) == st.semaphore[c][sem]
<1>1. ASSUME NEW c \in CTAS
      PROVE  inst[c].semaphores = MatmulSemaphores
  BY DEF Matmuls, GemmOp, GateSiluOp, Matmul
<1>2. ASSUME NEW sem \in SEMAPHORES PROVE MatmulSemaphores[sem] \in Nat
  BY DEF MatmulConfig, SEMAPHORES, MatmulSemaphores
<1>3. ASSUME NEW c \in CTAS
      PROVE  /\ DOMAIN st.semaphore[c] = SEMAPHORES
             /\ st.semaphore[c] = [sem \in SEMAPHORES |-> st.semaphore[c][sem]]
             /\ \A sem \in SEMAPHORES : st.semaphore[c][sem] \in BARRIERS
  BY DEF SemaphoresTyped
<1>4. ASSUME NEW c \in CTAS
      PROVE  t[c] = IF c \in Signalled(G)
                    THEN Signal(st.semaphore[c], MatmulSemaphores, c, G)
                    ELSE st.semaphore[c]
  <2> HIDE DEF inst
  <2> QED BY <1>1 DEF SignalAll
<1>5. t = [c \in CTAS |-> t[c]]
  <2> HIDE DEF inst
  <2> QED BY DEF SignalAll
<1> HIDE DEF t, inst
<1>6. ASSUME NEW c \in CTAS
      PROVE  Signal(st.semaphore[c], MatmulSemaphores, c, G) =
               [sem \in SEMAPHORES |->
                  IF {g \in G : g.cta = c /\ g.sem = sem} = {} THEN b(c, sem)
                  ELSE AfterSignals(b(c, sem), MatmulSemaphores[sem],
                                    {g \in G : g.cta = c /\ g.sem = sem})]
  BY <1>3 DEF Signal
<1>7. ASSUME NEW c \in CTAS
      PROVE  t[c] = [sem \in SEMAPHORES |-> t[c][sem]]
  <2>1. CASE c \in Signalled(G) BY <1>4, <1>6, <2>1
  <2>2. CASE c \notin Signalled(G) BY <1>3, <1>4, <2>2
  <2> QED BY <2>1, <2>2
<1>8. ASSUME NEW c \in CTAS, NEW sem \in SEMAPHORES, NEW g \in G, g.cta = c, g.sem = sem
      PROVE  After(t[c][sem], b(c, sem), MatmulSemaphores[sem], g)
  <2>1. {h \in G : h.cta = c /\ h.sem = sem} = {g} BY <1>8 DEF Apart
  <2>2. c \in Signalled(G) BY <1>8 DEF Signalled
  <2>3. t[c][sem] = AfterSignals(b(c, sem), MatmulSemaphores[sem], {g})
    <3>1. t[c] = Signal(st.semaphore[c], MatmulSemaphores, c, G) BY <1>4, <2>2
    <3>2. t[c][sem] =
            IF {h \in G : h.cta = c /\ h.sem = sem} = {} THEN b(c, sem)
            ELSE AfterSignals(b(c, sem), MatmulSemaphores[sem],
                              {h \in G : h.cta = c /\ h.sem = sem})
      <4>1. Signal(st.semaphore[c], MatmulSemaphores, c, G)[sem] =
               IF {h \in G : h.cta = c /\ h.sem = sem} = {} THEN b(c, sem)
               ELSE AfterSignals(b(c, sem), MatmulSemaphores[sem],
                                    {h \in G : h.cta = c /\ h.sem = sem})
        BY <1>6
      <4> QED BY <3>1, <4>1
    <3>3. {g} # {} OBVIOUS
    <3> HIDE DEF b
    <3> QED BY <2>1, <3>2, <3>3
  <2>4. b(c, sem) \in BARRIERS /\ MatmulSemaphores[sem] \in Nat BY <1>2, <1>3
  <2>5. g.arrivals \in Int /\ g.bytes \in Int BY DEF Apart
  <2> QED BY <2>3, <2>4, <2>5, AfterOne
<1>9. ASSUME NEW c \in CTAS, NEW sem \in SEMAPHORES, \A g \in G : ~(g.cta = c /\ g.sem = sem)
      PROVE  t[c][sem] = b(c, sem)
  <2>1. {h \in G : h.cta = c /\ h.sem = sem} = {} BY <1>9
  <2> QED BY <1>4, <1>6, <2>1
<1>10. t = [c \in CTAS |-> [sem \in SEMAPHORES |-> t[c][sem]]] BY <1>5, <1>7
<1> QED BY <1>8, <1>9, <1>10 DEF t, inst

---------------------------------------------------------------------------
(* Stages and laps.                                                        *)

\* An iteration is the one of its stage in its lap.
LEMMA StageIs ==
  ASSUME NEW i \in Nat
  PROVE  Stage(i) \in 0 .. 3 /\ Lap(i) \in Nat /\ i = 4 * Lap(i) + Stage(i)
  BY DEF Stage, Lap, LOAD_PIPE_DEPTH

\* A stage is no later than its iteration.
LEMMA StageAtMost ==
  ASSUME NEW i \in Nat
  PROVE  Stage(i) <= i
  BY DEF Stage, LOAD_PIPE_DEPTH

\* The iteration of a stage in a lap.
LEMMA StageOf ==
  ASSUME NEW a \in Nat, NEW s \in 0 .. 3, NEW i, i = 4 * a + s
  PROVE  i \in Nat /\ Stage(i) = s /\ Lap(i) = a
  BY DEF Stage, Lap, LOAD_PIPE_DEPTH

\* Iterations of a stage are LOAD_PIPE_DEPTH apart.
LEMMA SameStage ==
  ASSUME NEW i \in Nat, NEW j \in Nat, Stage(i) = Stage(j), i < j
  PROVE  i + 4 <= j
  BY DEF Stage, LOAD_PIPE_DEPTH

\* The iteration the phase of a barrier is for, among those of its stage.
LEMMA PhaseAt ==
  ASSUME NEW b \in BARRIERS, NEW s \in 0 .. 3, NEW j, j = 4 * b.phase + s
  PROVE  /\ j \in Nat /\ Stage(j) = s /\ b.phase \in Nat /\ b.left \in Nat /\ b.bytes \in Int
         /\ \A i \in Nat : Stage(i) = s => /\ j < i => j + 4 <= i
                                           /\ i < j => i + 4 <= j
<1>1. b.phase \in Nat /\ b.left \in Nat /\ b.bytes \in Int BY DEF BARRIERS
<1>2. j \in Nat /\ Stage(j) = s BY <1>1, StageOf
<1> QED BY <1>1, <1>2, SameStage

\* A phase a barrier is in, and the iteration it is for, behind or before i.
LEMMA PhaseOf ==
  ASSUME NEW i \in Nat, NEW a \in Nat, NEW j, j = 4 * a + Stage(i)
  PROVE  /\ j \in Nat /\ Stage(j) = Stage(i)
         /\ a < Lap(i) => j + 4 <= i
         /\ a = Lap(i) => j = i
         /\ a > Lap(i) => j >= i + 4
         /\ (a - Lap(i)) % 2 = 0 /\ a < Lap(i) => j + 8 <= i
<1>1. Stage(i) \in 0 .. 3 /\ Lap(i) \in Nat /\ i = 4 * Lap(i) + Stage(i) BY StageIs
<1>2. Stage(j) = Stage(i) BY <1>1, StageOf
<1>3. j \in Nat BY <1>1
<1> QED BY <1>1, <1>2, <1>3

\* Both loads of an iteration, or fewer, have landed.
LEMMA GotIs ==
  ASSUME NEW in, NEW i
  PROVE  /\ Got(in, i) \in 0 .. 2
         /\ Got(in, i) = 2 <=> i \in in[0] /\ i \in in[1]
         /\ i \notin in[0] /\ i \notin in[1] => Got(in, i) = 0
  BY DEF Got

---------------------------------------------------------------------------
(* The barrier that counts the inputs.                                     *)

\* The launcher expects the bytes of its next iteration.
LEMMA ExpectArrives ==
  ASSUME NEW n \in Nat, NEW la \in 0 .. n - 1, NEW b \in BARRIERS, NEW in,
         NEW s \in 0 .. 3, s = Stage(la),
         CountedAt(n, b, s, la, in),
         la + 4 \notin in[0], la + 4 \notin in[1],
         NEW g, g.arrivals = 1, g.bytes = 2, NEW t, After(t, b, 1, g)
  PROVE  CountedAt(n, t, s, la + 1, in) /\ t \in BARRIERS
<1>1. PICK i : i = 4 * b.phase + s OBVIOUS
<1>2. la \in Nat /\ b.phase \in Nat /\ b.left \in Nat /\ b.bytes \in Int
  BY DEF BARRIERS
<1>3. i \in Nat /\ (i < la => i + 4 <= la) /\ (la < i => la + 4 <= i)
  BY <1>1, <1>2, PhaseAt
<1>4. /\ b.left = IF i < la /\ i < n THEN 0 ELSE 1
      /\ b.bytes = (IF i < la /\ i < n THEN 2 ELSE 0) - Got(in, i)
      /\ i + 1 >= la
      /\ i >= 4 => i - 4 < la
  BY <1>1 DEF CountedAt
<1>5. i = la BY <1>2, <1>3, <1>4
<1>6. b.left = 1 /\ b.bytes = -Got(in, la) /\ Got(in, la) \in 0 .. 2
      /\ Got(in, la + 4) = 0
      /\ (Got(in, la) = 2 <=> la \in in[0] /\ la \in in[1])
  BY <1>2, <1>4, <1>5, GotIs
<1>7. 4 * b.phase + s = la BY <1>1, <1>5
<1>8. /\ t \in UNCHECKED
      /\ b.left = g.arrivals
      /\ t.phase = IF Ends(b, g) THEN b.phase + 1 ELSE b.phase
      /\ t.left = IF Ends(b, g) THEN 1 ELSE 0
      /\ t.bytes = IF Ends(b, g) THEN 0 ELSE b.bytes + 2
  <2>1. b.left - g.arrivals = 0 /\ b.bytes + g.bytes = b.bytes + 2 BY <1>6
  <2> QED BY <1>6, <2>1 DEF After
<1>9. Ends(b, g) <=> Got(in, la) = 2
  BY <1>2, <1>6 DEF Ends
<1>10. CASE Ends(b, g)
  <2>1. 4 * t.phase + s = la + 4 BY <1>2, <1>3, <1>7, <1>8, <1>10
  <2>2. CountedAt(n, t, s, la + 1, in)
    <3>1. ~(la + 4 < la + 1) /\ la + 4 - 4 = la /\ la < la + 1 /\ la < n BY <1>2
    <3>2. t.left = 1 /\ t.bytes = 0 - Got(in, la + 4) BY <1>6, <1>8, <1>10
    <3>3. la \in in[0] /\ la \in in[1] BY <1>6, <1>9, <1>10
    <3>4. la + 4 + 1 >= la + 1 BY <1>2
    <3> QED BY <2>1, <3>1, <3>2, <3>3, <3>4 DEF CountedAt
  <2>3. t \in BARRIERS BY <1>8, <1>10 DEF UNCHECKED, BARRIERS
  <2> QED BY <2>2, <2>3
<1>11. CASE ~Ends(b, g)
  <2>1. 4 * t.phase + s = la BY <1>7, <1>8, <1>11
  <2>2. CountedAt(n, t, s, la + 1, in)
    <3>1. la < la + 1 /\ la < n BY <1>2
    <3>2. t.left = 0 /\ t.bytes = 2 - Got(in, la) BY <1>2, <1>6, <1>8, <1>11
    <3>3. la >= 4 => la - 4 < la + 1 /\ la - 4 < n /\ la - 4 \in in[0] /\ la - 4 \in in[1]
      BY <1>1, <1>2, <1>5 DEF CountedAt
    <3>4. Got(in, la) < 2 BY <1>6, <1>9, <1>11
    <3> QED BY <1>2, <2>1, <3>1, <3>2, <3>3, <3>4 DEF CountedAt
  <2>3. t \in BARRIERS BY <1>8, <1>11 DEF UNCHECKED, BARRIERS
  <2> QED BY <2>2, <2>3
<1> QED BY <1>10, <1>11

\* When its wait for the last iteration's inputs is over, both loads landed.
LEMMA LauncherWaits ==
  ASSUME NEW n \in Nat, NEW la \in 1 .. n, NEW b \in BARRIERS, NEW in,
         CountedAt(n, b, Stage(la - 1), la, in), b.phase % 2 # Lap(la - 1) % 2
  PROVE  /\ 4 * b.phase + Stage(la - 1) = la + 3
         /\ la - 1 \in in[0] /\ la - 1 \in in[1]
<1> DEFINE i == 4 * b.phase + Stage(la - 1)
<1>1. la - 1 \in Nat /\ b.phase \in Nat BY DEF BARRIERS
<1>2. /\ i \in Nat
      /\ b.phase < Lap(la - 1) => i + 4 <= la - 1
      /\ b.phase = Lap(la - 1) => i = la - 1
      /\ b.phase > Lap(la - 1) => i >= la + 3
  <2>1. la - 1 + 4 = la + 3 BY <1>1
  <2> QED BY <1>1, <2>1, PhaseOf
<1>3. i + 1 >= la /\ (i >= 4 => i - 4 < la /\ i - 4 \in in[0] /\ i - 4 \in in[1])
  BY DEF CountedAt
<1>4. Lap(la - 1) \in Nat BY <1>1, StageIs
<1> HIDE DEF i
<1>5. i >= la + 3 BY <1>1, <1>2, <1>3, <1>4
<1>6. i = la + 3 /\ i - 4 = la - 1 BY <1>1, <1>2, <1>3, <1>5
<1> QED BY <1>1, <1>3, <1>6 DEF i

\* The other barriers when the launcher comes to its next step.
LEMMA ArrivedKept ==
  ASSUME NEW n \in Nat, NEW la \in 0 .. n, NEW b \in BARRIERS, NEW in, NEW s \in 0 .. 3,
         CountedAt(n, b, s, la, in), la = n \/ s # Stage(la),
         la >= 1 /\ s = Stage(la - 1) => 4 * b.phase + s = la + 3
  PROVE  CountedAt(n, b, s, la + 1, in)
<1> DEFINE i == 4 * b.phase + s
<1>1. i \in Nat /\ Stage(i) = s
  <2>1. b.phase \in Nat /\ i = 4 * b.phase + s BY DEF BARRIERS
  <2> HIDE DEF i
  <2> QED BY <2>1, StageOf
<1>2. i + 1 >= la BY DEF CountedAt
<1>3. i >= la
  <2>1. CASE la >= 1 /\ s = Stage(la - 1) BY <2>1
  <2>2. CASE ~(la >= 1 /\ s = Stage(la - 1))
    <3>1. i # la - 1 BY <1>1, <2>2
    <3> HIDE DEF i
    <3> QED BY <1>1, <1>2, <3>1
  <2> QED BY <2>1, <2>2
<1>4. (i < la /\ i < n) <=> (i < la + 1 /\ i < n)
  <2>1. la = n \/ i # la BY <1>1
  <2> HIDE DEF i
  <2> QED BY <1>1, <1>3, <2>1
<1>5. i + 1 >= la + 1 /\ (i >= 4 /\ i - 4 < la => i - 4 < la + 1)
  <2> HIDE DEF i
  <2> QED BY <1>1, <1>3
<1> QED BY <1>4, <1>5 DEF CountedAt

\* A load of CTA c lands: with both, and the launcher expecting them, a phase ends.
LEMMA LandingArrives ==
  ASSUME NEW n \in Nat, NEW la \in 0 .. n, NEW b \in BARRIERS, NEW in, NEW out,
         NEW c \in {0, 1}, NEW i \in 0 .. n - 1, NEW s \in 0 .. 3, s = Stage(i),
         i \notin in[c], out[c] = in[c] \cup {i}, out[1 - c] = in[1 - c],
         la <= i + 1, i >= 4 => la >= i - 2, i + 4 \notin in[0], i + 4 \notin in[1],
         CountedAt(n, b, s, la, in),
         NEW g, g.arrivals = 0, g.bytes = -1, NEW t, After(t, b, 1, g)
  PROVE  CountedAt(n, t, s, la, out) /\ t \in BARRIERS
<1>1. PICK j : j = 4 * b.phase + s OBVIOUS
<1>2. i \in Nat /\ la \in Nat /\ b.phase \in Nat /\ b.left \in Nat /\ b.bytes \in Int
  BY DEF BARRIERS
<1>3. j \in Nat /\ (j < i => j + 4 <= i) /\ (i < j => i + 4 <= j)
  BY <1>1, <1>2, PhaseAt
<1>4. /\ b.left = IF j < la /\ j < n THEN 0 ELSE 1
      /\ b.bytes = (IF j < la /\ j < n THEN 2 ELSE 0) - Got(in, j)
      /\ j + 1 >= la
      /\ j < la /\ j < n => Got(in, j) < 2
      /\ j >= 4 => j - 4 < la /\ j - 4 < n /\ j - 4 \in in[0] /\ j - 4 \in in[1]
  BY <1>1 DEF CountedAt
<1>5. j = i
  <2>1. ~(j < i) BY <1>2, <1>3, <1>4
  <2>2. ~(j > i)
    <3> SUFFICES ASSUME j > i PROVE FALSE BY <1>2, <1>3
    <3>1. j >= 4 /\ j - 4 >= i BY <1>2, <1>3
    <3>2. j - 4 = i BY <1>2, <1>3, <1>4, <3>1
    <3> QED BY <1>4, <3>1, <3>2
  <2> QED BY <1>2, <1>3, <2>1, <2>2
<1>6. Got(out, i) = Got(in, i) + 1 /\ Got(in, i) \in 0 .. 1 /\ Got(out, i + 4) = 0
  <2>1. i + 4 # i BY <1>2
  <2>2. CASE c = 0 BY <2>1, <2>2 DEF Got
  <2>3. CASE c = 1 BY <2>1, <2>3 DEF Got
  <2> QED BY <2>2, <2>3
<1>7. Got(out, i) = 2 <=> i \in out[0] /\ i \in out[1] BY GotIs
<1>8. \A l : l \in in[0] /\ l \in in[1] => l \in out[0] /\ l \in out[1] OBVIOUS
<1>9. 4 * b.phase + s = i BY <1>1, <1>5
<1>10. /\ t \in UNCHECKED
       /\ t.phase = IF Ends(b, g) THEN b.phase + 1 ELSE b.phase
       /\ t.left = IF Ends(b, g) THEN 1 ELSE b.left
       /\ t.bytes = IF Ends(b, g) THEN 0 ELSE b.bytes - 1
  BY <1>2 DEF After
<1>11. Ends(b, g) <=> i < la /\ Got(out, i) = 2
  BY <1>2, <1>4, <1>5, <1>6 DEF Ends
<1>12. CASE Ends(b, g)
  <2>1. 4 * t.phase + s = i + 4 BY <1>2, <1>3, <1>9, <1>10, <1>12
  <2>2. ~(i + 4 < la) /\ i + 4 + 1 >= la /\ i + 4 - 4 = i /\ i < n BY <1>2
  <2>3. t.left = 1 /\ t.bytes = 0 - Got(out, i + 4) BY <1>6, <1>10, <1>12
  <2>4. i < la /\ i \in out[0] /\ i \in out[1] BY <1>7, <1>11, <1>12
  <2>5. CountedAt(n, t, s, la, out) BY <2>1, <2>2, <2>3, <2>4 DEF CountedAt
  <2>6. t \in BARRIERS BY <1>10, <1>12 DEF UNCHECKED, BARRIERS
  <2> QED BY <2>5, <2>6
<1>13. CASE ~Ends(b, g)
  <2>1. 4 * t.phase + s = i BY <1>9, <1>10, <1>13
  <2>2. t.left = IF i < la /\ i < n THEN 0 ELSE 1 BY <1>4, <1>5, <1>10, <1>13
  <2>3. t.bytes = (IF i < la /\ i < n THEN 2 ELSE 0) - Got(out, i)
    BY <1>2, <1>4, <1>5, <1>6, <1>10, <1>13
  <2>4. i < la /\ i < n => Got(out, i) < 2 BY <1>6, <1>11, <1>13
  <2>5. i + 1 >= la OBVIOUS
  <2>6. i >= 4 => i - 4 < la /\ i - 4 < n /\ i - 4 \in out[0] /\ i - 4 \in out[1]
    BY <1>4, <1>5, <1>8
  <2>7. CountedAt(n, t, s, la, out)
    BY <2>1, <2>2, <2>3, <2>4, <2>5, <2>6 DEF CountedAt
  <2>8. t \in BARRIERS BY <1>2, <1>10, <1>13 DEF UNCHECKED, BARRIERS
  <2> QED BY <2>7, <2>8
<1> QED BY <1>12, <1>13

\* The barriers of other stages when a load lands.
LEMMA LandingElsewhere ==
  ASSUME NEW n \in Nat, NEW la \in 0 .. n, NEW b \in BARRIERS, NEW in, NEW out,
         NEW c \in {0, 1}, NEW i \in 0 .. n - 1,
         out[c] = in[c] \cup {i}, out[1 - c] = in[1 - c],
         NEW s \in 0 .. 3, s # Stage(i), CountedAt(n, b, s, la, in)
  PROVE  CountedAt(n, b, s, la, out)
<1> DEFINE j == 4 * b.phase + s
<1>1. j \in Nat /\ Stage(j) = s
  <2>1. b.phase \in Nat /\ j = 4 * b.phase + s BY DEF BARRIERS
  <2> HIDE DEF j
  <2> QED BY <2>1, StageOf
<1>2. j # i BY <1>1
<1>3. Got(out, j) = Got(in, j)
  <2> HIDE DEF j
  <2>1. CASE c = 0 BY <1>2, <2>1 DEF Got
  <2>2. CASE c = 1 BY <1>2, <2>2 DEF Got
  <2> QED BY <2>1, <2>2
<1>4. \A l : l \in in[0] /\ l \in in[1] => l \in out[0] /\ l \in out[1] OBVIOUS
<1> QED BY <1>3, <1>4 DEF CountedAt

---------------------------------------------------------------------------
(* The barrier that counts the multiplications.                            *)

\* A multiplication of iteration i, for one of the two warpgroups, is done.
LEMMA MultiplyArrives ==
  ASSUME NEW n \in Nat, NEW i \in 0 .. n - 1, NEW w \in {0, 1}, NEW m, m = 2 * i + w,
         NEW s \in 0 .. 3, s = Stage(i),
         NEW b \in BARRIERS, MultipliedAt(n, b, s, m),
         NEW g, g.arrivals = 1, g.bytes = 0, NEW t, After(t, b, 2, g)
  PROVE  MultipliedAt(n, t, s, m + 1) /\ t \in BARRIERS
<1>1. PICK j : j = 4 * b.phase + s OBVIOUS
<1>2. i \in Nat /\ b.phase \in Nat /\ b.left \in Nat /\ b.bytes \in Int
  BY DEF BARRIERS
<1>3. j \in Nat /\ (j < i => j + 4 <= i) /\ (i < j => i + 4 <= j)
  BY <1>1, <1>2, PhaseAt
<1>4. /\ b.bytes = 0
      /\ b.left = IF j < n /\ m = 2 * j + 1 THEN 1 ELSE 2
      /\ j < n => m < 2 * j + 2
      /\ j >= 4 => j - 4 < n /\ m >= 2 * j - 6
  BY <1>1 DEF MultipliedAt
<1>5. j = i
  <2>1. ~(j < i) BY <1>2, <1>3, <1>4
  <2>2. ~(j > i) BY <1>2, <1>3, <1>4
  <2> QED BY <1>2, <1>3, <2>1, <2>2
<1>6. 4 * b.phase + s = i BY <1>1, <1>5
<1>7. b.left = IF w = 1 THEN 1 ELSE 2 BY <1>2, <1>4, <1>5
<1>8. Ends(b, g) <=> w = 1 BY <1>4, <1>7 DEF Ends
<1>9. /\ t \in UNCHECKED
      /\ t.phase = IF w = 1 THEN b.phase + 1 ELSE b.phase
      /\ t.left = IF w = 1 THEN 2 ELSE 1
      /\ t.bytes = 0
  BY <1>2, <1>4, <1>7, <1>8 DEF After
<1>10. CASE w = 1
  <2>1. 4 * t.phase + s = i + 4 BY <1>2, <1>3, <1>6, <1>9, <1>10
  <2>2. m + 1 = 2 * i + 2 BY <1>2, <1>10
  <2>3. m + 1 # 2 * (i + 4) + 1 /\ m + 1 < 2 * (i + 4) + 2 /\ m + 1 >= 2 * (i + 4) - 6
        /\ i + 4 - 4 < n
    BY <1>2, <2>2
  <2>4. MultipliedAt(n, t, s, m + 1) BY <1>9, <1>10, <2>1, <2>3 DEF MultipliedAt
  <2>5. t \in BARRIERS BY <1>9, <1>10 DEF UNCHECKED, BARRIERS
  <2> QED BY <2>4, <2>5
<1>11. CASE w = 0
  <2>1. 4 * t.phase + s = i BY <1>6, <1>9, <1>11
  <2>2. m + 1 = 2 * i + 1 /\ i < n /\ m + 1 < 2 * i + 2 BY <1>2, <1>11
  <2>3. i >= 4 => i - 4 < n /\ m + 1 >= 2 * i - 6 BY <1>2, <1>11
  <2>4. MultipliedAt(n, t, s, m + 1) BY <1>9, <1>11, <2>1, <2>2, <2>3 DEF MultipliedAt
  <2>5. t \in BARRIERS BY <1>9, <1>11 DEF UNCHECKED, BARRIERS
  <2> QED BY <2>4, <2>5
<1> QED BY <1>10, <1>11

\* The barriers of other stages when a multiplication is done.
LEMMA MultiplyElsewhere ==
  ASSUME NEW n \in Nat, NEW i \in 0 .. n - 1, NEW w \in {0, 1}, NEW m, m = 2 * i + w,
         NEW b \in BARRIERS, NEW s \in 0 .. 3, s # Stage(i), MultipliedAt(n, b, s, m)
  PROVE  MultipliedAt(n, b, s, m + 1)
<1> DEFINE j == 4 * b.phase + s
<1>1. j \in Nat /\ Stage(j) = s
  <2>1. b.phase \in Nat /\ j = 4 * b.phase + s BY DEF BARRIERS
  <2> HIDE DEF j
  <2> QED BY <2>1, StageOf
<1>2. j # i BY <1>1
<1>3. /\ b.bytes = 0
      /\ b.left = IF j < n /\ m = 2 * j + 1 THEN 1 ELSE 2
      /\ j < n => m < 2 * j + 2
      /\ j >= 4 => j - 4 < n /\ m >= 2 * j - 6
  BY DEF MultipliedAt
<1>4. j \in Nat BY <1>1
<1>5. /\ b.bytes = 0
      /\ b.left = IF j < n /\ m + 1 = 2 * j + 1 THEN 1 ELSE 2
      /\ j < n => m + 1 < 2 * j + 2
      /\ j >= 4 => j - 4 < n /\ m + 1 >= 2 * j - 6
  <2> HIDE DEF j
  <2>1. i \in Nat BY <1>4
  <2>2. CASE w = 0 BY <1>2, <1>3, <1>4, <2>1, <2>2
  <2>3. CASE w = 1 BY <1>2, <1>3, <1>4, <2>1, <2>3
  <2> QED BY <2>2, <2>3
<1> QED BY <1>5 DEF MultipliedAt

\* The commit behind the last multiplication leaves these barriers alone.
LEMMA CommitElsewhere ==
  ASSUME NEW n \in Nat, NEW b \in BARRIERS, NEW s \in 0 .. 3, MultipliedAt(n, b, s, 2 * n)
  PROVE  MultipliedAt(n, b, s, 2 * n + 1)
<1> DEFINE j == 4 * b.phase + s
<1>1. j \in Nat BY DEF BARRIERS
<1>2. /\ b.bytes = 0
      /\ b.left = IF j < n /\ 2 * n = 2 * j + 1 THEN 1 ELSE 2
      /\ j < n => 2 * n < 2 * j + 2
      /\ j >= 4 => j - 4 < n /\ 2 * n >= 2 * j - 6
  BY DEF MultipliedAt
<1>3. /\ b.bytes = 0
      /\ b.left = IF j < n /\ 2 * n + 1 = 2 * j + 1 THEN 1 ELSE 2
      /\ j < n => 2 * n + 1 < 2 * j + 2
      /\ j >= 4 => j - 4 < n /\ 2 * n + 1 >= 2 * j - 6
  <2> HIDE DEF j
  <2> QED BY <1>1, <1>2
<1> QED BY <1>3 DEF MultipliedAt

\* The loader's wait at iteration i is over: iteration i - 4 is multiplied.
LEMMA LoaderWaits ==
  ASSUME NEW n \in Nat, NEW i \in 4 .. n + 3, NEW m \in Nat, NEW b \in BARRIERS,
         i >= 5 => m >= 2 * i - 8, MultipliedAt(n, b, Stage(i), m),
         b.phase % 2 # (Lap(i) + 1) % 2
  PROVE  m >= 2 * i - 6
<1> DEFINE j == 4 * b.phase + Stage(i)
<1>1. i \in Nat /\ b.phase \in Nat BY DEF BARRIERS
<1>2. Lap(i) \in Nat BY <1>1, StageIs
<1>3. (b.phase - Lap(i)) % 2 = 0 BY <1>1, <1>2
<1>4. /\ j \in Nat
      /\ b.phase < Lap(i) => j + 8 <= i
      /\ b.phase = Lap(i) => j = i
      /\ b.phase > Lap(i) => j >= i + 4
  BY <1>1, <1>2, <1>3, PhaseOf
<1>5. (j < n => m < 2 * j + 2) /\ (j >= 4 => m >= 2 * j - 6) BY DEF MultipliedAt
<1> HIDE DEF j
<1>6. ~(b.phase < Lap(i))
  <2> SUFFICES ASSUME b.phase < Lap(i) PROVE FALSE OBVIOUS
  <2>1. j + 8 <= i BY <1>4
  <2>2. j < n /\ i >= 5 BY <1>1, <1>4, <2>1
  <2> QED BY <1>1, <1>4, <1>5, <2>1, <2>2
<1>7. j >= i BY <1>1, <1>2, <1>4, <1>6
<1> QED BY <1>1, <1>4, <1>5, <1>7

---------------------------------------------------------------------------
(* The pages of the inputs.                                                *)

\* The pages of the four stages.
LEMMA StagePages ==
  ASSUME MatmulConfig
  PROVE  /\ ALid(0) = 0 /\ ALid(1) = 2 /\ ALid(2) = 3 /\ ALid(3) = 5
         /\ BLid(0) = 1 /\ BLid(1) = 1 /\ BLid(2) = 4 /\ BLid(3) = 4
<1>1. 0 \div 2 = 0 /\ 1 \div 2 = 0 /\ 2 \div 2 = 1 /\ 3 \div 2 = 1 OBVIOUS
<1> QED BY <1>1 DEF ALid, BLid, A_LIDS, B_LIDS

\* A region is a page and a part.
LEMMA PairIs ==
  ASSUME NEW x, NEW y, NEW r, r = <<x, y>>
  PROVE  r[1] = x /\ r[2] = y /\ r = <<r[1], r[2]>>
<1>1. r[1] = x /\ r[2] = y OBVIOUS
<1> QED BY <1>1, Zenon

\* The regions of a stage: both parts of its page for A, one of its page for B.
LEMMA InputsAre ==
  ASSUME MatmulConfig, NEW s \in 0 .. 3, NEW r
  PROVE  r \in Inputs(s) <=>
           (\E w \in {0, 1} : r = <<ALid(s), w>>) \/ r = <<BLid(s), s % 2>>
<1>1. CONSUMERS = {0, 1} BY ConfigIs
<1>2. \A x, y : r \in Part(x, y) <=> r = <<x, y>> BY DEF Part
<1> DEFINE X == UNION {Part(ALid(s), w) : w \in CONSUMERS}
           Y == Part(BLid(s), s % 2)
<1>3. r \in X <=> \E w \in CONSUMERS : r \in Part(ALid(s), w) OBVIOUS
<1>4. (\E w \in CONSUMERS : r \in Part(ALid(s), w)) <=>
        \E w \in {0, 1} : r = <<ALid(s), w>>
  BY <1>1, <1>2, Zenon
<1>5. r \in Y <=> r = <<BLid(s), s % 2>> BY <1>2, Zenon
<1>6. Inputs(s) = X \cup Y BY Zenon DEF Inputs
<1> HIDE DEF X, Y
<1>7. r \in Inputs(s) <=> r \in X \/ r \in Y BY <1>6
<1> QED BY <1>3, <1>4, <1>5, <1>7, Zenon

\* A region of a stage is in one of its two pages.
LEMMA InputsAt ==
  ASSUME MatmulConfig, NEW s \in 0 .. 3, NEW r \in Inputs(s)
  PROVE  /\ r = <<r[1], r[2]>> /\ r[1] \in 0 .. 5 /\ r[2] \in {0, 1}
         /\ r[1] = ALid(s) \/ (r[1] = BLid(s) /\ r[2] = s % 2)
<1> DEFINE a == ALid(s)
           b == BLid(s)
           p == s % 2
<1>1. (\E w \in {0, 1} : r = <<a, w>>) \/ r = <<b, p>> BY InputsAre, Zenon
<1>2. a \in 0 .. 5 /\ b \in 0 .. 5 BY StagePages
<1>3. p \in {0, 1} OBVIOUS
<1> HIDE DEF a, b, p
<1>4. ASSUME NEW lid, NEW part, r = <<lid, part>>,
             part \in {0, 1}, lid = a \/ (lid = b /\ part = p)
      PROVE  /\ r = <<r[1], r[2]>> /\ r[1] \in 0 .. 5 /\ r[2] \in {0, 1}
             /\ r[1] = a \/ (r[1] = b /\ r[2] = p)
  <2>1. r = <<lid, part>> BY <1>4
  <2>2. r[1] = lid /\ r[2] = part /\ r = <<r[1], r[2]>> BY <2>1, PairIs, Zenon
  <2>3. lid \in 0 .. 5 /\ part \in {0, 1} /\ (lid = a \/ (lid = b /\ part = p))
    BY <1>2, <1>4
  <2>4. r[1] \in 0 .. 5 /\ r[2] \in {0, 1} /\ (r[1] = a \/ (r[1] = b /\ r[2] = p))
    BY <2>2, <2>3, Zenon
  <2> QED BY <2>2, <2>4, Zenon
<1>5. CASE \E w \in {0, 1} : r = <<a, w>>
  <2>1. PICK w \in {0, 1} : r = <<a, w>> BY <1>5
  <2>2. w \in {0, 1} OBVIOUS
  <2>3. a = a \/ (a = b /\ w = p) OBVIOUS
  <2>4. /\ r = <<r[1], r[2]>> /\ r[1] \in 0 .. 5 /\ r[2] \in {0, 1}
        /\ r[1] = a \/ (r[1] = b /\ r[2] = p)
    BY <1>4, <2>1, <2>2, <2>3
  <2> QED BY <2>4, Zenon DEF a, b, p
<1>6. CASE r = <<b, p>> BY <1>3, <1>4, <1>6, Zenon DEF a, b, p
<1> QED BY <1>1, <1>5, <1>6

\* Two stages have no region in common.
LEMMA InputsApart ==
  ASSUME MatmulConfig, NEW s \in 0 .. 3, NEW u \in 0 .. 3, s # u,
         NEW r \in Inputs(s)
  PROVE  r \notin Inputs(u)
<1> SUFFICES ASSUME r \in Inputs(u) PROVE FALSE OBVIOUS
<1>1. /\ r[1] = ALid(s) \/ (r[1] = BLid(s) /\ r[2] = s % 2)
      /\ r[1] = ALid(u) \/ (r[1] = BLid(u) /\ r[2] = u % 2)
  BY InputsAt
<1>2. 0 % 2 = 0 /\ 1 % 2 = 1 /\ 2 % 2 = 0 /\ 3 % 2 = 1 OBVIOUS
<1>3. s \in {0, 1, 2, 3} /\ u \in {0, 1, 2, 3} OBVIOUS
<1> QED BY <1>1, <1>2, <1>3, StagePages

\* A stage has page 0 for its inputs only if it is the first.
LEMMA FirstPage ==
  ASSUME MatmulConfig, NEW s \in 0 .. 3, NEW r \in Inputs(s), r[1] = 0
  PROVE  s = 0
<1>1. r[1] = ALid(s) \/ r[1] = BLid(s) BY InputsAt
<1>2. s \in {0, 1, 2, 3} OBVIOUS
<1> QED BY <1>1, <1>2, StagePages

PagesFor(i) ==
  IF i >= 4 THEN {}
  ELSE {ALid(Stage(i))} \cup (IF Stage(i) % 2 = 0 THEN {BLid(Stage(i))} ELSE {})
FinishesAt(n, i) == IF i < n THEN {} ELSE DrainedPages[Stage(i)]

\* The loader waits for each page in one step,
LEMMA PagesForAre ==
  ASSUME MatmulConfig, NEW i \in Nat
  PROVE  /\ PagesFor(i) \subseteq 0 .. 5
         /\ \A lid \in 0 .. 5 : lid \in PagesFor(i) <=> i + 1 = GivenAt(lid)
<1>1. 0 % 2 = 0 /\ 1 % 2 = 1 /\ 2 % 2 = 0 /\ 3 % 2 = 1 OBVIOUS
<1>2. i < 4 => Stage(i) = i BY DEF Stage, LOAD_PIPE_DEPTH
<1>3. \A lid \in 0 .. 5 : GivenAt(lid) <= 4 BY DEF GivenAt
<1>4. CASE i >= 4 BY <1>3, <1>4 DEF PagesFor, GivenAt
<1>5. CASE i = 0
  <2>1. PagesFor(i) = {0, 1} BY <1>1, <1>2, <1>5, StagePages DEF PagesFor
  <2> QED BY <1>5, <2>1 DEF GivenAt
<1>6. CASE i = 1
  <2>1. PagesFor(i) = {2} BY <1>1, <1>2, <1>6, StagePages DEF PagesFor
  <2> QED BY <1>6, <2>1 DEF GivenAt
<1>7. CASE i = 2
  <2>1. PagesFor(i) = {3, 4} BY <1>1, <1>2, <1>7, StagePages DEF PagesFor
  <2> QED BY <1>7, <2>1 DEF GivenAt
<1>8. CASE i = 3
  <2>1. PagesFor(i) = {5} BY <1>1, <1>2, <1>8, StagePages DEF PagesFor
  <2> QED BY <1>8, <2>1 DEF GivenAt
<1> QED BY <1>4, <1>5, <1>6, <1>7, <1>8

\* and finishes each when it drains one stage.
LEMMA FinishesAre ==
  ASSUME MatmulConfig, NEW n \in Nat, NEW i \in Nat
  PROVE  /\ FinishesAt(n, i) \subseteq 1 .. 5
         /\ \A lid \in 1 .. 5 :
              lid \in FinishesAt(n, i) <=> i >= n /\ Stage(i) = DrainAt(lid)
<1>1. Stage(i) \in {0, 1, 2, 3} BY StageIs
<1>2. 0 % 2 = 0 /\ 1 % 2 = 1 /\ 2 % 2 = 0 /\ 3 % 2 = 1 OBVIOUS
<1>3. /\ DrainedPages[0] = {} /\ DrainedPages[1] = {1, 2}
      /\ DrainedPages[2] = {3} /\ DrainedPages[3] = {4, 5}
  <2>1. STAGES = {0, 1, 2, 3} BY ConfigIs
  <2> QED BY <1>2, <2>1, StagePages DEF DrainedPages
<1>4. CASE i < n BY <1>4 DEF FinishesAt
<1>5. CASE i >= n
  <2>1. FinishesAt(n, i) = DrainedPages[Stage(i)] BY <1>5 DEF FinishesAt
  <2>2. CASE Stage(i) = 0 BY <1>3, <1>5, <2>1, <2>2 DEF DrainAt
  <2>3. CASE Stage(i) = 1 BY <1>3, <1>5, <2>1, <2>3 DEF DrainAt
  <2>4. CASE Stage(i) = 2 BY <1>3, <1>5, <2>1, <2>4 DEF DrainAt
  <2>5. CASE Stage(i) = 3 BY <1>3, <1>5, <2>1, <2>5 DEF DrainAt
  <2> QED BY <1>1, <2>2, <2>3, <2>4, <2>5
<1> QED BY <1>4, <1>5

\* A stage is drained in one more step.
LEMMA DrainedNext ==
  ASSUME NEW n \in Nat, NEW i \in 0 .. n + 3, NEW s
  PROVE  Drained(n, i + 1, s) <=> Drained(n, i, s) \/ (i >= n /\ Stage(i) = s)
<1>1. i \in Nat OBVIOUS
<1>2. \A j \in n .. n + 3 : j < i + 1 <=> j < i \/ j = i BY <1>1
<1>3. i >= n => i \in n .. n + 3 BY <1>1
<1> QED BY <1>2, <1>3 DEF Drained

\* The loader's step at iteration i waits for pages, or finishes some.
LEMMA LoaderPages ==
  ASSUME MatmulConfig, NEW n \in Nat, NEW k, NEW i \in 0 .. n + 3,
         NEW given, NEW finished, NEW six, NEW co, PagesAre(n, k, given, finished, i, six, co)
  PROVE  PagesAre(n, k, given \cup PagesFor(i), finished \cup FinishesAt(n, i), i + 1,
                  six, co)
<1>1. i \in Nat OBVIOUS
<1>2. \A lid \in 0 .. 5 : GivenAt(lid) \in Nat BY DEF GivenAt
<1>3. ASSUME NEW lid \in 0 .. 5
      PROVE  lid \in given \cup PagesFor(i) <=> i + 1 >= GivenAt(lid)
  <2>1. lid \in PagesFor(i) <=> i + 1 = GivenAt(lid) BY <1>1, PagesForAre
  <2>2. lid \in given <=> i >= GivenAt(lid) BY DEF PagesAre
  <2> QED BY <1>1, <1>2, <2>1, <2>2
<1>4. ASSUME NEW lid \in 1 .. 5
      PROVE  lid \in finished \cup FinishesAt(n, i) <=> Drained(n, i + 1, DrainAt(lid))
  <2>1. lid \in FinishesAt(n, i) <=> i >= n /\ Stage(i) = DrainAt(lid)
    BY <1>1, FinishesAre
  <2>2. lid \in finished <=> Drained(n, i, DrainAt(lid)) BY DEF PagesAre
  <2> QED BY <2>1, <2>2, DrainedNext
<1>5. 6 \notin PagesFor(i) /\ 6 \notin FinishesAt(n, i) /\ 0 \notin FinishesAt(n, i)
  BY <1>1, PagesForAre, FinishesAre
<1>6. (6 \in given <=> six) /\ (0 \in finished <=> co[0] = k + 2) /\ (6 \in finished <=> six)
  BY DEF PagesAre
<1> QED BY <1>3, <1>4, <1>5, <1>6 DEF PagesAre

\* The pages of an iteration that is begun, while the loader has not come to its
\* stage again: they were waited for and are not finished.  That needs an even
\* number of iterations, as two stages share a page.
LEMMA PagesUsable ==
  ASSUME MatmulConfig, NEW n, Iterations(n), NEW k, NEW i \in 0 .. n - 1, NEW l \in 0 .. n + 4,
         i < l, l <= i + 4,
         NEW given, NEW finished, NEW six, NEW co, PagesAre(n, k, given, finished, l, six, co),
         co[0] # k + 2, NEW r \in Inputs(Stage(i))
  PROVE  r[1] \in given \ finished
<1> DEFINE s == Stage(i)
<1>1. n \in Nat /\ i \in Nat /\ l \in Nat /\ n % 2 = 0 BY DEF Iterations
<1>2. s \in {0, 1, 2, 3} BY <1>1, StageIs
<1>3. r[1] = ALid(s) \/ r[1] = BLid(s) BY <1>1, StageIs, InputsAt
<1>4. i >= s BY <1>1, StageAtMost
<1>5. r[1] \in 0 .. 5 BY <1>1, StageIs, InputsAt
<1>6. r[1] \in given
  <2>1. l >= GivenAt(r[1])
    <3>1. CASE s = 0 BY <1>1, <1>3, <1>4, <3>1, StagePages DEF GivenAt
    <3>2. CASE s = 1 BY <1>1, <1>3, <1>4, <3>2, StagePages DEF GivenAt
    <3>3. CASE s = 2 BY <1>1, <1>3, <1>4, <3>3, StagePages DEF GivenAt
    <3>4. CASE s = 3 BY <1>1, <1>3, <1>4, <3>4, StagePages DEF GivenAt
    <3> QED BY <1>2, <3>1, <3>2, <3>3, <3>4
  <2> QED BY <1>5, <2>1 DEF PagesAre
<1>7. ASSUME NEW j \in n .. n + 3, j < l
      PROVE  /\ Stage(j) # s
             /\ s = 0 => Stage(j) # 1
             /\ s = 2 => Stage(j) # 3
  <2>1. j \in Nat /\ i < j /\ j < i + 4 BY <1>1, <1>7
  <2>2. Stage(j) # s
    <3> SUFFICES ASSUME Stage(j) = s PROVE FALSE OBVIOUS
    <3>1. i + 4 <= j BY <1>1, <2>1, SameStage
    <3> QED BY <1>1, <2>1, <3>1
  <2>3. ASSUME Stage(j) = s + 1, s \in {0, 2} PROVE FALSE
    <3>1. /\ i = 4 * Lap(i) + Stage(i) /\ Lap(i) \in Nat
          /\ j = 4 * Lap(j) + Stage(j) /\ Lap(j) \in Nat
      BY <1>1, <2>1, StageIs
    <3>2. j = i + 1
      <4>1. j - i = 4 * (Lap(j) - Lap(i)) + 1 BY <1>1, <2>3, <3>1
      <4> QED BY <1>1, <2>1, <3>1, <4>1
    <3>3. n = i + 1 BY <1>1, <1>7, <3>2
    <3>4. i % 2 = 0 BY <1>1, <2>3, <3>1
    <3> QED BY <1>1, <3>3, <3>4
  <2> QED BY <2>2, <2>3
<1>8. r[1] \notin finished
  <2>1. CASE r[1] = 0 BY <2>1 DEF PagesAre
  <2>2. CASE r[1] # 0
    <3>1. r[1] \in 1 .. 5 BY <1>5, <2>2
    <3>2. DrainAt(r[1]) = s \/ (s = 0 /\ DrainAt(r[1]) = 1) \/ (s = 2 /\ DrainAt(r[1]) = 3)
      BY <1>2, <1>3, <2>2, StagePages DEF DrainAt
    <3>3. ~Drained(n, l, DrainAt(r[1])) BY <1>7, <3>2 DEF Drained
    <3> QED BY <3>1, <3>3 DEF PagesAre
  <2> QED BY <2>1, <2>2
<1> QED BY <1>6, <1>8

\* What the loader waits for was not finished, what it finishes is its own.
LEMMA LoaderPagesOwn ==
  ASSUME MatmulConfig, NEW n, Iterations(n), NEW k, NEW i \in 0 .. n + 3,
         NEW given, NEW finished, NEW six, NEW co, PagesAre(n, k, given, finished, i, six, co),
         co[0] = k + 2 => i >= n
  PROVE  /\ PagesFor(i) \cap finished = {}
         /\ FinishesAt(n, i) \subseteq (given \cup PagesFor(i)) \ finished
<1>1. n \in Nat /\ i \in Nat /\ n >= 2 BY DEF Iterations
<1>2. ASSUME NEW lid \in PagesFor(i) PROVE lid \notin finished
  <2>1. lid \in 0 .. 5 /\ i + 1 = GivenAt(lid) BY <1>1, PagesForAre
  <2>2. CASE lid = 0
    <3>1. i = 0 BY <1>1, <2>1, <2>2 DEF GivenAt
    <3> QED BY <1>1, <2>2, <3>1 DEF PagesAre
  <2>3. CASE lid \in 1 .. 5
    <3> SUFFICES ASSUME lid \in finished PROVE FALSE OBVIOUS
    <3>1. PICK j \in n .. n + 3 : j < i /\ Stage(j) = DrainAt(lid)
      BY <2>3 DEF PagesAre, Drained
    <3>2. i <= 3 BY <1>1, <2>1 DEF GivenAt
    <3>3. i = 3 /\ j = 2 BY <1>1, <3>1, <3>2
    <3>4. Stage(j) = 2 BY <3>3 DEF Stage, LOAD_PIPE_DEPTH
    <3>5. lid = 5 BY <2>1, <3>3 DEF GivenAt
    <3> QED BY <3>1, <3>4, <3>5 DEF DrainAt
  <2> QED BY <2>1, <2>2, <2>3
<1>3. ASSUME NEW lid \in FinishesAt(n, i)
      PROVE  lid \in given \cup PagesFor(i) /\ lid \notin finished
  <2>1. lid \in 1 .. 5 /\ i >= n /\ Stage(i) = DrainAt(lid) BY <1>1, FinishesAre
  <2>2. lid \in given \cup PagesFor(i)
    <3>1. i + 1 >= GivenAt(lid)
      <4>1. i >= Stage(i) BY <1>1, StageAtMost
      <4> QED BY <1>1, <2>1, <4>1 DEF GivenAt, DrainAt
    <3>2. lid \in 0 .. 5 BY <2>1
    <3>3. PagesAre(n, k, given \cup PagesFor(i), finished \cup FinishesAt(n, i), i + 1,
                   six, co)
      BY <1>1, LoaderPages
    <3> QED BY <3>1, <3>2, <3>3 DEF PagesAre
  <2>3. ~Drained(n, i, DrainAt(lid))
    <3> SUFFICES ASSUME Drained(n, i, DrainAt(lid)) PROVE FALSE OBVIOUS
    <3>1. PICK j \in n .. n + 3 : j < i /\ Stage(j) = Stage(i) BY <2>1 DEF Drained
    <3>2. j + 4 <= i BY <1>1, <3>1, SameStage
    <3> QED BY <1>1, <3>1, <3>2
  <2> QED BY <2>1, <2>2, <2>3 DEF PagesAre
<1> QED BY <1>2, <1>3

\* Page 0 is finished last, by the consumers.
LEMMA FinishedAreGiven ==
  ASSUME MatmulConfig, NEW n, Iterations(n), NEW k, NEW i \in 0 .. n + 4,
         NEW given, NEW finished, finished \subseteq LIDS,
         NEW six, NEW co, PagesAre(n, k, given, finished, i, six, co),
         co[0] = k + 2 => i >= n
  PROVE  finished \subseteq given
<1>1. n \in Nat /\ i \in Nat /\ n >= 2 BY DEF Iterations
<1> SUFFICES ASSUME NEW lid \in finished PROVE lid \in given OBVIOUS
<1>2. lid \in 0 .. 6 BY ConfigIs
<1>3. CASE lid = 6 BY <1>3 DEF PagesAre
<1>4. CASE lid = 0
  <2>1. i >= GivenAt(0) BY <1>1, <1>4 DEF PagesAre, GivenAt
  <2> QED BY <1>4, <2>1 DEF PagesAre
<1>5. CASE lid \in 1 .. 5
  <2>1. PICK j \in n .. n + 3 : j < i /\ Stage(j) = DrainAt(lid)
    BY <1>5 DEF PagesAre, Drained
  <2>2. i >= j + 1 /\ j >= 2 /\ j \in Nat BY <1>1, <2>1
  <2>3. j >= Stage(j) BY <2>2, StageAtMost
  <2>4. i >= GivenAt(lid) BY <1>1, <1>5, <2>1, <2>2, <2>3 DEF GivenAt, DrainAt
  <2> QED BY <1>5, <2>4 DEF PagesAre
<1> QED BY <1>2, <1>3, <1>4, <1>5

\* At the end all seven pages are finished.
LEMMA AllFinished ==
  ASSUME MatmulConfig, NEW n \in Nat, NEW k, NEW given, NEW finished, finished \subseteq LIDS,
         NEW co, PagesAre(n, k, given, finished, n + 4, TRUE, co), co[0] = k + 2
  PROVE  finished = LIDS
<1>1. ASSUME NEW s \in 0 .. 3 PROVE Drained(n, n + 4, s)
  <2>1. \E j \in n .. n + 3 : j < n + 4 /\ j % 4 = s
    <3>1. n % 4 \in 0 .. 3 OBVIOUS
    <3>2. n % 4 = s \/ (n + 1) % 4 = s \/ (n + 2) % 4 = s \/ (n + 3) % 4 = s OBVIOUS
    <3>3. \A d \in 0 .. 3 : n + d \in n .. n + 3 /\ n + d < n + 4 OBVIOUS
    <3>4. n + 0 = n OBVIOUS
    <3> QED BY <3>2, <3>3, <3>4
  <2> QED BY <2>1 DEF Drained, Stage, LOAD_PIPE_DEPTH
<1>2. \A lid \in 1 .. 5 : DrainAt(lid) \in 0 .. 3 BY DEF DrainAt
<1>3. \A lid \in 0 .. 6 : lid \in finished BY <1>1, <1>2 DEF PagesAre
<1> QED BY <1>3, ConfigIs

---------------------------------------------------------------------------
(* What is in the pages.                                                   *)

KeptFacts(contents, c, places) ==
  {f \in contents : f.cta = c => <<f.lid, f.part>> \notin places}

\* The fields of what is known of an input,
LEMMA InputFactIs ==
  ASSUME NEW c, NEW r, NEW i
  PROVE  /\ InputFact(c, r, i).cta = c /\ InputFact(c, r, i).lid = r[1]
         /\ InputFact(c, r, i).part = r[2]
  BY DEF InputFact

\* and of a result.
LEMMA ResultFactIs ==
  ASSUME NEW c, NEW w
  PROVE  /\ ResultFact(c, w).cta = c /\ ResultFact(c, w).lid = 0
         /\ ResultFact(c, w).part = w
  BY DEF ResultFact

\* A set of loads landed, per CTA.
LandedTyped(n, in) == in \in [CTAS -> SUBSET (0 .. n - 1)]

\* A load over a stage's pages only tears what is multiplied already.
LEMMA ContentsAfterLoad ==
  ASSUME MatmulConfig, NEW n \in Nat, NEW k, NEW contents, NEW m \in Nat, NEW in, NEW co,
         LandedTyped(n, in), ContentsAre(n, k, contents, m, in, co),
         NEW c \in CTAS, NEW s \in 0 .. 3,
         \A j \in in[c] : Stage(j) = s => m >= 2 * j + 2,
         \A w \in {0, 1} : ~(co[c][w] >= k)
  PROVE  ContentsAre(n, k, KeptFacts(contents, c, Inputs(s)), m, in, co)
<1> DEFINE kept == KeptFacts(contents, c, Inputs(s))
<1>1. ASSUME NEW d \in CTAS, NEW j \in in[d], m < 2 * j + 2, NEW r \in Inputs(Stage(j))
      PROVE  InputFact(d, r, j) \in kept
  <2>1. InputFact(d, r, j) \in contents BY <1>1 DEF ContentsAre
  <2>2. j \in 0 .. n - 1 BY DEF LandedTyped
  <2>3. j \in Nat BY <2>2
  <2>4. Stage(j) \in 0 .. 3 BY <2>3, StageIs
  <2>5. r = <<r[1], r[2]>> BY <2>4, InputsAt, Zenon
  <2>6. d = c => r \notin Inputs(s)
    <3> SUFFICES ASSUME d = c PROVE r \notin Inputs(s) OBVIOUS
    <3>1. ~(m >= 2 * j + 2) BY <1>1, <2>3
    <3>2. Stage(j) # s BY <3>1
    <3> QED BY <2>4, <3>2, InputsApart
  <2>7. d = c => <<InputFact(d, r, j).lid, InputFact(d, r, j).part>> \notin Inputs(s)
    <3>1. InputFact(d, r, j).lid = r[1] /\ InputFact(d, r, j).part = r[2] BY InputFactIs
    <3>2. <<InputFact(d, r, j).lid, InputFact(d, r, j).part>> = <<r[1], r[2]>> BY <3>1
    <3>3. <<InputFact(d, r, j).lid, InputFact(d, r, j).part>> = r BY <2>5, <3>2, Zenon
    <3> QED BY <2>6, <3>3, Zenon
  <2>8. InputFact(d, r, j).cta = d BY InputFactIs
  <2> QED BY <2>1, <2>7, <2>8 DEF KeptFacts
<1>2. ASSUME NEW d \in CTAS, NEW w \in {0, 1}, co[d][w] >= k
      PROVE  ResultFact(d, w) \in kept
  <2>1. d # c BY <1>2
  <2>2. ResultFact(d, w) \in contents BY <1>2 DEF ContentsAre
  <2>3. ResultFact(d, w).cta = d BY ResultFactIs
  <2> QED BY <2>1, <2>2, <2>3 DEF KeptFacts
<1> HIDE DEF kept
<1>3. ContentsAre(n, k, kept, m, in, co) BY <1>1, <1>2 DEF ContentsAre
<1> QED BY <1>3 DEF kept

\* The load of iteration i by CTA c lands.
Lands(in, out, c, i) ==
  /\ i \notin in[c]
  /\ \A d \in CTAS : out[d] = IF d = c THEN in[d] \cup {i} ELSE in[d]

\* What was in the pages of its stage is multiplied.
DoneWith(in, m, c, i) == \A j \in in[c] : Stage(j) = Stage(i) => m >= 2 * j + 2
WithInputs(contents, c, i) ==
  KeptFacts(contents, c, Inputs(Stage(i))) \cup {InputFact(c, r, i) : r \in Inputs(Stage(i))}

\* A load that lands puts its inputs over what is multiplied already.
LEMMA ContentsAfterLanding ==
  ASSUME MatmulConfig, NEW n \in Nat, NEW k, NEW contents, NEW m \in Nat, NEW in, NEW co,
         LandedTyped(n, in), ContentsAre(n, k, contents, m, in, co),
         NEW c \in CTAS, NEW i \in 0 .. n - 1, NEW out,
         Lands(in, out, c, i), DoneWith(in, m, c, i),
         \A w \in {0, 1} : ~(co[c][w] >= k)
  PROVE  ContentsAre(n, k, WithInputs(contents, c, i), m, out, co)
<1> DEFINE kept == KeptFacts(contents, c, Inputs(Stage(i)))
           new == {InputFact(c, r, i) : r \in Inputs(Stage(i))}
<1>1. Stage(i) \in 0 .. 3
  <2>1. i \in Nat OBVIOUS
  <2> QED BY <2>1, StageIs
<1>2. ContentsAre(n, k, kept, m, in, co)
  <2>1. \A j \in in[c] : Stage(j) = Stage(i) => m >= 2 * j + 2 BY DEF DoneWith
  <2> QED BY <1>1, <2>1, ContentsAfterLoad
<1>3. \A r \in Inputs(Stage(i)) : InputFact(c, r, i) \in new OBVIOUS
<1> HIDE DEF kept, new
<1>4. ASSUME NEW d \in CTAS, NEW j \in out[d], m < 2 * j + 2, NEW r \in Inputs(Stage(j))
      PROVE  InputFact(d, r, j) \in kept \cup new
  <2>1. CASE j \in in[d] BY <1>2, <1>4, <2>1 DEF ContentsAre
  <2>2. CASE j \notin in[d]
    <3>1. d = c /\ j = i BY <1>4, <2>2 DEF Lands
    <3> QED BY <1>3, <3>1
  <2> QED BY <2>1, <2>2
<1>5. ASSUME NEW d \in CTAS, NEW w \in {0, 1}, co[d][w] >= k
      PROVE  ResultFact(d, w) \in kept \cup new
  BY <1>2, <1>5 DEF ContentsAre
<1>6. ContentsAre(n, k, kept \cup new, m, out, co) BY <1>4, <1>5 DEF ContentsAre
<1> QED BY <1>6 DEF kept, new, WithInputs

\* A consumer's tiles in page 0, and the consumers that have stored theirs.
WithResult(contents, c, w) ==
  KeptFacts(contents, c, {<<0, w>>}) \cup {ResultFact(c, w)}
StoresNext(k, co, po, c, w) ==
  \A d \in CTAS, v \in {0, 1} : po[d][v] >= k => co[d][v] >= k \/ (d = c /\ v = w)

\* A consumer writes its results, when all inputs are multiplied.
LEMMA ContentsAfterStore ==
  ASSUME MatmulConfig, NEW n \in Nat, NEW k, NEW contents, NEW m, NEW in, NEW co, NEW po,
         LandedTyped(n, in), ContentsAre(n, k, contents, m, in, co), m = 2 * n + 1,
         NEW c \in CTAS, NEW w \in {0, 1},
         StoresNext(k, co, po, c, w)
  PROVE  ContentsAre(n, k, WithResult(contents, c, w), m, in, po)
<1> DEFINE kept == KeptFacts(contents, c, {<<0, w>>})
           new == {ResultFact(c, w)}
<1>1. ASSUME NEW d \in CTAS, NEW j \in in[d] PROVE ~(m < 2 * j + 2)
  <2>1. j \in 0 .. n - 1 BY DEF LandedTyped
  <2> QED BY <2>1
<1>2. ASSUME NEW d \in CTAS, NEW v \in {0, 1}, po[d][v] >= k
      PROVE  ResultFact(d, v) \in kept \cup new
  <2>1. CASE d = c /\ v = w
    <3>1. ResultFact(d, v) = ResultFact(c, w) BY <2>1
    <3>2. ResultFact(c, w) \in new OBVIOUS
    <3> HIDE DEF kept, new
    <3> QED BY <3>1, <3>2
  <2>2. CASE ~(d = c /\ v = w)
    <3>1. ResultFact(d, v) \in contents BY <1>2, <2>2 DEF ContentsAre, StoresNext
    <3>2. /\ ResultFact(d, v).cta = d /\ ResultFact(d, v).lid = 0
          /\ ResultFact(d, v).part = v
      BY ResultFactIs
    <3>3. d = c => <<ResultFact(d, v).lid, ResultFact(d, v).part>> \notin {<<0, w>>}
      <4> SUFFICES ASSUME d = c PROVE <<0, v>> \notin {<<0, w>>} BY <3>2
      <4>1. v # w BY <2>2
      <4> QED BY <4>1
    <3>4. ResultFact(d, v) \in kept BY <3>1, <3>2, <3>3 DEF KeptFacts
    <3> HIDE DEF kept, new
    <3> QED BY <3>4
  <2> QED BY <2>1, <2>2
<1> HIDE DEF kept, new
<1>3. ContentsAre(n, k, kept \cup new, m, in, po) BY <1>1, <1>2 DEF ContentsAre
<1> QED BY <1>3 DEF kept, new, WithResult

\* Nothing is written, and the inputs multiplied or the steps done only grow.
LEMMA ContentsStay ==
  ASSUME NEW n \in Nat, NEW k, NEW contents, NEW m \in Nat, NEW p \in Nat, m <= p, NEW in, NEW co,
         NEW po, LandedTyped(n, in), ContentsAre(n, k, contents, m, in, co),
         \A d \in CTAS, v \in {0, 1} : po[d][v] >= k => co[d][v] >= k
  PROVE  ContentsAre(n, k, contents, p, in, po)
<1>1. ASSUME NEW d \in CTAS, NEW j \in in[d], p < 2 * j + 2, NEW r \in Inputs(Stage(j))
      PROVE  InputFact(d, r, j) \in contents
  <2>1. j \in 0 .. n - 1 BY DEF LandedTyped
  <2>2. j \in Nat BY <2>1
  <2>3. m < 2 * j + 2 BY <1>1, <2>2
  <2> QED BY <2>3 DEF ContentsAre
<1> QED BY <1>1 DEF ContentsAre

---------------------------------------------------------------------------
(* How far the warps are apart.                                            *)

\* The queue of multiplications grows with the launcher.
LEMMA QueueSizes ==
  ASSUME NEW n \in Nat \ {0}, NEW la \in 0 .. n
  PROVE  /\ QueueLength(n, la) \in Nat /\ QueueLength(n, la) <= 2 * n - 2
         /\ la >= 1 => QueueLength(n, la) = 2 * la - 2
         /\ QueueLength(n, la) <= 2 * la
         /\ QueueLength(n, la + 1) =
              IF la = 0 THEN 0 ELSE IF la = n THEN 2 * n + 1 ELSE 2 * la
  BY DEF QueueLength

\* A load in flight is of an iteration that is not yet multiplied, and neither is
\* the one before it in its stage, while the loader has not come to the stage again.
LEMMA AheadOfLaunch ==
  ASSUME NEW n \in Nat \ {0}, NEW ld, NEW la, NEW m, Spread(n, ld, la, m),
         NEW c \in CTAS, NEW i \in 0 .. n - 1, i < ld[c], i + 1 >= la
  PROVE  /\ la \in 0 .. n /\ m \in Nat /\ m < 2 * i + 2 /\ m < 2 * n - 1
         /\ ld[c] <= i + 4
         /\ i >= 4 => la >= i - 2
         /\ \A d \in CTAS : ld[d] <= i + 4
<1>1. i \in Nat /\ la \in Nat /\ la <= n BY DEF Spread
<1>2. /\ QueueLength(n, la) \in Nat /\ QueueLength(n, la) <= 2 * n - 2
      /\ la >= 1 => QueueLength(n, la) = 2 * la - 2
      /\ la = 0 => QueueLength(n, la) = 0
  BY <1>1, QueueSizes DEF QueueLength
<1>3. m \in Nat /\ m <= QueueLength(n, la) BY <1>2 DEF Spread
<1>4. m < 2 * i + 2 /\ m < 2 * n - 1 BY <1>1, <1>2, <1>3
<1>5. ASSUME NEW d \in CTAS PROVE ld[d] <= i + 4
  <2>1. ld[d] \in 0 .. n + 4 /\ (ld[d] >= 5 => m >= 2 * ld[d] - 8) BY DEF Spread
  <2>2. ld[d] \in Nat BY <2>1
  <2> QED BY <1>1, <1>3, <1>4, <2>1, <2>2
<1>6. i >= 4 => la >= i - 2
  <2>1. ld[c] \in 0 .. n + 4 /\ (ld[c] >= 5 => m >= 2 * ld[c] - 8) BY DEF Spread
  <2>2. ld[c] \in Nat BY <2>1
  <2> QED BY <1>1, <1>2, <1>3, <2>1, <2>2
<1> QED BY <1>1, <1>3, <1>4, <1>5, <1>6

\* So is one that the multiplications in flight are of.
LEMMA AheadOfMultiply ==
  ASSUME NEW n \in Nat \ {0}, NEW ld, NEW la, NEW m, Spread(n, ld, la, m),
         NEW i \in 0 .. n - 1, m < 2 * i + 2
  PROVE  \A c \in CTAS : ld[c] <= i + 4
<1> TAKE c \in CTAS
<1>1. i \in Nat BY DEF Spread
<1>2. QueueLength(n, la) \in Nat BY DEF Spread, QueueLength
<1>3. m \in Nat BY <1>2 DEF Spread
<1>4. ld[c] \in 0 .. n + 4 /\ (ld[c] >= 5 => m >= 2 * ld[c] - 8) BY DEF Spread
<1>5. ld[c] \in Nat BY <1>4
<1> QED BY <1>1, <1>3, <1>4, <1>5

\* When all is multiplied the launcher is done and the loaders drain.
LEMMA AllMultiplied ==
  ASSUME NEW n \in Nat \ {0}, NEW ld, NEW la, NEW m, Spread(n, ld, la, m), m = 2 * n + 1
  PROVE  la = n + 1 /\ \A c \in CTAS : ld[c] >= n
<1>1. la \in 0 .. n + 1 /\ m <= QueueLength(n, la) BY DEF Spread, QueueLength
<1>2. la = n + 1
  <2> SUFFICES ASSUME la \in 0 .. n PROVE FALSE BY <1>1
  <2>1. QueueLength(n, la) \in Nat /\ QueueLength(n, la) <= 2 * n - 2 BY QueueSizes
  <2> QED BY <1>1, <2>1
<1>3. ASSUME NEW c \in CTAS PROVE ld[c] >= n
  <2>1. ld[c] \in 0 .. n + 4 /\ la <= ld[c] + 1 BY DEF Spread
  <2> QED BY <1>2, <2>1
<1> QED BY <1>2, <1>3

---------------------------------------------------------------------------
(* The semaphores by name.                                                 *)

\* Names of semaphores are pairs.
LEMMA PairEqual ==
  ASSUME NEW x, NEW y, NEW u, NEW v, <<x, y>> = <<u, v>>
  PROVE  x = u /\ y = v
  OBVIOUS

\* The semaphores are different ones,
LEMMA SemaphoresApart ==
  ASSUME NEW s, NEW u
  PROVE  /\ ArrivedSem(s) = ArrivedSem(u) => s = u
         /\ MultipliedSem(s) = MultipliedSem(u) => s = u
         /\ SyncSem(s) = SyncSem(u) => s = u
         /\ ArrivedSem(s) # MultipliedSem(u) /\ ArrivedSem(s) # SumsSem
         /\ ArrivedSem(s) # SyncSem(u) /\ MultipliedSem(s) # SumsSem
         /\ MultipliedSem(s) # SyncSem(u) /\ SumsSem # SyncSem(u)
<1>1. "inputs_arrived" # "inputs_finished" /\ "inputs_arrived" # "outputs_arrived"
      /\ "inputs_arrived" # "sync" /\ "inputs_finished" # "outputs_arrived"
      /\ "inputs_finished" # "sync" /\ "outputs_arrived" # "sync"
  OBVIOUS
<1> QED BY <1>1, PairEqual DEF ArrivedSem, MultipliedSem, SyncSem, SumsSem

\* and this many arrivals end a phase of each.
LEMMA SemaphoreCounts ==
  ASSUME MatmulConfig
  PROVE  /\ \A s \in 0 .. 3 : /\ ArrivedSem(s) \in SEMAPHORES
                              /\ MatmulSemaphores[ArrivedSem(s)] = 1
                              /\ MultipliedSem(s) \in SEMAPHORES
                              /\ MatmulSemaphores[MultipliedSem(s)] = 2
         /\ SumsSem \in SEMAPHORES /\ MatmulSemaphores[SumsSem] = 1
         /\ \A s \in 0 .. 2 : SyncSem(s) \in SEMAPHORES /\ MatmulSemaphores[SyncSem(s)] = 2
<1> DEFINE S == ({"inputs_arrived", "inputs_finished"} \X STAGES)
                 \cup {<<"outputs_arrived", 0>>} \cup ({"sync"} \X (0 .. 2))
<1>1. SEMAPHORES = S BY DEF SEMAPHORES, MatmulSemaphores
<1>2. \A sem \in S : MatmulSemaphores[sem] =
        IF sem[1] \in {"inputs_finished", "sync"} THEN 2 ELSE 1
  BY DEF MatmulSemaphores, MatmulConfig
<1>3. STAGES = {0, 1, 2, 3} BY ConfigIs
<1>4. ASSUME NEW s \in 0 .. 3
      PROVE  /\ ArrivedSem(s) \in S /\ ArrivedSem(s)[1] = "inputs_arrived"
             /\ MultipliedSem(s) \in S /\ MultipliedSem(s)[1] = "inputs_finished"
  BY <1>3 DEF ArrivedSem, MultipliedSem
<1>5. SumsSem \in S /\ SumsSem[1] = "outputs_arrived" BY DEF SumsSem
<1>6. ASSUME NEW s \in 0 .. 2 PROVE SyncSem(s) \in S /\ SyncSem(s)[1] = "sync"
  BY DEF SyncSem
<1>7. "inputs_arrived" \notin {"inputs_finished", "sync"}
      /\ "outputs_arrived" \notin {"inputs_finished", "sync"}
  OBVIOUS
<1> HIDE DEF S
<1> QED BY <1>1, <1>2, <1>4, <1>5, <1>6, <1>7

---------------------------------------------------------------------------
(* The steps, field by field.                                              *)

\* Step i of the loader's leader, counted from 0.
LoaderIs(n, i, s) ==
  /\ s.pages = PagesFor(i)
  /\ s.waits = IF i < 4 THEN {}
               ELSE {Wait("inputs_finished", Stage(i), (Lap(i) + 1) % 2)}
  /\ s.loads = IF i >= n THEN {}
               ELSE {LoadTo(Inputs(Stage(i)), i, 0, "inputs_arrived", Stage(i))}
  /\ s.finishes = FinishesAt(n, i)
  /\ s.holds = {} /\ s.puts = {} /\ s.signals = {} /\ s.mmas = << >>
  /\ s.tensorFinish = FALSE /\ s.tensorHolds = {}

\* Step i of the loader's leader is as above,
LEMMA LoaderStepIs ==
  ASSUME NEW n, NEW i PROVE LoaderIs(n, i, LoaderAt(n, i))
<1> DEFINE p == PagesFor(i)
           w == IF i < 4 THEN {}
                ELSE {Wait("inputs_finished", Stage(i), (Lap(i) + 1) % 2)}
           l == IF i >= n THEN {}
                ELSE {LoadTo(Inputs(Stage(i)), i, 0, "inputs_arrived", Stage(i))}
           f == FinishesAt(n, i)
<1>1. LoaderAt(n, i) = [Step EXCEPT !.pages = p, !.waits = w, !.loads = l, !.finishes = f]
  BY DEF LoaderAt, PagesFor, FinishesAt, LOAD_PIPE_DEPTH
<1> HIDE DEF p, w, l, f
<1> DEFINE s == [Step EXCEPT !.pages = p, !.waits = w, !.loads = l, !.finishes = f]
<1>2. /\ s.pages = p /\ s.waits = w /\ s.loads = l /\ s.finishes = f
      /\ s.holds = {} /\ s.puts = {} /\ s.signals = {} /\ s.mmas = << >>
      /\ s.tensorFinish = FALSE /\ s.tensorHolds = {}
  BY DEF Step
<1> HIDE DEF s
<1>3. LoaderAt(n, i) = s BY <1>1 DEF s
<1>4. LoaderIs(n, i, s) BY <1>2 DEF LoaderIs, p, w, l, f
<1> QED BY <1>3, <1>4

\* Step i of the launcher of CTA 0, counted from 0.
LauncherIs(n, i, s) ==
  /\ s.waits = IF i = 0 THEN {}
               ELSE {Wait("inputs_arrived", Stage(i - 1), Lap(i - 1) % 2)}
  /\ s.mmas = IF i = 0 THEN << >> ELSE Multiplications(i - 1, n)
  /\ s.signals = IF i = 0 \/ i < n THEN ExpectInputs(i) ELSE {}
  /\ s.pages = {} /\ s.loads = {} /\ s.finishes = {} /\ s.holds = {} /\ s.puts = {}
  /\ s.tensorFinish = FALSE /\ s.tensorHolds = {}

\* and so is step i of the launcher.
LEMMA LauncherStepIs ==
  ASSUME NEW n \in Nat, NEW i \in Nat PROVE LauncherIs(n, i, LauncherAt(n, i))
<1>1. CASE i = 0
  <2> DEFINE g == ExpectInputs(0)
  <2>1. LauncherAt(n, i) = [Step EXCEPT !.tensor = TRUE, !.signals = g]
    BY <1>1 DEF LauncherAt
  <2> HIDE DEF g
  <2> DEFINE s == [Step EXCEPT !.tensor = TRUE, !.signals = g]
  <2>2. /\ s.waits = {} /\ s.mmas = << >> /\ s.signals = g
        /\ s.pages = {} /\ s.loads = {} /\ s.finishes = {} /\ s.holds = {} /\ s.puts = {}
        /\ s.tensorFinish = FALSE /\ s.tensorHolds = {}
    BY DEF Step
  <2> HIDE DEF s
  <2>3. LauncherAt(n, i) = s BY <2>1 DEF s
  <2> QED BY <1>1, <2>2, <2>3 DEF g, LauncherIs
<1>2. CASE i # 0
  <2> DEFINE w == {Wait("inputs_arrived", Stage(i - 1), Lap(i - 1) % 2)}
             q == Multiplications(i - 1, n)
             g == IF i < n THEN ExpectInputs(i) ELSE {}
  <2>1. LauncherAt(n, i) = [Step EXCEPT !.waits = w, !.mmas = q, !.signals = g]
    BY <1>2 DEF LauncherAt
  <2> HIDE DEF w, q, g
  <2> DEFINE s == [Step EXCEPT !.waits = w, !.mmas = q, !.signals = g]
  <2>2. /\ s.waits = w /\ s.mmas = q /\ s.signals = g
        /\ s.pages = {} /\ s.loads = {} /\ s.finishes = {} /\ s.holds = {} /\ s.puts = {}
        /\ s.tensorFinish = FALSE /\ s.tensorHolds = {}
    BY DEF Step
  <2> HIDE DEF s
  <2>3. LauncherAt(n, i) = s BY <2>1 DEF s
  <2>4. /\ w = {Wait("inputs_arrived", Stage(i - 1), Lap(i - 1) % 2)}
        /\ q = Multiplications(i - 1, n)
        /\ g = IF i < n THEN ExpectInputs(i) ELSE {}
    BY DEF w, q, g
  <2> QED BY <1>2, <2>2, <2>3, <2>4 DEF LauncherIs
<1> QED BY <1>1, <1>2

\* Step j of a consumer, counted from 0.
ConsumerIs(c, n, k, w, j, s) ==
  /\ s.waits = IF j = 0 THEN {Wait("outputs_arrived", 0, 0)}
               ELSE IF j = 2 THEN Met(0) ELSE IF j = k + 1 THEN Met(1) ELSE {}
  /\ s.signals = IF j = 1 THEN Meets(c, 0) ELSE IF j = k THEN Meets(c, 1) ELSE {}
  /\ s.puts = IF j = k - 1 THEN Stored(w) ELSE {}
  /\ s.holds = IF j = k THEN Stored(w) ELSE {}
  /\ s.finishes = IF j = k + 1 /\ w = 0 THEN {0} ELSE {}
  /\ s.tensorFinish <=> (j = k - 1 /\ w = 0)
  /\ s.tensorHolds = IF (k = GEMM /\ j = 1) \/ (k = SILU /\ j = 3) THEN Sums(n, w) ELSE {}
  /\ s.pages = {} /\ s.loads = {} /\ s.mmas = << >>

StepHas(s, waits, signals, puts, holds, finishes, tensorFinish, tensorHolds) ==
  /\ s.waits = waits /\ s.signals = signals /\ s.puts = puts /\ s.holds = holds
  /\ s.finishes = finishes /\ (s.tensorFinish <=> tensorFinish) /\ s.tensorHolds = tensorHolds
  /\ s.pages = {} /\ s.loads = {} /\ s.mmas = << >>

\* The steps of the consumers: one that only waits,
LEMMA WaitsStep ==
  ASSUME NEW X
  PROVE  StepHas([Step EXCEPT !.waits = X], X, {}, {}, {}, {}, FALSE, {})
  BY DEF Step, StepHas

\* one that arrives at a meeting,
LEMMA SignalsStep ==
  ASSUME NEW X
  PROVE  StepHas([Step EXCEPT !.signals = X], {}, X, {}, {}, {}, FALSE, {})
  BY DEF Step, StepHas

\* one that reads the sums,
LEMMA ReadsStep ==
  ASSUME NEW X, NEW Y
  PROVE  StepHas([Step EXCEPT !.tensorHolds = X, !.signals = Y], {}, Y, {}, {}, {}, FALSE, X)
  BY DEF Step, StepHas

\* one behind which the stores are complete,
LEMMA HoldsStep ==
  ASSUME NEW X, NEW Y
  PROVE  StepHas([Step EXCEPT !.holds = X, !.signals = Y], {}, Y, {}, X, {}, FALSE, {})
  BY DEF Step, StepHas

\* one that finishes a page,
LEMMA FinishesStep ==
  ASSUME NEW X, NEW Y
  PROVE  StepHas([Step EXCEPT !.waits = X, !.finishes = Y], X, {}, {}, {}, Y, FALSE, {})
  BY DEF Step, StepHas

\* and one that stores, before or behind the sums are read.
LEMMA StoresStep ==
  ASSUME NEW X, NEW Y, NEW b \in BOOLEAN
  PROVE  /\ StepHas([Step EXCEPT !.waits = X, !.tensorFinish = b, !.puts = Y],
                    X, {}, Y, {}, {}, b, {})
         /\ StepHas([Step EXCEPT !.tensorHolds = X, !.puts = Y, !.tensorFinish = b],
                    {}, {}, Y, {}, {}, b, X)
  BY DEF Step, StepHas

---------------------------------------------------------------------------
(* What a warp's move changes.                                             *)

WarpsTyped(st) ==
  st.at \in [CTAS -> [WARPS -> Nat]] /\ st.done \in [CTAS -> [WARPS -> BOOLEAN]]

\* Warp w of CTA c comes to step a, or is done.
Moved(st, t, c, w, a, f) ==
  /\ WarpsTyped(t) /\ t.at[c][w] = a /\ t.done[c][w] = f
  /\ \A d \in CTAS, v \in WARPS :
       d # c \/ v # w => t.at[d][v] = st.at[d][v] /\ t.done[d][v] = st.done[d][v]

MovedTo(st, t, c, w, a, f) ==
  t.at = [st.at EXCEPT ![c][w] = a] /\ t.done = [st.done EXCEPT ![c][w] = f]

\* EXCEPT moves one warp.
LEMMA MoveIs ==
  ASSUME NEW st, WarpsTyped(st), NEW t, NEW c \in CTAS, NEW w \in WARPS, NEW a \in Nat,
         NEW f \in BOOLEAN, MovedTo(st, t, c, w, a, f)
  PROVE  Moved(st, t, c, w, a, f)
<1> PICK at : at = st.at OBVIOUS
<1> PICK done : done = st.done OBVIOUS
<1>1. at \in [CTAS -> [WARPS -> Nat]] /\ done \in [CTAS -> [WARPS -> BOOLEAN]]
  BY DEF WarpsTyped
<1>2. /\ [at EXCEPT ![c][w] = a] \in [CTAS -> [WARPS -> Nat]]
      /\ [at EXCEPT ![c][w] = a][c][w] = a
      /\ \A d \in CTAS, v \in WARPS :
           d # c \/ v # w => [at EXCEPT ![c][w] = a][d][v] = at[d][v]
  BY <1>1
<1>3. /\ [done EXCEPT ![c][w] = f] \in [CTAS -> [WARPS -> BOOLEAN]]
      /\ [done EXCEPT ![c][w] = f][c][w] = f
      /\ \A d \in CTAS, v \in WARPS :
           d # c \/ v # w => [done EXCEPT ![c][w] = f][d][v] = done[d][v]
  BY <1>1
<1> QED BY <1>2, <1>3 DEF Moved, WarpsTyped, MovedTo

\* The warps of the scripts.
LEMMA WarpNames ==
  ASSUME MatmulConfig
  PROVE  /\ "loader" \in WARPS /\ "launcher" \in WARPS
         /\ \A w \in {0, 1} : /\ Consumer(w) \in WARPS /\ Consumer(w) # "loader"
                              /\ Consumer(w) # "launcher" /\ Consumer(w) # "storer"
                              /\ Consumer(w) # Consumer(1 - w)
         /\ \A w \in WARPS : \/ w = "loader" \/ w = "launcher" \/ w = "storer"
                             \/ \E v \in {0, 1} : w = Consumer(v)
<1>1. WARPS \ {"storer"} = {"loader", "launcher", "consumer0", "consumer1"}
  BY DEF MatmulConfig
<1>2. \A w \in {"loader", "launcher", "consumer0", "consumer1"} : w \in WARPS BY <1>1
<1>3. \A w \in WARPS : w = "storer" \/ w \in {"loader", "launcher", "consumer0", "consumer1"}
  BY <1>1
<1>4. Consumer(0) = "consumer0" /\ Consumer(1) = "consumer1" BY DEF Consumer
<1>5. 1 - 0 = 1 /\ 1 - 1 = 0 OBVIOUS
<1>6. ASSUME NEW w \in {0, 1}
      PROVE  /\ Consumer(w) \in WARPS /\ Consumer(w) # "loader"
             /\ Consumer(w) # "launcher" /\ Consumer(w) # "storer"
             /\ Consumer(w) # Consumer(1 - w)
  <2>1. CASE w = 0 BY <2>1, <1>2, <1>4, <1>5
  <2>2. CASE w = 1 BY <2>2, <1>2, <1>4, <1>5
  <2> QED BY <2>1, <2>2
<1>7. ASSUME NEW w \in WARPS
      PROVE  \/ w = "loader" \/ w = "launcher" \/ w = "storer"
             \/ \E v \in {0, 1} : w = Consumer(v)
  BY <1>3, <1>4
<1> QED BY <1>2, <1>6, <1>7

\* The parts of InControl.
LEMMA ControlIs ==
  ASSUME MatmulConfig, NEW n \in Nat, NEW k, NEW at, NEW done
  PROVE  InControl(n, k, at, done) <=>
           \A c \in CTAS, w \in WARPS :
             /\ w = "loader" => at[c][w] <= n + 4
             /\ w = "launcher" => at[c][w] <= IF c = 0 THEN n ELSE 0
             /\ w = "storer" => at[c][w] = 0
             /\ (\E v \in {0, 1} : w = Consumer(v)) => at[c][w] <= k + 1
             /\ done[c][w] => at[c][w] = 0
  BY WarpNames, Zenon DEF InControl

\* A warp that moves within its script leaves the warps within theirs.
LEMMA MoveInControl ==
  ASSUME MatmulConfig, NEW n \in Nat, NEW k, NEW st, NEW t, InControl(n, k, st.at, st.done),
         NEW c \in CTAS, NEW w \in WARPS, NEW a \in Nat, NEW f, Moved(st, t, c, w, a, f),
         w = "loader" => a <= n + 4,
         w = "launcher" => a <= IF c = 0 THEN n ELSE 0,
         w = "storer" => a = 0,
         (\E v \in {0, 1} : w = Consumer(v)) => a <= k + 1,
         f => a = 0
  PROVE  InControl(n, k, t.at, t.done)
<1> SUFFICES ASSUME NEW d \in CTAS, NEW u \in WARPS
             PROVE  /\ u = "loader" => t.at[d][u] <= n + 4
                    /\ u = "launcher" => t.at[d][u] <= IF d = 0 THEN n ELSE 0
                    /\ u = "storer" => t.at[d][u] = 0
                    /\ (\E v \in {0, 1} : u = Consumer(v)) => t.at[d][u] <= k + 1
                    /\ t.done[d][u] => t.at[d][u] = 0
  BY ControlIs
<1>1. CASE d = c /\ u = w BY <1>1, Zenon DEF Moved
<1>2. CASE d # c \/ u # w
  <2>1. t.at[d][u] = st.at[d][u] /\ t.done[d][u] = st.done[d][u] BY <1>2 DEF Moved
  <2>2. /\ u = "loader" => st.at[d][u] <= n + 4
        /\ u = "launcher" => st.at[d][u] <= IF d = 0 THEN n ELSE 0
        /\ u = "storer" => st.at[d][u] = 0
        /\ (\E v \in {0, 1} : u = Consumer(v)) => st.at[d][u] <= k + 1
        /\ st.done[d][u] => st.at[d][u] = 0
    BY ControlIs
  <2> QED BY <2>1, <2>2, Zenon
<1> QED BY <1>1, <1>2

\* A function of two arguments that differs at one place.
LEMMA TwiceExcept ==
  ASSUME NEW S, NEW f, NEW g, NEW c \in S, NEW w \in {0, 1}, NEW x,
         f = [d \in S |-> [v \in {0, 1} |-> f[d][v]]],
         g = [d \in S |-> [v \in {0, 1} |-> g[d][v]]], g[c][w] = x,
         \A d \in S, v \in {0, 1} : d # c \/ v # w => g[d][v] = f[d][v]
  PROVE  g = [f EXCEPT ![c][w] = x]
<1>1. \A d \in S : /\ f[d] = [v \in {0, 1} |-> f[d][v]]
                   /\ g[d] = [v \in {0, 1} |-> g[d][v]]
  OBVIOUS
<1>2. [f EXCEPT ![c][w] = x] = [d \in S |-> IF d = c THEN [f[c] EXCEPT ![w] = x] ELSE f[d]]
  OBVIOUS
<1>3. ASSUME NEW d \in S
      PROVE  g[d] = IF d = c THEN [f[c] EXCEPT ![w] = x] ELSE f[d]
  <2>1. CASE d = c
    <3>1. \A v \in {0, 1} : g[c][v] = IF v = w THEN x ELSE f[c][v] OBVIOUS
    <3>2. PICK h : h = f[c] OBVIOUS
    <3>3. h = [v \in {0, 1} |-> h[v]] BY <1>1, <3>2
    <3>4. [h EXCEPT ![w] = x] = [v \in {0, 1} |-> IF v = w THEN x ELSE h[v]] BY <3>3
    <3>5. g[c] = [v \in {0, 1} |-> IF v = w THEN x ELSE f[c][v]] BY <1>1, <3>1
    <3> QED BY <2>1, <3>2, <3>4, <3>5
  <2>2. CASE d # c
    <3>1. \A v \in {0, 1} : g[d][v] = f[d][v] BY <2>2
    <3>2. [v \in {0, 1} |-> g[d][v]] = [v \in {0, 1} |-> f[d][v]] BY <3>1
    <3> QED BY <1>1, <2>2, <3>2
  <2> QED BY <2>1, <2>2
<1>4. g = [d \in S |-> g[d]] BY <1>1, Zenon
<1> QED BY <1>2, <1>3, <1>4

\* How far the warps are, in state t.
FarAs(n, k, t, ld, la, co) ==
  Loaded(n, t) = ld /\ Launched(n, t) = la /\ Consumed(k, t) = co

\* A loader comes to step i.
LoadedTo(n, ld, c, i) == [ld EXCEPT ![c] = i]

\* How far the warps are when a loader has moved,
LEMMA LoaderMoves ==
  ASSUME MatmulConfig, NEW n \in Nat, NEW k, NEW st, NEW t, NEW c \in CTAS, NEW a, NEW f,
         Moved(st, t, c, "loader", a, f)
  PROVE  FarAs(n, k, t, LoadedTo(n, Loaded(n, st), c, IF f THEN n + 4 ELSE a),
               Launched(n, st), Consumed(k, st))
<1>1. \A d \in CTAS : d # c => t.at[d]["loader"] = st.at[d]["loader"]
                               /\ t.done[d]["loader"] = st.done[d]["loader"]
  BY WarpNames DEF Moved
<1>2. \A d \in CTAS, v \in WARPS : v # "loader" =>
        t.at[d][v] = st.at[d][v] /\ t.done[d][v] = st.done[d][v]
  BY DEF Moved
<1>3. t.at[c]["loader"] = a /\ t.done[c]["loader"] = f BY DEF Moved
<1>4. Loaded(n, t) = [Loaded(n, st) EXCEPT ![c] = IF f THEN n + 4 ELSE a]
  BY <1>1, <1>3 DEF Loaded
<1>5. 0 \in CTAS BY ConfigIs
<1>6. Launched(n, t) = Launched(n, st) BY <1>2, <1>5, WarpNames DEF Launched
<1>7. \A d \in CTAS, v \in {0, 1} : t.at[d][Consumer(v)] = st.at[d][Consumer(v)]
                                    /\ t.done[d][Consumer(v)] = st.done[d][Consumer(v)]
  BY <1>2, WarpNames
<1>8. Consumed(k, t) = Consumed(k, st) BY <1>7, Zenon DEF Consumed
<1> QED BY <1>4, <1>6, <1>8 DEF FarAs, LoadedTo

\* when a launcher has,
LEMMA LauncherMoves ==
  ASSUME MatmulConfig, NEW n \in Nat, NEW k, NEW st, NEW t, NEW c \in CTAS, NEW a, NEW f,
         Moved(st, t, c, "launcher", a, f)
  PROVE  FarAs(n, k, t, Loaded(n, st),
               IF c # 0 THEN Launched(n, st) ELSE IF f THEN n + 1 ELSE a, Consumed(k, st))
<1>1. \A d \in CTAS, v \in WARPS : d # c \/ v # "launcher" =>
        t.at[d][v] = st.at[d][v] /\ t.done[d][v] = st.done[d][v]
  BY DEF Moved
<1>2. t.at[c]["launcher"] = a /\ t.done[c]["launcher"] = f BY DEF Moved
<1>3. 0 \in CTAS BY ConfigIs
<1>4. \A d \in CTAS : /\ t.at[d]["loader"] = st.at[d]["loader"]
                      /\ t.done[d]["loader"] = st.done[d]["loader"]
  BY <1>1, WarpNames
<1>5. Loaded(n, t) = Loaded(n, st) BY <1>4, Zenon DEF Loaded
<1>6. Launched(n, t) = IF c # 0 THEN Launched(n, st) ELSE IF f THEN n + 1 ELSE a
  BY <1>1, <1>2, <1>3, WarpNames DEF Launched
<1>7. \A d \in CTAS, v \in {0, 1} : t.at[d][Consumer(v)] = st.at[d][Consumer(v)]
                                    /\ t.done[d][Consumer(v)] = st.done[d][Consumer(v)]
  BY <1>1, WarpNames
<1>8. Consumed(k, t) = Consumed(k, st) BY <1>7, Zenon DEF Consumed
<1> QED BY <1>5, <1>6, <1>8 DEF FarAs

\* A consumer comes to step j.
ConsumedTo(co, c, w, j) == [co EXCEPT ![c][w] = j]

\* when a consumer has,
LEMMA ConsumerMoves ==
  ASSUME MatmulConfig, NEW n \in Nat, NEW k, NEW st, NEW t, NEW c \in CTAS, NEW w \in {0, 1},
         NEW a, NEW f, Moved(st, t, c, Consumer(w), a, f)
  PROVE  FarAs(n, k, t, Loaded(n, st), Launched(n, st),
               ConsumedTo(Consumed(k, st), c, w, IF f THEN k + 2 ELSE a))
<1>1. \A u \in {0, 1} : u # w => Consumer(u) # Consumer(w)
  <2> SUFFICES ASSUME NEW u \in {0, 1}, u # w PROVE Consumer(u) # Consumer(w) OBVIOUS
  <2>1. u = 1 - w OBVIOUS
  <2> QED BY <2>1, WarpNames
<1>2. \A d \in CTAS, v \in WARPS : d # c \/ v # Consumer(w) =>
        t.at[d][v] = st.at[d][v] /\ t.done[d][v] = st.done[d][v]
  BY DEF Moved
<1>3. t.at[c][Consumer(w)] = a /\ t.done[c][Consumer(w)] = f BY DEF Moved
<1>4. 0 \in CTAS BY ConfigIs
<1>5. \A d \in CTAS : /\ t.at[d]["loader"] = st.at[d]["loader"]
                      /\ t.done[d]["loader"] = st.done[d]["loader"]
  BY <1>2, WarpNames
<1>6. Loaded(n, t) = Loaded(n, st) BY <1>5, Zenon DEF Loaded
<1>7. Launched(n, t) = Launched(n, st) BY <1>2, <1>4, WarpNames DEF Launched
<1>8. \A d \in CTAS, v \in {0, 1} : d # c \/ v # w =>
        /\ t.at[d][Consumer(v)] = st.at[d][Consumer(v)]
        /\ t.done[d][Consumer(v)] = st.done[d][Consumer(v)]
  BY <1>1, <1>2, WarpNames
<1> DEFINE x == IF f THEN k + 2 ELSE a
<1> HIDE DEF x
<1>9. Consumed(k, t)[c][w] = x BY <1>3 DEF Consumed, x
<1>10. \A d \in CTAS, v \in {0, 1} : d # c \/ v # w =>
         Consumed(k, t)[d][v] = Consumed(k, st)[d][v]
  BY <1>8 DEF Consumed
<1>11. \A s : Consumed(k, s) =
          [d \in CTAS |-> [v \in {0, 1} |-> Consumed(k, s)[d][v]]]
  BY DEF Consumed
<1>12. Consumed(k, t) = [Consumed(k, st) EXCEPT ![c][w] = x]
  BY <1>9, <1>10, <1>11, TwiceExcept
<1> QED BY <1>6, <1>7, <1>12 DEF x, FarAs, ConsumedTo

\* and when the storer, which has no script, is done.
LEMMA OtherMoves ==
  ASSUME MatmulConfig, NEW n \in Nat, NEW k, NEW st, NEW t, NEW c \in CTAS, NEW a, NEW f,
         "storer" \in WARPS, Moved(st, t, c, "storer", a, f)
  PROVE  FarAs(n, k, t, Loaded(n, st), Launched(n, st), Consumed(k, st))
<1>1. \A d \in CTAS, v \in WARPS : v # "storer" =>
        t.at[d][v] = st.at[d][v] /\ t.done[d][v] = st.done[d][v]
  BY DEF Moved
<1>2. 0 \in CTAS BY ConfigIs
<1>3. \A d \in CTAS : /\ t.at[d]["loader"] = st.at[d]["loader"]
                      /\ t.done[d]["loader"] = st.done[d]["loader"]
  BY <1>1, WarpNames
<1>4. Loaded(n, t) = Loaded(n, st) BY <1>3, Zenon DEF Loaded
<1>5. Launched(n, t) = Launched(n, st) BY <1>1, <1>2, WarpNames DEF Launched
<1>6. \A d \in CTAS, v \in {0, 1} : t.at[d][Consumer(v)] = st.at[d][Consumer(v)]
                                    /\ t.done[d][Consumer(v)] = st.done[d][Consumer(v)]
  BY <1>1, WarpNames
<1>7. Consumed(k, t) = Consumed(k, st) BY <1>6, Zenon DEF Consumed
<1> QED BY <1>4, <1>5, <1>7 DEF FarAs

---------------------------------------------------------------------------
(* The loads that landed.                                                  *)

\* The fields of the load of an iteration.
LEMMA InputLoadIs ==
  ASSUME NEW c, NEW i
  PROVE  /\ InputLoad(c, i).cta = c /\ InputLoad(c, i).tag = i
         /\ InputLoad(c, i).places = Inputs(Stage(i))
         /\ InputLoad(c, i).signal.cta = 0
         /\ InputLoad(c, i).signal.sem = ArrivedSem(Stage(i))
         /\ InputLoad(c, i).signal.arrivals = 0 /\ InputLoad(c, i).signal.bytes = -1
  BY DEF InputLoad

\* The loads that have landed are issued and not in flight.
LEMMA LandedIs ==
  ASSUME NEW n, NEW ld, NEW loading
  PROVE  /\ LandedTyped(n, Landed(n, ld, loading))
         /\ \A c \in CTAS : Landed(n, ld, loading)[c] =
              {i \in 0 .. n - 1 : i < ld[c] /\ InputLoad(c, i) \notin loading}
  BY DEF LandedTyped, Landed

\* The loads in flight once the loader of a CTA has done its step i.
MoreLoading(n, loading, c, i) ==
  loading \cup (IF i < n THEN {InputLoad(c, i)} ELSE {})
LoaderCounts(n) == [CTAS -> 0 .. n + 4]

\* A load that is issued has yet to land.
LEMMA LandedAfterLoad ==
  ASSUME MatmulConfig, NEW n \in Nat, NEW ld \in LoaderCounts(n), NEW loading,
         NEW c \in CTAS, NEW i, i = ld[c], NEW po, po = LoadedTo(n, ld, c, i + 1)
  PROVE  Landed(n, po, MoreLoading(n, loading, c, i)) = Landed(n, ld, loading)
<1> DEFINE more == MoreLoading(n, loading, c, i)
<1>1. i \in Nat BY DEF LoaderCounts
<1>2. ASSUME NEW d \in CTAS
      PROVE  {j \in 0 .. n - 1 : j < po[d] /\ InputLoad(d, j) \notin more} =
             {j \in 0 .. n - 1 : j < ld[d] /\ InputLoad(d, j) \notin loading}
  <2> SUFFICES ASSUME NEW j \in 0 .. n - 1
               PROVE  j < po[d] /\ InputLoad(d, j) \notin more <=>
                      j < ld[d] /\ InputLoad(d, j) \notin loading
    OBVIOUS
  <2>1. InputLoad(d, j) = InputLoad(c, i) <=> d = c /\ j = i BY InputLoadIs
  <2>2. InputLoad(d, j) \in more <=>
          InputLoad(d, j) \in loading \/ (i < n /\ d = c /\ j = i)
    BY <2>1 DEF MoreLoading
  <2>3. po[d] = IF d = c THEN i + 1 ELSE ld[d] BY DEF LoadedTo, LoaderCounts
  <2>4. ld[d] \in 0 .. n + 4 BY DEF LoaderCounts
  <2> HIDE DEF more
  <2> QED BY <1>1, <2>2, <2>3, <2>4
<1> HIDE DEF more
<1>3. Landed(n, po, more) = Landed(n, ld, loading) BY <1>2 DEF Landed
<1> QED BY <1>3 DEF more

\* A load that lands is the only one to.
LEMMA LandedAfterDelivery ==
  ASSUME NEW n \in Nat, NEW ld, NEW loading, NEW c \in CTAS, NEW i \in 0 .. n - 1,
         InputLoad(c, i) \in loading, i < ld[c]
  PROVE  Lands(Landed(n, ld, loading), Landed(n, ld, loading \ {InputLoad(c, i)}), c, i)
<1> DEFINE less == loading \ {InputLoad(c, i)}
<1>1. ASSUME NEW d \in CTAS, NEW j \in 0 .. n - 1
      PROVE  InputLoad(d, j) \notin less <=> InputLoad(d, j) \notin loading \/ (d = c /\ j = i)
  BY InputLoadIs
<1> HIDE DEF less
<1>2. \A d \in CTAS : /\ Landed(n, ld, loading)[d] =
                           {j \in 0 .. n - 1 : j < ld[d] /\ InputLoad(d, j) \notin loading}
                      /\ Landed(n, ld, less)[d] =
                           {j \in 0 .. n - 1 : j < ld[d] /\ InputLoad(d, j) \notin less}
  BY LandedIs
<1>3. i \notin Landed(n, ld, loading)[c] BY <1>2
<1>4. ASSUME NEW d \in CTAS
      PROVE  Landed(n, ld, less)[d] =
               IF d = c THEN Landed(n, ld, loading)[d] \cup {i} ELSE Landed(n, ld, loading)[d]
  <2>1. CASE d = c BY <2>1, <1>1, <1>2
  <2>2. CASE d # c BY <2>2, <1>1, <1>2
  <2> QED BY <2>1, <2>2
<1> QED BY <1>3, <1>4 DEF less, Lands

---------------------------------------------------------------------------
(* The semaphores after a step.                                            *)

\* Without signals nothing changes.
LEMMA NoSignals ==
  ASSUME NEW n, NEW k, NEW st, SemaphoresTyped(st.semaphore)
  PROVE  SignalAll(Matmuls(n, k), st, {}) = st.semaphore
<1>1. Signalled({}) = {} BY DEF Signalled
<1> PICK b : b = st.semaphore OBVIOUS
<1>2. b = [c \in CTAS |-> b[c]] BY DEF SemaphoresTyped
<1> QED BY <1>1, <1>2, Zenon DEF SignalAll

\* What signals G do to the semaphores b.
SignalTo(t, b, G) ==
  /\ t = [d \in CTAS |-> [sem \in SEMAPHORES |-> t[d][sem]]]
  /\ \A d \in CTAS, sem \in SEMAPHORES :
       /\ \A h \in G : h.cta = d /\ h.sem = sem =>
            After(t[d][sem], b[d][sem], MatmulSemaphores[sem], h)
       /\ (\A h \in G : ~(h.cta = d /\ h.sem = sem)) => t[d][sem] = b[d][sem]

\* SignalAll is such a change.
LEMMA SignalsGive ==
  ASSUME MatmulConfig, NEW n, NEW k, NEW st, SemaphoresTyped(st.semaphore), NEW G, Apart(G)
  PROVE  SignalTo(SignalAll(Matmuls(n, k), st, G), st.semaphore, G)
  BY SignalsAre DEF SignalTo

TypedChange(t, b) ==
  /\ t = [d \in CTAS |-> [sem \in SEMAPHORES |-> t[d][sem]]]
  /\ \A d \in CTAS, sem \in SEMAPHORES : t[d][sem] = b[d][sem] \/ t[d][sem] \in BARRIERS

\* Semaphores that were signalled have the type of semaphores.
LEMMA CountsTyped ==
  ASSUME NEW b, SemaphoresTyped(b), NEW t, TypedChange(t, b)
  PROVE  SemaphoresTyped(t)
<1>1. \A d \in CTAS, sem \in SEMAPHORES : b[d][sem] \in BARRIERS BY DEF SemaphoresTyped
<1>2. \A d \in CTAS, sem \in SEMAPHORES : t[d][sem] \in BARRIERS BY <1>1 DEF TypedChange
<1>3. \A d \in CTAS : [sem \in SEMAPHORES |-> t[d][sem]] \in [SEMAPHORES -> BARRIERS]
  BY <1>2
<1>4. [d \in CTAS |-> [sem \in SEMAPHORES |-> t[d][sem]]] \in [CTAS -> [SEMAPHORES -> BARRIERS]]
  BY <1>3
<1> QED BY <1>4 DEF SemaphoresTyped, TypedChange

\* The parts of Counters.
LEMMA CountersAre ==
  ASSUME MatmulConfig, NEW n, NEW k, NEW b, NEW la, NEW co, NEW m, NEW in
  PROVE  Counters(n, k, b, la, co, m, in) <=>
         /\ \A s \in 0 .. 3 : CountedAt(n, b[0][ArrivedSem(s)], s, la, in)
         /\ \A c \in CTAS :
              /\ \A s \in 0 .. 3 : MultipliedAt(n, b[c][MultipliedSem(s)], s, m)
              /\ BarrierIs(b[c][SumsSem], IF m = 2 * n + 1 THEN 1 ELSE 0, 1)
              /\ MeetingIs(b[c][SyncSem(0)], co[c], 2)
              /\ MeetingIs(b[c][SyncSem(1)], co[c], k + 1)
  BY Zenon DEF Counters, ArrivedIs, MultipliedIs, SumsIs, MeetingsAre

\* The semaphores when the launcher has done a step,
LEMMA LaunchCounts ==
  ASSUME MatmulConfig, NEW n \in Nat \ {0}, NEW k, NEW st, SemaphoresTyped(st.semaphore),
         NEW la \in 0 .. n, NEW co, NEW m, NEW in,
         Counters(n, k, st.semaphore, la, co, m, in),
         la + 4 \notin in[0], la + 4 \notin in[1],
         la >= 1 => st.semaphore[0][ArrivedSem(Stage(la - 1))].phase % 2 # Lap(la - 1) % 2,
         NEW G, G = IF la < n THEN ExpectInputs(la) ELSE {}
  PROVE  LET sem == SignalAll(Matmuls(n, k), st, G)
         IN  SemaphoresTyped(sem) /\ Counters(n, k, sem, la + 1, co, m, in)
<1> PICK b : b = st.semaphore OBVIOUS
<1> PICK t : t = SignalAll(Matmuls(n, k), st, G) OBVIOUS
<1> PICK g : g = Expect(0, "inputs_arrived", Stage(la), 2) OBVIOUS
<1> PICK x : x = Stage(la) OBVIOUS
<1>1. g.cta = 0 /\ g.sem = ArrivedSem(x) /\ g.arrivals = 1 /\ g.bytes = 2
  BY DEF Expect, ArrivedSem
<1>2. G = IF la < n THEN {g} ELSE {} BY DEF ExpectInputs
<1>3. 0 \in CTAS BY ConfigIs
<1>4. Apart(G) BY <1>1, <1>2, <1>3 DEF Apart
<1>5. SignalTo(t, b, G) BY <1>4, SignalsGive
<1>6. x \in 0 .. 3 BY StageIs
<1>7. ArrivedSem(x) \in SEMAPHORES /\ MatmulSemaphores[ArrivedSem(x)] = 1
  BY <1>6, SemaphoreCounts
<1>8. la < n => After(t[0][ArrivedSem(x)], b[0][ArrivedSem(x)], 1, g)
  BY <1>1, <1>2, <1>3, <1>5, <1>7 DEF SignalTo
<1>9. \A c \in CTAS, sem \in SEMAPHORES :
        c # 0 \/ sem # ArrivedSem(x) \/ la = n => t[c][sem] = b[c][sem]
  BY <1>1, <1>2, <1>5 DEF SignalTo
<1>10. \A c \in CTAS, sem \in SEMAPHORES : b[c][sem] \in BARRIERS
  BY DEF SemaphoresTyped
<1>11. \A s \in 0 .. 3 : CountedAt(n, b[0][ArrivedSem(s)], s, la, in)
  BY CountersAre
<1>12. la < n => /\ CountedAt(n, t[0][ArrivedSem(x)], x, la + 1, in)
                 /\ t[0][ArrivedSem(x)] \in BARRIERS
  <2> SUFFICES ASSUME la < n
               PROVE  /\ CountedAt(n, t[0][ArrivedSem(x)], x, la + 1, in)
                      /\ t[0][ArrivedSem(x)] \in BARRIERS
    OBVIOUS
  <2>1. la \in 0 .. n - 1 OBVIOUS
  <2>2. b[0][ArrivedSem(x)] \in BARRIERS BY <1>3, <1>7, <1>10
  <2> QED BY <2>1, <2>2, <1>1, <1>6, <1>8, <1>11, ExpectArrives
<1>13. ASSUME NEW s \in 0 .. 3, la = n \/ s # x
       PROVE  CountedAt(n, t[0][ArrivedSem(s)], s, la + 1, in)
  <2>1. ArrivedSem(s) \in SEMAPHORES BY SemaphoreCounts
  <2>2. s # x => ArrivedSem(s) # ArrivedSem(x) BY SemaphoresApart
  <2>3. t[0][ArrivedSem(s)] = b[0][ArrivedSem(s)] BY <1>3, <1>9, <1>13, <2>1, <2>2
  <2>4. PICK y : y = b[0][ArrivedSem(s)] OBVIOUS
  <2>5. y \in BARRIERS /\ CountedAt(n, y, s, la, in) BY <1>3, <1>10, <1>11, <2>1, <2>4
  <2>6. la >= 1 /\ s = Stage(la - 1) => 4 * y.phase + s = la + 3
    <3> SUFFICES ASSUME la >= 1, s = Stage(la - 1) PROVE 4 * y.phase + s = la + 3
      OBVIOUS
    <3>1. la \in 1 .. n OBVIOUS
    <3>2. y.phase % 2 # Lap(la - 1) % 2 BY <2>4
    <3> QED BY <2>5, <3>1, <3>2, LauncherWaits
  <2>7. CountedAt(n, y, s, la + 1, in) BY <1>13, <2>5, <2>6, ArrivedKept
  <2> QED BY <2>3, <2>4, <2>7
<1>14. \A s \in 0 .. 3 : CountedAt(n, t[0][ArrivedSem(s)], s, la + 1, in)
  BY <1>12, <1>13
<1>15. \A c \in CTAS : /\ \A s \in 0 .. 3 : t[c][MultipliedSem(s)] = b[c][MultipliedSem(s)]
                       /\ t[c][SumsSem] = b[c][SumsSem]
                       /\ t[c][SyncSem(0)] = b[c][SyncSem(0)]
                       /\ t[c][SyncSem(1)] = b[c][SyncSem(1)]
  BY <1>9, SemaphoreCounts, SemaphoresApart
<1>16. Counters(n, k, t, la + 1, co, m, in)
  BY <1>14, <1>15, CountersAre
<1>17. SemaphoresTyped(t)
  <2>1. \A c \in CTAS, sem \in SEMAPHORES : t[c][sem] = b[c][sem] \/ t[c][sem] \in BARRIERS
    BY <1>9, <1>12
  <2> QED BY <1>5, <2>1, CountsTyped DEF SignalTo, TypedChange
<1> QED BY <1>16, <1>17

CountersFine(n, k, sem, la, co, m, in) ==
  SemaphoresTyped(sem) /\ Counters(n, k, sem, la, co, m, in)

\* The launcher is near, and the loaders have not come to the stage again.
Near(la, in, i) ==
  la <= i + 1 /\ (i >= 4 => la >= i - 2) /\ i + 4 \notin in[0] /\ i + 4 \notin in[1]

\* when a load has landed,
LEMMA LandingCounts ==
  ASSUME MatmulConfig, NEW n \in Nat \ {0}, NEW k, NEW st, SemaphoresTyped(st.semaphore),
         NEW la \in 0 .. n, NEW co, NEW m, NEW in, NEW out,
         Counters(n, k, st.semaphore, la, co, m, in),
         NEW c \in {0, 1}, NEW i \in 0 .. n - 1,
         Lands(in, out, c, i), Near(la, in, i)
  PROVE  CountersFine(n, k, SignalAll(Matmuls(n, k), st, {InputLoad(c, i).signal}),
                      la, co, m, out)
<1> PICK b : b = st.semaphore OBVIOUS
<1> PICK g : g = InputLoad(c, i).signal OBVIOUS
<1> PICK G : G = {g} OBVIOUS
<1> PICK t : t = SignalAll(Matmuls(n, k), st, G) OBVIOUS
<1> PICK x : x = Stage(i) OBVIOUS
<1>1. g.cta = 0 /\ g.sem = ArrivedSem(x) /\ g.arrivals = 0 /\ g.bytes = -1
  BY InputLoadIs
<1>2. 0 \in CTAS BY ConfigIs
<1>3. Apart(G) BY <1>1, <1>2 DEF Apart
<1>4. SignalTo(t, b, G) BY <1>3, SignalsGive
<1>5. x \in 0 .. 3 BY StageIs
<1>6. ArrivedSem(x) \in SEMAPHORES /\ MatmulSemaphores[ArrivedSem(x)] = 1
  BY <1>5, SemaphoreCounts
<1>7. After(t[0][ArrivedSem(x)], b[0][ArrivedSem(x)], 1, g)
  BY <1>1, <1>2, <1>4, <1>6 DEF SignalTo
<1>8. \A d \in CTAS, sem \in SEMAPHORES :
        d # 0 \/ sem # ArrivedSem(x) => t[d][sem] = b[d][sem]
  <2> SUFFICES ASSUME NEW d \in CTAS, NEW sem \in SEMAPHORES, d # 0 \/ sem # ArrivedSem(x)
               PROVE  t[d][sem] = b[d][sem]
    OBVIOUS
  <2>1. \A h \in G : ~(h.cta = d /\ h.sem = sem) BY <1>1
  <2> QED BY <1>4, <2>1 DEF SignalTo
<1>9. \A d \in CTAS, sem \in SEMAPHORES : b[d][sem] \in BARRIERS
  BY DEF SemaphoresTyped
<1>10. \A s \in 0 .. 3 : CountedAt(n, b[0][ArrivedSem(s)], s, la, in)
  BY CountersAre
<1>11. i \notin in[c] /\ out[c] = in[c] \cup {i} /\ out[1 - c] = in[1 - c]
  <2>1. c \in CTAS /\ 1 - c \in CTAS /\ 1 - c # c
    <3>1. CTAS = {0, 1} BY ConfigIs
    <3> QED BY <3>1
  <2> QED BY <2>1, Zenon DEF Lands
<1>12. /\ CountedAt(n, t[0][ArrivedSem(x)], x, la, out)
       /\ t[0][ArrivedSem(x)] \in BARRIERS
  <2>1. PICK y : y = b[0][ArrivedSem(x)] OBVIOUS
  <2>2. y \in BARRIERS BY <1>2, <1>6, <1>9, <2>1
  <2>3. PICK z : z = t[0][ArrivedSem(x)] OBVIOUS
  <2>4. After(z, y, 1, g) /\ CountedAt(n, y, x, la, in) BY <1>5, <1>7, <1>10, <2>1, <2>3
  <2>5. /\ la <= i + 1 /\ (i >= 4 => la >= i - 2)
        /\ i + 4 \notin in[0] /\ i + 4 \notin in[1]
    BY DEF Near
  <2>6. CountedAt(n, z, x, la, out) /\ z \in BARRIERS
    BY <2>2, <2>4, <2>5, <1>1, <1>5, <1>11, LandingArrives
  <2> QED BY <2>3, <2>4, <2>5, <2>6
<1>13. ASSUME NEW s \in 0 .. 3, s # x
       PROVE  CountedAt(n, t[0][ArrivedSem(s)], s, la, out)
  <2>1. ArrivedSem(s) \in SEMAPHORES BY SemaphoreCounts
  <2>2. ArrivedSem(s) # ArrivedSem(x) BY SemaphoresApart, <1>13
  <2>3. t[0][ArrivedSem(s)] = b[0][ArrivedSem(s)] BY <1>2, <1>8, <2>1, <2>2
  <2>4. PICK y : y = b[0][ArrivedSem(s)] OBVIOUS
  <2>5. y \in BARRIERS /\ CountedAt(n, y, s, la, in) BY <1>2, <1>9, <1>10, <2>1, <2>4
  <2>6. CountedAt(n, y, s, la, out) BY <1>13, <1>11, <2>5, LandingElsewhere
  <2> QED BY <2>3, <2>4, <2>6
<1>14. \A s \in 0 .. 3 : CountedAt(n, t[0][ArrivedSem(s)], s, la, out)
  BY <1>12, <1>13
<1>15. \A d \in CTAS : /\ \A s \in 0 .. 3 : t[d][MultipliedSem(s)] = b[d][MultipliedSem(s)]
                       /\ t[d][SumsSem] = b[d][SumsSem]
                       /\ t[d][SyncSem(0)] = b[d][SyncSem(0)]
                       /\ t[d][SyncSem(1)] = b[d][SyncSem(1)]
  <2>1. \A s \in 0 .. 3 : MultipliedSem(s) \in SEMAPHORES /\ MultipliedSem(s) # ArrivedSem(x)
    BY SemaphoreCounts, SemaphoresApart
  <2>2. SumsSem \in SEMAPHORES /\ SumsSem # ArrivedSem(x)
    BY SemaphoreCounts, SemaphoresApart
  <2>3. \A q \in {0, 1} : SyncSem(q) \in SEMAPHORES /\ SyncSem(q) # ArrivedSem(x)
    BY SemaphoreCounts, SemaphoresApart
  <2> QED BY <1>8, <2>1, <2>2, <2>3
<1>16. Counters(n, k, t, la, co, m, out)
  <2>1. \A d \in CTAS : /\ \A s \in 0 .. 3 : MultipliedAt(n, b[d][MultipliedSem(s)], s, m)
                        /\ BarrierIs(b[d][SumsSem], IF m = 2 * n + 1 THEN 1 ELSE 0, 1)
                        /\ MeetingIs(b[d][SyncSem(0)], co[d], 2)
                        /\ MeetingIs(b[d][SyncSem(1)], co[d], k + 1)
    BY CountersAre
  <2>2. \A d \in CTAS : /\ \A s \in 0 .. 3 : MultipliedAt(n, t[d][MultipliedSem(s)], s, m)
                        /\ BarrierIs(t[d][SumsSem], IF m = 2 * n + 1 THEN 1 ELSE 0, 1)
                        /\ MeetingIs(t[d][SyncSem(0)], co[d], 2)
                        /\ MeetingIs(t[d][SyncSem(1)], co[d], k + 1)
    BY <1>15, <2>1
  <2> QED BY <1>14, <2>2, CountersAre
<1>17. SemaphoresTyped(t)
  <2>1. \A d \in CTAS, sem \in SEMAPHORES : t[d][sem] = b[d][sem] \/ t[d][sem] \in BARRIERS
    <3> SUFFICES ASSUME NEW d \in CTAS, NEW sem \in SEMAPHORES
                 PROVE  t[d][sem] = b[d][sem] \/ t[d][sem] \in BARRIERS
      OBVIOUS
    <3>1. CASE d = 0 /\ sem = ArrivedSem(x) BY <1>12, <3>1
    <3>2. CASE d # 0 \/ sem # ArrivedSem(x) BY <1>8, <3>2
    <3> QED BY <3>1, <3>2
  <2>2. t = [d \in CTAS |-> [sem \in SEMAPHORES |-> t[d][sem]]] BY <1>4 DEF SignalTo
  <2>3. SemaphoresTyped(b) OBVIOUS
  <2>4. TypedChange(t, b) BY <2>1, <2>2 DEF TypedChange
  <2> QED BY <2>3, <2>4, CountsTyped, Zenon
<1> QED BY <1>16, <1>17 DEF CountersFine

\* A multiplication signals both CTAs.
LEMMA MultiplyCounts ==
  ASSUME MatmulConfig, NEW n \in Nat \ {0}, NEW k, NEW st, SemaphoresTyped(st.semaphore),
         NEW la, NEW co, NEW m, NEW in,
         Counters(n, k, st.semaphore, la, co, m, in),
         NEW i \in 0 .. n - 1, NEW w \in {0, 1}, m = 2 * i + w
  PROVE  LET sem == SignalAll(Matmuls(n, k), st, Started(Multiply(i, w)).signals)
         IN  SemaphoresTyped(sem) /\ Counters(n, k, sem, la, co, m + 1, in)
<1> PICK b : b = st.semaphore OBVIOUS
<1> PICK x : x = Stage(i) OBVIOUS
<1> PICK G : G = Started(Multiply(i, w)).signals OBVIOUS
<1> PICK t : t = SignalAll(Matmuls(n, k), st, G) OBVIOUS
<1>1. G = {[cta |-> d, sem |-> sem, arrivals |-> 1, bytes |-> 0] :
             d \in {0, 1}, sem \in {MultipliedSem(x)}}
  BY DEF Started, Multiply, MultipliedSem
<1> PICK u : u = MultipliedSem(x) OBVIOUS
<1> DEFINE F(d) == [cta |-> d, sem |-> u, arrivals |-> 1, bytes |-> 0]
<1>2. G = {F(0), F(1)} BY <1>1
<1>3. \A d : F(d).cta = d /\ F(d).sem = u /\ F(d).arrivals = 1 /\ F(d).bytes = 0
  OBVIOUS
<1>4. /\ \A g \in G : /\ g.cta \in {0, 1} /\ g.sem = MultipliedSem(x)
                      /\ g.arrivals = 1 /\ g.bytes = 0 /\ g = F(g.cta)
      /\ \A d \in {0, 1} : \E g \in G : g.cta = d
  <2> HIDE DEF F
  <2>1. \A g \in G : g = F(0) \/ g = F(1) BY <1>2
  <2>2. F(0) \in G /\ F(1) \in G BY <1>2
  <2> QED BY <1>3, <2>1, <2>2
<1> HIDE DEF F
<1>5. CTAS = {0, 1} BY ConfigIs
<1>6. Apart(G)
  <2>1. \A g \in G, h \in G : g.cta = h.cta => g = h
    <3> SUFFICES ASSUME NEW g \in G, NEW h \in G, g.cta = h.cta PROVE g = h OBVIOUS
    <3>1. g = F(g.cta) /\ h = F(h.cta) BY <1>4
    <3> QED BY <3>1, Zenon
  <2> QED BY <1>4, <1>5, <2>1 DEF Apart
<1>7. SignalTo(t, b, G) BY <1>6, SignalsGive
<1>8. x \in 0 .. 3 BY StageIs
<1>9. MultipliedSem(x) \in SEMAPHORES /\ MatmulSemaphores[MultipliedSem(x)] = 2
  BY <1>8, SemaphoreCounts
<1>10. \A d \in CTAS, sem \in SEMAPHORES : sem # MultipliedSem(x) => t[d][sem] = b[d][sem]
  BY <1>4, <1>7 DEF SignalTo
<1>11. \A d \in CTAS, sem \in SEMAPHORES : b[d][sem] \in BARRIERS
  BY DEF SemaphoresTyped
<1>12. /\ \A s \in 0 .. 3 : CountedAt(n, b[0][ArrivedSem(s)], s, la, in)
       /\ \A d \in CTAS :
            /\ \A s \in 0 .. 3 : MultipliedAt(n, b[d][MultipliedSem(s)], s, m)
            /\ BarrierIs(b[d][SumsSem], IF m = 2 * n + 1 THEN 1 ELSE 0, 1)
            /\ MeetingIs(b[d][SyncSem(0)], co[d], 2)
            /\ MeetingIs(b[d][SyncSem(1)], co[d], k + 1)
  BY CountersAre
<1>13. ASSUME NEW d \in CTAS
       PROVE  /\ MultipliedAt(n, t[d][MultipliedSem(x)], x, m + 1)
              /\ t[d][MultipliedSem(x)] \in BARRIERS
  <2>1. PICK g \in G : g.cta = d BY <1>4, <1>5
  <2>2. After(t[d][MultipliedSem(x)], b[d][MultipliedSem(x)], 2, g)
    BY <1>4, <1>7, <1>9, <2>1 DEF SignalTo
  <2>3. b[d][MultipliedSem(x)] \in BARRIERS BY <1>9, <1>11
  <2>4. MultipliedAt(n, b[d][MultipliedSem(x)], x, m) BY <1>8, <1>12
  <2>5. g.arrivals = 1 /\ g.bytes = 0 BY <1>4
  <2>6. PICK y : y = b[d][MultipliedSem(x)] OBVIOUS
  <2>7. PICK z : z = t[d][MultipliedSem(x)] OBVIOUS
  <2>8. After(z, y, 2, g) /\ y \in BARRIERS /\ MultipliedAt(n, y, x, m)
    BY <2>2, <2>3, <2>4, <2>6, <2>7
  <2>9. MultipliedAt(n, z, x, m + 1) /\ z \in BARRIERS BY <1>8, <2>5, <2>8, MultiplyArrives
  <2> QED BY <2>7, <2>9
<1>14. ASSUME NEW d \in CTAS, NEW s \in 0 .. 3, s # x
       PROVE  MultipliedAt(n, t[d][MultipliedSem(s)], s, m + 1)
  <2>1. MultipliedSem(s) \in SEMAPHORES BY SemaphoreCounts
  <2>2. MultipliedSem(s) # MultipliedSem(x) BY SemaphoresApart, <1>14
  <2>3. t[d][MultipliedSem(s)] = b[d][MultipliedSem(s)] BY <1>10, <2>1, <2>2
  <2>4. PICK y : y = b[d][MultipliedSem(s)] OBVIOUS
  <2>5. y \in BARRIERS /\ MultipliedAt(n, y, s, m) BY <1>11, <1>12, <2>1, <2>4
  <2>6. MultipliedAt(n, y, s, m + 1) BY <1>14, <2>5, MultiplyElsewhere
  <2> QED BY <2>3, <2>4, <2>6
<1>15. \A s \in 0 .. 3 : t[0][ArrivedSem(s)] = b[0][ArrivedSem(s)]
  BY <1>5, <1>10, SemaphoreCounts, SemaphoresApart
<1>16. \A d \in CTAS : /\ t[d][SumsSem] = b[d][SumsSem]
                       /\ t[d][SyncSem(0)] = b[d][SyncSem(0)]
                       /\ t[d][SyncSem(1)] = b[d][SyncSem(1)]
  BY <1>10, SemaphoreCounts, SemaphoresApart
<1>17. m # 2 * n + 1 /\ m + 1 # 2 * n + 1 OBVIOUS
<1>18. Counters(n, k, t, la, co, m + 1, in)
  <2>1. \A d \in CTAS, s \in 0 .. 3 : MultipliedAt(n, t[d][MultipliedSem(s)], s, m + 1)
    BY <1>13, <1>14
  <2>2. \A d \in CTAS :
            /\ BarrierIs(t[d][SumsSem], IF m + 1 = 2 * n + 1 THEN 1 ELSE 0, 1)
            /\ MeetingIs(t[d][SyncSem(0)], co[d], 2)
            /\ MeetingIs(t[d][SyncSem(1)], co[d], k + 1)
    BY <1>12, <1>16, <1>17
  <2>3. \A s \in 0 .. 3 : CountedAt(n, t[0][ArrivedSem(s)], s, la, in) BY <1>12, <1>15
  <2> QED BY <2>1, <2>2, <2>3, CountersAre
<1>19. SemaphoresTyped(t)
  <2>1. \A d \in CTAS, sem \in SEMAPHORES : t[d][sem] = b[d][sem] \/ t[d][sem] \in BARRIERS
    BY <1>10, <1>13
  <2> QED BY <1>7, <2>1, CountsTyped DEF SignalTo, TypedChange
<1> QED BY <1>18, <1>19

\* So does the commit behind the last one.
LEMMA CommitCounts ==
  ASSUME MatmulConfig, NEW n \in Nat \ {0}, NEW k, NEW st, SemaphoresTyped(st.semaphore),
         NEW la, NEW co, NEW m, NEW in,
         Counters(n, k, st.semaphore, la, co, m, in), m = 2 * n
  PROVE  LET sem == SignalAll(Matmuls(n, k), st, Started(TensorCommit(SumsSem)).signals)
         IN  SemaphoresTyped(sem) /\ Counters(n, k, sem, la, co, m + 1, in)
<1> PICK b : b = st.semaphore OBVIOUS
<1> PICK G : G = Started(TensorCommit(SumsSem)).signals OBVIOUS
<1> PICK t : t = SignalAll(Matmuls(n, k), st, G) OBVIOUS
<1>1. G = {[cta |-> d, sem |-> sem, arrivals |-> 1, bytes |-> 0] :
             d \in {0, 1}, sem \in {SumsSem}}
  BY DEF Started, TensorCommit
<1> PICK u : u = SumsSem OBVIOUS
<1> DEFINE F(d) == [cta |-> d, sem |-> u, arrivals |-> 1, bytes |-> 0]
<1>2. G = {F(0), F(1)} BY <1>1
<1>3. \A d : F(d).cta = d /\ F(d).sem = u /\ F(d).arrivals = 1 /\ F(d).bytes = 0
  OBVIOUS
<1>4. /\ \A g \in G : /\ g.cta \in {0, 1} /\ g.sem = SumsSem
                      /\ g.arrivals = 1 /\ g.bytes = 0 /\ g = F(g.cta)
      /\ \A d \in {0, 1} : \E g \in G : g.cta = d
  <2> HIDE DEF F
  <2>1. \A g \in G : g = F(0) \/ g = F(1) BY <1>2
  <2>2. F(0) \in G /\ F(1) \in G BY <1>2
  <2> QED BY <1>3, <2>1, <2>2
<1> HIDE DEF F
<1>5. CTAS = {0, 1} BY ConfigIs
<1>6. Apart(G)
  <2>1. \A g \in G, h \in G : g.cta = h.cta => g = h
    <3> SUFFICES ASSUME NEW g \in G, NEW h \in G, g.cta = h.cta PROVE g = h OBVIOUS
    <3>1. g = F(g.cta) /\ h = F(h.cta) BY <1>4
    <3> QED BY <3>1, Zenon
  <2> QED BY <1>4, <1>5, <2>1 DEF Apart
<1>7. SignalTo(t, b, G) BY <1>6, SignalsGive
<1>8. SumsSem \in SEMAPHORES /\ MatmulSemaphores[SumsSem] = 1
  BY SemaphoreCounts
<1>9. \A d \in CTAS, sem \in SEMAPHORES : sem # SumsSem => t[d][sem] = b[d][sem]
  BY <1>4, <1>7 DEF SignalTo
<1>10. \A d \in CTAS, sem \in SEMAPHORES : b[d][sem] \in BARRIERS
  BY DEF SemaphoresTyped
<1>11. /\ \A s \in 0 .. 3 : CountedAt(n, b[0][ArrivedSem(s)], s, la, in)
       /\ \A d \in CTAS :
            /\ \A s \in 0 .. 3 : MultipliedAt(n, b[d][MultipliedSem(s)], s, m)
            /\ BarrierIs(b[d][SumsSem], IF m = 2 * n + 1 THEN 1 ELSE 0, 1)
            /\ MeetingIs(b[d][SyncSem(0)], co[d], 2)
            /\ MeetingIs(b[d][SyncSem(1)], co[d], k + 1)
  BY CountersAre
<1>12. ASSUME NEW d \in CTAS
       PROVE  BarrierIs(t[d][SumsSem], 1, 1) /\ t[d][SumsSem] \in BARRIERS
  <2>1. PICK g \in G : g.cta = d BY <1>4, <1>5
  <2>2. After(t[d][SumsSem], b[d][SumsSem], 1, g) BY <1>4, <1>7, <1>8, <2>1 DEF SignalTo
  <2>3. PICK y : y = b[d][SumsSem] OBVIOUS
  <2>4. BarrierIs(y, 0, 1) BY <1>11, <2>3
  <2>5. g.arrivals = 1 /\ g.bytes = 0 BY <1>4
  <2>6. PICK z : z = t[d][SumsSem] OBVIOUS
  <2>7. z \in UNCHECKED /\ z.phase = 1 /\ z.left = 1 /\ z.bytes = 0
    BY <2>2, <2>3, <2>4, <2>5, <2>6 DEF After, Ends, BarrierIs
  <2>8. z \in BARRIERS BY <2>7 DEF UNCHECKED, BARRIERS
  <2> QED BY <2>6, <2>7, <2>8 DEF BarrierIs
<1>13. ASSUME NEW d \in CTAS, NEW s \in 0 .. 3
       PROVE  MultipliedAt(n, t[d][MultipliedSem(s)], s, m + 1)
  <2>1. MultipliedSem(s) \in SEMAPHORES BY SemaphoreCounts
  <2>2. MultipliedSem(s) # SumsSem BY SemaphoresApart
  <2>3. t[d][MultipliedSem(s)] = b[d][MultipliedSem(s)] BY <1>9, <2>1, <2>2
  <2>4. PICK y : y = b[d][MultipliedSem(s)] OBVIOUS
  <2>5. y \in BARRIERS /\ MultipliedAt(n, y, s, m) BY <1>10, <1>11, <2>1, <2>4
  <2>6. MultipliedAt(n, y, s, m + 1) BY <1>13, <2>5, CommitElsewhere
  <2> QED BY <2>3, <2>4, <2>6
<1>14. \A s \in 0 .. 3 : t[0][ArrivedSem(s)] = b[0][ArrivedSem(s)]
  BY <1>5, <1>9, SemaphoreCounts, SemaphoresApart
<1>15. \A d \in CTAS : /\ t[d][SyncSem(0)] = b[d][SyncSem(0)]
                       /\ t[d][SyncSem(1)] = b[d][SyncSem(1)]
  BY <1>9, SemaphoreCounts, SemaphoresApart
<1>16. m + 1 = 2 * n + 1 OBVIOUS
<1>17. Counters(n, k, t, la, co, m + 1, in)
  <2>1. \A d \in CTAS :
            /\ BarrierIs(t[d][SumsSem], IF m + 1 = 2 * n + 1 THEN 1 ELSE 0, 1)
            /\ MeetingIs(t[d][SyncSem(0)], co[d], 2)
            /\ MeetingIs(t[d][SyncSem(1)], co[d], k + 1)
    BY <1>11, <1>12, <1>15, <1>16
  <2>2. \A s \in 0 .. 3 : CountedAt(n, t[0][ArrivedSem(s)], s, la, in) BY <1>11, <1>14
  <2> QED BY <1>13, <2>1, <2>2, CountersAre
<1>18. SemaphoresTyped(t)
  <2>1. \A d \in CTAS, sem \in SEMAPHORES : t[d][sem] = b[d][sem] \/ t[d][sem] \in BARRIERS
    BY <1>9, <1>12
  <2> QED BY <1>7, <2>1, CountsTyped DEF SignalTo, TypedChange
<1> QED BY <1>17, <1>18

\* A consumer comes to its next step.
LEMMA MeetingNext ==
  ASSUME NEW b \in BARRIERS, NEW k, NEW co \in [{0, 1} -> Nat], NEW w \in {0, 1},
         NEW po, po = [co EXCEPT ![w] = @ + 1], NEW j \in Nat \ {0}, MeetingIs(b, co, j),
         co[w] >= j \/ co[w] + 1 < j
  PROVE  MeetingIs(b, po, j)
<1>1. po[w] = co[w] + 1 /\ po[1 - w] = co[1 - w] /\ co[w] \in Nat /\ co[1 - w] \in Nat
  OBVIOUS
<1>2. po[w] >= j <=> co[w] >= j BY <1>1
<1>3. (po[0] >= j <=> co[0] >= j) /\ (po[1] >= j <=> co[1] >= j)
  <2>1. CASE w = 0 BY <1>1, <1>2, <2>1
  <2>2. CASE w = 1 BY <1>1, <1>2, <2>2
  <2> QED BY <2>1, <2>2
<1> QED BY <1>3 DEF MeetingIs

\* A consumer comes to a meeting, and with the second one its phase ends.
LEMMA MeetingArrives ==
  ASSUME NEW b \in BARRIERS, NEW co \in [{0, 1} -> Nat], NEW w \in {0, 1},
         NEW po, po = [co EXCEPT ![w] = @ + 1], NEW j \in Nat \ {0}, MeetingIs(b, co, j),
         co[w] + 1 = j, NEW g, g.arrivals = 1, g.bytes = 0, NEW t, After(t, b, 2, g)
  PROVE  MeetingIs(t, po, j) /\ t \in BARRIERS
<1>1. po[w] = j /\ po[1 - w] = co[1 - w] /\ co[w] \in Nat /\ co[1 - w] \in Nat
  OBVIOUS
<1>2. b.phase = 0 /\ b.bytes = 0 /\ b.left = IF co[1 - w] >= j THEN 1 ELSE 2
  <2>1. CASE w = 0 BY <1>1, <2>1 DEF MeetingIs, BarrierIs
  <2>2. CASE w = 1 BY <1>1, <2>2 DEF MeetingIs, BarrierIs
  <2> QED BY <2>1, <2>2
<1>3. /\ t \in UNCHECKED /\ t.bytes = 0
      /\ t.phase = IF co[1 - w] >= j THEN 1 ELSE 0
      /\ t.left = IF co[1 - w] >= j THEN 2 ELSE 1
  <2>1. CASE co[1 - w] >= j BY <1>2, <2>1 DEF After, Ends
  <2>2. CASE ~(co[1 - w] >= j) BY <1>2, <2>2 DEF After, Ends
  <2> QED BY <2>1, <2>2
<1>4. t \in BARRIERS
  <2>1. CASE co[1 - w] >= j BY <1>3, <2>1 DEF UNCHECKED, BARRIERS
  <2>2. CASE ~(co[1 - w] >= j) BY <1>3, <2>2 DEF UNCHECKED, BARRIERS
  <2> QED BY <2>1, <2>2
<1>5. MeetingIs(t, po, j)
  <2>1. CASE w = 0 BY <1>1, <1>3, <2>1 DEF MeetingIs, BarrierIs
  <2>2. CASE w = 1 BY <1>1, <1>3, <2>2 DEF MeetingIs, BarrierIs
  <2> QED BY <2>1, <2>2
<1> QED BY <1>4, <1>5

\* The consumers' meetings are behind steps 1 and k.
MeetingAt(k, q) == IF q = 0 THEN 2 ELSE k + 1

MeetsAt(c, k, j) ==
  IF j = 1 THEN Meets(c, 0) ELSE IF j = k THEN Meets(c, 1) ELSE {}

\* At each of its meetings a consumer arrives once.
LEMMA MeetsAre ==
  ASSUME MatmulConfig, NEW k, Epilogue(k), NEW c \in CTAS, NEW j \in Nat
  PROVE  /\ Apart(MeetsAt(c, k, j))
         /\ \A g \in MeetsAt(c, k, j) :
              /\ g.cta = c /\ g.arrivals = 1 /\ g.bytes = 0
              /\ \E q \in {0, 1} : g.sem = SyncSem(q) /\ j + 1 = MeetingAt(k, q)
         /\ \A q \in {0, 1} : j + 1 = MeetingAt(k, q) =>
              \E g \in MeetsAt(c, k, j) : g.sem = SyncSem(q)
<1>1. k \in Nat /\ k >= 3 BY DEF Epilogue, GEMM, SILU
<1> DEFINE A(q) == Arrival(c, "sync", q)
<1>2. \A q : /\ A(q).cta = c /\ A(q).arrivals = 1 /\ A(q).bytes = 0
             /\ A(q).sem = SyncSem(q)
  BY DEF Arrival, SyncSem
<1>3. MeetsAt(c, k, j) = IF j = 1 THEN {A(0)} ELSE IF j = k THEN {A(1)} ELSE {}
  BY DEF MeetsAt, Meets
<1> HIDE DEF A
<1>4. j + 1 = MeetingAt(k, 0) <=> j = 1 BY DEF MeetingAt
<1>5. j + 1 = MeetingAt(k, 1) <=> j = k BY <1>1 DEF MeetingAt
<1>6. CASE j = 1
  <2>1. MeetsAt(c, k, j) = {A(0)} BY <1>3, <1>6
  <2>2. ~(j + 1 = MeetingAt(k, 1)) /\ j + 1 = MeetingAt(k, 0) BY <1>1, <1>4, <1>5, <1>6
  <2>3. Apart({A(0)}) BY <1>2 DEF Apart
  <2> QED BY <1>2, <2>1, <2>2, <2>3
<1>7. CASE j # 1 /\ j = k
  <2>1. MeetsAt(c, k, j) = {A(1)} BY <1>3, <1>7
  <2>2. j + 1 = MeetingAt(k, 1) /\ ~(j + 1 = MeetingAt(k, 0)) BY <1>4, <1>5, <1>7
  <2>3. Apart({A(1)}) BY <1>2 DEF Apart
  <2> QED BY <1>2, <2>1, <2>2, <2>3
<1>8. CASE j # 1 /\ j # k
  <2>1. MeetsAt(c, k, j) = {} BY <1>3, <1>8
  <2> QED BY <2>1, <1>4, <1>5, <1>8 DEF Apart
<1> QED BY <1>6, <1>7, <1>8

ConsumedTyped(co) == co \in [CTAS -> [{0, 1} -> Nat]]

\* Warp w of CTA c does its next step.
StepsOn(co, c, w) == [co EXCEPT ![c][w] = @ + 1]

NextIs(co, c, w, po) ==
  /\ ConsumedTyped(po) /\ co[c][w] \in Nat
  /\ po[c] = [co[c] EXCEPT ![w] = @ + 1]
  /\ \A d \in CTAS : d # c => po[d] = co[d]
  /\ po[c][w] = co[c][w] + 1 /\ po[c][1 - w] = co[c][1 - w]

\* One consumer's next step changes no other's.
LEMMA NextConsumed ==
  ASSUME NEW co, ConsumedTyped(co), NEW c \in CTAS, NEW w \in {0, 1}
  PROVE  NextIs(co, c, w, StepsOn(co, c, w))
<1> PICK po : po = StepsOn(co, c, w) OBVIOUS
<1> PICK j : j = co[c][w] OBVIOUS
<1>1. co[c] \in [{0, 1} -> Nat] /\ j \in Nat BY DEF ConsumedTyped
<1>2. po[c] = [co[c] EXCEPT ![w] = j + 1] BY DEF ConsumedTyped, StepsOn
<1>3. \A d \in CTAS : d # c => po[d] = co[d] BY DEF ConsumedTyped, StepsOn
<1>4. [co[c] EXCEPT ![w] = j + 1] = [co[c] EXCEPT ![w] = @ + 1] BY <1>1
<1> PICK f : f = co[c] OBVIOUS
<1>5. [f EXCEPT ![w] = j + 1] \in [{0, 1} -> Nat] BY <1>1
<1>6. ConsumedTyped(po) 
  <2>1. po = [d \in CTAS |-> po[d]] BY DEF StepsOn, ConsumedTyped
  <2>2. \A d \in CTAS : po[d] \in [{0, 1} -> Nat] BY <1>2, <1>3, <1>5 DEF ConsumedTyped
  <2> QED BY <2>1, <2>2, Zenon DEF ConsumedTyped
<1>7. 1 - w \in {0, 1} /\ 1 - w # w OBVIOUS
<1>8. [f EXCEPT ![w] = j + 1][w] = j + 1 /\ [f EXCEPT ![w] = j + 1][1 - w] = f[1 - w]
  BY <1>1, <1>7
<1> QED BY <1>1, <1>2, <1>3, <1>4, <1>6, <1>8 DEF NextIs

\* The semaphores when a consumer has done a step.
LEMMA ConsumerCounts ==
  ASSUME MatmulConfig, NEW n \in Nat \ {0}, NEW k, Epilogue(k),
         NEW st, SemaphoresTyped(st.semaphore), NEW la, NEW co, ConsumedTyped(co), NEW m, NEW in,
         Counters(n, k, st.semaphore, la, co, m, in),
         NEW c \in CTAS, NEW w \in {0, 1}, NEW j, j = co[c][w],
         NEW po, po = StepsOn(co, c, w)
  PROVE  LET sem == SignalAll(Matmuls(n, k), st, MeetsAt(c, k, j))
         IN  SemaphoresTyped(sem) /\ Counters(n, k, sem, la, po, m, in)
<1> PICK b : b = st.semaphore OBVIOUS
<1> PICK G : G = MeetsAt(c, k, j) OBVIOUS
<1> PICK t : t = SignalAll(Matmuls(n, k), st, G) OBVIOUS
<1>1. NextIs(co, c, w, po) BY NextConsumed
<1>2. /\ j \in Nat /\ po[c] = [co[c] EXCEPT ![w] = @ + 1]
      /\ \A d \in CTAS : d # c => po[d] = co[d]
  BY <1>1 DEF NextIs
<1>3. /\ Apart(G)
      /\ \A g \in G : /\ g.cta = c /\ g.arrivals = 1 /\ g.bytes = 0
                      /\ \E q \in {0, 1} : g.sem = SyncSem(q) /\ j + 1 = MeetingAt(k, q)
      /\ \A q \in {0, 1} : j + 1 = MeetingAt(k, q) => \E g \in G : g.sem = SyncSem(q)
  BY <1>2, MeetsAre
<1>4. SignalTo(t, b, G) BY <1>3, SignalsGive
<1>5. \A d \in CTAS, sem \in SEMAPHORES : b[d][sem] \in BARRIERS
  BY DEF SemaphoresTyped
<1>6. \A d \in CTAS, sem \in SEMAPHORES :
        (\A q \in {0, 1} : sem # SyncSem(q)) => t[d][sem] = b[d][sem]
  BY <1>3, <1>4 DEF SignalTo
<1>7. /\ \A s \in 0 .. 3 : CountedAt(n, b[0][ArrivedSem(s)], s, la, in)
      /\ \A d \in CTAS :
           /\ \A s \in 0 .. 3 : MultipliedAt(n, b[d][MultipliedSem(s)], s, m)
           /\ BarrierIs(b[d][SumsSem], IF m = 2 * n + 1 THEN 1 ELSE 0, 1)
           /\ MeetingIs(b[d][SyncSem(0)], co[d], 2)
           /\ MeetingIs(b[d][SyncSem(1)], co[d], k + 1)
  BY CountersAre
<1>8. 0 \in CTAS BY ConfigIs
<1>9. \A d \in CTAS :
        /\ \A s \in 0 .. 3 : /\ t[d][MultipliedSem(s)] = b[d][MultipliedSem(s)]
                             /\ t[d][ArrivedSem(s)] = b[d][ArrivedSem(s)]
        /\ t[d][SumsSem] = b[d][SumsSem]
  BY <1>6, SemaphoreCounts, SemaphoresApart
<1>10. ASSUME NEW d \in CTAS, NEW q \in {0, 1}
       PROVE  /\ MeetingIs(t[d][SyncSem(q)], po[d], MeetingAt(k, q))
              /\ t[d][SyncSem(q)] \in BARRIERS
  <2>1. SyncSem(q) \in SEMAPHORES /\ MatmulSemaphores[SyncSem(q)] = 2
    BY SemaphoreCounts
  <2>2. PICK y : y = b[d][SyncSem(q)] OBVIOUS
  <2>3. PICK z : z = t[d][SyncSem(q)] OBVIOUS
  <2>4. y \in BARRIERS BY <1>5, <2>1, <2>2
  <2>5. PICK h : h = MeetingAt(k, q) OBVIOUS
  <2>6. MeetingIs(y, co[d], h)
    <3>1. CASE q = 0 BY <1>7, <2>2, <2>5, <3>1 DEF MeetingAt
    <3>2. CASE q = 1 BY <1>7, <2>2, <2>5, <3>2 DEF MeetingAt
    <3> QED BY <3>1, <3>2
  <2>7. h \in Nat \ {0} BY <2>5 DEF MeetingAt, Epilogue, GEMM, SILU
  <2>8. co[c] \in [{0, 1} -> Nat] BY DEF ConsumedTyped
  <2>9. po[c] = [co[c] EXCEPT ![w] = @ + 1] /\ (d # c => po[d] = co[d]) BY <1>2
  <2>10. CASE d # c
    <3>1. \A g \in G : ~(g.cta = d /\ g.sem = SyncSem(q)) BY <1>3, <2>10
    <3>2. z = y BY <1>4, <2>1, <2>2, <2>3, <3>1 DEF SignalTo
    <3> QED BY <2>3, <2>4, <2>5, <2>6, <2>9, <2>10, <3>2
  <2>11. CASE d = c /\ j + 1 = h
    <3>1. PICK g \in G : g.sem = SyncSem(q) BY <1>3, <2>5, <2>11
    <3>2. g.cta = c /\ g.arrivals = 1 /\ g.bytes = 0 BY <1>3, <3>1
    <3>3. After(z, y, 2, g) BY <1>4, <2>1, <2>2, <2>3, <2>11, <3>1, <3>2 DEF SignalTo
    <3>4. MeetingIs(y, co[c], h) /\ co[c][w] + 1 = h BY <2>6, <2>11
    <3>5. MeetingIs(z, po[c], h) /\ z \in BARRIERS
      BY <2>4, <2>7, <2>8, <2>9, <3>2, <3>3, <3>4, MeetingArrives
    <3> QED BY <2>3, <2>5, <2>11, <3>5
  <2>12. CASE d = c /\ j + 1 # h
    <3>1. ASSUME NEW g \in G, g.sem = SyncSem(q) PROVE FALSE
      <4>1. PICK p \in {0, 1} : g.sem = SyncSem(p) /\ j + 1 = MeetingAt(k, p) BY <1>3
      <4>2. p = q BY <3>1, <4>1, SemaphoresApart
      <4> QED BY <2>5, <2>12, <4>1, <4>2
    <3>2. z = y BY <1>4, <2>1, <2>2, <2>3, <3>1 DEF SignalTo
    <3>3. MeetingIs(y, co[c], h) BY <2>6, <2>12
    <3>4. co[c][w] >= h \/ co[c][w] + 1 < h BY <1>2, <2>7, <2>12
    <3>5. MeetingIs(y, po[c], h) BY <2>4, <2>7, <2>8, <2>9, <3>3, <3>4, MeetingNext
    <3> QED BY <2>3, <2>4, <2>5, <2>12, <3>2, <3>5
  <2> QED BY <2>10, <2>11, <2>12
<1>11. Counters(n, k, t, la, po, m, in)
  <2>1. \A s \in 0 .. 3 : CountedAt(n, t[0][ArrivedSem(s)], s, la, in) BY <1>7, <1>8, <1>9
  <2>2. \A d \in CTAS :
           /\ \A s \in 0 .. 3 : MultipliedAt(n, t[d][MultipliedSem(s)], s, m)
           /\ BarrierIs(t[d][SumsSem], IF m = 2 * n + 1 THEN 1 ELSE 0, 1)
    BY <1>7, <1>9
  <2>3. \A d \in CTAS : /\ MeetingIs(t[d][SyncSem(0)], po[d], 2)
                        /\ MeetingIs(t[d][SyncSem(1)], po[d], k + 1)
    <3>1. MeetingAt(k, 0) = 2 /\ MeetingAt(k, 1) = k + 1 BY DEF MeetingAt
    <3> QED BY <1>10, <3>1
  <2>4. /\ \A s \in 0 .. 3 : CountedAt(n, t[0][ArrivedSem(s)], s, la, in)
        /\ \A d \in CTAS :
             /\ \A s \in 0 .. 3 : MultipliedAt(n, t[d][MultipliedSem(s)], s, m)
             /\ BarrierIs(t[d][SumsSem], IF m = 2 * n + 1 THEN 1 ELSE 0, 1)
             /\ MeetingIs(t[d][SyncSem(0)], po[d], 2)
             /\ MeetingIs(t[d][SyncSem(1)], po[d], k + 1)
    BY <2>1, <2>2, <2>3
  <2> QED BY <2>4, Zenon DEF Counters, ArrivedIs, MultipliedIs, SumsIs, MeetingsAre
<1>12. SemaphoresTyped(t)
  <2>1. \A d \in CTAS, sem \in SEMAPHORES : t[d][sem] = b[d][sem] \/ t[d][sem] \in BARRIERS
    BY <1>6, <1>10
  <2>2. t = [d \in CTAS |-> [sem \in SEMAPHORES |-> t[d][sem]]] BY <1>4 DEF SignalTo
  <2>3. TypedChange(t, b) BY <2>1, <2>2 DEF TypedChange
  <2> QED BY <2>3, CountsTyped
<1> QED BY <1>11, <1>12

---------------------------------------------------------------------------
(* The other parts of View when a consumer comes to its next step.         *)

\* The consumers stay together.
LEMMA ConsumingNext ==
  ASSUME NEW n \in Nat, NEW k, Epilogue(k), NEW co \in [{0, 1} -> Nat], NEW m,
         Consuming(n, k, co, m), NEW w \in {0, 1}, co[w] <= k + 1,
         NEW po, po = [co EXCEPT ![w] = @ + 1],
         co[w] = 0 => m = 2 * n + 1,
         co[w] = 2 => co[1 - w] >= 2,
         co[w] = k + 1 => co[1 - w] >= k + 1
  PROVE  Consuming(n, k, po, m)
<1>1. k \in {3, 4} BY DEF Epilogue, GEMM, SILU
<1>2. /\ co[w] \in Nat /\ co[1 - w] \in Nat /\ po[w] = co[w] + 1 /\ po[1 - w] = co[1 - w]
      /\ 1 - (1 - w) = w
  OBVIOUS
<1>3. \A v \in {0, 1} :
        /\ co[v] \in 0 .. k + 2
        /\ co[v] >= 1 => m = 2 * n + 1
        /\ co[v] >= 3 => co[1 - v] >= 2
        /\ co[v] >= k + 2 => co[1 - v] >= k + 1
  BY DEF Consuming
<1> PICK a : a = co[w] OBVIOUS
<1> PICK e : e = co[1 - w] OBVIOUS
<1>4. /\ a \in Nat /\ e \in 0 .. k + 2 /\ a <= k + 1
      /\ e >= 1 => m = 2 * n + 1
      /\ a >= 1 => m = 2 * n + 1
      /\ a >= 3 => e >= 2
      /\ e >= 3 => a >= 2
      /\ e >= k + 2 => a >= k + 1
      /\ a = 0 => m = 2 * n + 1
      /\ a = 2 => e >= 2
      /\ a = k + 1 => e >= k + 1
  BY <1>1, <1>2, <1>3
<1>5. /\ a + 1 \in 0 .. k + 2 /\ m = 2 * n + 1
      /\ a + 1 >= 3 => e >= 2
      /\ a + 1 >= k + 2 => e >= k + 1
      /\ e >= 3 => a + 1 >= 2
      /\ e >= k + 2 => a + 1 >= k + 1
  BY <1>1, <1>4
<1> SUFFICES ASSUME NEW v \in {0, 1}
             PROVE  /\ po[v] \in 0 .. k + 2
                    /\ po[v] >= 1 => m = 2 * n + 1
                    /\ po[v] >= 3 => po[1 - v] >= 2
                    /\ po[v] >= k + 2 => po[1 - v] >= k + 1
  BY DEF Consuming
<1>6. CASE v = w BY <1>2, <1>5, <1>6
<1>7. CASE v = 1 - w BY <1>2, <1>4, <1>5, <1>7
<1> QED BY <1>6, <1>7

\* Waits of the consumers that are over.
LEMMA MeetingOver ==
  ASSUME NEW b, NEW co \in [{0, 1} -> Nat], NEW j \in Nat, MeetingIs(b, co, j), b.phase % 2 # 0,
         NEW w \in {0, 1}
  PROVE  co[w] >= j
  BY DEF MeetingIs, BarrierIs

\* The leader finishes page 0 when it is through.
OneMore(k, co, w, po) ==
  co \in [{0, 1} -> Nat] /\ co[w] <= k + 1 /\ po = [co EXCEPT ![w] = @ + 1]
ConsumerFinishes(k, j, w) == IF j = k + 1 /\ w = 0 THEN {0} ELSE {}

\* The pages when a consumer has done a step.
LEMMA ConsumerPages ==
  ASSUME MatmulConfig, NEW n, NEW k, Epilogue(k), NEW given, NEW finished, NEW i, NEW six,
         NEW co, PagesAre(n, k, given, finished, i, six, co),
         NEW w \in {0, 1}, NEW po, OneMore(k, co, w, po)
  PROVE  PagesAre(n, k, given, finished \cup ConsumerFinishes(k, co[w], w), i, six, po)
<1>1. k \in Nat BY DEF Epilogue, GEMM, SILU
<1> USE DEF OneMore
<1> DEFINE more == ConsumerFinishes(k, co[w], w)
<1>2. 0 \in more <=> co[w] = k + 1 /\ w = 0 BY DEF ConsumerFinishes
<1>3. \A lid : lid # 0 => lid \notin more BY DEF ConsumerFinishes
<1> HIDE DEF more
<1>4. co[0] \in Nat /\ co[w] \in Nat /\ (w = 0 => po[0] = co[0] + 1) /\ (w # 0 => po[0] = co[0])
  OBVIOUS
<1>5. po[0] = k + 2 <=> co[0] = k + 2 \/ 0 \in more BY <1>1, <1>2, <1>4
<1>6. \A lid \in 1 .. 5 : lid # 0 OBVIOUS
<1>7. PagesAre(n, k, given, finished \cup more, i, six, po)
  BY <1>3, <1>5, <1>6 DEF PagesAre
<1> QED BY <1>7 DEF more

---------------------------------------------------------------------------
(* The multiplications the launcher starts.                                *)

\* The multiplications of the last iteration, with the commit.
LEMMA TwoAndOne ==
  ASSUME NEW a, NEW b, NEW c
  PROVE  <<a, b>> \o <<c>> = <<a, b, c>>
<1> DEFINE S == {a, b, c}
           u == <<a, b>>
           v == <<c>>
           r == <<a, b, c>>
<1>1. /\ u \in Seq(S) /\ v \in Seq(S) /\ r \in Seq(S)
      /\ Len(u) = 2 /\ Len(v) = 1 /\ Len(r) = 3
  OBVIOUS
<1>2. /\ u[1] = a /\ u[2] = b /\ v[1] = c
      /\ r[1] = a /\ r[2] = b /\ r[3] = c
  OBVIOUS
<1> HIDE DEF S, u, v, r
<1>3. /\ u \o v \in Seq(S) /\ Len(u \o v) = Len(u) + Len(v)
      /\ \A i \in 1 .. Len(u) : (u \o v)[i] = u[i]
      /\ \A i \in 1 .. Len(v) : (u \o v)[i + Len(u)] = v[i]
  <2>1. u \in Seq(S) /\ v \in Seq(S) BY <1>1
  <2> QED BY <2>1, ConcatIs
<1>4. Len(u \o v) = 3 /\ (u \o v)[1] = a /\ (u \o v)[2] = b /\ (u \o v)[3] = c
  <2>1. 1 + 1 = 2 /\ 2 + 1 = 3 /\ 1 \in 1 .. 1 /\ 1 \in 1 .. 2 /\ 2 \in 1 .. 2 /\ 1 + 2 = 3
    OBVIOUS
  <2> QED BY <1>1, <1>2, <1>3, <2>1
<1>5. \A i \in 1 .. 3 : (u \o v)[i] = r[i] BY <1>2, <1>4
<1>6. u \o v = r BY <1>1, <1>3, <1>4, <1>5, SequencesEqual
<1> QED BY <1>6 DEF u, v, r

\* What the launcher starts in an iteration.
LEMMA MultiplicationsAre ==
  ASSUME MatmulConfig, NEW n \in Nat \ {0}, NEW i \in 0 .. n - 1
  PROVE  LET q == Multiplications(i, n) IN
         /\ DOMAIN q = 1 .. (IF i + 1 < n THEN 2 ELSE 3)
         /\ q[1] = Multiply(i, 0) /\ q[2] = Multiply(i, 1)
         /\ i + 1 = n => q[3] = TensorCommit(SumsSem)
<1> PICK x : x = Multiply(i, 0) OBVIOUS
<1> PICK y : y = Multiply(i, 1) OBVIOUS
<1> PICK z : z = TensorCommit(SumsSem) OBVIOUS
<1>1. [u \in 1 .. NUM_CONSUMERS |-> Multiply(i, u - 1)] = <<x, y>>
  <2>1. NUM_CONSUMERS = 2 BY DEF MatmulConfig
  <2> DEFINE f == [u \in 1 .. 2 |-> Multiply(i, u - 1)]
  <2>2. 1 - 1 = 0 /\ 2 - 1 = 1 OBVIOUS
  <2>3. f = [u \in 1 .. 2 |-> f[u]] OBVIOUS
  <2>4. f[1] = x /\ f[2] = y BY <2>2
  <2> HIDE DEF f
  <2>5. f = <<x, y>> BY <2>3, <2>4
  <2> QED BY <2>1, <2>5 DEF f
<1>2. <<"outputs_arrived", 0>> = SumsSem BY DEF SumsSem
<1>3. Multiplications(i, n) = <<x, y>> \o (IF i + 1 < n THEN << >> ELSE <<z>>)
  BY <1>1, <1>2 DEF Multiplications
<1>4. CASE i + 1 < n
  <2>1. Multiplications(i, n) = <<x, y>> BY <1>3, <1>4
  <2> QED BY <1>4, <2>1
<1>5. CASE ~(i + 1 < n)
  <2>1. Multiplications(i, n) = <<x, y>> \o <<z>> 
    <3> DEFINE e == Multiplications(i, n)
    <3>1. e = <<x, y>> \o (IF i + 1 < n THEN << >> ELSE <<z>>) BY <1>3
    <3> HIDE DEF e
    <3>2. e = <<x, y>> \o <<z>> BY <1>5, <3>1
    <3> QED BY <3>2 DEF e
  <2>2. <<x, y>> \o <<z>> = <<x, y, z>> BY TwoAndOne
  <2>3. Multiplications(i, n) = <<x, y, z>> BY <2>1, <2>2
  <2>4. /\ DOMAIN <<x, y, z>> = 1 .. 3 /\ <<x, y, z>>[1] = x
        /\ <<x, y, z>>[2] = y /\ <<x, y, z>>[3] = z
    OBVIOUS
  <2> QED BY <1>5, <2>3, <2>4
<1> QED BY <1>4, <1>5

\* The multiplications come in the order of the iterations,
LEMMA QueueAtIs ==
  ASSUME NEW n \in Nat \ {0}, NEW i \in 0 .. n - 1, NEW w \in {0, 1}
  PROVE  QueueAt(n, 2 * i + w + 1) = Started(Multiply(i, w))
<1> PICK j : j = 2 * i + w + 1 OBVIOUS
<1>1. j # 2 * n + 1 /\ (j - 1) \div 2 = i /\ (j - 1) % 2 = w OBVIOUS
<1>2. QueueAt(n, j) = Started(Multiply((j - 1) \div 2, (j - 1) % 2)) BY <1>1 DEF QueueAt
<1> QED BY <1>1, <1>2

\* and the commit is the last.
LEMMA LastInQueue ==
  ASSUME NEW n \in Nat
  PROVE  QueueAt(n, 2 * n + 1) = Started(TensorCommit(SumsSem))
  BY DEF QueueAt

\* The queue is a sequence.
LEMMA QueueIs ==
  ASSUME NEW n \in Nat \ {0}, NEW la \in 0 .. n + 1
  PROVE  /\ QueueLength(n, la) \in Nat
         /\ Len(Queue(n, la)) = QueueLength(n, la)
         /\ \A j \in 1 .. QueueLength(n, la) : Queue(n, la)[j] = QueueAt(n, j)
         /\ DOMAIN Queue(n, la) = 1 .. QueueLength(n, la)
         /\ Queue(n, la) \in Seq({QueueAt(n, j) : j \in Nat})
<1>1. QueueLength(n, la) \in Nat BY DEF QueueLength
<1> PICK l \in Nat : l = QueueLength(n, la) BY <1>1
<1>2. Queue(n, la) = [j \in 1 .. l |-> QueueAt(n, j)] BY DEF Queue
<1>3. [j \in 1 .. l |-> QueueAt(n, j)] \in Seq({QueueAt(n, j) : j \in Nat}) OBVIOUS
<1>4. Len([j \in 1 .. l |-> QueueAt(n, j)]) = l OBVIOUS
<1> QED BY <1>1, <1>2, <1>3, <1>4

\* A step of the launcher appends to the queue.
LEMMA QueueAppended ==
  ASSUME MatmulConfig, NEW n \in Nat \ {0}, NEW la \in 0 .. n, NEW s,
         s.mmas = IF la = 0 THEN << >> ELSE Multiplications(la - 1, n)
  PROVE  Queue(n, la) \o MmasOf(s) = Queue(n, la + 1)
<1> DEFINE S == {QueueAt(n, j) : j \in Nat}
<1> PICK ms : ms = s.mmas OBVIOUS
<1>1. MmasOf(s) = [i \in DOMAIN ms |-> Started(ms[i])] BY DEF MmasOf, Started
<1> PICK p : p = Queue(n, la) OBVIOUS
<1> PICK r : r = Queue(n, la + 1) OBVIOUS
<1> PICK q : q = MmasOf(s) OBVIOUS
<1>2. /\ QueueLength(n, la) \in Nat /\ Len(p) = QueueLength(n, la)
      /\ \A j \in 1 .. QueueLength(n, la) : p[j] = QueueAt(n, j)
      /\ p \in Seq(S)
  <2>1. la \in 0 .. n + 1 OBVIOUS
  <2> HIDE DEF S
  <2> QED BY <2>1, QueueIs DEF S
<1>3. /\ QueueLength(n, la + 1) \in Nat /\ Len(r) = QueueLength(n, la + 1)
      /\ \A j \in 1 .. QueueLength(n, la + 1) : r[j] = QueueAt(n, j)
      /\ r \in Seq(S)
  <2>1. la + 1 \in 0 .. n + 1 OBVIOUS
  <2> QED BY <2>1, QueueIs
<1> PICK x : x = QueueLength(n, la) OBVIOUS
<1> PICK y : y = QueueLength(n, la + 1) OBVIOUS
<1>4. /\ y = x + (IF la = 0 THEN 0 ELSE IF la = n THEN 3 ELSE 2)
      /\ la # 0 => x = 2 * (la - 1)
  BY DEF QueueLength
<1>5. /\ q \in Seq(S) /\ Len(q) = y - x
      /\ \A j \in 1 .. y - x : q[j] = QueueAt(n, x + j)
  <2>1. CASE la = 0
    <3>1. ms = << >> BY <2>1
    <3>2. q = << >> BY <1>1, <3>1
    <3> HIDE DEF S
    <3> QED BY <2>1, <3>2, <1>2, <1>4
  <2>2. CASE la # 0
    <3> PICK i : i = la - 1 OBVIOUS
    <3>1. i \in 0 .. n - 1 /\ x = 2 * i /\ (la = n <=> i + 1 = n) BY <2>2, <1>4
    <3>2. ms = Multiplications(i, n) BY <2>2
    <3>3. /\ DOMAIN ms = 1 .. (IF i + 1 < n THEN 2 ELSE 3)
          /\ ms[1] = Multiply(i, 0) /\ ms[2] = Multiply(i, 1)
          /\ i + 1 = n => ms[3] = TensorCommit(SumsSem)
      BY <3>1, <3>2, MultiplicationsAre
    <3>4. DOMAIN ms = 1 .. y - x /\ y - x \in {2, 3} /\ (y - x = 3 <=> i + 1 = n)
      BY <1>4, <2>2, <3>1, <3>3
    <3>5. /\ QueueAt(n, x + 1) = Started(Multiply(i, 0))
          /\ QueueAt(n, x + 2) = Started(Multiply(i, 1))
          /\ i + 1 = n => QueueAt(n, x + 3) = Started(TensorCommit(SumsSem))
      <4>1. x + 1 = 2 * i + 0 + 1 /\ x + 2 = 2 * i + 1 + 1 /\ (i + 1 = n => x + 3 = 2 * n + 1)
        BY <3>1
      <4>2. QueueAt(n, 2 * i + 0 + 1) = Started(Multiply(i, 0)) BY <3>1, QueueAtIs
      <4>3. QueueAt(n, 2 * i + 1 + 1) = Started(Multiply(i, 1)) BY <3>1, QueueAtIs
      <4> QED BY <4>1, <4>2, <4>3, LastInQueue
    <3> PICK d : d = y - x OBVIOUS
    <3>6. q = [j \in 1 .. d |-> q[j]] BY <1>1, <3>4
    <3>7. \A j \in 1 .. d : q[j] = Started(ms[j]) BY <1>1, <3>4
    <3>8. \A j \in 1 .. d : j = 1 \/ j = 2 \/ (j = 3 /\ i + 1 = n) BY <3>4
    <3>9. \A j \in 1 .. d : q[j] = QueueAt(n, x + j)
      BY <3>3, <3>5, <3>7, <3>8
    <3>10. \A j \in 1 .. d : x + j \in Nat BY <1>2
    <3>11. d \in Nat BY <3>4
    <3>12. \A j \in 1 .. d : q[j] \in S BY <3>9, <3>10
    <3> HIDE DEF S
    <3>13. q \in Seq(S) /\ Len(q) = d BY <3>6, <3>11, <3>12
    <3> QED BY <3>9, <3>13
  <2> QED BY <2>1, <2>2
<1> HIDE DEF S
<1>6. /\ p \o q \in Seq(S) /\ Len(p \o q) = Len(p) + Len(q)
      /\ \A i \in 1 .. Len(p) : (p \o q)[i] = p[i]
      /\ \A i \in 1 .. Len(q) : (p \o q)[i + Len(p)] = q[i]
  BY <1>2, <1>5, ConcatIs
<1> PICK u : u = p \o q OBVIOUS
<1>7. x \in Nat /\ y \in Nat /\ y >= x BY <1>2, <1>3, <1>4
<1>8. Len(u) = y BY <1>2, <1>5, <1>6, <1>7
<1>9. ASSUME NEW j \in 1 .. y PROVE u[j] = r[j]
  <2>1. r[j] = QueueAt(n, j) BY <1>3
  <2>2. CASE j <= x BY <1>2, <1>6, <1>7, <2>1, <2>2
  <2>3. CASE j > x
    <3> PICK v : v = j - x OBVIOUS
    <3>1. v \in 1 .. y - x /\ j = x + v /\ j = v + x BY <1>7, <2>3
    <3>2. u[v + x] = q[v] BY <1>2, <1>5, <1>6, <3>1
    <3> QED BY <1>5, <2>1, <3>1, <3>2
  <2>4. j <= x \/ j > x BY <1>7
  <2> QED BY <2>2, <2>3, <2>4
<1>10. u = r BY <1>3, <1>6, <1>8, <1>9, SequencesEqual
<1> QED BY <1>10

---------------------------------------------------------------------------
(* Tensor memory.                                                          *)

\* Without a multiplication the sums stay,
LEMMA OverwrittenByNone ==
  ASSUME NEW tensor PROVE Overwritten(tensor, << >>) = tensor
  BY DEF Overwritten

\* and none come of starting one.
LEMMA OverwrittenTyped ==
  ASSUME NEW tensor, NEW mmas PROVE Overwritten(tensor, mmas) \subseteq tensor
  BY DEF Overwritten

\* Before the last iteration's multiplications nothing is said of the sums.
LEMMA SumsNotYet ==
  ASSUME NEW n \in Nat, NEW m \in Nat, m < 2 * n - 1, NEW tensor
  PROVE  SumsAre(n, tensor, m)
  BY DEF SumsAre

\* What a multiplication does to tensor memory.
Summed(tensor, x) ==
  Overwritten(tensor, <<x>>) \cup {[cta |-> d, part |-> x.part, tag |-> x.tag] : d \in x.ctas}

\* A multiplication keeps the sums of the other warpgroup, and makes its own.
LEMMA SumsAfterMultiply ==
  ASSUME MatmulConfig, NEW n \in Nat \ {0}, NEW tensor, NEW i \in 0 .. n - 1, NEW w \in {0, 1},
         NEW m, m = 2 * i + w, SumsAre(n, tensor, m)
  PROVE  SumsAre(n, Summed(tensor, Started(Multiply(i, w))), m + 1)
<1> PICK x : x = Started(Multiply(i, w)) OBVIOUS
<1>1. x.part = w /\ x.tag = i /\ x.ctas = {0, 1} BY DEF Started, Multiply
<1>2. CTAS = {0, 1} BY ConfigIs
<1> SUFFICES ASSUME NEW c \in CTAS, NEW v \in {0, 1}, m + 1 >= 2 * n - 1 + v
             PROVE  SumFact(c, v, n - 1) \in Summed(tensor, x)
  BY DEF SumsAre
<1>3. i = n - 1 /\ (v # w => m >= 2 * n - 1 + v) OBVIOUS
<1>4. CASE v = w
  <2>1. SumFact(c, v, n - 1) = [cta |-> c, part |-> x.part, tag |-> x.tag]
    BY <1>1, <1>3, <1>4 DEF SumFact
  <2> QED BY <1>1, <1>2, <2>1 DEF Summed
<1>5. CASE v # w
  <2>1. SumFact(c, v, n - 1) \in tensor BY <1>3, <1>5 DEF SumsAre
  <2>2. SumFact(c, v, n - 1).part = v BY DEF SumFact
  <2> PICK f : f = SumFact(c, v, n - 1) OBVIOUS
  <2>3. f \in tensor /\ f.part # x.part BY <1>1, <1>5, <2>1, <2>2
  <2>4. DOMAIN <<x>> = {1} /\ <<x>>[1] = x OBVIOUS
  <2>5. f \in Overwritten(tensor, <<x>>) BY <2>3, <2>4 DEF Overwritten
  <2> QED BY <2>5 DEF Summed
<1> QED BY <1>4, <1>5

\* The commit keeps the sums.
LEMMA SumsAfterCommit ==
  ASSUME MatmulConfig, NEW n \in Nat \ {0}, NEW tensor, NEW m, m = 2 * n, SumsAre(n, tensor, m)
  PROVE  SumsAre(n, Summed(tensor, Started(TensorCommit(SumsSem))), m + 1)
<1> PICK x : x = Started(TensorCommit(SumsSem)) OBVIOUS
<1>1. x.part = 99 BY DEF Started, TensorCommit, NO_PART
<1> SUFFICES ASSUME NEW c \in CTAS, NEW v \in {0, 1}, m + 1 >= 2 * n - 1 + v
             PROVE  SumFact(c, v, n - 1) \in Summed(tensor, x)
  BY DEF SumsAre
<1>2. m >= 2 * n - 1 + v OBVIOUS
<1> PICK f : f = SumFact(c, v, n - 1) OBVIOUS
<1>3. f \in tensor BY <1>2 DEF SumsAre
<1>4. f.part = v BY DEF SumFact
<1>5. f.part # x.part BY <1>1, <1>4
<1>6. DOMAIN <<x>> = {1} /\ <<x>>[1] = x OBVIOUS
<1>7. f \in Overwritten(tensor, <<x>>) BY <1>3, <1>5, <1>6 DEF Overwritten
<1> QED BY <1>7 DEF Summed

---------------------------------------------------------------------------
(* The consumers' steps.                                                   *)

\* Step j of a consumer is as ConsumerIs says.
LEMMA ConsumerStepIs ==
  ASSUME NEW c, NEW n, NEW k, Epilogue(k), NEW w, NEW j \in 0 .. k + 1
  PROVE  ConsumerIs(c, n, k, w, j, ConsumerAt(c, n, k, w)[j + 1])
<1> PICK A : A = Wait("outputs_arrived", 0, 0) OBVIOUS
<1> PICK here : here = Meets(c, 0) OBVIOUS
<1> PICK there : there = Meets(c, 1) OBVIOUS
<1> PICK W0 : W0 = Met(0) OBVIOUS
<1> PICK W1 : W1 = Met(1) OBVIOUS
<1> PICK S : S = Sums(n, w) OBVIOUS
<1> PICK R : R = Stored(w) OBVIOUS
<1> PICK F : F = IF w = 0 THEN {0} ELSE {} OBVIOUS
<1>1. (w = 0) \in BOOLEAN OBVIOUS
<1>2. CASE k = GEMM
  <2> PICK q : q = PlainAt(c, n, w) OBVIOUS
  <2>1. /\ q[1] = [Step EXCEPT !.waits = {A}]
        /\ q[2] = [Step EXCEPT !.tensorHolds = S, !.signals = here]
        /\ q[3] = [Step EXCEPT !.waits = W0, !.tensorFinish = w = 0, !.puts = R]
        /\ q[4] = [Step EXCEPT !.holds = R, !.signals = there]
        /\ q[5] = [Step EXCEPT !.waits = W1, !.finishes = F]
    BY DEF PlainAt
  <2>2. ConsumerAt(c, n, k, w) = q /\ k = 3 /\ GEMM = 3 /\ SILU = 4
    BY <1>2 DEF ConsumerAt, GEMM, SILU
  <2>3. CASE j = 0
    <3>1. q[j + 1] = [Step EXCEPT !.waits = {A}] BY <2>1, <2>3
    <3>2. StepHas(q[j + 1], {A}, {}, {}, {}, {}, FALSE, {})
      BY <3>1 DEF Step, StepHas
    <3>3. /\ (j = 0) /\ ~(j = 1) /\ ~(j = 2)
          /\ ~(j = k + 1) /\ ~(j = k) /\ ~(j = k - 1)
          /\ ~((k = GEMM /\ j = 1) \/ (k = SILU /\ j = 3))
      BY <2>2, <2>3
    <3> QED BY <2>2, <3>2, <3>3, Zenon DEF ConsumerIs, StepHas
  <2>4. CASE j = 1
    <3>1. q[j + 1] = [Step EXCEPT !.tensorHolds = S, !.signals = here] BY <2>1, <2>4
    <3>2. StepHas(q[j + 1], {}, here, {}, {}, {}, FALSE, S)
      BY <3>1 DEF Step, StepHas
    <3>3. /\ ~(j = 0) /\ (j = 1) /\ ~(j = 2)
          /\ ~(j = k + 1) /\ ~(j = k) /\ ~(j = k - 1)
          /\ ((k = GEMM /\ j = 1) \/ (k = SILU /\ j = 3))
      BY <2>2, <2>4
    <3> QED BY <2>2, <3>2, <3>3, Zenon DEF ConsumerIs, StepHas
  <2>5. CASE j = 2
    <3>1. q[j + 1] = [Step EXCEPT !.waits = W0, !.tensorFinish = w = 0, !.puts = R]
      BY <2>1, <2>5
    <3>2. StepHas(q[j + 1], W0, {}, R, {}, {}, w = 0, {})
      BY <3>1 DEF Step, StepHas
    <3>3. /\ ~(j = 0) /\ ~(j = 1) /\ (j = 2)
          /\ ~(j = k + 1) /\ ~(j = k) /\ (j = k - 1)
          /\ ~((k = GEMM /\ j = 1) \/ (k = SILU /\ j = 3))
      BY <2>2, <2>5
    <3> QED BY <2>2, <3>2, <3>3, Zenon DEF ConsumerIs, StepHas
  <2>6. CASE j = 3
    <3>1. q[j + 1] = [Step EXCEPT !.holds = R, !.signals = there] BY <2>1, <2>6
    <3>2. StepHas(q[j + 1], {}, there, {}, R, {}, FALSE, {})
      BY <3>1 DEF Step, StepHas
    <3>3. /\ ~(j = 0) /\ ~(j = 1) /\ ~(j = 2)
          /\ ~(j = k + 1) /\ (j = k) /\ ~(j = k - 1)
          /\ ~((k = GEMM /\ j = 1) \/ (k = SILU /\ j = 3))
      BY <2>2, <2>6
    <3> QED BY <2>2, <3>2, <3>3, Zenon DEF ConsumerIs, StepHas
  <2>7. CASE j = 4
    <3>1. q[j + 1] = [Step EXCEPT !.waits = W1, !.finishes = F] BY <2>1, <2>7
    <3>2. StepHas(q[j + 1], W1, {}, {}, {}, F, FALSE, {})
      BY <3>1 DEF Step, StepHas
    <3>3. /\ ~(j = 0) /\ ~(j = 1) /\ ~(j = 2)
          /\ (j = k + 1) /\ ~(j = k) /\ ~(j = k - 1)
          /\ ~((k = GEMM /\ j = 1) \/ (k = SILU /\ j = 3))
      BY <2>2, <2>7
    <3> QED BY <2>2, <3>2, <3>3, Zenon DEF ConsumerIs, StepHas
  <2> QED BY <2>2, <2>3, <2>4, <2>5, <2>6, <2>7
<1>3. CASE k = SILU
  <2> PICK q : q = SiluAt(c, n, w) OBVIOUS
  <2>1. /\ q[1] = [Step EXCEPT !.waits = {A}]
        /\ q[2] = [Step EXCEPT !.signals = here]
        /\ q[3] = [Step EXCEPT !.waits = W0]
        /\ q[4] = [Step EXCEPT !.tensorHolds = S, !.puts = R, !.tensorFinish = w = 0]
        /\ q[5] = [Step EXCEPT !.holds = R, !.signals = there]
        /\ q[6] = [Step EXCEPT !.waits = W1, !.finishes = F]
    BY DEF SiluAt
  <2>2. ConsumerAt(c, n, k, w) = q /\ k = 4 /\ GEMM = 3 /\ SILU = 4
    BY <1>3 DEF ConsumerAt, GEMM, SILU
  <2>3. CASE j = 0
    <3>1. q[j + 1] = [Step EXCEPT !.waits = {A}] BY <2>1, <2>3
    <3>2. StepHas(q[j + 1], {A}, {}, {}, {}, {}, FALSE, {})
      BY <3>1 DEF Step, StepHas
    <3>3. /\ (j = 0) /\ ~(j = 1) /\ ~(j = 2)
          /\ ~(j = k + 1) /\ ~(j = k) /\ ~(j = k - 1)
          /\ ~((k = GEMM /\ j = 1) \/ (k = SILU /\ j = 3))
      BY <2>2, <2>3
    <3> QED BY <2>2, <3>2, <3>3, Zenon DEF ConsumerIs, StepHas
  <2>4. CASE j = 1
    <3>1. q[j + 1] = [Step EXCEPT !.signals = here] BY <2>1, <2>4
    <3>2. StepHas(q[j + 1], {}, here, {}, {}, {}, FALSE, {})
      BY <3>1 DEF Step, StepHas
    <3>3. /\ ~(j = 0) /\ (j = 1) /\ ~(j = 2)
          /\ ~(j = k + 1) /\ ~(j = k) /\ ~(j = k - 1)
          /\ ~((k = GEMM /\ j = 1) \/ (k = SILU /\ j = 3))
      BY <2>2, <2>4
    <3> QED BY <2>2, <3>2, <3>3, Zenon DEF ConsumerIs, StepHas
  <2>5. CASE j = 2
    <3>1. q[j + 1] = [Step EXCEPT !.waits = W0] BY <2>1, <2>5
    <3>2. StepHas(q[j + 1], W0, {}, {}, {}, {}, FALSE, {})
      BY <3>1 DEF Step, StepHas
    <3>3. /\ ~(j = 0) /\ ~(j = 1) /\ (j = 2)
          /\ ~(j = k + 1) /\ ~(j = k) /\ ~(j = k - 1)
          /\ ~((k = GEMM /\ j = 1) \/ (k = SILU /\ j = 3))
      BY <2>2, <2>5
    <3> QED BY <2>2, <3>2, <3>3, Zenon DEF ConsumerIs, StepHas
  <2>6. CASE j = 3
    <3>1. q[j + 1] = [Step EXCEPT !.tensorHolds = S, !.puts = R, !.tensorFinish = w = 0]
      BY <2>1, <2>6
    <3>2. StepHas(q[j + 1], {}, {}, R, {}, {}, w = 0, S)
      BY <3>1 DEF Step, StepHas
    <3>3. /\ ~(j = 0) /\ ~(j = 1) /\ ~(j = 2)
          /\ ~(j = k + 1) /\ ~(j = k) /\ (j = k - 1)
          /\ ((k = GEMM /\ j = 1) \/ (k = SILU /\ j = 3))
      BY <2>2, <2>6
    <3> QED BY <2>2, <3>2, <3>3, Zenon DEF ConsumerIs, StepHas
  <2>7. CASE j = 4
    <3>1. q[j + 1] = [Step EXCEPT !.holds = R, !.signals = there] BY <2>1, <2>7
    <3>2. StepHas(q[j + 1], {}, there, {}, R, {}, FALSE, {})
      BY <3>1 DEF Step, StepHas
    <3>3. /\ ~(j = 0) /\ ~(j = 1) /\ ~(j = 2)
          /\ ~(j = k + 1) /\ (j = k) /\ ~(j = k - 1)
          /\ ~((k = GEMM /\ j = 1) \/ (k = SILU /\ j = 3))
      BY <2>2, <2>7
    <3> QED BY <2>2, <3>2, <3>3, Zenon DEF ConsumerIs, StepHas
  <2>8. CASE j = 5
    <3>1. q[j + 1] = [Step EXCEPT !.waits = W1, !.finishes = F] BY <2>1, <2>8
    <3>2. StepHas(q[j + 1], W1, {}, {}, {}, F, FALSE, {})
      BY <3>1 DEF Step, StepHas
    <3>3. /\ ~(j = 0) /\ ~(j = 1) /\ ~(j = 2)
          /\ (j = k + 1) /\ ~(j = k) /\ ~(j = k - 1)
          /\ ~((k = GEMM /\ j = 1) \/ (k = SILU /\ j = 3))
      BY <2>2, <2>8
    <3> QED BY <2>2, <3>2, <3>3, Zenon DEF ConsumerIs, StepHas
  <2> QED BY <2>2, <2>3, <2>4, <2>5, <2>6, <2>7, <2>8
<1> QED BY <1>2, <1>3 DEF Epilogue

---------------------------------------------------------------------------
(* States.                                                                 *)

InputLoads(n) == {InputLoad(c, i) : c \in CTAS, i \in 0 .. n - 1}

RecordOf(st) ==
  [at |-> st.at, done |-> st.done, passed |-> st.passed, semaphore |-> st.semaphore,
   given |-> st.given, finished |-> st.finished, contents |-> st.contents,
   tensor |-> st.tensor, tensorFinished |-> st.tensorFinished, loading |-> st.loading,
   mmas |-> st.mmas, multiplied |-> st.multiplied]

StateTyped(n, st) ==
  /\ st = RecordOf(st)
  /\ WarpsTyped(st)
  /\ st.passed \in [CTAS -> SUBSET {6}]
  /\ SemaphoresTyped(st.semaphore)
  /\ st.given \in [CTAS -> SUBSET LIDS]
  /\ st.finished \in [CTAS -> SUBSET LIDS]
  /\ st.contents \subseteq FACTS
  /\ st.tensor \subseteq SUMS
  /\ st.tensorFinished \subseteq CTAS
  /\ st.loading \subseteq InputLoads(n)
  /\ st.mmas \in {Queue(n, la) : la \in 0 .. n + 1}
  /\ st.multiplied \in Nat

\* Universe, field by field.
LEMMA UniverseIs ==
  ASSUME NEW n, NEW k, NEW st
  PROVE  st \in Universe(n, k) <=> StateTyped(n, st)
<1>1. InputLoads(n) = {InputLoad(c, i) : c \in CTAS, i \in 0 .. n - 1} BY DEF InputLoads
<1> PICK Q : Q = {Queue(n, la) : la \in 0 .. n + 1} OBVIOUS
<1> PICK I : I = InputLoads(n) OBVIOUS
<1>2. Universe(n, k) =
  [at : [CTAS -> [WARPS -> Nat]],
   done : [CTAS -> [WARPS -> BOOLEAN]],
   passed : [CTAS -> SUBSET {6}],
   semaphore : [CTAS -> [SEMAPHORES -> BARRIERS]],
   given : [CTAS -> SUBSET LIDS],
   finished : [CTAS -> SUBSET LIDS],
   contents : SUBSET FACTS,
   tensor : SUBSET SUMS,
   tensorFinished : SUBSET CTAS,
   loading : SUBSET I,
   mmas : Q,
   multiplied : Nat]
  BY <1>1 DEF Universe
<1> QED BY <1>2 DEF StateTyped, RecordOf, WarpsTyped, SemaphoresTyped

\* A state of the set that is shown to be closed.
Good(n, k, st) == st \in Universe(n, k) /\ GInv(n, k, st)

GoodView(n, k, st, ld, la, co, m, in) ==
  /\ ld = Loaded(n, st) /\ la = Launched(n, st) /\ co = Consumed(k, st)
  /\ m = st.multiplied /\ in = Landed(n, ld, st.loading)
  /\ View(n, k, st, ld, la, co, m, in)
  /\ InControl(n, k, st.at, st.done)
  /\ StateTyped(n, st)

\* How far the warps are in a good state.
LEMMA GoodIs ==
  ASSUME NEW n, NEW k, NEW st, Good(n, k, st)
  PROVE  \E ld, la, co, m, in : GoodView(n, k, st, ld, la, co, m, in)
<1>1. GoodView(n, k, st, Loaded(n, st), Launched(n, st), Consumed(k, st), st.multiplied,
               Landed(n, Loaded(n, st), st.loading))
  BY UniverseIs DEF Good, GInv, GoodView
<1> QED BY <1>1

\* A state as a view describes it is good.
LEMMA GoodFrom ==
  ASSUME NEW n, NEW k, NEW st, NEW ld, NEW la, NEW co, NEW m, NEW in,
         GoodView(n, k, st, ld, la, co, m, in)
  PROVE  Good(n, k, st)
<1>1. st \in Universe(n, k) BY UniverseIs DEF GoodView
<1>2. GInv(n, k, st) BY Zenon DEF GoodView, GInv
<1> QED BY <1>1, <1>2 DEF Good

---------------------------------------------------------------------------
(* What a step of a warp does, apart from the warp's own place.            *)

Effect(n, k, st, c, s, t) ==
  /\ t = RecordOf(t)
  /\ t.passed = st.passed
  /\ t.semaphore = SignalAll(Matmuls(n, k), st, s.signals)
  /\ t.given = [st.given EXCEPT ![c] = @ \cup s.pages]
  /\ t.finished = [st.finished EXCEPT ![c] = @ \cup s.finishes]
  /\ t.contents = Written(st.contents, c, s)
  /\ t.tensor = Overwritten(st.tensor, s.mmas)
  /\ t.tensorFinished = IF s.tensorFinish THEN st.tensorFinished \cup {c}
                        ELSE st.tensorFinished
  /\ t.loading = st.loading \cup LoadsOf(c, s)
  /\ t.mmas = st.mmas \o MmasOf(s)
  /\ t.multiplied = st.multiplied

\* A step of a warp has its effect, and moves that warp.
LEMMA AdvancedIs ==
  ASSUME MatmulConfig, NEW n, NEW k, NEW st, WarpsTyped(st), NEW c \in CTAS, NEW w \in WARPS,
         NEW s, s = At(Matmuls(n, k), st, c, w),
         NEW last \in BOOLEAN, last <=> IsLast(Matmuls(n, k), st, c, w),
         NEW t, t = Advanced(Matmuls(n, k), st, c, w)
  PROVE  /\ Effect(n, k, st, c, s, t)
         /\ Moved(st, t, c, w, IF last THEN 0 ELSE st.at[c][w] + 1, last)
<1> PICK inst : inst = Matmuls(n, k) OBVIOUS
<1> PICK a : a = IF last THEN 0 ELSE st.at[c][w] + 1 OBVIOUS
<1>1. last = IsLast(inst, st, c, w) BY DEF IsLast
<1>2. t = [at |-> [st.at EXCEPT ![c][w] = a],
           done |-> [st.done EXCEPT ![c][w] = last],
           passed |-> st.passed,
           semaphore |-> SignalAll(inst, st, s.signals),
           given |-> [st.given EXCEPT ![c] = @ \cup s.pages],
           finished |-> [st.finished EXCEPT ![c] = @ \cup s.finishes],
           contents |-> Written(st.contents, c, s),
           tensor |-> Overwritten(st.tensor, s.mmas),
           tensorFinished |-> IF s.tensorFinish THEN st.tensorFinished \cup {c}
                              ELSE st.tensorFinished,
           loading |-> st.loading \cup LoadsOf(c, s),
           mmas |-> st.mmas \o MmasOf(s),
           multiplied |-> st.multiplied]
  <2>1. t = [at |-> [st.at EXCEPT ![c][w] = IF last THEN 0 ELSE @ + 1],
           done |-> [st.done EXCEPT ![c][w] = last],
           passed |-> st.passed,
           semaphore |-> SignalAll(inst, st, s.signals),
           given |-> [st.given EXCEPT ![c] = @ \cup s.pages],
           finished |-> [st.finished EXCEPT ![c] = @ \cup s.finishes],
           contents |-> Written(st.contents, c, s),
           tensor |-> Overwritten(st.tensor, s.mmas),
           tensorFinished |-> IF s.tensorFinish THEN st.tensorFinished \cup {c}
                              ELSE st.tensorFinished,
           loading |-> st.loading \cup LoadsOf(c, s),
           mmas |-> st.mmas \o MmasOf(s),
           multiplied |-> st.multiplied]
    BY <1>1, Zenon DEF Advanced
  <2>2. [st.at EXCEPT ![c][w] = IF last THEN 0 ELSE @ + 1] = [st.at EXCEPT ![c][w] = a]
    OBVIOUS
  <2> QED BY <2>1, <2>2
<1>3. Effect(n, k, st, c, s, t) BY <1>2 DEF Effect, RecordOf
<1>4. t.at = [st.at EXCEPT ![c][w] = a] /\ t.done = [st.done EXCEPT ![c][w] = last]
  BY <1>2
<1>5. a \in Nat
  <2>1. st.at[c][w] \in Nat BY DEF WarpsTyped
  <2>2. CASE last BY <2>2
  <2>3. CASE ~last BY <2>1, <2>3
  <2> QED BY <2>2, <2>3
<1>6. Moved(st, t, c, w, a, last)
  <2>1. MovedTo(st, t, c, w, a, last) BY <1>4 DEF MovedTo
  <2> QED BY <1>5, <2>1, MoveIs
<1> QED BY <1>3, <1>6

\* The pages, per CTA.
EffectIs(st, t, c, s) ==
  /\ t.given \in [CTAS -> SUBSET LIDS] /\ t.finished \in [CTAS -> SUBSET LIDS]
  /\ t.given[c] = st.given[c] \cup s.pages
  /\ t.finished[c] = st.finished[c] \cup s.finishes
  /\ \A d \in CTAS : d # c => t.given[d] = st.given[d] /\ t.finished[d] = st.finished[d]

\* A step changes the pages of its CTA.
LEMMA EffectOnPages ==
  ASSUME NEW n, NEW k, NEW st, StateTyped(n, st), NEW c \in CTAS, NEW s, NEW t,
         Effect(n, k, st, c, s, t), s.pages \subseteq LIDS, s.finishes \subseteq LIDS
  PROVE  EffectIs(st, t, c, s)
<1> PICK g : g = st.given OBVIOUS
<1> PICK f : f = st.finished OBVIOUS
<1> PICK p \in SUBSET LIDS : p = s.pages OBVIOUS
<1> PICK q \in SUBSET LIDS : q = s.finishes OBVIOUS
<1>1. g \in [CTAS -> SUBSET LIDS] /\ f \in [CTAS -> SUBSET LIDS] BY DEF StateTyped
<1>2. t.given = [g EXCEPT ![c] = @ \cup p] /\ t.finished = [f EXCEPT ![c] = @ \cup q]
  BY DEF Effect
<1>3. [g EXCEPT ![c] = @ \cup p] \in [CTAS -> SUBSET LIDS] BY <1>1
<1>4. [f EXCEPT ![c] = @ \cup q] \in [CTAS -> SUBSET LIDS] BY <1>1
<1> QED BY <1>1, <1>2, <1>3, <1>4 DEF EffectIs

\* What a step writes: nothing,
LEMMA WrittenNothing ==
  ASSUME NEW contents, NEW c, NEW s, s.loads = {}, s.puts = {}
  PROVE  Written(contents, c, s) = contents
  BY DEF Written, TornBy, PutBy

\* what its load tears,
LEMMA WrittenByLoad ==
  ASSUME NEW contents, NEW c, NEW s, NEW x, s.loads = {x}, s.puts = {}
  PROVE  Written(contents, c, s) = KeptFacts(contents, c, x.regions)
<1>1. TornBy(s) = x.regions /\ PutBy(s) = {} BY DEF TornBy, PutBy
<1>2. {[cta |-> c, lid |-> y.lid, part |-> y.part, tag |-> y.tag] :
         y \in {z \in s.puts : <<z.lid, z.part>> \notin TornBy(s)}} = {}
  OBVIOUS
<1> QED BY <1>1, <1>2 DEF Written, KeptFacts

\* or results.
LEMMA WrittenByStore ==
  ASSUME NEW contents, NEW c, NEW s, NEW w, s.loads = {}, s.puts = Stored(w)
  PROVE  Written(contents, c, s) = WithResult(contents, c, w)
<1> PICK x : x = [lid |-> 0, part |-> w, tag |-> RESULT] OBVIOUS
<1>1. Stored(w) = {x}
  <2>1. Part(0, w) = {<<0, w>>} BY DEF Part
  <2>2. <<0, w>>[1] = 0 /\ <<0, w>>[2] = w OBVIOUS
  <2> QED BY <2>1, <2>2 DEF Stored, Tagged
<1>2. TornBy(s) = {} BY DEF TornBy
<1>3. PutBy(s) = {<<0, w>>} BY <1>1 DEF PutBy
<1>4. {y \in s.puts : <<y.lid, y.part>> \notin TornBy(s)} = {x} BY <1>1, <1>2
<1>5. {[cta |-> c, lid |-> y.lid, part |-> y.part, tag |-> y.tag] :
         y \in {z \in s.puts : <<z.lid, z.part>> \notin TornBy(s)}} = {ResultFact(c, w)}
  <2>1. [cta |-> c, lid |-> x.lid, part |-> x.part, tag |-> x.tag] = ResultFact(c, w)
    BY DEF ResultFact
  <2> QED BY <1>4, <2>1
<1>6. TornBy(s) \cup PutBy(s) = {<<0, w>>} BY <1>2, <1>3
<1>7. Written(contents, c, s) = KeptFacts(contents, c, {<<0, w>>}) \cup {ResultFact(c, w)}
  BY <1>5, <1>6 DEF Written, KeptFacts
<1> QED BY <1>7 DEF WithResult

\* Results are facts,
LEMMA ResultTyped ==
  ASSUME MatmulConfig, NEW c \in CTAS, NEW w \in {0, 1}
  PROVE  ResultFact(c, w) \in FACTS
<1>1. 0 \in LIDS /\ RESULT \in Nat BY ConfigIs DEF RESULT
<1> QED BY <1>1 DEF ResultFact, FACTS

\* and so are inputs.
LEMMA InputTyped ==
  ASSUME MatmulConfig, NEW c \in CTAS, NEW i \in Nat, NEW s \in 0 .. 3, NEW r \in Inputs(s)
  PROVE  InputFact(c, r, i) \in FACTS
<1>1. r[1] \in 0 .. 5 /\ r[2] \in {0, 1} BY InputsAt
<1>2. r[1] \in LIDS
  <2>1. LIDS = 0 .. 6 BY ConfigIs
  <2> QED BY <1>1, <2>1
<1> QED BY <1>1, <1>2 DEF InputFact, FACTS

\* What a step starts: no load,
LEMMA LoadsNothing ==
  ASSUME NEW c, NEW s, s.loads = {} PROVE LoadsOf(c, s) = {}
  BY DEF LoadsOf

\* the load of an iteration,
LEMMA LoadsInputs ==
  ASSUME NEW c, NEW i, NEW s,
         s.loads = {LoadTo(Inputs(Stage(i)), i, 0, "inputs_arrived", Stage(i))}
  PROVE  LoadsOf(c, s) = {InputLoad(c, i)}
<1> PICK x : x = LoadTo(Inputs(Stage(i)), i, 0, "inputs_arrived", Stage(i)) OBVIOUS
<1>1. /\ x.tag = i /\ x.regions = Inputs(Stage(i)) /\ x.cta = 0 /\ x.sem = ArrivedSem(Stage(i))
      /\ x.bytes = 1
  BY DEF LoadTo, ArrivedSem
<1>2. [cta |-> c, tag |-> x.tag, places |-> x.regions,
       signal |-> [cta |-> x.cta, sem |-> x.sem, arrivals |-> 0, bytes |-> -x.bytes]]
        = InputLoad(c, i)
  BY <1>1 DEF InputLoad
<1>3. LoadsOf(c, s) = {[cta |-> c, tag |-> y.tag, places |-> y.regions,
       signal |-> [cta |-> y.cta, sem |-> y.sem, arrivals |-> 0, bytes |-> -y.bytes]] : y \in {x}}
  BY DEF LoadsOf
<1> QED BY <1>2, <1>3

\* and no multiplication.
LEMMA MmasNothing ==
  ASSUME NEW n \in Nat \ {0}, NEW la \in 0 .. n + 1, NEW s, s.mmas = << >>
  PROVE  Queue(n, la) \o MmasOf(s) = Queue(n, la)
<1>1. MmasOf(s) = << >> BY DEF MmasOf
<1>2. Queue(n, la) \in Seq({QueueAt(n, j) : j \in Nat}) BY QueueIs
<1> PICK S : S = {QueueAt(n, j) : j \in Nat} OBVIOUS
<1> PICK q : q = Queue(n, la) OBVIOUS
<1>3. q \in Seq(S) BY <1>2
<1>4. q \o << >> = q BY <1>3
<1> QED BY <1>1, <1>4

\* The result pages are safe from the loader: it loads only before the end.
LEMMA NoResultYet ==
  ASSUME NEW n \in Nat \ {0}, NEW k, Epilogue(k), NEW ld, NEW la, NEW m, Spread(n, ld, la, m),
         NEW co, AllConsuming(n, k, co, m),
         NEW c \in CTAS, NEW d \in CTAS, ld[d] < n \/ m # 2 * n + 1
  PROVE  \A w \in {0, 1} : co[c][w] = 0
<1> SUFFICES ASSUME NEW w \in {0, 1} PROVE co[c][w] = 0 OBVIOUS
<1>1. co[c][w] \in Nat /\ (co[c][w] >= 1 => m = 2 * n + 1)
  BY DEF AllConsuming, Consuming, Epilogue, GEMM, SILU
<1>2. m = 2 * n + 1 => ld[d] >= n BY AllMultiplied
<1>3. ld[d] \in Nat BY DEF Spread
<1>4. m # 2 * n + 1 BY <1>2, <1>3
<1> QED BY <1>1, <1>4

---------------------------------------------------------------------------
(* The loader's leader.                                                    *)

\* There are two iterations or more.
LEMMA IterationsIs ==
  ASSUME NEW n, Iterations(n) PROVE n \in Nat \ {0} /\ n >= 2
  BY DEF Iterations

\* The loader's leader is at the step that ld says.
LEMMA LoaderInside ==
  ASSUME MatmulConfig, NEW n, Iterations(n), NEW k, Epilogue(k), NEW st, NEW ld, NEW la, NEW co,
         NEW m, NEW in, GoodView(n, k, st, ld, la, co, m, in), NEW c \in CTAS,
         Inside(Matmuls(n, k), st, c, "loader")
  PROVE  /\ st.at[c]["loader"] = ld[c] /\ ld[c] \in 0 .. n + 3 /\ ~st.done[c]["loader"]
         /\ At(Matmuls(n, k), st, c, "loader") = LoaderAt(n, ld[c])
<1> PICK script : script = Matmuls(n, k)[c].script["loader"] OBVIOUS
<1> PICK i : i = st.at[c]["loader"] OBVIOUS
<1>1. /\ Len(script) = n + 4
      /\ \A j \in 0 .. n + 3 : script[j + 1] = LoaderAt(n, j)
  BY LoaderScript
<1>2. ~st.done[c]["loader"] /\ i < Len(script) BY DEF Inside
<1>3. At(Matmuls(n, k), st, c, "loader") = script[i + 1] BY DEF At
<1>4. i \in Nat BY WarpNames DEF GoodView, StateTyped, WarpsTyped
<1>5. ld[c] = i BY <1>2 DEF GoodView, Loaded
<1>6. i \in 0 .. n + 3 BY <1>1, <1>2, <1>4, IterationsIs
<1> QED BY <1>1, <1>2, <1>3, <1>5, <1>6

\* When its wait is over the stage's last inputs are multiplied.
LEMMA LoaderReady ==
  ASSUME MatmulConfig, NEW n, Iterations(n), NEW k, Epilogue(k), NEW st, NEW ld, NEW la, NEW co,
         NEW m, NEW in, GoodView(n, k, st, ld, la, co, m, in), NEW c \in CTAS,
         CanAdvance(Matmuls(n, k), st, c, "loader"), ld[c] >= 4
  PROVE  m >= 2 * ld[c] - 6
<1> PICK i : i = ld[c] OBVIOUS
<1> PICK s : s = LoaderAt(n, i) OBVIOUS
<1>1. Inside(Matmuls(n, k), st, c, "loader") BY DEF CanAdvance
<1>2. i \in 0 .. n + 3 /\ At(Matmuls(n, k), st, c, "loader") = s BY <1>1, LoaderInside
<1>3. s.waits = {Wait("inputs_finished", Stage(i), (Lap(i) + 1) % 2)}
  <2>1. ~(i < 4) BY <1>2
  <2>2. LoaderIs(n, i, s) BY LoaderStepIs
  <2> QED BY <2>1, <2>2 DEF LoaderIs
<1>4. WaitOver(st.semaphore[c], Wait("inputs_finished", Stage(i), (Lap(i) + 1) % 2))
  BY <1>2, <1>3 DEF CanAdvance
<1> PICK b : b = st.semaphore[c][MultipliedSem(Stage(i))] OBVIOUS
<1>5. b.phase % 2 # (Lap(i) + 1) % 2 BY <1>4 DEF WaitOver, Wait, MultipliedSem
<1>6. Stage(i) \in 0 .. 3 BY <1>2, StageIs
<1>7. n \in Nat \ {0} BY IterationsIs
<1>8. MultipliedAt(n, b, Stage(i), m)
  <2>1. Counters(n, k, st.semaphore, la, co, m, in) BY DEF GoodView, View
  <2>2. \A v \in 0 .. 3 : MultipliedAt(n, st.semaphore[c][MultipliedSem(v)], v, m)
    BY <2>1, CountersAre
  <2> QED BY <1>6, <2>2
<1>9. b \in BARRIERS
  <2>1. MultipliedSem(Stage(i)) \in SEMAPHORES BY <1>6, SemaphoreCounts
  <2> QED BY <2>1 DEF GoodView, StateTyped, SemaphoresTyped
<1>10. m \in Nat BY DEF GoodView, StateTyped
<1>11. i >= 5 => m >= 2 * i - 8 BY DEF GoodView, View, Spread
<1>12. i \in 4 .. n + 3 BY <1>2
<1> QED BY <1>5, <1>7, <1>8, <1>9, <1>10, <1>11, <1>12, LoaderWaits

\* The pages when one CTA's change.
SameSix(st, t) == \A d \in CTAS : Six(t.done, t.passed, d) <=> Six(st.done, st.passed, d)

PagesKept(st, t, c) ==
  \A d \in CTAS : d # c => t.given[d] = st.given[d] /\ t.finished[d] = st.finished[d]

SameBut(c, f, g) == \A d \in CTAS : d # c => g[d] = f[d]

\* Nothing else is to be said of the others.
LEMMA PagesElsewhere ==
  ASSUME NEW n, NEW k, NEW st, NEW t, NEW ld, NEW po, NEW co, NEW qo, NEW c \in CTAS,
         AllPages(n, k, st, ld, co), PagesKept(st, t, c), SameBut(c, ld, po), SameBut(c, co, qo),
         SameSix(st, t),
         PagesAre(n, k, t.given[c], t.finished[c], po[c], Six(st.done, st.passed, c), qo[c])
  PROVE  AllPages(n, k, t, po, qo)
<1> SUFFICES ASSUME NEW d \in CTAS
             PROVE  PagesAre(n, k, t.given[d], t.finished[d], po[d],
                             Six(t.done, t.passed, d), qo[d])
  BY DEF AllPages
<1>1. Six(t.done, t.passed, d) = Six(st.done, st.passed, d) BY DEF Six, SameSix
<1>2. CASE d = c BY <1>1, <1>2
<1>3. CASE d # c
  <2>1. PagesAre(n, k, st.given[d], st.finished[d], ld[d], Six(st.done, st.passed, d), co[d])
    BY DEF AllPages
  <2> QED BY <1>1, <1>3, <2>1 DEF PagesKept, SameBut
<1> QED BY <1>2, <1>3

\* A step of the loader's leader leads to a good state.
LEMMA LoaderAdvances ==
  ASSUME MatmulConfig, NEW n, Iterations(n), NEW k, Epilogue(k), NEW st, Good(n, k, st),
         NEW c \in CTAS, CanAdvance(Matmuls(n, k), st, c, "loader")
  PROVE  Good(n, k, Advanced(Matmuls(n, k), st, c, "loader"))
<1> PICK ld, la, co, m, in : GoodView(n, k, st, ld, la, co, m, in) BY GoodIs
<1> PICK t : t = Advanced(Matmuls(n, k), st, c, "loader") OBVIOUS
<1> PICK i : i = ld[c] OBVIOUS
<1> PICK s : s = LoaderAt(n, i) OBVIOUS
<1>1. Inside(Matmuls(n, k), st, c, "loader") BY DEF CanAdvance
<1>2. /\ i \in 0 .. n + 3 /\ At(Matmuls(n, k), st, c, "loader") = s
      /\ st.at[c]["loader"] = i /\ ~st.done[c]["loader"]
  BY <1>1, LoaderInside
<1>3. n \in Nat \ {0} BY IterationsIs
<1>4. i >= 4 => m >= 2 * i - 6 BY LoaderReady
<1>5. Effect(n, k, st, c, s, t) /\ Moved(st, t, c, "loader", i + 1, FALSE)
  <2>1. WarpsTyped(st) BY DEF GoodView, StateTyped
  <2>2. FALSE <=> IsLast(Matmuls(n, k), st, c, "loader") BY DEF IsLast
  <2>3. "loader" \in WARPS /\ FALSE \in BOOLEAN BY WarpNames
  <2>4. Moved(st, t, c, "loader", IF FALSE THEN 0 ELSE st.at[c]["loader"] + 1, FALSE)
        /\ Effect(n, k, st, c, s, t)
    BY <1>2, <2>1, <2>2, <2>3, AdvancedIs
  <2> QED BY <1>2, <2>4
<1>6. /\ s.pages = PagesFor(i) /\ s.finishes = FinishesAt(n, i)
      /\ s.loads = IF i >= n THEN {}
                   ELSE {LoadTo(Inputs(Stage(i)), i, 0, "inputs_arrived", Stage(i))}
      /\ s.puts = {} /\ s.signals = {} /\ s.mmas = << >> /\ s.tensorFinish = FALSE
  <2>1. LoaderIs(n, i, s) BY LoaderStepIs
  <2> QED BY <2>1 DEF LoaderIs
<1>7. /\ StateTyped(n, st) /\ InControl(n, k, st.at, st.done)
      /\ Spread(n, ld, la, m) /\ st.mmas = Queue(n, la) /\ InFlight(n, ld, la, st.loading)
      /\ Counters(n, k, st.semaphore, la, co, m, in)
      /\ AllConsuming(n, k, co, m) /\ AllPages(n, k, st, ld, co)
      /\ ContentsAre(n, k, st.contents, m, in, co) /\ SumsAre(n, st.tensor, m)
      /\ k = GEMM => TensorPassed(st.tensorFinished, co)
  BY DEF GoodView, View
<1> PICK po : po = LoadedTo(n, ld, c, i + 1) OBVIOUS
<1>8. ld \in [CTAS -> 0 .. n + 4] /\ m \in Nat /\ la \in 0 .. n + 1
  <2>1. ld = [d \in CTAS |-> ld[d]] BY DEF GoodView, Loaded
  <2>2. \A d \in CTAS : ld[d] \in 0 .. n + 4 BY <1>7 DEF Spread
  <2>3. la \in 0 .. n + 1 BY <1>7 DEF Spread
  <2>4. m \in Nat BY <1>7 DEF StateTyped, GoodView
  <2> QED BY <2>1, <2>2, <2>3, <2>4
<1>9. po[c] = i + 1 /\ \A d \in CTAS : d # c => po[d] = ld[d] BY <1>8 DEF LoadedTo
<1>10. Loaded(n, t) = po /\ Launched(n, t) = la /\ Consumed(k, t) = co
  <2>1. n \in Nat BY <1>3
  <2>2. FarAs(n, k, t, LoadedTo(n, Loaded(n, st), c, IF FALSE THEN n + 4 ELSE i + 1),
              Launched(n, st), Consumed(k, st))
    BY <1>5, <2>1, LoaderMoves
  <2>3. ld = Loaded(n, st) /\ la = Launched(n, st) /\ co = Consumed(k, st) BY DEF GoodView
  <2> QED BY <2>2, <2>3 DEF FarAs
<1>11. t.multiplied = m BY <1>5 DEF Effect, GoodView
<1>12. t.loading = st.loading \cup (IF i < n THEN {InputLoad(c, i)} ELSE {})
  <2>1. t.loading = st.loading \cup LoadsOf(c, s) BY <1>5 DEF Effect
  <2>2. CASE i < n
    <3>1. s.loads = {LoadTo(Inputs(Stage(i)), i, 0, "inputs_arrived", Stage(i))}
      BY <1>2, <1>3, <1>6, <2>2
    <3> QED BY <2>1, <2>2, <3>1, LoadsInputs
  <2>3. CASE ~(i < n)
    <3>1. s.loads = {} BY <1>2, <1>3, <1>6, <2>3
    <3> QED BY <2>1, <2>3, <3>1, LoadsNothing
  <2> QED BY <2>2, <2>3
<1>13. Landed(n, po, t.loading) = in
  <2>1. n \in Nat /\ i = ld[c] /\ ld \in LoaderCounts(n) BY <1>2, <1>3, <1>8 DEF LoaderCounts
  <2>2. Landed(n, po, MoreLoading(n, st.loading, c, i)) = Landed(n, ld, st.loading)
    BY <2>1, LandedAfterLoad
  <2>3. in = Landed(n, ld, st.loading) BY DEF GoodView
  <2> QED BY <1>12, <2>2, <2>3 DEF MoreLoading
<1>14. InControl(n, k, t.at, t.done)
  <2>1. /\ "loader" \in WARPS /\ "loader" # "launcher" /\ "loader" # "storer"
        /\ \A v \in {0, 1} : "loader" # Consumer(v)
    BY WarpNames
  <2>2. i + 1 \in Nat /\ i + 1 <= n + 4 /\ n \in Nat BY <1>2, <1>3
  <2> QED BY <1>5, <1>7, <2>1, <2>2, MoveInControl
<1>15. Spread(n, po, la, m)
  <2> SUFFICES ASSUME NEW d \in CTAS
               PROVE  /\ po[d] \in 0 .. n + 4 /\ la <= po[d] + 1
                      /\ po[d] >= 5 => m >= 2 * po[d] - 8
    BY <1>7 DEF Spread
  <2>1. ld[d] \in 0 .. n + 4 /\ la <= ld[d] + 1 /\ (ld[d] >= 5 => m >= 2 * ld[d] - 8)
    BY <1>7 DEF Spread
  <2>2. CASE d = c
    <3>1. i + 1 \in 0 .. n + 4 /\ la <= i + 2 BY <1>2, <1>3, <1>8, <2>1, <2>2
    <3>2. i + 1 >= 5 => m >= 2 * (i + 1) - 8 BY <1>2, <1>4, <1>8
    <3> QED BY <1>2, <1>8, <1>9, <2>2, <3>1, <3>2
  <2>3. CASE d # c BY <1>9, <2>1, <2>3
  <2> QED BY <2>2, <2>3
<1>16. t.mmas = Queue(n, la)
  <2>1. t.mmas = st.mmas \o MmasOf(s) BY <1>5 DEF Effect
  <2>2. Queue(n, la) \o MmasOf(s) = Queue(n, la) BY <1>3, <1>6, <1>8, MmasNothing
  <2> QED BY <1>7, <2>1, <2>2
<1>17. InFlight(n, po, la, t.loading)
  <2> SUFFICES ASSUME NEW d \in CTAS, NEW j \in 0 .. n - 1, InputLoad(d, j) \in t.loading
               PROVE  j < po[d] /\ j + 1 >= la
    BY DEF InFlight
  <2>1. CASE InputLoad(d, j) \in st.loading
    <3>1. j < ld[d] /\ j + 1 >= la BY <1>7, <2>1 DEF InFlight
    <3>2. CASE d = c BY <1>2, <1>9, <3>1, <3>2
    <3>3. CASE d # c BY <1>9, <3>1, <3>3
    <3> QED BY <3>2, <3>3
  <2>2. CASE InputLoad(d, j) = InputLoad(c, i)
    <3>1. d = c /\ j = i BY <2>2, InputLoadIs
    <3>2. la <= i + 1 BY <1>7 DEF Spread
    <3> QED BY <1>2, <1>8, <1>9, <3>1, <3>2
  <2> QED BY <1>12, <2>1, <2>2
<1>18. t.semaphore = st.semaphore
  <2>1. SemaphoresTyped(st.semaphore) BY <1>7 DEF StateTyped
  <2>2. t.semaphore = SignalAll(Matmuls(n, k), st, {}) BY <1>5, <1>6 DEF Effect
  <2> QED BY <2>1, <2>2, NoSignals
<1>19. /\ t.given \in [CTAS -> SUBSET LIDS] /\ t.finished \in [CTAS -> SUBSET LIDS]
       /\ t.given[c] = st.given[c] \cup PagesFor(i)
       /\ t.finished[c] = st.finished[c] \cup FinishesAt(n, i)
       /\ \A d \in CTAS : d # c => t.given[d] = st.given[d] /\ t.finished[d] = st.finished[d]
  <2>1. PagesFor(i) \subseteq LIDS /\ FinishesAt(n, i) \subseteq LIDS
    <3>1. PagesFor(i) \subseteq 0 .. 5 /\ FinishesAt(n, i) \subseteq 1 .. 5
      BY <1>2, <1>3, PagesForAre, FinishesAre
    <3>2. LIDS = 0 .. 6 BY ConfigIs
    <3> QED BY <3>1, <3>2
  <2>2. s.pages \subseteq LIDS /\ s.finishes \subseteq LIDS BY <1>6, <2>1
  <2>3. EffectIs(st, t, c, s) BY <1>5, <1>7, <2>2, EffectOnPages
  <2> QED BY <1>6, <2>3 DEF EffectIs
<1>20. SameSix(st, t)
  <2>1. t.passed = st.passed BY <1>5 DEF Effect
  <2>2. \A d \in CTAS : t.done[d]["loader"] <=> st.done[d]["loader"]
    BY <1>2, <1>5, WarpNames DEF Moved
  <2> QED BY <2>1, <2>2 DEF Six, SameSix
<1>21. AllPages(n, k, t, po, co)
  <2>1. PagesAre(n, k, st.given[c], st.finished[c], i, Six(st.done, st.passed, c), co[c])
    BY <1>7 DEF AllPages
  <2>2. PagesAre(n, k, st.given[c] \cup PagesFor(i), st.finished[c] \cup FinishesAt(n, i),
                 i + 1, Six(st.done, st.passed, c), co[c])
    BY <1>2, <1>3, <2>1, LoaderPages
  <2>3. PagesAre(n, k, t.given[c], t.finished[c], po[c], Six(st.done, st.passed, c), co[c])
    BY <1>9, <1>19, <2>2
  <2>4. PagesKept(st, t, c) /\ SameBut(c, ld, po) /\ SameBut(c, co, co)
    BY <1>9, <1>19 DEF PagesKept, SameBut
  <2> QED BY <1>7, <1>20, <2>3, <2>4, PagesElsewhere
<1>22. ContentsAre(n, k, t.contents, m, in, co) /\ t.contents \subseteq st.contents
  <2>1. t.contents = Written(st.contents, c, s) BY <1>5 DEF Effect
  <2>2. CASE i >= n
    <3>1. s.loads = {} BY <1>6, <2>2
    <3> QED BY <1>6, <1>7, <2>1, <3>1, WrittenNothing
  <2>3. CASE ~(i >= n)
    <3> PICK x : x = LoadTo(Inputs(Stage(i)), i, 0, "inputs_arrived", Stage(i)) OBVIOUS
    <3>1. s.loads = {x} /\ x.regions = Inputs(Stage(i)) BY <1>6, <2>3 DEF LoadTo
    <3>2. t.contents = KeptFacts(st.contents, c, Inputs(Stage(i)))
      BY <1>6, <2>1, <3>1, WrittenByLoad
    <3>3. LandedTyped(n, in) /\ \A j \in in[c] : j \in 0 .. n - 1 /\ j < i
      BY LandedIs DEF GoodView
    <3>4. \A j \in in[c] : Stage(j) = Stage(i) => m >= 2 * j + 2
      <4> SUFFICES ASSUME NEW j \in in[c], Stage(j) = Stage(i) PROVE m >= 2 * j + 2
        OBVIOUS
      <4>1. j \in Nat /\ j < i /\ i \in Nat BY <1>2, <1>3, <3>3
      <4>2. j + 4 <= i BY <4>1, SameStage
      <4> QED BY <1>4, <1>8, <4>1, <4>2
    <3>5. \A w \in {0, 1} : ~(co[c][w] >= k)
      <4>1. ld[c] < n \/ m # 2 * n + 1 BY <1>2, <1>3, <2>3
      <4>2. \A w \in {0, 1} : co[c][w] = 0 BY <1>3, <1>7, <4>1, NoResultYet
      <4> QED BY <4>2 DEF Epilogue, GEMM, SILU
    <3>6. Stage(i) \in 0 .. 3 BY <1>2, StageIs
    <3>7. ContentsAre(n, k, KeptFacts(st.contents, c, Inputs(Stage(i))), m, in, co)
      BY <1>3, <1>7, <1>8, <3>3, <3>4, <3>5, <3>6, ContentsAfterLoad
    <3> QED BY <3>2, <3>7 DEF KeptFacts
  <2> QED BY <2>2, <2>3
<1>23. t.tensor = st.tensor /\ t.tensorFinished = st.tensorFinished
  BY <1>5, <1>6, OverwrittenByNone DEF Effect
<1>24. StateTyped(n, t)
  <2>1. t = RecordOf(t) /\ t.passed = st.passed BY <1>5 DEF Effect
  <2>2. WarpsTyped(t) BY <1>5 DEF Moved
  <2>3. t.loading \subseteq InputLoads(n)
    <3>1. i < n => InputLoad(c, i) \in InputLoads(n) BY <1>2, <1>3 DEF InputLoads
    <3> QED BY <1>7, <1>12, <3>1 DEF StateTyped
  <2>4. t.contents \subseteq FACTS BY <1>7, <1>22 DEF StateTyped
  <2>5. t.mmas \in {Queue(n, l) : l \in 0 .. n + 1} BY <1>8, <1>16
  <2>6. /\ st.passed \in [CTAS -> SUBSET {6}] /\ SemaphoresTyped(st.semaphore)
        /\ st.tensor \subseteq SUMS /\ st.tensorFinished \subseteq CTAS
    BY <1>7 DEF StateTyped
  <2> QED BY <1>8, <1>11, <1>18, <1>19, <1>23, <2>1, <2>2, <2>3, <2>4, <2>5, <2>6
          DEF StateTyped
<1>25. View(n, k, t, po, la, co, m, in)
  BY <1>7, <1>15, <1>16, <1>17, <1>18, <1>21, <1>22, <1>23, Zenon DEF View
<1>26. GoodView(n, k, t, po, la, co, m, in)
  BY <1>10, <1>11, <1>13, <1>14, <1>24, <1>25 DEF GoodView
<1> QED BY <1>26, GoodFrom

---------------------------------------------------------------------------
(* The launcher.                                                           *)

\* Page 6 is the lane's, whatever the other warps do.
LEMMA SixKept ==
  ASSUME MatmulConfig, NEW n, NEW k, NEW st, NEW c \in CTAS, NEW s, NEW t,
         Effect(n, k, st, c, s, t), NEW w \in WARPS, w # "loader", NEW a, NEW f,
         Moved(st, t, c, w, a, f)
  PROVE  SameSix(st, t)
<1>1. t.passed = st.passed BY DEF Effect
<1>2. \A d \in CTAS : t.done[d]["loader"] = st.done[d]["loader"]
  BY WarpNames DEF Moved
<1> QED BY <1>1, <1>2 DEF Six, SameSix

\* The launcher is at the step that la says, and is the one of CTA 0.
LEMMA LauncherInside ==
  ASSUME MatmulConfig, NEW n, Iterations(n), NEW k, Epilogue(k), NEW st, NEW ld, NEW la, NEW co,
         NEW m, NEW in, GoodView(n, k, st, ld, la, co, m, in), NEW c \in CTAS,
         Inside(Matmuls(n, k), st, c, "launcher")
  PROVE  /\ c = 0 /\ st.at[c]["launcher"] = la /\ la \in 0 .. n /\ ~st.done[c]["launcher"]
         /\ At(Matmuls(n, k), st, c, "launcher") = LauncherAt(n, la)
         /\ IsLast(Matmuls(n, k), st, c, "launcher") <=> la = n
<1> PICK script : script = Matmuls(n, k)[c].script["launcher"] OBVIOUS
<1> PICK i : i = st.at[c]["launcher"] OBVIOUS
<1>1. ~st.done[c]["launcher"] /\ i < Len(script) BY DEF Inside
<1>2. i \in Nat BY WarpNames DEF GoodView, StateTyped, WarpsTyped
<1>3. c = 0
  <2>1. c = 1 => Len(script) = 0
    <3>1. c = 1 => script = << >> BY LauncherScript
    <3> QED BY <3>1
  <2>2. c \in {0, 1} BY ConfigIs
  <2> QED BY <1>1, <1>2, <2>1, <2>2
<1>4. Len(script) = n + 1 /\ \A j \in 0 .. n : script[j + 1] = LauncherAt(n, j)
  BY <1>3, LauncherScript
<1>5. At(Matmuls(n, k), st, c, "launcher") = script[i + 1] BY DEF At
<1>6. la = i BY <1>1, <1>3 DEF GoodView, Launched
<1>7. n \in Nat BY IterationsIs
<1>8. i \in 0 .. n BY <1>1, <1>2, <1>4, <1>7
<1>9. IsLast(Matmuls(n, k), st, c, "launcher") <=> i + 1 = n + 1 BY <1>4 DEF IsLast
<1> QED BY <1>1, <1>3, <1>4, <1>5, <1>6, <1>7, <1>8, <1>9

\* When its wait is over the inputs of the iteration have landed.
LEMMA LauncherReady ==
  ASSUME MatmulConfig, NEW n, Iterations(n), NEW k, Epilogue(k), NEW st, NEW ld, NEW la, NEW co,
         NEW m, NEW in, GoodView(n, k, st, ld, la, co, m, in), NEW c \in CTAS,
         CanAdvance(Matmuls(n, k), st, c, "launcher"), la >= 1
  PROVE  /\ st.semaphore[0][ArrivedSem(Stage(la - 1))].phase % 2 # Lap(la - 1) % 2
         /\ \A d \in CTAS : la - 1 \in in[d]
<1> PICK s : s = LauncherAt(n, la) OBVIOUS
<1> PICK b : b = st.semaphore[0][ArrivedSem(Stage(la - 1))] OBVIOUS
<1>1. Inside(Matmuls(n, k), st, c, "launcher") BY DEF CanAdvance
<1>2. c = 0 /\ la \in 0 .. n /\ At(Matmuls(n, k), st, c, "launcher") = s
  BY <1>1, LauncherInside
<1>3. n \in Nat \ {0} BY IterationsIs
<1>4. s.waits = {Wait("inputs_arrived", Stage(la - 1), Lap(la - 1) % 2)}
  <2>1. la # 0 /\ la \in Nat BY <1>2
  <2>2. LauncherIs(n, la, s) BY <1>3, <2>1, LauncherStepIs
  <2> QED BY <2>1, <2>2 DEF LauncherIs
<1>5. WaitOver(st.semaphore[0], Wait("inputs_arrived", Stage(la - 1), Lap(la - 1) % 2))
  BY <1>2, <1>4 DEF CanAdvance
<1>6. b.phase % 2 # Lap(la - 1) % 2 BY <1>5 DEF WaitOver, Wait, ArrivedSem
<1>7. la - 1 \in Nat BY <1>2
<1>8. Stage(la - 1) \in 0 .. 3 BY <1>7, StageIs
<1>9. CountedAt(n, b, Stage(la - 1), la, in)
  <2>1. Counters(n, k, st.semaphore, la, co, m, in) BY DEF GoodView, View
  <2>2. \A u \in 0 .. 3 : CountedAt(n, st.semaphore[0][ArrivedSem(u)], u, la, in)
    BY <2>1, CountersAre
  <2> QED BY <1>8, <2>2
<1>10. b \in BARRIERS
  <2>1. ArrivedSem(Stage(la - 1)) \in SEMAPHORES BY <1>8, SemaphoreCounts
  <2>2. 0 \in CTAS BY ConfigIs
  <2> QED BY <2>1, <2>2 DEF GoodView, StateTyped, SemaphoresTyped
<1>11. la \in 1 .. n BY <1>2
<1>12. la - 1 \in in[0] /\ la - 1 \in in[1]
  BY <1>3, <1>6, <1>9, <1>10, <1>11, LauncherWaits
<1>13. CTAS = {0, 1} BY ConfigIs
<1> QED BY <1>6, <1>12, <1>13

PagesTyped(st) ==
  st.given \in [CTAS -> SUBSET LIDS] /\ st.finished \in [CTAS -> SUBSET LIDS]

\* A step without pages leaves them as they are.
LEMMA PagesUnmoved ==
  ASSUME NEW n, NEW k, NEW st, StateTyped(n, st), NEW c \in CTAS, NEW s, NEW t,
         Effect(n, k, st, c, s, t), s.pages = {}, s.finishes = {},
         NEW ld, NEW co, AllPages(n, k, st, ld, co), SameSix(st, t)
  PROVE  AllPages(n, k, t, ld, co) /\ PagesTyped(t)
<1>1. EffectIs(st, t, c, s)
  <2>1. s.pages \subseteq LIDS /\ s.finishes \subseteq LIDS OBVIOUS
  <2> QED BY <2>1, EffectOnPages
<1>2. PagesAre(n, k, st.given[c], st.finished[c], ld[c], Six(st.done, st.passed, c), co[c])
  BY DEF AllPages
<1>3. t.given[c] = st.given[c] /\ t.finished[c] = st.finished[c]
  <2>1. t.given[c] = st.given[c] \cup s.pages /\ t.finished[c] = st.finished[c] \cup s.finishes
    BY <1>1 DEF EffectIs
  <2> QED BY <2>1
<1>4. PagesAre(n, k, t.given[c], t.finished[c], ld[c], Six(st.done, st.passed, c), co[c])
  BY <1>2, <1>3
<1>5. PagesKept(st, t, c) BY <1>1 DEF EffectIs, PagesKept
<1>6. SameBut(c, ld, ld) /\ SameBut(c, co, co) BY DEF SameBut
<1>7. AllPages(n, k, t, ld, co) BY <1>4, <1>5, <1>6, PagesElsewhere
<1> QED BY <1>1, <1>7 DEF EffectIs, PagesTyped

\* The loaders are at most four iterations ahead of the launcher.
LEMMA LoadersNear ==
  ASSUME NEW n \in Nat \ {0}, NEW ld, NEW la \in 0 .. n, NEW m, Spread(n, ld, la, m),
         NEW loading
  PROVE  \A c \in CTAS : la + 4 \notin Landed(n, ld, loading)[c]
<1> SUFFICES ASSUME NEW c \in CTAS, la + 4 \in Landed(n, ld, loading)[c] PROVE FALSE
  OBVIOUS
<1>1. la + 4 < ld[c]
  <2>1. Landed(n, ld, loading)[c] = {i \in 0 .. n - 1 : i < ld[c] /\ InputLoad(c, i) \notin loading}
    BY LandedIs
  <2> QED BY <2>1
<1>2. ld[c] \in 0 .. n + 4 /\ (ld[c] >= 5 => m >= 2 * ld[c] - 8) /\ m \in 0 .. QueueLength(n, la)
  BY DEF Spread
<1>3. QueueLength(n, la) \in Nat /\ QueueLength(n, la) <= 2 * la BY QueueSizes
<1> QED BY <1>1, <1>2, <1>3

\* A step of the launcher leads to a good state.
LEMMA LauncherAdvances ==
  ASSUME MatmulConfig, NEW n, Iterations(n), NEW k, Epilogue(k), NEW st, Good(n, k, st),
         NEW c \in CTAS, CanAdvance(Matmuls(n, k), st, c, "launcher")
  PROVE  Good(n, k, Advanced(Matmuls(n, k), st, c, "launcher"))
<1> PICK ld, la, co, m, in : GoodView(n, k, st, ld, la, co, m, in) BY GoodIs
<1> PICK t : t = Advanced(Matmuls(n, k), st, c, "launcher") OBVIOUS
<1> PICK s : s = LauncherAt(n, la) OBVIOUS
<1>1. Inside(Matmuls(n, k), st, c, "launcher") BY DEF CanAdvance
<1>2. /\ c = 0 /\ st.at[c]["launcher"] = la /\ la \in 0 .. n /\ ~st.done[c]["launcher"]
      /\ At(Matmuls(n, k), st, c, "launcher") = s
      /\ IsLast(Matmuls(n, k), st, c, "launcher") <=> la = n
  BY <1>1, LauncherInside
<1>3. n \in Nat \ {0} BY IterationsIs
<1>4. la >= 1 => /\ st.semaphore[0][ArrivedSem(Stage(la - 1))].phase % 2 # Lap(la - 1) % 2
                 /\ \A d \in CTAS : la - 1 \in in[d]
  BY LauncherReady
<1> PICK last : last = (la = n) OBVIOUS
<1>5. Effect(n, k, st, c, s, t)
      /\ Moved(st, t, c, "launcher", IF last THEN 0 ELSE la + 1, last)
  <2>1. WarpsTyped(st) BY DEF GoodView, StateTyped
  <2>2. last <=> IsLast(Matmuls(n, k), st, c, "launcher") BY <1>2
  <2>3. "launcher" \in WARPS /\ last \in BOOLEAN BY WarpNames
  <2>4. Moved(st, t, c, "launcher", IF last THEN 0 ELSE st.at[c]["launcher"] + 1, last)
        /\ Effect(n, k, st, c, s, t)
    BY <1>2, <2>1, <2>2, <2>3, AdvancedIs
  <2> QED BY <1>2, <2>4
<1>6. /\ s.mmas = IF la = 0 THEN << >> ELSE Multiplications(la - 1, n)
      /\ s.signals = IF la < n THEN ExpectInputs(la) ELSE {}
      /\ s.pages = {} /\ s.loads = {} /\ s.finishes = {} /\ s.puts = {}
      /\ s.tensorFinish = FALSE
  <2>1. LauncherIs(n, la, s) BY <1>2, <1>3, LauncherStepIs
  <2>2. la = 0 \/ la < n <=> la < n BY <1>2, <1>3
  <2> QED BY <2>1, <2>2 DEF LauncherIs
<1>7. /\ StateTyped(n, st) /\ InControl(n, k, st.at, st.done)
      /\ Spread(n, ld, la, m) /\ st.mmas = Queue(n, la) /\ InFlight(n, ld, la, st.loading)
      /\ Counters(n, k, st.semaphore, la, co, m, in)
      /\ AllConsuming(n, k, co, m) /\ AllPages(n, k, st, ld, co)
      /\ ContentsAre(n, k, st.contents, m, in, co) /\ SumsAre(n, st.tensor, m)
      /\ k = GEMM => TensorPassed(st.tensorFinished, co)
  BY DEF GoodView, View
<1>8. m \in Nat BY <1>7 DEF StateTyped, GoodView
<1>9. \A d \in CTAS : in[d] = {i \in 0 .. n - 1 : i < ld[d] /\ InputLoad(d, i) \notin st.loading}
  BY LandedIs DEF GoodView
<1>10. Loaded(n, t) = ld /\ Launched(n, t) = la + 1 /\ Consumed(k, t) = co
  <2>1. n \in Nat BY <1>3
  <2>2. FarAs(n, k, t, Loaded(n, st),
              IF c # 0 THEN Launched(n, st) ELSE IF last THEN n + 1
              ELSE IF last THEN 0 ELSE la + 1, Consumed(k, st))
    BY <1>5, <2>1, LauncherMoves
  <2>3. ld = Loaded(n, st) /\ la = Launched(n, st) /\ co = Consumed(k, st) BY DEF GoodView
  <2>4. (IF c # 0 THEN Launched(n, st) ELSE IF last THEN n + 1
         ELSE IF last THEN 0 ELSE la + 1) = la + 1
    BY <1>2
  <2> QED BY <2>2, <2>3, <2>4 DEF FarAs
<1>11. t.multiplied = m BY <1>5 DEF Effect, GoodView
<1>12. t.loading = st.loading
  <2>1. t.loading = st.loading \cup LoadsOf(c, s) BY <1>5 DEF Effect
  <2> QED BY <1>6, <2>1, LoadsNothing
<1>13. Landed(n, ld, t.loading) = in BY <1>12 DEF GoodView
<1>14. InControl(n, k, t.at, t.done)
  <2>1. /\ "launcher" \in WARPS /\ "launcher" # "loader" /\ "launcher" # "storer"
        /\ \A v \in {0, 1} : "launcher" # Consumer(v)
    BY WarpNames
  <2> PICK a : a = IF last THEN 0 ELSE la + 1 OBVIOUS
  <2>2. /\ a \in Nat /\ n \in Nat /\ (last => a = 0)
        /\ a <= IF c = 0 THEN n ELSE 0
    <3>1. CASE last BY <1>2, <1>3, <3>1
    <3>2. CASE ~last
      <4>1. a = la + 1 /\ la # n BY <3>2
      <4>2. la + 1 <= n /\ la + 1 \in Nat BY <1>2, <1>3, <4>1
      <4> QED BY <1>2, <1>3, <3>2, <4>1, <4>2
    <3> QED BY <1>2, <3>1, <3>2
  <2>3. Moved(st, t, c, "launcher", a, last) BY <1>5
  <2> QED BY <1>7, <2>1, <2>2, <2>3, MoveInControl
<1>15. /\ QueueLength(n, la) \in Nat /\ QueueLength(n, la) <= 2 * n - 2
       /\ la >= 1 => QueueLength(n, la) = 2 * la - 2
       /\ QueueLength(n, la + 1) =
            IF la = 0 THEN 0 ELSE IF la = n THEN 2 * n + 1 ELSE 2 * la
       /\ m \in 0 .. QueueLength(n, la)
       /\ la = 0 => QueueLength(n, la) = 0
  BY <1>2, <1>3, <1>7, QueueSizes DEF Spread, QueueLength
<1>16. Spread(n, ld, la + 1, m)
  <2>1. \A d \in CTAS : la + 1 <= ld[d] + 1
    <3> SUFFICES ASSUME NEW d \in CTAS PROVE la + 1 <= ld[d] + 1
      OBVIOUS
    <3>1. ld[d] \in 0 .. n + 4 BY <1>7 DEF Spread
    <3>2. CASE la >= 1
      <4>1. la - 1 < ld[d] BY <1>4, <1>9, <3>2
      <4> QED BY <1>2, <3>1, <4>1
    <3>3. CASE ~(la >= 1) BY <1>2, <3>1, <3>3
    <3> QED BY <3>2, <3>3
  <2>2. m \in 0 .. QueueLength(n, la + 1) BY <1>2, <1>3, <1>15
  <2>3. la + 1 \in 0 .. n + 1 BY <1>2, <1>3
  <2> QED BY <1>7, <2>1, <2>2, <2>3 DEF Spread
<1>17. t.mmas = Queue(n, la + 1)
  <2>1. t.mmas = st.mmas \o MmasOf(s) BY <1>5 DEF Effect
  <2>2. Queue(n, la) \o MmasOf(s) = Queue(n, la + 1) BY <1>2, <1>3, <1>6, QueueAppended
  <2> QED BY <1>7, <2>1, <2>2
<1>18. InFlight(n, ld, la + 1, t.loading)
  <2> SUFFICES ASSUME NEW d \in CTAS, NEW j \in 0 .. n - 1, InputLoad(d, j) \in st.loading
               PROVE  j < ld[d] /\ j + 1 >= la + 1
    BY <1>12 DEF InFlight
  <2>1. j < ld[d] /\ j + 1 >= la BY <1>7 DEF InFlight
  <2>2. j \notin in[d] BY <1>9
  <2>3. la >= 1 => j # la - 1 BY <1>4, <2>2
  <2> QED BY <1>2, <2>1, <2>3
<1>19. SemaphoresTyped(t.semaphore) /\ Counters(n, k, t.semaphore, la + 1, co, m, in)
  <2>1. SemaphoresTyped(st.semaphore) BY <1>7 DEF StateTyped
  <2>2. t.semaphore = SignalAll(Matmuls(n, k), st, s.signals) BY <1>5 DEF Effect
  <2>3. la + 4 \notin in[0] /\ la + 4 \notin in[1]
    <3>1. \A d \in CTAS : la + 4 \notin Landed(n, ld, st.loading)[d]
      BY <1>2, <1>3, <1>7, LoadersNear
    <3>2. in = Landed(n, ld, st.loading) /\ CTAS = {0, 1} BY ConfigIs DEF GoodView
    <3> QED BY <3>1, <3>2
  <2>4. LET sem == SignalAll(Matmuls(n, k), st, s.signals)
        IN  SemaphoresTyped(sem) /\ Counters(n, k, sem, la + 1, co, m, in)
    BY <1>2, <1>3, <1>4, <1>6, <1>7, <2>1, <2>3, LaunchCounts
  <2> QED BY <2>2, <2>4
<1>20. AllPages(n, k, t, ld, co) /\ PagesTyped(t)
  <2>1. SameSix(st, t)
    <3>1. "launcher" \in WARPS /\ "launcher" # "loader" BY WarpNames
    <3> PICK a : a = IF last THEN 0 ELSE la + 1 OBVIOUS
    <3>2. Effect(n, k, st, c, s, t) /\ Moved(st, t, c, "launcher", a, last) BY <1>5
    <3> QED BY <3>1, <3>2, SixKept, Zenon
  <2>2. /\ s.pages = {} /\ s.finishes = {} /\ Effect(n, k, st, c, s, t)
        /\ StateTyped(n, st) /\ AllPages(n, k, st, ld, co)
    BY <1>5, <1>6, <1>7
  <2> QED BY <2>1, <2>2, PagesUnmoved
<1>21. t.contents = st.contents
  <2>1. t.contents = Written(st.contents, c, s) BY <1>5 DEF Effect
  <2> QED BY <1>6, <2>1, WrittenNothing
<1>22. t.tensor \subseteq st.tensor /\ SumsAre(n, t.tensor, m)
  <2>1. t.tensor = Overwritten(st.tensor, s.mmas) BY <1>5 DEF Effect
  <2>2. t.tensor \subseteq st.tensor BY <2>1, OverwrittenTyped
  <2>3. m < 2 * n - 1 /\ n \in Nat BY <1>3, <1>8, <1>15
  <2>4. SumsAre(n, t.tensor, m) BY <1>8, <2>3, SumsNotYet
  <2> QED BY <2>2, <2>4
<1>23. t.tensorFinished = st.tensorFinished BY <1>5, <1>6 DEF Effect
<1>24. StateTyped(n, t)
  <2>1. t = RecordOf(t) /\ t.passed = st.passed BY <1>5 DEF Effect
  <2>2. WarpsTyped(t) BY <1>5 DEF Moved
  <2>3. la + 1 \in 0 .. n + 1 BY <1>2, <1>3
  <2>4. t.mmas \in {Queue(n, l) : l \in 0 .. n + 1} BY <1>17, <2>3
  <2>5. /\ st.passed \in [CTAS -> SUBSET {6}] /\ st.contents \subseteq FACTS
        /\ st.tensor \subseteq SUMS /\ st.tensorFinished \subseteq CTAS
        /\ st.loading \subseteq InputLoads(n)
    BY <1>7 DEF StateTyped
  <2>6. t.tensor \subseteq SUMS BY <1>22, <2>5
  <2> QED BY <1>8, <1>11, <1>12, <1>19, <1>20, <1>21, <1>23, <2>1, <2>2, <2>4, <2>5, <2>6
          DEF StateTyped, PagesTyped
<1>25. View(n, k, t, ld, la + 1, co, m, in)
  BY <1>7, <1>16, <1>17, <1>18, <1>19, <1>20, <1>21, <1>22, <1>23, Zenon DEF View
<1>26. GoodView(n, k, t, ld, la + 1, co, m, in)
  BY <1>10, <1>11, <1>13, <1>14, <1>24, <1>25 DEF GoodView
<1> QED BY <1>26, GoodFrom

---------------------------------------------------------------------------
(* The consumers.                                                          *)

\* Both epilogues end behind their step k.
LEMMA EpilogueIs ==
  ASSUME NEW k, Epilogue(k) PROVE k \in {3, 4} /\ k \in Nat
  BY DEF Epilogue, GEMM, SILU

\* How far the consumers are, as numbers.
LEMMA ConsumedIsTyped ==
  ASSUME MatmulConfig, NEW n, NEW k, Epilogue(k), NEW st, StateTyped(n, st)
  PROVE  ConsumedTyped(Consumed(k, st))
<1>1. \A c \in CTAS, w \in {0, 1} : st.at[c][Consumer(w)] \in Nat
  BY WarpNames DEF StateTyped, WarpsTyped
<1>2. k + 2 \in Nat BY EpilogueIs
<1> QED BY <1>1, <1>2 DEF Consumed, ConsumedTyped

\* A consumer is at the step that co says.
LEMMA ConsumerInside ==
  ASSUME MatmulConfig, NEW n, Iterations(n), NEW k, Epilogue(k), NEW st, NEW ld, NEW la, NEW co,
         NEW m, NEW in, GoodView(n, k, st, ld, la, co, m, in), NEW c \in CTAS, NEW w \in {0, 1},
         Inside(Matmuls(n, k), st, c, Consumer(w))
  PROVE  /\ st.at[c][Consumer(w)] = co[c][w] /\ co[c][w] \in 0 .. k + 1
         /\ ~st.done[c][Consumer(w)]
         /\ At(Matmuls(n, k), st, c, Consumer(w)) = ConsumerAt(c, n, k, w)[co[c][w] + 1]
         /\ IsLast(Matmuls(n, k), st, c, Consumer(w)) <=> co[c][w] = k + 1
<1> PICK script : script = Matmuls(n, k)[c].script[Consumer(w)] OBVIOUS
<1> PICK i : i = st.at[c][Consumer(w)] OBVIOUS
<1>1. script = ConsumerAt(c, n, k, w) /\ Len(script) = k + 2 BY ConsumerScript
<1>2. ~st.done[c][Consumer(w)] /\ i < Len(script) BY DEF Inside
<1>3. At(Matmuls(n, k), st, c, Consumer(w)) = script[i + 1] BY DEF At
<1>4. i \in Nat /\ Consumer(w) # "loader" BY WarpNames DEF GoodView, StateTyped, WarpsTyped
<1>5. co[c][w] = i BY <1>2 DEF GoodView, Consumed
<1>6. k \in Nat BY EpilogueIs
<1>7. i \in 0 .. k + 1 BY <1>1, <1>2, <1>4, <1>6
<1>8. IsLast(Matmuls(n, k), st, c, Consumer(w)) <=> i + 1 = k + 2
  BY <1>1, <1>4 DEF IsLast
<1> QED BY <1>1, <1>2, <1>3, <1>5, <1>6, <1>7, <1>8

\* When the waits of a consumer's step are over, the sums are complete, or the
\* other consumer has come to the meeting.
LEMMA ConsumerReady ==
  ASSUME MatmulConfig, NEW n, Iterations(n), NEW k, Epilogue(k), NEW st, NEW ld, NEW la, NEW co,
         NEW m, NEW in, GoodView(n, k, st, ld, la, co, m, in), NEW c \in CTAS, NEW w \in {0, 1},
         CanAdvance(Matmuls(n, k), st, c, Consumer(w))
  PROVE  /\ co[c][w] = 0 => m = 2 * n + 1
         /\ co[c][w] = 2 => co[c][1 - w] >= 2
         /\ co[c][w] = k + 1 => co[c][1 - w] >= k + 1
<1> PICK j : j = co[c][w] OBVIOUS
<1> PICK s : s = ConsumerAt(c, n, k, w)[j + 1] OBVIOUS
<1> PICK sem : sem = st.semaphore[c] OBVIOUS
<1>1. Inside(Matmuls(n, k), st, c, Consumer(w)) BY DEF CanAdvance
<1>2. j \in 0 .. k + 1 /\ At(Matmuls(n, k), st, c, Consumer(w)) = s BY <1>1, ConsumerInside
<1>3. ConsumerIs(c, n, k, w, j, s) BY <1>2, ConsumerStepIs
<1>4. s.waits = IF j = 0 THEN {Wait("outputs_arrived", 0, 0)}
                ELSE IF j = 2 THEN Met(0) ELSE IF j = k + 1 THEN Met(1) ELSE {}
  BY <1>3 DEF ConsumerIs
<1>5. \A wait \in s.waits : WaitOver(sem, wait) BY <1>2 DEF CanAdvance
<1>6. k \in {3, 4} BY EpilogueIs
<1>7. /\ BarrierIs(sem[SumsSem], IF m = 2 * n + 1 THEN 1 ELSE 0, 1)
      /\ MeetingIs(sem[SyncSem(0)], co[c], 2)
      /\ MeetingIs(sem[SyncSem(1)], co[c], k + 1)
  <2>1. Counters(n, k, st.semaphore, la, co, m, in) BY DEF GoodView, View
  <2> QED BY <2>1, CountersAre
<1>8. co[c] \in [{0, 1} -> Nat]
  <2>1. ConsumedTyped(co) BY ConsumedIsTyped DEF GoodView
  <2> QED BY <2>1 DEF ConsumedTyped
<1>9. 1 - w \in {0, 1} OBVIOUS
<1>10. j = 0 => m = 2 * n + 1
  <2> SUFFICES ASSUME j = 0 PROVE m = 2 * n + 1
    OBVIOUS
  <2>1. WaitOver(sem, Wait("outputs_arrived", 0, 0)) BY <1>4, <1>5
  <2>2. sem[SumsSem].phase % 2 # 0 BY <2>1 DEF WaitOver, Wait, SumsSem
  <2>3. m # 2 * n + 1 => sem[SumsSem].phase = 0 BY <1>7 DEF BarrierIs
  <2> QED BY <2>2, <2>3
<1>11. j = 2 => co[c][1 - w] >= 2
  <2> SUFFICES ASSUME j = 2 PROVE co[c][1 - w] >= 2
    OBVIOUS
  <2>1. WaitOver(sem, Wait("sync", 0, 0)) BY <1>4, <1>5 DEF Met
  <2>2. sem[SyncSem(0)].phase % 2 # 0 BY <2>1 DEF WaitOver, Wait, SyncSem
  <2>3. 2 \in Nat OBVIOUS
  <2> QED BY <1>7, <1>8, <1>9, <2>2, <2>3, MeetingOver
<1>12. j = k + 1 => co[c][1 - w] >= k + 1
  <2> SUFFICES ASSUME j = k + 1 PROVE co[c][1 - w] >= k + 1
    OBVIOUS
  <2>1. j # 0 /\ j # 2 BY <1>6
  <2>2. WaitOver(sem, Wait("sync", 1, 0)) BY <1>4, <1>5, <2>1 DEF Met
  <2>3. sem[SyncSem(1)].phase % 2 # 0 BY <2>2 DEF WaitOver, Wait, SyncSem
  <2>4. k + 1 \in Nat BY <1>6
  <2> QED BY <1>7, <1>8, <1>9, <2>3, <2>4, MeetingOver
<1> QED BY <1>10, <1>11, <1>12

\* What a consumer's step leaves in the pages.
StoresOnly(s, k, j, w) ==
  s.loads = {} /\ s.puts = IF j = k - 1 THEN Stored(w) ELSE {}
ContentsFine(n, k, contents, m, in, co) ==
  ContentsAre(n, k, contents, m, in, co) /\ contents \subseteq FACTS

\* Inputs and results stay, and the results it stores are there.
LEMMA ConsumerContents ==
  ASSUME MatmulConfig, NEW n \in Nat \ {0}, NEW k, Epilogue(k), NEW contents, contents \subseteq FACTS,
         NEW m \in Nat, NEW in, NEW co, ConsumedTyped(co), LandedTyped(n, in),
         ContentsAre(n, k, contents, m, in, co), NEW c \in CTAS, NEW w \in {0, 1},
         AllConsuming(n, k, co, m), NEW po, NextIs(co, c, w, po),
         NEW s, StoresOnly(s, k, co[c][w], w)
  PROVE  ContentsFine(n, k, Written(contents, c, s), m, in, po)
<1> PICK out : out = Written(contents, c, s) OBVIOUS
<1> PICK j : j = co[c][w] OBVIOUS
<1>1. /\ k \in {3, 4} /\ j \in Nat /\ (j >= 1 => m = 2 * n + 1)
      /\ s.loads = {} /\ s.puts = IF j = k - 1 THEN Stored(w) ELSE {}
  BY EpilogueIs DEF NextIs, AllConsuming, Consuming, StoresOnly
<1>2. ASSUME NEW d \in CTAS, NEW v \in {0, 1}, po[d][v] >= k
      PROVE  co[d][v] >= k \/ (d = c /\ v = w)
  <2>1. CASE d # c BY <1>2, <2>1 DEF NextIs
  <2>2. CASE d = c /\ v # w
    <3>1. v = 1 - w BY <2>2
    <3> QED BY <1>2, <2>2, <3>1 DEF NextIs
  <2> QED BY <2>1, <2>2
<1>3. CASE j = k - 1
  <2>1. m = 2 * n + 1 BY <1>1, <1>3
  <2>2. s.loads = {} /\ s.puts = Stored(w) BY <1>1, <1>3
  <2>3. out = WithResult(contents, c, w)
    <3>1. Written(contents, c, s) = WithResult(contents, c, w) BY <2>2, WrittenByStore
    <3> QED BY <3>1
  <2>4. ContentsAre(n, k, WithResult(contents, c, w), m, in, po)
    <3>1. StoresNext(k, co, po, c, w) BY <1>2 DEF StoresNext
    <3> QED BY <2>1, <3>1, ContentsAfterStore
  <2>5. ResultFact(c, w) \in FACTS BY ResultTyped
  <2>6. out \subseteq FACTS BY <2>3, <2>5 DEF KeptFacts, WithResult
  <2> QED BY <2>3, <2>4, <2>6 DEF ContentsFine
<1>4. CASE j # k - 1
  <2>1. s.loads = {} /\ s.puts = {} BY <1>1, <1>4
  <2>2. out = contents BY <2>1, WrittenNothing
  <2>3. ASSUME NEW d \in CTAS, NEW v \in {0, 1}, po[d][v] >= k
        PROVE  co[d][v] >= k
    <3>1. CASE d = c /\ v = w
      <4>1. j + 1 >= k BY <2>3, <3>1 DEF NextIs
      <4> QED BY <1>1, <1>4, <3>1, <4>1
    <3> QED BY <1>2, <2>3, <3>1
  <2>4. m <= m OBVIOUS
  <2>5. ContentsAre(n, k, contents, m, in, po) BY <2>3, <2>4, ContentsStay
  <2> QED BY <2>2, <2>5 DEF ContentsFine
<1> QED BY <1>3, <1>4

\* A step of a consumer leads to a good state.
LEMMA ConsumerAdvances ==
  ASSUME MatmulConfig, NEW n, Iterations(n), NEW k, Epilogue(k), NEW st, Good(n, k, st),
         NEW c \in CTAS, NEW w \in {0, 1}, CanAdvance(Matmuls(n, k), st, c, Consumer(w))
  PROVE  Good(n, k, Advanced(Matmuls(n, k), st, c, Consumer(w)))
<1> PICK ld, la, co, m, in : GoodView(n, k, st, ld, la, co, m, in) BY GoodIs
<1> PICK t : t = Advanced(Matmuls(n, k), st, c, Consumer(w)) OBVIOUS
<1> PICK j : j = co[c][w] OBVIOUS
<1> PICK s : s = ConsumerAt(c, n, k, w)[j + 1] OBVIOUS
<1>1. Inside(Matmuls(n, k), st, c, Consumer(w)) BY DEF CanAdvance
<1>2. /\ st.at[c][Consumer(w)] = j /\ j \in 0 .. k + 1 /\ ~st.done[c][Consumer(w)]
      /\ At(Matmuls(n, k), st, c, Consumer(w)) = s
      /\ IsLast(Matmuls(n, k), st, c, Consumer(w)) <=> j = k + 1
  BY <1>1, ConsumerInside
<1>3. n \in Nat \ {0} /\ k \in {3, 4} /\ n \in Nat BY IterationsIs, EpilogueIs
<1>4. /\ j = 0 => m = 2 * n + 1
      /\ j = 2 => co[c][1 - w] >= 2
      /\ j = k + 1 => co[c][1 - w] >= k + 1
  BY ConsumerReady
<1> PICK last : last = (j = k + 1) OBVIOUS
<1> PICK a : a = IF last THEN 0 ELSE j + 1 OBVIOUS
<1>5. Effect(n, k, st, c, s, t) /\ Moved(st, t, c, Consumer(w), a, last)
  <2>1. WarpsTyped(st) BY DEF GoodView, StateTyped
  <2>2. last <=> IsLast(Matmuls(n, k), st, c, Consumer(w)) BY <1>2
  <2>3. Consumer(w) \in WARPS /\ last \in BOOLEAN BY WarpNames
  <2>4. Moved(st, t, c, Consumer(w), IF last THEN 0 ELSE st.at[c][Consumer(w)] + 1, last)
        /\ Effect(n, k, st, c, s, t)
    BY <1>2, <2>1, <2>2, <2>3, AdvancedIs
  <2> QED BY <1>2, <2>4
<1>6. /\ s.signals = MeetsAt(c, k, j)
      /\ s.puts = IF j = k - 1 THEN Stored(w) ELSE {}
      /\ s.finishes = IF j = k + 1 /\ w = 0 THEN {0} ELSE {}
      /\ s.tensorFinish <=> (j = k - 1 /\ w = 0)
      /\ s.pages = {} /\ s.loads = {} /\ s.mmas = << >>
  <2>1. ConsumerIs(c, n, k, w, j, s) BY <1>2, ConsumerStepIs
  <2> QED BY <2>1 DEF ConsumerIs, MeetsAt
<1>7. /\ StateTyped(n, st) /\ InControl(n, k, st.at, st.done)
      /\ Spread(n, ld, la, m) /\ st.mmas = Queue(n, la) /\ InFlight(n, ld, la, st.loading)
      /\ Counters(n, k, st.semaphore, la, co, m, in)
      /\ AllConsuming(n, k, co, m) /\ AllPages(n, k, st, ld, co)
      /\ ContentsAre(n, k, st.contents, m, in, co) /\ SumsAre(n, st.tensor, m)
      /\ k = GEMM => TensorPassed(st.tensorFinished, co)
  BY DEF GoodView, View
<1>8. m \in Nat /\ la \in 0 .. n + 1 BY <1>7 DEF StateTyped, GoodView, Spread
<1>9. ConsumedTyped(co) BY ConsumedIsTyped DEF GoodView
<1> PICK po : po = StepsOn(co, c, w) OBVIOUS
<1>10. NextIs(co, c, w, po) BY <1>9, NextConsumed
<1>11. Loaded(n, t) = ld /\ Launched(n, t) = la /\ Consumed(k, t) = po
  <2>1. FarAs(n, k, t, Loaded(n, st), Launched(n, st),
              ConsumedTo(Consumed(k, st), c, w, IF last THEN k + 2 ELSE a))
    BY <1>3, <1>5, ConsumerMoves
  <2>2. ld = Loaded(n, st) /\ la = Launched(n, st) /\ co = Consumed(k, st) BY DEF GoodView
  <2>3. (IF last THEN k + 2 ELSE a) = j + 1
    <3>1. CASE last
      <4>1. j = k + 1 BY <3>1
      <4> QED BY <1>3, <3>1, <4>1
    <3>2. CASE ~last BY <3>2
    <3> QED BY <3>1, <3>2
  <2>4. ConsumedTo(co, c, w, j + 1) = po BY DEF ConsumedTo, StepsOn
  <2> QED BY <2>1, <2>2, <2>3, <2>4 DEF FarAs
<1>12. t.multiplied = m BY <1>5 DEF Effect, GoodView
<1>13. t.loading = st.loading
  <2>1. t.loading = st.loading \cup LoadsOf(c, s) BY <1>5 DEF Effect
  <2> QED BY <1>6, <2>1, LoadsNothing
<1>14. Landed(n, ld, t.loading) = in BY <1>13 DEF GoodView
<1>15. InControl(n, k, t.at, t.done)
  <2>1. /\ Consumer(w) \in WARPS /\ Consumer(w) # "loader" /\ Consumer(w) # "launcher"
        /\ Consumer(w) # "storer"
    BY WarpNames
  <2>2. a \in Nat /\ a <= k + 1 /\ (last => a = 0)
    <3>1. CASE last BY <1>3, <3>1
    <3>2. CASE ~last
      <4>1. a = j + 1 /\ j # k + 1 BY <3>2
      <4>2. j + 1 <= k + 1 /\ j + 1 \in Nat BY <1>2, <1>3, <4>1
      <4> QED BY <3>2, <4>1, <4>2
    <3> QED BY <3>1, <3>2
  <2> QED BY <1>3, <1>5, <1>7, <2>1, <2>2, MoveInControl
<1>16. t.mmas = Queue(n, la)
  <2>1. t.mmas = st.mmas \o MmasOf(s) BY <1>5 DEF Effect
  <2>2. Queue(n, la) \o MmasOf(s) = Queue(n, la) BY <1>3, <1>6, <1>8, MmasNothing
  <2> QED BY <1>7, <2>1, <2>2
<1>17. SemaphoresTyped(t.semaphore) /\ Counters(n, k, t.semaphore, la, po, m, in)
  <2>1. SemaphoresTyped(st.semaphore) BY <1>7 DEF StateTyped
  <2>2. t.semaphore = SignalAll(Matmuls(n, k), st, s.signals) BY <1>5 DEF Effect
  <2>3. LET sem == SignalAll(Matmuls(n, k), st, MeetsAt(c, k, j))
        IN  SemaphoresTyped(sem) /\ Counters(n, k, sem, la, po, m, in)
    BY <1>3, <1>7, <1>9, <2>1, ConsumerCounts
  <2> QED BY <1>6, <2>2, <2>3
<1>18. /\ co[c] \in [{0, 1} -> Nat] /\ co[c][w] = j /\ j <= k + 1
       /\ po[c] = [co[c] EXCEPT ![w] = @ + 1]
  BY <1>2, <1>3, <1>9, <1>10 DEF ConsumedTyped, NextIs
<1>19. AllConsuming(n, k, po, m)
  <2> SUFFICES ASSUME NEW d \in CTAS PROVE Consuming(n, k, po[d], m)
    BY DEF AllConsuming
  <2>1. Consuming(n, k, co[d], m) BY <1>7 DEF AllConsuming
  <2>2. CASE d = c
    <3>1. Consuming(n, k, co[c], m) BY <2>1, <2>2
    <3>2. Consuming(n, k, po[c], m)
      BY <1>3, <1>4, <1>18, <3>1, ConsumingNext
    <3> QED BY <2>2, <3>2
  <2>3. CASE d # c BY <1>10, <2>1, <2>3 DEF NextIs
  <2> QED BY <2>2, <2>3
<1>20. AllPages(n, k, t, ld, po) /\ PagesTyped(t)
  <2>1. SameSix(st, t)
    <3>1. Consumer(w) \in WARPS /\ Consumer(w) # "loader" BY WarpNames
    <3> QED BY <1>5, <3>1, SixKept
  <2>2. EffectIs(st, t, c, s)
    <3>1. s.pages \subseteq LIDS /\ s.finishes \subseteq LIDS BY <1>6, ConfigIs
    <3> QED BY <1>5, <1>7, <3>1, EffectOnPages
  <2>3. t.given[c] = st.given[c]
        /\ t.finished[c] = st.finished[c] \cup ConsumerFinishes(k, j, w)
    <3>1. t.given[c] = st.given[c] \cup {} BY <1>6, <2>2 DEF EffectIs
    <3> QED BY <1>6, <2>2, <3>1 DEF EffectIs, ConsumerFinishes
  <2>4. PagesAre(n, k, st.given[c], st.finished[c], ld[c], Six(st.done, st.passed, c), co[c])
    BY <1>7 DEF AllPages
  <2>5. PagesAre(n, k, st.given[c],
                 st.finished[c] \cup ConsumerFinishes(k, co[c][w], w),
                 ld[c], Six(st.done, st.passed, c), po[c])
    <3> PICK cc : cc = co[c] OBVIOUS
    <3> PICK pp : pp = po[c] OBVIOUS
    <3> PICK six : six = Six(st.done, st.passed, c) OBVIOUS
    <3>1. PagesAre(n, k, st.given[c], st.finished[c], ld[c], six, cc) BY <2>4
    <3>2. OneMore(k, cc, w, pp) BY <1>18 DEF OneMore
    <3>3. PagesAre(n, k, st.given[c],
                   st.finished[c] \cup ConsumerFinishes(k, cc[w], w), ld[c], six, pp)
      BY <3>2, <3>1, ConsumerPages
    <3> QED BY <3>3
  <2>6. PagesAre(n, k, t.given[c], t.finished[c], ld[c], Six(st.done, st.passed, c), po[c])
    BY <1>18, <2>3, <2>5
  <2>7. PagesKept(st, t, c) BY <2>2 DEF EffectIs, PagesKept
  <2>8. SameBut(c, ld, ld) /\ SameBut(c, co, po) BY <1>10 DEF SameBut, NextIs
  <2>9. AllPages(n, k, t, ld, po) BY <1>7, <2>1, <2>6, <2>7, <2>8, PagesElsewhere
  <2> QED BY <2>2, <2>9 DEF EffectIs, PagesTyped
<1>21. ContentsAre(n, k, t.contents, m, in, po) /\ t.contents \subseteq FACTS
  <2>1. t.contents = Written(st.contents, c, s) BY <1>5 DEF Effect
  <2>2. LandedTyped(n, in) BY LandedIs DEF GoodView
  <2>3. st.contents \subseteq FACTS BY <1>7 DEF StateTyped
  <2>4. StoresOnly(s, k, co[c][w], w) BY <1>6, <1>18 DEF StoresOnly
  <2>5. ContentsFine(n, k, Written(st.contents, c, s), m, in, po)
    BY <1>3, <1>7, <1>8, <1>9, <1>10, <2>2, <2>3, <2>4, ConsumerContents
  <2> QED BY <2>1, <2>5 DEF ContentsFine
<1>22. t.tensor = st.tensor
  BY <1>5, <1>6, OverwrittenByNone DEF Effect
<1>23. /\ t.tensorFinished \subseteq CTAS
       /\ k = GEMM => TensorPassed(t.tensorFinished, po)
  <2>1. t.tensorFinished = IF s.tensorFinish THEN st.tensorFinished \cup {c}
                           ELSE st.tensorFinished
    BY <1>5 DEF Effect
  <2>2. st.tensorFinished \subseteq CTAS BY <1>7 DEF StateTyped
  <2>3. ASSUME k = GEMM, NEW d \in t.tensorFinished PROVE po[d][0] >= 3
    <3>1. CASE d \in st.tensorFinished
      <4>1. co[d][0] >= 3 /\ d \in CTAS BY <1>7, <2>2, <2>3, <3>1 DEF TensorPassed
      <4>2. co[d][0] \in Nat BY <1>9, <4>1 DEF ConsumedTyped
      <4>3. po[d][0] = co[d][0] \/ po[d][0] = co[d][0] + 1
        <5>1. CASE d # c BY <1>10, <4>1, <5>1 DEF NextIs
        <5>2. CASE d = c
          <6>1. po[c][w] = co[c][w] + 1 /\ po[c][1 - w] = co[c][1 - w] BY <1>10 DEF NextIs
          <6>2. w = 0 \/ 1 - w = 0 OBVIOUS
          <6> QED BY <5>2, <6>1, <6>2
        <5> QED BY <5>1, <5>2
      <4> QED BY <4>1, <4>2, <4>3
    <3>2. CASE d \notin st.tensorFinished
      <4>1. s.tensorFinish /\ d = c BY <2>1, <2>3, <3>2
      <4>2. j = 2 /\ w = 0 BY <1>6, <2>3, <4>1 DEF GEMM
      <4>3. po[c][w] = j + 1 BY <1>10 DEF NextIs
      <4> QED BY <4>1, <4>2, <4>3
    <3> QED BY <3>1, <3>2
  <2>4. t.tensorFinished \subseteq CTAS BY <2>1, <2>2
  <2> QED BY <2>3, <2>4 DEF TensorPassed
<1>24. StateTyped(n, t)
  <2>1. t = RecordOf(t) /\ t.passed = st.passed BY <1>5 DEF Effect
  <2>2. WarpsTyped(t) BY <1>5 DEF Moved
  <2>3. t.mmas \in {Queue(n, l) : l \in 0 .. n + 1} BY <1>8, <1>16
  <2>4. /\ st.passed \in [CTAS -> SUBSET {6}]
        /\ st.tensor \subseteq SUMS /\ st.loading \subseteq InputLoads(n)
    BY <1>7 DEF StateTyped
  <2> QED BY <1>8, <1>12, <1>13, <1>17, <1>20, <1>21, <1>22, <1>23, <2>1, <2>2, <2>3, <2>4
          DEF StateTyped, PagesTyped
<1>25. View(n, k, t, ld, la, po, m, in)
  BY <1>7, <1>13, <1>16, <1>17, <1>19, <1>20, <1>21, <1>22, <1>23, Zenon DEF View
<1>26. GoodView(n, k, t, ld, la, po, m, in)
  BY <1>11, <1>12, <1>14, <1>15, <1>24, <1>25 DEF GoodView
<1> QED BY <1>26, GoodFrom

---------------------------------------------------------------------------
(* Warps that are through with their scripts, and the loader's other lane.  *)

\* The storer has no script, and the loader's one other lane has page 6.
LEMMA OtherScripts ==
  ASSUME MatmulConfig, NEW n, NEW k, Epilogue(k), NEW c \in CTAS
  PROVE  Matmuls(n, k)[c].script["storer"] = << >> /\ Matmuls(n, k)[c].lanes = <<{6}>>
  BY DEF Matmuls, GemmOp, GateSiluOp, Matmul, Nothing

\* So the storer is never inside the instruction.
LEMMA StorerOutside ==
  ASSUME MatmulConfig, NEW n, NEW k, Epilogue(k), NEW st, StateTyped(n, st), NEW c \in CTAS,
         "storer" \in WARPS
  PROVE  ~Inside(Matmuls(n, k), st, c, "storer")
<1>1. Len(Matmuls(n, k)[c].script["storer"]) = 0
  <2>1. Matmuls(n, k)[c].script["storer"] = << >> BY OtherScripts
  <2> QED BY <2>1
<1>2. st.at[c]["storer"] \in Nat BY DEF StateTyped, WarpsTyped
<1> QED BY <1>1, <1>2 DEF Inside

\* The lane waits for page 6, once.
LEMMA AwaitedIs ==
  ASSUME NEW passed
  PROVE  Awaited(<<{6}>>, passed) = {6} \ passed
<1> PICK lanes : lanes = <<{6}>> OBVIOUS
<1>1. DOMAIN lanes = {1} /\ lanes[1] = {6} OBVIOUS
<1>2. {i \in DOMAIN lanes : \A j \in 1 .. i - 1 : lanes[j] \subseteq passed} = {1}
  BY <1>1
<1>3. Awaited(lanes, passed) = UNION {lanes[i] \ passed : i \in {1}}
  BY <1>2 DEF Awaited
<1>4. {lanes[i] \ passed : i \in {1}} = {{6} \ passed} BY <1>1
<1> QED BY <1>3, <1>4

\* What stays when a warp retires.
OnlyMoved(st, t) ==
  /\ t = RecordOf(t)
  /\ t.semaphore = st.semaphore /\ t.given = st.given /\ t.finished = st.finished
  /\ t.contents = st.contents /\ t.tensor = st.tensor
  /\ t.tensorFinished = st.tensorFinished /\ t.loading = st.loading
  /\ t.mmas = st.mmas /\ t.multiplied = st.multiplied

Unpassed(st, t, c, w) ==
  t.passed = [st.passed EXCEPT ![c] = IF w = "loader" THEN {} ELSE @]

\* A warp that retires is done.
LEMMA RetiredIs ==
  ASSUME NEW n, NEW st, StateTyped(n, st), NEW c \in CTAS, NEW w \in WARPS,
         NEW t, t = Retired(st, c, w)
  PROVE  OnlyMoved(st, t) /\ Moved(st, t, c, w, 0, TRUE) /\ Unpassed(st, t, c, w)
<1>1. st = RecordOf(st) BY DEF StateTyped
<1> PICK r : r = RecordOf(st) OBVIOUS
<1>2. t = Retired(r, c, w) /\ r = st BY <1>1
<1>3. /\ t.at = [st.at EXCEPT ![c][w] = 0] /\ t.done = [st.done EXCEPT ![c][w] = TRUE]
      /\ t.passed = [st.passed EXCEPT ![c] = IF w = "loader" THEN {} ELSE @]
      /\ OnlyMoved(st, t)
  BY <1>2 DEF Retired, RecordOf, OnlyMoved
<1>4. Moved(st, t, c, w, 0, TRUE)
  <2>1. WarpsTyped(st) BY DEF StateTyped
  <2>2. MovedTo(st, t, c, w, 0, TRUE) BY <1>3 DEF MovedTo
  <2>3. 0 \in Nat /\ TRUE \in BOOLEAN OBVIOUS
  <2> QED BY <2>1, <2>2, <2>3, MoveIs
<1> QED BY <1>3, <1>4 DEF Unpassed

\* A state that differs in the warps' places alone is good when those are.
LEMMA ViewStays ==
  ASSUME NEW n, NEW k, NEW st, NEW ld, NEW la, NEW co, NEW m, NEW in,
         GoodView(n, k, st, ld, la, co, m, in),
         NEW t, OnlyMoved(st, t), FarAs(n, k, t, ld, la, co), SameSix(st, t),
         InControl(n, k, t.at, t.done), WarpsTyped(t), t.passed \in [CTAS -> SUBSET {6}]
  PROVE  Good(n, k, t)
<1>1. StateTyped(n, t) BY DEF GoodView, StateTyped, OnlyMoved
<1>2. AllPages(n, k, t, ld, co)
  <2> SUFFICES ASSUME NEW d \in CTAS
               PROVE  PagesAre(n, k, t.given[d], t.finished[d], ld[d],
                               Six(t.done, t.passed, d), co[d])
    BY DEF AllPages
  <2>1. PagesAre(n, k, st.given[d], st.finished[d], ld[d], Six(st.done, st.passed, d), co[d])
    BY DEF GoodView, View, AllPages
  <2>2. Six(t.done, t.passed, d) = Six(st.done, st.passed, d) BY DEF SameSix, Six
  <2> QED BY <2>1, <2>2 DEF OnlyMoved
<1>3. View(n, k, t, ld, la, co, m, in)
  <2>1. View(n, k, st, ld, la, co, m, in) BY DEF GoodView
  <2> QED BY <1>2, <2>1, Zenon DEF View, OnlyMoved
<1>4. GoodView(n, k, t, ld, la, co, m, in)
  BY <1>1, <1>3 DEF GoodView, OnlyMoved, FarAs
<1> QED BY <1>4, GoodFrom

\* A warp that can retire is the loader, behind its script and its other lane, or
\* one without a script.
LEMMA WhoRetires ==
  ASSUME MatmulConfig, NEW n, Iterations(n), NEW k, Epilogue(k), NEW st, NEW ld, NEW la, NEW co,
         NEW m, NEW in, GoodView(n, k, st, ld, la, co, m, in), NEW c \in CTAS, NEW w \in WARPS,
         CanRetire(Matmuls(n, k), st, c, w)
  PROVE  \/ w = "loader" /\ ld[c] = n + 4 /\ 6 \in st.passed[c]
         \/ w = "launcher" /\ c # 0
         \/ w = "storer"
<1> PICK a : a = st.at[c][w] OBVIOUS
<1>1. /\ ~st.done[c][w] /\ a = Len(Matmuls(n, k)[c].script[w])
      /\ w = "loader" => Awaited(Matmuls(n, k)[c].lanes, st.passed[c]) = {}
  BY DEF CanRetire
<1>2. InControl(n, k, st.at, st.done) /\ a \in Nat
  BY DEF GoodView, StateTyped, WarpsTyped
<1>3. n \in Nat \ {0} /\ k \in {3, 4} BY IterationsIs, EpilogueIs
<1>4. CASE w = "loader"
  <2>1. a = n + 4 BY <1>1, <1>4, LoaderScript
  <2>2. ld[c] = a BY <1>1, <1>4 DEF GoodView, Loaded
  <2>3. {6} \ st.passed[c] = {}
    <3>1. Matmuls(n, k)[c].lanes = <<{6}>> BY OtherScripts
    <3>2. Awaited(<<{6}>>, st.passed[c]) = {} BY <1>1, <1>4, <3>1
    <3> QED BY <3>2, AwaitedIs
  <2> QED BY <1>4, <2>1, <2>2, <2>3
<1>5. CASE w = "launcher" /\ c = 0
  <2>1. a = n + 1 BY <1>1, <1>5, LauncherScript
  <2>2. a <= n BY <1>2, <1>5 DEF InControl
  <2> QED BY <1>3, <2>1, <2>2
<1>6. ASSUME NEW v \in {0, 1}, w = Consumer(v) PROVE FALSE
  <2>1. Matmuls(n, k)[c].script[Consumer(v)] = ConsumerAt(c, n, k, v)
        /\ Len(ConsumerAt(c, n, k, v)) = k + 2
    BY ConsumerScript
  <2>2. a = k + 2 BY <1>1, <1>6, <2>1
  <2>3. a <= k + 1 BY <1>2, <1>6 DEF InControl
  <2> QED BY <1>3, <2>2, <2>3
<1>7. \/ w = "loader" \/ w = "launcher" \/ w = "storer" \/ \E v \in {0, 1} : w = Consumer(v)
  BY WarpNames
<1> QED BY <1>4, <1>5, <1>6, <1>7

\* A warp that is through with its script leads to a good state.
LEMMA WarpRetires ==
  ASSUME MatmulConfig, NEW n, Iterations(n), NEW k, Epilogue(k), NEW st, Good(n, k, st),
         NEW c \in CTAS, NEW w \in WARPS, CanRetire(Matmuls(n, k), st, c, w)
  PROVE  Good(n, k, Retired(st, c, w))
<1> PICK ld, la, co, m, in : GoodView(n, k, st, ld, la, co, m, in) BY GoodIs
<1> PICK t : t = Retired(st, c, w) OBVIOUS
<1>1. /\ w = "loader" => ld[c] = n + 4 /\ 6 \in st.passed[c]
      /\ w = "launcher" => c # 0
      /\ w = "loader" \/ w = "launcher" \/ w = "storer"
  BY WhoRetires
<1>2. n \in Nat \ {0} /\ k \in {3, 4} /\ n \in Nat /\ k + 1 >= 0
  BY IterationsIs, EpilogueIs
<1>3. StateTyped(n, st) /\ InControl(n, k, st.at, st.done) BY DEF GoodView
<1>4. /\ OnlyMoved(st, t) /\ Moved(st, t, c, w, 0, TRUE)
      /\ t.passed = [st.passed EXCEPT ![c] = IF w = "loader" THEN {} ELSE @]
  <2>1. OnlyMoved(st, t) /\ Moved(st, t, c, w, 0, TRUE) /\ Unpassed(st, t, c, w)
    BY <1>3, RetiredIs
  <2> QED BY <2>1 DEF Unpassed
<1>5. ld = Loaded(n, st) /\ la = Launched(n, st) /\ co = Consumed(k, st) BY DEF GoodView
<1>6. FarAs(n, k, t, ld, la, co)
  <2>1. CASE w = "loader"
    <3>1. FarAs(n, k, t, LoadedTo(n, ld, c, n + 4), la, co)
      <4>1. Moved(st, t, c, "loader", 0, TRUE) BY <1>4, <2>1
      <4>2. FarAs(n, k, t, LoadedTo(n, Loaded(n, st), c, IF TRUE THEN n + 4 ELSE 0),
                  Launched(n, st), Consumed(k, st))
        BY <1>2, <4>1, LoaderMoves
      <4> QED BY <1>5, <4>2
    <3>2. LoadedTo(n, ld, c, n + 4) = ld
      <4>1. ld = [d \in CTAS |-> ld[d]] BY <1>5 DEF Loaded
      <4> QED BY <1>1, <2>1, <4>1 DEF LoadedTo
    <3> QED BY <3>1, <3>2
  <2>2. CASE w = "launcher"
    <3>1. Moved(st, t, c, "launcher", 0, TRUE) BY <1>4, <2>2
    <3>2. FarAs(n, k, t, Loaded(n, st),
                IF c # 0 THEN Launched(n, st) ELSE IF TRUE THEN n + 1 ELSE 0, Consumed(k, st))
      BY <1>2, <3>1, LauncherMoves
    <3>3. (IF c # 0 THEN Launched(n, st) ELSE IF TRUE THEN n + 1 ELSE 0) = la
      BY <1>1, <1>5, <2>2
    <3> QED BY <1>5, <3>2, <3>3
  <2>3. CASE w = "storer"
    <3>1. Moved(st, t, c, "storer", 0, TRUE) /\ "storer" \in WARPS BY <1>4, <2>3
    <3> QED BY <1>2, <1>5, <3>1, OtherMoves
  <2> QED BY <1>1, <2>1, <2>2, <2>3
<1>7. InControl(n, k, t.at, t.done)
  <2>1. 0 \in Nat /\ 0 <= n + 4 /\ 0 <= (IF c = 0 THEN n ELSE 0) /\ 0 <= k + 1
    BY <1>2
  <2> QED BY <1>2, <1>3, <1>4, <2>1, MoveInControl
<1>8. t.passed \in [CTAS -> SUBSET {6}] BY <1>3, <1>4 DEF StateTyped
<1>9. SameSix(st, t)
  <2> SUFFICES ASSUME NEW d \in CTAS
               PROVE  t.done[d]["loader"] \/ 6 \in t.passed[d] <=>
                      st.done[d]["loader"] \/ 6 \in st.passed[d]
    BY DEF SameSix, Six
  <2>1. "loader" \in WARPS BY WarpNames
  <2>2. CASE d = c /\ w = "loader"
    <3>1. t.done[d]["loader"] BY <1>4, <2>2 DEF Moved
    <3> QED BY <1>1, <2>2, <3>1
  <2>3. CASE d # c \/ w # "loader"
    <3>1. t.done[d]["loader"] = st.done[d]["loader"] BY <1>4, <2>1, <2>3 DEF Moved
    <3>2. t.passed[d] = st.passed[d] BY <1>3, <1>4, <2>3 DEF StateTyped
    <3> QED BY <3>1, <3>2
  <2> QED BY <2>2, <2>3
<1>10. WarpsTyped(t) BY <1>4 DEF Moved
<1> QED BY <1>4, <1>6, <1>7, <1>8, <1>9, <1>10, ViewStays

\* The other lane passes page 6 on, which the instruction does not use.
LEMMA LanePasses ==
  ASSUME MatmulConfig, NEW n, Iterations(n), NEW k, Epilogue(k), NEW st, Good(n, k, st),
         NEW c \in CTAS, NEW lid \in LIDS, CanPassOn(Matmuls(n, k), st, c, lid)
  PROVE  Good(n, k, PassedOn(st, c, lid))
<1> PICK ld, la, co, m, in : GoodView(n, k, st, ld, la, co, m, in) BY GoodIs
<1> PICK t : t = PassedOn(st, c, lid) OBVIOUS
<1>1. lid = 6
  <2>1. lid \in Awaited(Matmuls(n, k)[c].lanes, st.passed[c]) BY DEF CanPassOn
  <2>2. Matmuls(n, k)[c].lanes = <<{6}>> BY OtherScripts
  <2>3. lid \in Awaited(<<{6}>>, st.passed[c]) BY <2>1, <2>2
  <2> QED BY <2>3, AwaitedIs
<1>2. StateTyped(n, st) /\ InControl(n, k, st.at, st.done) /\ View(n, k, st, ld, la, co, m, in)
  BY DEF GoodView
<1>3. /\ t = RecordOf(t) /\ t.at = st.at /\ t.done = st.done
      /\ t.passed = [st.passed EXCEPT ![c] = @ \cup {6}]
      /\ t.given = [st.given EXCEPT ![c] = @ \cup {6}]
      /\ t.finished = [st.finished EXCEPT ![c] = @ \cup {6}]
      /\ t.semaphore = st.semaphore /\ t.contents = st.contents /\ t.tensor = st.tensor
      /\ t.tensorFinished = st.tensorFinished /\ t.loading = st.loading
      /\ t.mmas = st.mmas /\ t.multiplied = st.multiplied
  <2>1. st = RecordOf(st) BY <1>2 DEF StateTyped
  <2> PICK r : r = RecordOf(st) OBVIOUS
  <2>2. t = PassedOn(r, c, 6) /\ r = st BY <1>1, <2>1
  <2> QED BY <2>2 DEF PassedOn, RecordOf
<1>4. 6 \in LIDS BY ConfigIs
<1>5. StateTyped(n, t) BY <1>2, <1>3, <1>4 DEF StateTyped, WarpsTyped
<1>6. AllPages(n, k, t, ld, co)
  <2> SUFFICES ASSUME NEW d \in CTAS
               PROVE  PagesAre(n, k, t.given[d], t.finished[d], ld[d],
                               Six(t.done, t.passed, d), co[d])
    BY DEF AllPages
  <2>1. PagesAre(n, k, st.given[d], st.finished[d], ld[d], Six(st.done, st.passed, d), co[d])
    BY <1>2 DEF View, AllPages
  <2>2. CASE d # c
    <3>1. t.given[d] = st.given[d] /\ t.finished[d] = st.finished[d] /\ t.passed[d] = st.passed[d]
      BY <1>2, <1>3, <2>2 DEF StateTyped
    <3>2. Six(t.done, t.passed, d) = Six(st.done, st.passed, d) BY <1>3, <3>1 DEF Six
    <3> QED BY <2>1, <3>1, <3>2
  <2>3. CASE d = c
    <3>1. /\ t.given[d] = st.given[d] \cup {6} /\ t.finished[d] = st.finished[d] \cup {6}
          /\ t.passed[d] = st.passed[d] \cup {6}
      BY <1>2, <1>3, <2>3 DEF StateTyped
    <3>2. Six(t.done, t.passed, d) BY <3>1 DEF Six
    <3>3. /\ \A l \in 0 .. 5 : l \in t.given[d] <=> l \in st.given[d]
          /\ \A l \in 0 .. 5 : l \in t.finished[d] <=> l \in st.finished[d]
          /\ 6 \in t.given[d] /\ 6 \in t.finished[d]
      BY <3>1
    <3>4. (\A l \in 1 .. 5 : l \in 0 .. 5) /\ 0 \in 0 .. 5 OBVIOUS
    <3> QED BY <2>1, <3>2, <3>3, <3>4 DEF PagesAre
  <2> QED BY <2>2, <2>3
<1>7. View(n, k, t, ld, la, co, m, in) BY <1>2, <1>3, <1>6, Zenon DEF View
<1>8. /\ ld = Loaded(n, t) /\ la = Launched(n, t) /\ co = Consumed(k, t)
      /\ m = t.multiplied /\ in = Landed(n, ld, t.loading)
  BY <1>3 DEF GoodView, Loaded, Launched, Consumed
<1>9. GoodView(n, k, t, ld, la, co, m, in) BY <1>2, <1>3, <1>5, <1>7, <1>8 DEF GoodView
<1> QED BY <1>9, GoodFrom

---------------------------------------------------------------------------
(* Loads that land, and multiplications.                                   *)

\* Warps and pages stay as they are.
OnlyData(st, t) ==
  /\ t = RecordOf(t)
  /\ t.at = st.at /\ t.done = st.done /\ t.passed = st.passed
  /\ t.given = st.given /\ t.finished = st.finished
  /\ t.tensorFinished = st.tensorFinished /\ t.mmas = st.mmas

\* What is left for a change of the data to show.
DataIs(n, k, st, t, la, co, m, in) ==
  /\ OnlyData(st, t)
  /\ t.multiplied = m /\ m \in Nat
  /\ SemaphoresTyped(t.semaphore) /\ Counters(n, k, t.semaphore, la, co, m, in)
  /\ t.contents \subseteq FACTS /\ ContentsAre(n, k, t.contents, m, in, co)
  /\ t.tensor \subseteq SUMS /\ SumsAre(n, t.tensor, m)
  /\ t.loading \subseteq st.loading

\* A state whose warps are where they were is good when its data is.
LEMMA DataChanges ==
  ASSUME NEW n, NEW k, NEW st, NEW ld, NEW la, NEW co, NEW m, NEW in,
         GoodView(n, k, st, ld, la, co, m, in),
         NEW t, NEW p, NEW out, DataIs(n, k, st, t, la, co, p, out),
         out = Landed(n, ld, t.loading), Spread(n, ld, la, p), AllConsuming(n, k, co, p)
  PROVE  Good(n, k, t)
<1>1. View(n, k, st, ld, la, co, m, in) /\ StateTyped(n, st) /\ InControl(n, k, st.at, st.done)
  BY DEF GoodView
<1>2. StateTyped(n, t) BY <1>1 DEF StateTyped, DataIs, OnlyData, WarpsTyped
<1>3. AllPages(n, k, t, ld, co)
  BY <1>1 DEF View, AllPages, DataIs, OnlyData
<1>4. InFlight(n, ld, la, t.loading)
  <2>1. InFlight(n, ld, la, st.loading) BY <1>1 DEF View
  <2>2. t.loading \subseteq st.loading BY DEF DataIs
  <2> QED BY <2>1, <2>2 DEF InFlight
<1>5. View(n, k, t, ld, la, co, p, out)
  <2>1. /\ st.mmas = Queue(n, la) /\ (k = GEMM => TensorPassed(st.tensorFinished, co))
    BY <1>1 DEF View
  <2>2. /\ t.mmas = st.mmas /\ t.tensorFinished = st.tensorFinished
        /\ Counters(n, k, t.semaphore, la, co, p, out)
        /\ ContentsAre(n, k, t.contents, p, out, co) /\ SumsAre(n, t.tensor, p)
    BY DEF DataIs, OnlyData
  <2> QED BY <1>3, <1>4, <2>1, <2>2, Zenon DEF View
<1>6. ld = Loaded(n, t) /\ la = Launched(n, t) /\ co = Consumed(k, t)
  BY DEF GoodView, DataIs, OnlyData, Loaded, Launched, Consumed
<1>7. p = t.multiplied /\ InControl(n, k, t.at, t.done) BY <1>1 DEF DataIs, OnlyData
<1>8. GoodView(n, k, t, ld, la, co, p, out) BY <1>2, <1>5, <1>6, <1>7 DEF GoodView
<1> QED BY <1>8, GoodFrom

\* What a load writes when it lands.
LandsOn(contents, x) ==
  {f \in contents : f.cta = x.cta => <<f.lid, f.part>> \notin x.places}
  \cup {[cta |-> x.cta, lid |-> r[1], part |-> r[2], tag |-> x.tag] : r \in x.places}

\* It leaves the inputs of its iteration.
LEMMA LandsOnIs ==
  ASSUME NEW contents, NEW c, NEW i
  PROVE  LandsOn(contents, InputLoad(c, i)) = WithInputs(contents, c, i)
<1>1. /\ InputLoad(c, i).cta = c /\ InputLoad(c, i).tag = i
      /\ InputLoad(c, i).places = Inputs(Stage(i))
  BY InputLoadIs
<1> QED BY <1>1 DEF LandsOn, WithInputs, KeptFacts, InputFact

DeliveredIs(n, k, st, t, x) ==
  /\ OnlyData(st, t) /\ t.multiplied = st.multiplied /\ t.tensor = st.tensor
  /\ t.semaphore = SignalAll(Matmuls(n, k), st, {x.signal})
  /\ t.contents = LandsOn(st.contents, x)
  /\ t.loading = st.loading \ {x}

\* What a load that lands changes.
LEMMA DeliveryIs ==
  ASSUME NEW n, NEW k, NEW st, StateTyped(n, st), NEW x, NEW t,
         t = Delivered(Matmuls(n, k), st, x)
  PROVE  DeliveredIs(n, k, st, t, x)
<1>1. st = RecordOf(st) BY DEF StateTyped
<1> PICK r : r = RecordOf(st) OBVIOUS
<1>2. t = Delivered(Matmuls(n, k), r, x) /\ r = st BY <1>1
<1>3. t.semaphore = SignalAll(Matmuls(n, k), r, {x.signal})
  BY <1>2 DEF Delivered, RecordOf
<1> QED BY <1>2, <1>3 DEF Delivered, RecordOf, OnlyData, DeliveredIs, LandsOn

\* The load in flight is ahead of the launcher, and nothing in the pages it is
\* for is still to be multiplied.
LEMMA LoadLands ==
  ASSUME MatmulConfig, NEW n, Iterations(n), NEW k, Epilogue(k), NEW st, Good(n, k, st),
         NEW x \in st.loading
  PROVE  Good(n, k, Delivered(Matmuls(n, k), st, x))
<1> PICK ld, la, co, m, in : GoodView(n, k, st, ld, la, co, m, in) BY GoodIs
<1> PICK t : t = Delivered(Matmuls(n, k), st, x) OBVIOUS
<1>1. /\ StateTyped(n, st) /\ View(n, k, st, ld, la, co, m, in)
      /\ in = Landed(n, ld, st.loading) /\ st.multiplied = m /\ m \in Nat
  BY DEF GoodView, StateTyped
<1>2. n \in Nat \ {0} /\ k \in {3, 4} /\ n \in Nat BY IterationsIs, EpilogueIs
<1>3. x \in InputLoads(n) BY <1>1 DEF StateTyped
<1> PICK c \in CTAS, i \in 0 .. n - 1 : x = InputLoad(c, i) BY <1>3 DEF InputLoads
<1>4. Spread(n, ld, la, m) /\ i < ld[c] /\ i + 1 >= la
  BY <1>1 DEF View, InFlight
<1>5. /\ la \in 0 .. n /\ m < 2 * i + 2 /\ m < 2 * n - 1
      /\ ld[c] <= i + 4
      /\ i >= 4 => la >= i - 2
      /\ \A d \in CTAS : ld[d] <= i + 4
  BY <1>2, <1>4, AheadOfLaunch
<1>6. DeliveredIs(n, k, st, t, x) BY <1>1, DeliveryIs
<1> PICK out : out = Landed(n, ld, t.loading) OBVIOUS
<1>7. Lands(in, out, c, i)
  <2>1. Lands(Landed(n, ld, st.loading), Landed(n, ld, st.loading \ {InputLoad(c, i)}), c, i)
    BY <1>2, <1>4, LandedAfterDelivery
  <2>2. t.loading = st.loading \ {InputLoad(c, i)} BY <1>6 DEF DeliveredIs
  <2> QED BY <1>1, <2>1, <2>2
<1>8. \A d \in CTAS : \A j \in in[d] : j \in 0 .. n - 1 /\ j < ld[d]
  BY <1>1, LandedIs
<1>9. Near(la, in, i)
  <2>1. \A d \in CTAS : i + 4 \notin in[d]
    <3> SUFFICES ASSUME NEW d \in CTAS, i + 4 \in in[d] PROVE FALSE
      OBVIOUS
    <3>1. i + 4 < ld[d] /\ ld[d] <= i + 4 BY <1>5, <1>8
    <3>2. ld[d] \in 0 .. n + 4 BY <1>4 DEF Spread
    <3> QED BY <3>1, <3>2
  <2>2. CTAS = {0, 1} BY ConfigIs
  <2> QED BY <1>4, <1>5, <2>1, <2>2 DEF Near
<1>10. SemaphoresTyped(t.semaphore) /\ Counters(n, k, t.semaphore, la, co, m, out)
  <2>1. SemaphoresTyped(st.semaphore) BY <1>1 DEF StateTyped
  <2>2. c \in {0, 1} BY ConfigIs
  <2>3. Counters(n, k, st.semaphore, la, co, m, in) BY <1>1 DEF View
  <2>4. CountersFine(n, k, SignalAll(Matmuls(n, k), st, {InputLoad(c, i).signal}),
                     la, co, m, out)
    BY <1>2, <1>5, <1>7, <1>9, <2>1, <2>2, <2>3, LandingCounts
  <2> QED BY <1>6, <2>4 DEF DeliveredIs, CountersFine
<1>11. \A j \in in[c] : Stage(j) = Stage(i) => m >= 2 * j + 2
  <2> SUFFICES ASSUME NEW j \in in[c], Stage(j) = Stage(i) PROVE m >= 2 * j + 2
    OBVIOUS
  <2>1. j \in Nat /\ j < ld[c] /\ j # i /\ i \in Nat
    BY <1>2, <1>7, <1>8 DEF Lands
  <2>2. ld[c] \in 0 .. n + 4 /\ (ld[c] >= 5 => m >= 2 * ld[c] - 8) BY <1>4 DEF Spread
  <2>3. CASE j < i
    <3>1. j + 4 <= i BY <2>1, <2>3, SameStage
    <3> QED BY <1>1, <1>4, <2>1, <2>2, <3>1
  <2>4. CASE i < j
    <3>1. i + 4 <= j BY <2>1, <2>4, SameStage
    <3> QED BY <1>5, <2>1, <2>2, <3>1
  <2> QED BY <2>1, <2>3, <2>4
<1>12. \A w \in {0, 1} : ~(co[c][w] >= k)
  <2>1. AllConsuming(n, k, co, m) BY <1>1 DEF View
  <2>2. ld[c] < n \/ m # 2 * n + 1 BY <1>1, <1>2, <1>5
  <2>3. \A w \in {0, 1} : co[c][w] = 0 BY <1>2, <1>4, <2>1, <2>2, NoResultYet
  <2> QED BY <1>2, <2>3
<1>13. t.contents \subseteq FACTS /\ ContentsAre(n, k, t.contents, m, out, co)
  <2>1. t.contents = WithInputs(st.contents, c, i) BY <1>6, LandsOnIs DEF DeliveredIs
  <2>2. Stage(i) \in 0 .. 3 /\ i \in Nat BY StageIs
  <2>3. \A r \in Inputs(Stage(i)) : InputFact(c, r, i) \in FACTS BY <2>2, InputTyped
  <2>4. t.contents \subseteq FACTS
    <3>1. st.contents \subseteq FACTS BY <1>1 DEF StateTyped
    <3> QED BY <2>1, <2>3, <3>1 DEF WithInputs, KeptFacts
  <2>5. LandedTyped(n, in) /\ ContentsAre(n, k, st.contents, m, in, co)
    BY <1>1, LandedIs DEF View
  <2>6. DoneWith(in, m, c, i) BY <1>11 DEF DoneWith
  <2>7. ContentsAre(n, k, WithInputs(st.contents, c, i), m, out, co)
    BY <1>1, <1>2, <1>7, <1>12, <2>5, <2>6, ContentsAfterLanding
  <2> QED BY <2>1, <2>4, <2>7
<1>14. DataIs(n, k, st, t, la, co, m, out)
  <2>1. st.tensor \subseteq SUMS /\ SumsAre(n, st.tensor, m) BY <1>1 DEF StateTyped, View
  <2> QED BY <1>1, <1>6, <1>10, <1>13, <2>1 DEF DataIs, DeliveredIs
<1>15. AllConsuming(n, k, co, m) BY <1>1 DEF View
<1> QED BY <1>4, <1>14, <1>15, DataChanges

\* What the next multiplication does.
MultiplicationIs(n, k, st, t, x) ==
  /\ OnlyData(st, t) /\ t.multiplied = st.multiplied + 1
  /\ t.contents = st.contents /\ t.loading = st.loading
  /\ t.semaphore = SignalAll(Matmuls(n, k), st, x.signals)
  /\ t.tensor = Summed(st.tensor, x)

\* It does just that.
LEMMA MultiplicationStep ==
  ASSUME NEW n, NEW k, NEW st, StateTyped(n, st), NEW x, x = st.mmas[st.multiplied + 1], NEW t,
         t = MultipliedOnce(Matmuls(n, k), st)
  PROVE  MultiplicationIs(n, k, st, t, x)
<1>1. st = RecordOf(st) BY DEF StateTyped
<1> PICK r : r = RecordOf(st) OBVIOUS
<1>2. t = MultipliedOnce(Matmuls(n, k), r) /\ r = st BY <1>1
<1>3. r.mmas[r.multiplied + 1] = x BY <1>2
<1>4. t.semaphore = SignalAll(Matmuls(n, k), r, x.signals)
  BY <1>2, <1>3 DEF MultipliedOnce, RecordOf
<1>5. t.tensor = Summed(r.tensor, x)
  BY <1>2, <1>3 DEF MultipliedOnce, RecordOf, Summed
<1>6. OnlyData(st, t) /\ t.multiplied = st.multiplied + 1
      /\ t.contents = st.contents /\ t.loading = st.loading
  BY <1>2 DEF MultipliedOnce, RecordOf, OnlyData
<1> QED BY <1>2, <1>4, <1>5, <1>6 DEF MultiplicationIs

\* The sums have their type.
LEMMA SummedTyped ==
  ASSUME MatmulConfig, NEW n \in Nat \ {0}, NEW tensor, tensor \subseteq SUMS
  PROVE  /\ \A i \in 0 .. n - 1, w \in {0, 1} :
              Summed(tensor, Started(Multiply(i, w))) \subseteq SUMS
         /\ Summed(tensor, Started(TensorCommit(SumsSem))) \subseteq SUMS
<1>1. CTAS = {0, 1} BY ConfigIs
<1>2. ASSUME NEW x, x.ctas = {0, 1}, x.part \in {0, 1, NO_PART}, x.tag \in Nat
      PROVE  Summed(tensor, x) \subseteq SUMS
  <2>1. Overwritten(tensor, <<x>>) \subseteq tensor BY OverwrittenTyped
  <2>2. \A d \in x.ctas : [cta |-> d, part |-> x.part, tag |-> x.tag] \in SUMS
    BY <1>1, <1>2 DEF SUMS
  <2> QED BY <2>1, <2>2 DEF Summed
<1>3. ASSUME NEW i \in 0 .. n - 1, NEW w \in {0, 1}
      PROVE  /\ Started(Multiply(i, w)).ctas = {0, 1}
             /\ Started(Multiply(i, w)).part \in {0, 1, NO_PART}
             /\ Started(Multiply(i, w)).tag \in Nat
  BY DEF Started, Multiply
<1>4. /\ Started(TensorCommit(SumsSem)).ctas = {0, 1}
      /\ Started(TensorCommit(SumsSem)).part \in {0, 1, NO_PART}
      /\ Started(TensorCommit(SumsSem)).tag \in Nat
  BY DEF Started, TensorCommit
<1> QED BY <1>2, <1>3, <1>4

\* The multiplication the launcher has started and that is next.
LEMMA NextMultiplication ==
  ASSUME MatmulConfig, NEW n, Iterations(n), NEW k, Epilogue(k), NEW st, NEW ld, NEW la, NEW co,
         NEW m, NEW in, GoodView(n, k, st, ld, la, co, m, in), CanMultiply(st)
  PROVE  /\ m + 1 \in 1 .. QueueLength(n, la) /\ m <= 2 * n
         /\ st.mmas[st.multiplied + 1] = QueueAt(n, m + 1)
<1>1. n \in Nat \ {0} BY IterationsIs
<1>2. st.mmas = Queue(n, la) /\ m = st.multiplied /\ m \in Nat /\ la \in 0 .. n + 1
  BY DEF GoodView, View, Spread, StateTyped
<1>3. /\ QueueLength(n, la) \in Nat /\ Len(Queue(n, la)) = QueueLength(n, la)
      /\ \A j \in 1 .. QueueLength(n, la) : Queue(n, la)[j] = QueueAt(n, j)
  BY <1>1, <1>2, QueueIs
<1>4. m < QueueLength(n, la) BY <1>2, <1>3 DEF CanMultiply
<1>5. QueueLength(n, la) <= 2 * n + 1 BY <1>1, <1>2 DEF QueueLength
<1>6. m + 1 \in 1 .. QueueLength(n, la) BY <1>2, <1>3, <1>4
<1>7. m <= 2 * n BY <1>1, <1>2, <1>3, <1>4, <1>5
<1> QED BY <1>2, <1>3, <1>6, <1>7

\* A multiplication is one of the two of its iteration.
LEMMA HalfOf ==
  ASSUME NEW n \in Nat, NEW m \in Nat, m < 2 * n
  PROVE  \E i \in 0 .. n - 1, w \in {0, 1} : m = 2 * i + w
<1>1. m = 2 * (m \div 2) + (m % 2) /\ m % 2 \in {0, 1} /\ m \div 2 \in Nat
  OBVIOUS
<1>2. m \div 2 \in 0 .. n - 1 BY <1>1
<1> QED BY <1>1, <1>2

\* A multiplication leads to a good state.
LEMMA Multiplies ==
  ASSUME MatmulConfig, NEW n, Iterations(n), NEW k, Epilogue(k), NEW st, Good(n, k, st),
         CanMultiply(st)
  PROVE  Good(n, k, MultipliedOnce(Matmuls(n, k), st))
<1> PICK ld, la, co, m, in : GoodView(n, k, st, ld, la, co, m, in) BY GoodIs
<1> PICK t : t = MultipliedOnce(Matmuls(n, k), st) OBVIOUS
<1> PICK x : x = st.mmas[st.multiplied + 1] OBVIOUS
<1>1. /\ StateTyped(n, st) /\ View(n, k, st, ld, la, co, m, in)
      /\ in = Landed(n, ld, st.loading) /\ st.multiplied = m /\ m \in Nat
  BY DEF GoodView, StateTyped
<1>2. n \in Nat \ {0} /\ k \in {3, 4} /\ n \in Nat BY IterationsIs, EpilogueIs
<1>3. m + 1 \in 1 .. QueueLength(n, la) /\ m <= 2 * n /\ x = QueueAt(n, m + 1)
  BY NextMultiplication
<1>4. MultiplicationIs(n, k, st, t, x) BY <1>1, MultiplicationStep
<1>5. /\ SemaphoresTyped(st.semaphore) /\ Counters(n, k, st.semaphore, la, co, m, in)
      /\ st.tensor \subseteq SUMS /\ SumsAre(n, st.tensor, m)
      /\ st.contents \subseteq FACTS /\ ContentsAre(n, k, st.contents, m, in, co)
      /\ Spread(n, ld, la, m) /\ AllConsuming(n, k, co, m)
  BY <1>1 DEF StateTyped, View
<1>6. /\ SemaphoresTyped(t.semaphore) /\ Counters(n, k, t.semaphore, la, co, m + 1, in)
      /\ t.tensor \subseteq SUMS /\ SumsAre(n, t.tensor, m + 1)
  <2>1. CASE m = 2 * n
    <3>1. x = Started(TensorCommit(SumsSem)) BY <1>2, <1>3, <2>1, LastInQueue
    <3>2. LET sem == SignalAll(Matmuls(n, k), st, Started(TensorCommit(SumsSem)).signals)
          IN  SemaphoresTyped(sem) /\ Counters(n, k, sem, la, co, m + 1, in)
      BY <1>2, <1>5, <2>1, CommitCounts
    <3>3. SumsAre(n, Summed(st.tensor, Started(TensorCommit(SumsSem))), m + 1)
      BY <1>2, <1>5, <2>1, SumsAfterCommit
    <3>4. Summed(st.tensor, Started(TensorCommit(SumsSem))) \subseteq SUMS
      BY <1>2, <1>5, SummedTyped
    <3> QED BY <1>4, <3>1, <3>2, <3>3, <3>4 DEF MultiplicationIs
  <2>2. CASE m < 2 * n
    <3> PICK i \in 0 .. n - 1, w \in {0, 1} : m = 2 * i + w BY <1>1, <1>2, <2>2, HalfOf
    <3>1. x = Started(Multiply(i, w))
      <4>1. QueueAt(n, 2 * i + w + 1) = Started(Multiply(i, w)) BY <1>2, QueueAtIs
      <4>2. m + 1 = 2 * i + w + 1 OBVIOUS
      <4> QED BY <1>3, <4>1, <4>2
    <3>2. LET sem == SignalAll(Matmuls(n, k), st, Started(Multiply(i, w)).signals)
          IN  SemaphoresTyped(sem) /\ Counters(n, k, sem, la, co, m + 1, in)
      BY <1>2, <1>5, MultiplyCounts
    <3>3. SumsAre(n, Summed(st.tensor, Started(Multiply(i, w))), m + 1)
      BY <1>2, <1>5, SumsAfterMultiply
    <3>4. Summed(st.tensor, Started(Multiply(i, w))) \subseteq SUMS
      BY <1>2, <1>5, SummedTyped
    <3> QED BY <1>4, <3>1, <3>2, <3>3, <3>4 DEF MultiplicationIs
  <2> QED BY <1>1, <1>2, <1>3, <2>1, <2>2
<1>7. ContentsAre(n, k, st.contents, m + 1, in, co)
  <2>1. LandedTyped(n, in) BY <1>1, LandedIs
  <2>2. m + 1 \in Nat /\ m <= m + 1 BY <1>1
  <2>3. \A d \in CTAS, v \in {0, 1} : co[d][v] >= k => co[d][v] >= k OBVIOUS
  <2> QED BY <1>1, <1>2, <1>5, <2>1, <2>2, <2>3, ContentsStay
<1>8. Spread(n, ld, la, m + 1)
  <2>1. m + 1 \in 0 .. QueueLength(n, la) BY <1>3
  <2>2. \A d \in CTAS : ld[d] \in 0 .. n + 4 /\ (ld[d] >= 5 => m >= 2 * ld[d] - 8)
    BY <1>5 DEF Spread
  <2>3. \A d \in CTAS : ld[d] >= 5 => m + 1 >= 2 * ld[d] - 8 BY <1>1, <1>2, <2>2
  <2> QED BY <1>5, <2>1, <2>3 DEF Spread
<1>9. AllConsuming(n, k, co, m + 1)
  <2> SUFFICES ASSUME NEW d \in CTAS PROVE Consuming(n, k, co[d], m + 1)
    BY DEF AllConsuming
  <2>1. m # 2 * n + 1 BY <1>1, <1>2, <1>3
  <2>2. Consuming(n, k, co[d], m) BY <1>5 DEF AllConsuming
  <2>3. \A w \in {0, 1} : co[d][w] = 0
    <3>1. \A w \in {0, 1} : co[d][w] \in 0 .. k + 2 /\ ~(co[d][w] >= 1)
      BY <2>1, <2>2 DEF Consuming
    <3> QED BY <1>2, <3>1
  <2> QED BY <1>2, <2>3 DEF Consuming
<1>10. DataIs(n, k, st, t, la, co, m + 1, in)
  BY <1>1, <1>4, <1>5, <1>6, <1>7 DEF DataIs, MultiplicationIs
<1>11. in = Landed(n, ld, t.loading) BY <1>1, <1>4 DEF MultiplicationIs
<1> QED BY <1>8, <1>9, <1>10, <1>11, DataChanges

---------------------------------------------------------------------------
(* The instruction begins in such a state and does not leave them.          *)

\* Every step from a good state leads to a good one.
LEMMA GoodStep ==
  ASSUME MatmulConfig, NEW n, Iterations(n), NEW k, Epilogue(k), NEW st, Good(n, k, st), NEW t,
         Goes(Matmuls(n, k), st, t)
  PROVE  Good(n, k, t)
<1>1. ASSUME NEW c \in CTAS, NEW w \in WARPS, CanAdvance(Matmuls(n, k), st, c, w)
      PROVE  Good(n, k, Advanced(Matmuls(n, k), st, c, w))
  <2>1. CASE w = "loader" BY <1>1, <2>1, LoaderAdvances
  <2>2. CASE w = "launcher" BY <1>1, <2>2, LauncherAdvances
  <2>3. CASE w = "storer"
    <3>1. StateTyped(n, st) BY UniverseIs DEF Good
    <3>2. ~Inside(Matmuls(n, k), st, c, "storer") BY <2>3, <3>1, StorerOutside
    <3> QED BY <1>1, <2>3, <3>2 DEF CanAdvance
  <2>4. ASSUME NEW v \in {0, 1}, w = Consumer(v)
        PROVE  Good(n, k, Advanced(Matmuls(n, k), st, c, w))
    BY <1>1, <2>4, ConsumerAdvances
  <2>5. w = "loader" \/ w = "launcher" \/ w = "storer" \/ \E v \in {0, 1} : w = Consumer(v)
    BY WarpNames
  <2> QED BY <2>1, <2>2, <2>3, <2>4, <2>5
<1>2. ASSUME NEW c \in CTAS, NEW w \in WARPS, CanRetire(Matmuls(n, k), st, c, w)
      PROVE  Good(n, k, Retired(st, c, w))
  BY <1>2, WarpRetires
<1>3. ASSUME NEW c \in CTAS, NEW lid \in LIDS, CanPassOn(Matmuls(n, k), st, c, lid)
      PROVE  Good(n, k, PassedOn(st, c, lid))
  BY <1>3, LanePasses
<1>4. ASSUME NEW x \in st.loading PROVE Good(n, k, Delivered(Matmuls(n, k), st, x))
  BY LoadLands
<1>5. CanMultiply(st) => Good(n, k, MultipliedOnce(Matmuls(n, k), st)) BY Multiplies
<1> QED BY <1>1, <1>2, <1>3, <1>4, <1>5, Zenon DEF Goes

\* At first nothing is done.
LEMMA StartIs ==
  ASSUME MatmulConfig, NEW n, Iterations(n), NEW k, Epilogue(k), NEW st,
         st = Start(Matmuls(n, k))
  PROVE  /\ StateTyped(n, st)
         /\ \A c \in CTAS, w \in WARPS : st.at[c][w] = 0 /\ ~st.done[c][w]
         /\ \A c \in CTAS : st.passed[c] = {} /\ st.given[c] = {} /\ st.finished[c] = {}
         /\ \A c \in CTAS, sem \in SEMAPHORES :
              BarrierIs(st.semaphore[c][sem], 0, MatmulSemaphores[sem])
         /\ st.contents = {} /\ st.tensor = {} /\ st.tensorFinished = {} /\ st.loading = {}
         /\ st.mmas = Queue(n, 0) /\ st.multiplied = 0
<1>1. n \in Nat \ {0} BY IterationsIs
<1>2. \A c \in CTAS : Matmuls(n, k)[c].semaphores = MatmulSemaphores
  BY DEF Matmuls, GemmOp, GateSiluOp, Matmul
<1>3. st.mmas = Queue(n, 0) /\ st.mmas = << >>
  <2>1. st.mmas = << >> BY DEF Start
  <2>2. Queue(n, 0) = << >>
    <3>1. QueueLength(n, 0) = 0 BY DEF QueueLength
    <3>2. 1 .. 0 = {} OBVIOUS
    <3>3. \A f : DOMAIN f = {} /\ f = [j \in DOMAIN f |-> f[j]] => f = << >> OBVIOUS
    <3>4. Queue(n, 0) = [j \in {} |-> QueueAt(n, j)] BY <3>1, <3>2 DEF Queue
    <3> QED BY <3>3, <3>4
  <2> QED BY <2>1, <2>2
<1>4. \A c \in CTAS : st.semaphore[c] =
        [sem \in SEMAPHORES |-> [phase |-> 0, left |-> MatmulSemaphores[sem], bytes |-> 0]]
  <2>1. \A c \in CTAS : st.semaphore[c] = FreshSemaphores(MatmulSemaphores)
    BY <1>2 DEF Start
  <2> QED BY <2>1 DEF FreshSemaphores, SEMAPHORES
<1>5. ASSUME NEW c \in CTAS
      PROVE  /\ st.semaphore[c] = [sem \in SEMAPHORES |-> st.semaphore[c][sem]]
             /\ \A sem \in SEMAPHORES :
                  /\ st.semaphore[c][sem].phase = 0 /\ st.semaphore[c][sem].bytes = 0
                  /\ st.semaphore[c][sem].left = MatmulSemaphores[sem]
                  /\ MatmulSemaphores[sem] \in Nat => st.semaphore[c][sem] \in BARRIERS
  <2> PICK f : f = st.semaphore[c] OBVIOUS
  <2>1. f = [sem \in SEMAPHORES |-> [phase |-> 0, left |-> MatmulSemaphores[sem], bytes |-> 0]]
    BY <1>4
  <2>2. ASSUME NEW sem \in SEMAPHORES
        PROVE  /\ f[sem].phase = 0 /\ f[sem].bytes = 0
               /\ f[sem].left = MatmulSemaphores[sem]
               /\ MatmulSemaphores[sem] \in Nat => f[sem] \in BARRIERS
    <3> PICK x : x = MatmulSemaphores[sem] OBVIOUS
    <3>1. f[sem] = [phase |-> 0, left |-> x, bytes |-> 0] BY <2>1
    <3>2. x \in Nat => [phase |-> 0, left |-> x, bytes |-> 0] \in BARRIERS BY DEF BARRIERS
    <3>3. f[sem].phase = 0 /\ f[sem].bytes = 0 /\ f[sem].left = x BY <3>1
    <3> QED BY <3>1, <3>2, <3>3
  <2>3. f = [sem \in SEMAPHORES |-> f[sem]] BY <2>1
  <2> QED BY <2>2, <2>3
<1>6. SemaphoresTyped(st.semaphore)
  <2>1. \A sem \in SEMAPHORES : MatmulSemaphores[sem] \in Nat
    BY ConfigIs DEF SEMAPHORES, MatmulSemaphores, MatmulConfig
  <2>2. st.semaphore = [c \in CTAS |-> st.semaphore[c]] BY DEF Start
  <2>3. \A c \in CTAS : st.semaphore[c] \in [SEMAPHORES -> BARRIERS]
    BY <1>5, <2>1
  <2> QED BY <2>2, <2>3 DEF SemaphoresTyped
<1>7. /\ st.at = [c \in CTAS |-> [w \in WARPS |-> 0]]
      /\ st.done = [c \in CTAS |-> [w \in WARPS |-> FALSE]]
      /\ st.passed = [c \in CTAS |-> {}] /\ st.given = [c \in CTAS |-> {}]
      /\ st.finished = [c \in CTAS |-> {}]
      /\ st.contents = {} /\ st.tensor = {} /\ st.tensorFinished = {} /\ st.loading = {}
      /\ st.multiplied = 0
  BY DEF Start
<1>8. st = RecordOf(st) BY DEF Start, RecordOf
<1>9. st.mmas \in {Queue(n, la) : la \in 0 .. n + 1}
  <2>1. 0 \in 0 .. n + 1 BY <1>1
  <2> QED BY <1>3, <2>1
<1>10. StateTyped(n, st)
  BY <1>6, <1>7, <1>8, <1>9 DEF StateTyped, WarpsTyped
<1>11. \A c \in CTAS, sem \in SEMAPHORES :
         BarrierIs(st.semaphore[c][sem], 0, MatmulSemaphores[sem])
  BY <1>5 DEF BarrierIs
<1> QED BY <1>3, <1>7, <1>10, <1>11

\* An instruction starts in a good state.
LEMMA GoodStart ==
  ASSUME MatmulConfig, NEW n, Iterations(n), NEW k, Epilogue(k)
  PROVE  Good(n, k, Start(Matmuls(n, k)))
<1> PICK st : st = Start(Matmuls(n, k)) OBVIOUS
<1> PICK ld : ld = Loaded(n, st) OBVIOUS
<1> PICK co : co = Consumed(k, st) OBVIOUS
<1> PICK in : in = Landed(n, ld, st.loading) OBVIOUS
<1>1. n \in Nat \ {0} /\ k \in {3, 4} /\ CTAS = {0, 1} BY IterationsIs, EpilogueIs, ConfigIs
<1>2. /\ StateTyped(n, st)
      /\ \A c \in CTAS, w \in WARPS : st.at[c][w] = 0 /\ ~st.done[c][w]
      /\ \A c \in CTAS : st.passed[c] = {} /\ st.given[c] = {} /\ st.finished[c] = {}
      /\ \A c \in CTAS, sem \in SEMAPHORES :
           BarrierIs(st.semaphore[c][sem], 0, MatmulSemaphores[sem])
      /\ st.contents = {} /\ st.tensor = {} /\ st.tensorFinished = {} /\ st.loading = {}
      /\ st.mmas = Queue(n, 0) /\ st.multiplied = 0
  BY StartIs
<1>3. /\ \A c \in CTAS : ld[c] = 0
      /\ Launched(n, st) = 0
      /\ \A c \in CTAS, w \in {0, 1} : co[c][w] = 0
  BY <1>1, <1>2, WarpNames DEF Loaded, Launched, Consumed
<1>4. \A c \in CTAS : in[c] = {}
  <2> SUFFICES ASSUME NEW c \in CTAS PROVE in[c] = {}
    OBVIOUS
  <2>1. in[c] = {i \in 0 .. n - 1 : i < ld[c] /\ InputLoad(c, i) \notin st.loading}
    BY LandedIs
  <2>2. \A i \in 0 .. n - 1 : ~(i < ld[c]) BY <1>1, <1>3
  <2> QED BY <2>1, <2>2
<1>5. Spread(n, ld, 0, 0) BY <1>1, <1>3 DEF Spread, QueueLength
<1>6. InFlight(n, ld, 0, st.loading) BY <1>2 DEF InFlight
<1>7. Counters(n, k, st.semaphore, 0, co, 0, in)
  <2>1. \A s \in 0 .. 3 : CountedAt(n, st.semaphore[0][ArrivedSem(s)], s, 0, in)
    <3> SUFFICES ASSUME NEW s \in 0 .. 3
                 PROVE  CountedAt(n, st.semaphore[0][ArrivedSem(s)], s, 0, in)
      OBVIOUS
    <3> PICK b : b = st.semaphore[0][ArrivedSem(s)] OBVIOUS
    <3>1. ArrivedSem(s) \in SEMAPHORES /\ MatmulSemaphores[ArrivedSem(s)] = 1
      BY SemaphoreCounts
    <3>2. b.phase = 0 /\ b.left = 1 /\ b.bytes = 0 BY <1>1, <1>2, <3>1 DEF BarrierIs
    <3>3. Got(in, s) = 0 BY <1>1, <1>4 DEF Got
    <3>4. 4 * b.phase + s = s /\ ~(s < 0) /\ ~(s >= 4) /\ s + 1 >= 0 BY <3>2
    <3>5. 0 - 0 = 0 OBVIOUS
    <3>6. CountedAt(n, b, s, 0, in) BY <3>2, <3>3, <3>4, <3>5 DEF CountedAt
    <3> QED BY <3>6
  <2>2. ASSUME NEW c \in CTAS
        PROVE  /\ \A s \in 0 .. 3 : MultipliedAt(n, st.semaphore[c][MultipliedSem(s)], s, 0)
               /\ BarrierIs(st.semaphore[c][SumsSem], IF 0 = 2 * n + 1 THEN 1 ELSE 0, 1)
               /\ MeetingIs(st.semaphore[c][SyncSem(0)], co[c], 2)
               /\ MeetingIs(st.semaphore[c][SyncSem(1)], co[c], k + 1)
    <3>1. ASSUME NEW s \in 0 .. 3
          PROVE  MultipliedAt(n, st.semaphore[c][MultipliedSem(s)], s, 0)
      <4> PICK b : b = st.semaphore[c][MultipliedSem(s)] OBVIOUS
      <4>1. MultipliedSem(s) \in SEMAPHORES /\ MatmulSemaphores[MultipliedSem(s)] = 2
        BY SemaphoreCounts
      <4>2. b.phase = 0 /\ b.left = 2 /\ b.bytes = 0 BY <1>2, <4>1 DEF BarrierIs
      <4>3. 4 * b.phase + s = s /\ 0 # 2 * s + 1 /\ ~(s >= 4) /\ 0 < 2 * s + 2 BY <4>2
      <4>4. MultipliedAt(n, b, s, 0) BY <4>2, <4>3 DEF MultipliedAt
      <4> QED BY <4>4
    <3>2. BarrierIs(st.semaphore[c][SumsSem], IF 0 = 2 * n + 1 THEN 1 ELSE 0, 1)
      <4>1. 0 # 2 * n + 1 BY <1>1
      <4>2. SumsSem \in SEMAPHORES /\ MatmulSemaphores[SumsSem] = 1 BY SemaphoreCounts
      <4>3. BarrierIs(st.semaphore[c][SumsSem], 0, 1) BY <1>2, <4>2
      <4> QED BY <4>1, <4>3
    <3>3. ASSUME NEW q \in {0, 1}, NEW j \in Nat \ {0}
          PROVE  MeetingIs(st.semaphore[c][SyncSem(q)], co[c], j)
      <4>1. SyncSem(q) \in SEMAPHORES /\ MatmulSemaphores[SyncSem(q)] = 2
        <5>1. q \in 0 .. 2 OBVIOUS
        <5> QED BY <5>1, SemaphoreCounts
      <4>2. BarrierIs(st.semaphore[c][SyncSem(q)], 0, 2) BY <1>2, <4>1
      <4>3. ~(co[c][0] >= j) /\ ~(co[c][1] >= j) BY <1>3
      <4> QED BY <4>2, <4>3 DEF MeetingIs
    <3> QED BY <1>1, <3>1, <3>2, <3>3
  <2> QED BY <2>1, <2>2, CountersAre
<1>8. AllConsuming(n, k, co, 0) BY <1>1, <1>3 DEF AllConsuming, Consuming
<1>9. AllPages(n, k, st, ld, co)
  <2> SUFFICES ASSUME NEW c \in CTAS
               PROVE  PagesAre(n, k, st.given[c], st.finished[c], ld[c],
                               Six(st.done, st.passed, c), co[c])
    BY DEF AllPages
  <2>1. \A lid \in 0 .. 5 : ~(0 >= GivenAt(lid)) BY DEF GivenAt
  <2>2. \A s : ~Drained(n, 0, s) BY <1>1 DEF Drained
  <2>3. ~Six(st.done, st.passed, c) BY <1>2, WarpNames DEF Six
  <2>4. ld[c] = 0 /\ co[c][0] # k + 2 /\ st.given[c] = {} /\ st.finished[c] = {}
    BY <1>1, <1>2, <1>3
  <2> QED BY <2>1, <2>2, <2>3, <2>4 DEF PagesAre
<1>10. ContentsAre(n, k, st.contents, 0, in, co) BY <1>1, <1>3, <1>4 DEF ContentsAre
<1>11. SumsAre(n, st.tensor, 0)
  <2>1. \A w \in {0, 1} : ~(0 >= 2 * n - 1 + w) BY <1>1
  <2> QED BY <2>1 DEF SumsAre
<1>12. TensorPassed(st.tensorFinished, co) BY <1>2 DEF TensorPassed
<1>13. InControl(n, k, st.at, st.done)
  BY <1>1, <1>2, WarpNames DEF InControl
<1>14. View(n, k, st, ld, 0, co, 0, in)
  BY <1>2, <1>5, <1>6, <1>7, <1>8, <1>9, <1>10, <1>11, <1>12, Zenon DEF View
<1>15. GoodView(n, k, st, ld, 0, co, 0, in)
  BY <1>2, <1>3, <1>13, <1>14 DEF GoodView
<1>16. Good(n, k, st) BY <1>15, GoodFrom
<1> QED BY <1>16

---------------------------------------------------------------------------
(* Such a state is as required.                                            *)

\* The consumers finish page 0 when the loaders only drain.
LEMMA DrainingThen ==
  ASSUME MatmulConfig, NEW n, Iterations(n), NEW k, Epilogue(k), NEW st, NEW ld, NEW la, NEW co,
         NEW m, NEW in, GoodView(n, k, st, ld, la, co, m, in), NEW c \in CTAS, NEW w \in {0, 1},
         co[c][w] >= 1
  PROVE  /\ m = 2 * n + 1 /\ la = n + 1 /\ \A d \in CTAS : ld[d] >= n
<1>1. Spread(n, ld, la, m) /\ AllConsuming(n, k, co, m) BY DEF GoodView, View
<1>2. m = 2 * n + 1 BY <1>1 DEF AllConsuming, Consuming
<1>3. n \in Nat \ {0} BY IterationsIs
<1> QED BY <1>1, <1>2, <1>3, AllMultiplied

\* Page 0 is the instruction's own until consumer 0 is through, and consumer 0
\* waits for consumer 1.
LEMMA ResultPageOwned ==
  ASSUME MatmulConfig, NEW n, Iterations(n), NEW k, Epilogue(k), NEW st, NEW ld, NEW la, NEW co,
         NEW m, NEW in, GoodView(n, k, st, ld, la, co, m, in), NEW c \in CTAS, NEW w \in {0, 1},
         co[c][w] >= 1, co[c][w] <= k \/ (w = 0 /\ co[c][w] = k + 1)
  PROVE  0 \in st.given[c] \ st.finished[c]
<1>1. n \in Nat \ {0} /\ n >= 2 /\ k \in {3, 4} BY IterationsIs, EpilogueIs
<1>2. ld[c] >= n BY DrainingThen
<1>3. PagesAre(n, k, st.given[c], st.finished[c], ld[c], Six(st.done, st.passed, c), co[c])
  BY DEF GoodView, View, AllPages
<1>4. ld[c] \in 0 .. n + 4 BY DEF GoodView, View, Spread
<1>5. 0 \in st.given[c]
  <2>1. GivenAt(0) = 1 /\ 0 \in 0 .. 5 BY DEF GivenAt
  <2>2. ld[c] >= 1 BY <1>1, <1>2, <1>4
  <2> QED BY <1>3, <2>1, <2>2 DEF PagesAre
<1>6. co[c][0] # k + 2
  <2>1. /\ co[c][0] \in 0 .. k + 2 /\ co[c][1] \in 0 .. k + 2
        /\ co[c][0] >= k + 2 => co[c][1 - 0] >= k + 1
    BY DEF GoodView, View, AllConsuming, Consuming
  <2>2. CASE w = 0 BY <1>1, <2>1, <2>2
  <2>3. CASE w = 1
    <3>1. co[c][1] <= k BY <2>3
    <3> QED BY <1>1, <2>1, <3>1
  <2> QED BY <2>2, <2>3
<1>7. 0 \notin st.finished[c] BY <1>3, <1>6 DEF PagesAre
<1> QED BY <1>5, <1>7

\* A CTA is not behind the instruction while one of its warps is not.
LEMMA StillHere ==
  ASSUME MatmulConfig, NEW n, NEW k, NEW st, NEW ld, NEW la, NEW co,
         NEW m, NEW in, GoodView(n, k, st, ld, la, co, m, in), NEW c \in CTAS
  PROVE  /\ Behind(st, c) => /\ ld[c] = n + 4 /\ Six(st.done, st.passed, c)
                             /\ co[c][0] = k + 2 /\ co[c][1] = k + 2
                             /\ c = 0 => la = n + 1
         /\ \A w \in WARPS : ~st.done[c][w] => ~Behind(st, c)
<1>1. /\ "loader" \in WARPS /\ "launcher" \in WARPS
      /\ \A w \in {0, 1} : Consumer(w) \in WARPS
  BY WarpNames
<1>2. ASSUME Behind(st, c)
      PROVE  /\ ld[c] = n + 4 /\ Six(st.done, st.passed, c)
             /\ co[c][0] = k + 2 /\ co[c][1] = k + 2
             /\ c = 0 => la = n + 1
  <2>1. /\ st.done[c]["loader"] /\ st.done[c]["launcher"]
        /\ \A w \in {0, 1} : st.done[c][Consumer(w)]
    BY <1>1, <1>2 DEF Behind
  <2> QED BY <2>1 DEF GoodView, Loaded, Launched, Consumed, Six
<1> QED BY <1>2 DEF Behind

\* The pages of one CTA.
LEMMA PagesInTurn ==
  ASSUME MatmulConfig, NEW n, Iterations(n), NEW k, Epilogue(k), NEW st, NEW ld, NEW la, NEW co,
         NEW m, NEW in, GoodView(n, k, st, ld, la, co, m, in), NEW c \in CTAS
  PROVE  /\ st.finished[c] \subseteq st.given[c]
         /\ Behind(st, c) => st.finished[c] = LIDS
         /\ ~st.done[c]["loader"] =>
              Awaited(Matmuls(n, k)[c].lanes, st.passed[c]) \cap st.finished[c] = {}
         /\ \A sem \in DOMAIN st.semaphore[c] : st.semaphore[c][sem].left \in Nat
<1>1. n \in Nat \ {0} /\ n \in Nat /\ k \in {3, 4} BY IterationsIs, EpilogueIs
<1>2. PagesAre(n, k, st.given[c], st.finished[c], ld[c], Six(st.done, st.passed, c), co[c])
  BY DEF GoodView, View, AllPages
<1>3. ld[c] \in 0 .. n + 4 BY DEF GoodView, View, Spread
<1>4. st.finished[c] \subseteq LIDS BY DEF GoodView, StateTyped
<1>5. co[c][0] = k + 2 => ld[c] >= n
  <2>1. co[c][0] = k + 2 => co[c][0] >= 1 BY <1>1
  <2> QED BY <2>1, DrainingThen
<1>6. st.finished[c] \subseteq st.given[c]
  <2> PICK i, given, finished, six, cc :
        i = ld[c] /\ given = st.given[c] /\ finished = st.finished[c]
        /\ six = Six(st.done, st.passed, c) /\ cc = co[c]
    OBVIOUS
  <2>1. /\ i \in 0 .. n + 4 /\ finished \subseteq LIDS
        /\ PagesAre(n, k, given, finished, i, six, cc)
        /\ cc[0] = k + 2 => i >= n
    BY <1>2, <1>3, <1>4, <1>5
  <2>2. finished \subseteq given BY <2>1, FinishedAreGiven
  <2> QED BY <2>2
<1>7. Behind(st, c) => st.finished[c] = LIDS
  <2> SUFFICES ASSUME Behind(st, c) PROVE st.finished[c] = LIDS
    OBVIOUS
  <2>1. ld[c] = n + 4 /\ Six(st.done, st.passed, c) /\ co[c][0] = k + 2 BY StillHere
  <2>2. Six(st.done, st.passed, c) = TRUE BY <2>1 DEF Six
  <2>3. PagesAre(n, k, st.given[c], st.finished[c], n + 4, TRUE, co[c])
    BY <1>2, <2>1, <2>2
  <2> QED BY <1>1, <1>4, <2>1, <2>3, AllFinished
<1>8. ASSUME ~st.done[c]["loader"]
      PROVE  Awaited(Matmuls(n, k)[c].lanes, st.passed[c]) \cap st.finished[c] = {}
  <2>1. Awaited(Matmuls(n, k)[c].lanes, st.passed[c]) = {6} \ st.passed[c]
    <3>1. Matmuls(n, k)[c].lanes = <<{6}>> BY OtherScripts
    <3> QED BY <3>1, AwaitedIs
  <2>2. 6 \in st.finished[c] <=> 6 \in st.passed[c] BY <1>2, <1>8 DEF PagesAre, Six
  <2> QED BY <2>1, <2>2
<1>9. \A sem \in DOMAIN st.semaphore[c] : st.semaphore[c][sem].left \in Nat
  <2>1. st.semaphore[c] \in [SEMAPHORES -> BARRIERS]
    BY DEF GoodView, StateTyped, SemaphoresTyped
  <2>2. \A b \in BARRIERS : b.left \in Nat BY DEF BARRIERS
  <2> QED BY <2>1, <2>2
<1> QED BY <1>6, <1>7, <1>8, <1>9

\* The pages of an iteration are the instruction's own from the loads on, until
\* the loader comes to the stage again.
LEMMA InputsOwned ==
  ASSUME MatmulConfig, NEW n, Iterations(n), NEW k, Epilogue(k), NEW st, NEW ld, NEW la, NEW co,
         NEW m, NEW in, GoodView(n, k, st, ld, la, co, m, in), NEW c \in CTAS,
         NEW i \in 0 .. n - 1, i < ld[c], ld[c] <= i + 4, m # 2 * n + 1,
         NEW r \in Inputs(Stage(i))
  PROVE  Owns(st, c, r[1])
<1>1. n \in Nat \ {0} /\ k \in {3, 4} BY IterationsIs, EpilogueIs
<1>2. co[c][0] # k + 2
  <2>1. co[c][0] >= 1 => m = 2 * n + 1 BY DEF GoodView, View, AllConsuming, Consuming
  <2> QED BY <1>1, <2>1
<1> PICK l, given, finished, six, cc :
      l = ld[c] /\ given = st.given[c] /\ finished = st.finished[c]
      /\ six = Six(st.done, st.passed, c) /\ cc = co[c]
  OBVIOUS
<1>3. /\ l \in 0 .. n + 4 /\ PagesAre(n, k, given, finished, l, six, cc)
      /\ i < l /\ l <= i + 4 /\ cc[0] # k + 2
  BY <1>2 DEF GoodView, View, AllPages, Spread
<1>4. r[1] \in given \ finished BY <1>3, PagesUsable
<1> QED BY <1>4 DEF Owns

\* Loads in flight are to pages of the instruction, and signal a CTA that is in it.
LEMMA LoadsInTurn ==
  ASSUME MatmulConfig, NEW n, Iterations(n), NEW k, Epilogue(k), NEW st, NEW ld, NEW la, NEW co,
         NEW m, NEW in, GoodView(n, k, st, ld, la, co, m, in), NEW x \in st.loading
  PROVE  /\ \A r \in x.places : Owns(st, x.cta, r[1])
         /\ ~Behind(st, x.signal.cta)
<1>1. n \in Nat \ {0} /\ n \in Nat BY IterationsIs
<1>2. x \in InputLoads(n) BY DEF GoodView, StateTyped
<1> PICK c \in CTAS, i \in 0 .. n - 1 : x = InputLoad(c, i) BY <1>2 DEF InputLoads
<1>3. Spread(n, ld, la, m) /\ i < ld[c] /\ i + 1 >= la
  BY DEF GoodView, View, InFlight
<1>4. la \in 0 .. n /\ m < 2 * n - 1 /\ ld[c] <= i + 4 /\ m \in Nat
  BY <1>1, <1>3, AheadOfLaunch
<1>5. m # 2 * n + 1 BY <1>1, <1>4
<1>6. x.places = Inputs(Stage(i)) /\ x.cta = c /\ x.signal.cta = 0 BY InputLoadIs
<1>7. \A r \in x.places : Owns(st, x.cta, r[1])
  BY <1>3, <1>4, <1>5, <1>6, InputsOwned
<1>8. 0 \in CTAS BY ConfigIs
<1>9. ~Behind(st, 0)
  <2>1. Behind(st, 0) => la = n + 1 BY <1>8, StillHere
  <2> QED BY <1>1, <1>4, <2>1
<1> QED BY <1>6, <1>7, <1>9

\* What a multiplication in flight reads: the inputs of its iteration, which
\* have landed.
MultiplicationInFlight(st, x) ==
  /\ \A c \in x.ctas, r \in x.reads : Owns(st, c, r.lid)
  /\ \A g \in x.signals : ~Behind(st, g.cta)
  /\ \A c \in x.ctas, r \in x.reads :
       [cta |-> c, lid |-> r.lid, part |-> r.part, tag |-> r.tag] \in st.contents

\* A multiplication reads inputs of its iteration.
LEMMA MultiplyReads ==
  ASSUME MatmulConfig, NEW i \in Nat, NEW w \in {0, 1}, NEW x, x = Started(Multiply(i, w)),
         NEW r \in x.reads
  PROVE  /\ \E p \in Inputs(Stage(i)) : p[1] = r.lid /\ p[2] = r.part /\ r.tag = i
         /\ x.ctas = {0, 1}
<1>1. Stage(i) \in 0 .. 3 BY StageIs
<1>2. x.reads = {[lid |-> ALid(Stage(i)), part |-> w, tag |-> i],
                 [lid |-> BLid(Stage(i)), part |-> Stage(i) % 2, tag |-> i]}
      /\ x.ctas = {0, 1}
  BY DEF Started, Multiply
<1>3. CASE r = [lid |-> ALid(Stage(i)), part |-> w, tag |-> i]
  <2> PICK p : p = <<ALid(Stage(i)), w>> OBVIOUS
  <2>1. p[1] = ALid(Stage(i)) /\ p[2] = w BY PairIs
  <2>2. p \in Inputs(Stage(i)) BY <1>1, InputsAre
  <2>3. r.lid = ALid(Stage(i)) /\ r.part = w /\ r.tag = i BY <1>3
  <2> QED BY <1>2, <2>1, <2>2, <2>3
<1>4. CASE r = [lid |-> BLid(Stage(i)), part |-> Stage(i) % 2, tag |-> i]
  <2> PICK p : p = <<BLid(Stage(i)), Stage(i) % 2>> OBVIOUS
  <2>1. p[1] = BLid(Stage(i)) /\ p[2] = Stage(i) % 2 BY PairIs
  <2>2. p \in Inputs(Stage(i)) BY <1>1, InputsAre
  <2>3. r.lid = BLid(Stage(i)) /\ r.part = Stage(i) % 2 /\ r.tag = i BY <1>4
  <2> QED BY <1>2, <2>1, <2>2, <2>3
<1> QED BY <1>2, <1>3, <1>4

\* Every multiplication in flight does.
LEMMA MultipliesInTurn ==
  ASSUME MatmulConfig, NEW n, Iterations(n), NEW k, Epilogue(k), NEW st, NEW ld, NEW la, NEW co,
         NEW m, NEW in, GoodView(n, k, st, ld, la, co, m, in), NEW x \in Multiplying(st)
  PROVE  MultiplicationInFlight(st, x)
<1>1. n \in Nat \ {0} /\ n \in Nat /\ k \in {3, 4} /\ CTAS = {0, 1}
  BY IterationsIs, EpilogueIs, ConfigIs
<1>2. /\ Spread(n, ld, la, m) /\ m = st.multiplied /\ m \in Nat /\ la \in 0 .. n + 1
      /\ st.mmas = Queue(n, la) /\ InFlight(n, ld, la, st.loading)
      /\ ContentsAre(n, k, st.contents, m, in, co) /\ in = Landed(n, ld, st.loading)
      /\ AllConsuming(n, k, co, m)
  BY DEF GoodView, View, StateTyped, Spread
<1>3. /\ QueueLength(n, la) \in Nat /\ Len(Queue(n, la)) = QueueLength(n, la)
      /\ \A j \in 1 .. QueueLength(n, la) : Queue(n, la)[j] = QueueAt(n, j)
  BY <1>1, <1>2, QueueIs
<1> PICK j \in m + 1 .. QueueLength(n, la) : x = QueueAt(n, j)
  BY <1>2, <1>3 DEF Multiplying
<1>4. QueueLength(n, la) <= 2 * n + 1 /\ (la # n + 1 => j <= 2 * la - 2)
  BY <1>1, <1>2, <1>3 DEF QueueLength
<1>5. m # 2 * n + 1 /\ j <= 2 * n + 1 /\ j \in Nat /\ m < j BY <1>1, <1>2, <1>3, <1>4
<1>6. \A c \in CTAS : ~Behind(st, c)
  <2> SUFFICES ASSUME NEW c \in CTAS, Behind(st, c) PROVE FALSE
    OBVIOUS
  <2>1. co[c][0] = k + 2 BY StillHere
  <2>2. co[c][0] >= 1 => m = 2 * n + 1 BY <1>2 DEF AllConsuming, Consuming
  <2> QED BY <1>1, <1>5, <2>1, <2>2
<1>7. \A g \in x.signals : g.cta \in CTAS
  <2>1. \A y : y.ctas = {0, 1} => \A g \in Started(y).signals : g.cta \in CTAS
    BY <1>1 DEF Started
  <2>2. TensorCommit(SumsSem).ctas = {0, 1} BY DEF TensorCommit
  <2>3. \A i, w : Multiply(i, w).ctas = {0, 1} BY DEF Multiply
  <2> QED BY <2>1, <2>2, <2>3 DEF QueueAt
<1>8. CASE j = 2 * n + 1
  <2>1. x = Started(TensorCommit(SumsSem)) BY <1>1, <1>8, LastInQueue
  <2>2. x.reads = {} BY <2>1 DEF Started, TensorCommit
  <2> QED BY <1>6, <1>7, <2>2 DEF MultiplicationInFlight
<1>9. CASE j # 2 * n + 1
  <2>1. j - 1 \in Nat /\ j - 1 < 2 * n BY <1>1, <1>2, <1>3, <1>5, <1>9
  <2> PICK i \in 0 .. n - 1, w \in {0, 1} : j - 1 = 2 * i + w BY <1>1, <2>1, HalfOf
  <2>2. x = Started(Multiply(i, w))
    <3>1. QueueAt(n, 2 * i + w + 1) = Started(Multiply(i, w)) BY <1>1, QueueAtIs
    <3>2. j = 2 * i + w + 1 BY <1>5
    <3> QED BY <3>1, <3>2
  <2>3. m < 2 * i + 2 /\ la >= i + 2 BY <1>1, <1>2, <1>4, <1>5
  <2>4. \A c \in CTAS : ld[c] <= i + 4 BY <1>1, <1>2, <2>3, AheadOfMultiply
  <2>5. ASSUME NEW c \in CTAS
        PROVE  i < ld[c] /\ i \in in[c]
    <3>1. la <= ld[c] + 1 /\ ld[c] \in 0 .. n + 4 BY <1>2 DEF Spread
    <3>2. i < ld[c] BY <1>1, <1>2, <2>3, <3>1
    <3>3. InputLoad(c, i) \notin st.loading
      <4>1. InputLoad(c, i) \in st.loading => i + 1 >= la BY <1>2 DEF InFlight
      <4> QED BY <1>2, <2>3, <4>1
    <3>4. in[c] = {l \in 0 .. n - 1 : l < ld[c] /\ InputLoad(c, l) \notin st.loading}
      BY <1>2, LandedIs
    <3> QED BY <3>2, <3>3, <3>4
  <2>6. ASSUME NEW c \in x.ctas, NEW r \in x.reads
        PROVE  /\ Owns(st, c, r.lid)
               /\ [cta |-> c, lid |-> r.lid, part |-> r.part, tag |-> r.tag] \in st.contents
    <3>1. i \in Nat OBVIOUS
    <3>2. /\ \E p \in Inputs(Stage(i)) : p[1] = r.lid /\ p[2] = r.part /\ r.tag = i
          /\ x.ctas = {0, 1}
      BY <2>2, <3>1, MultiplyReads
    <3> PICK p \in Inputs(Stage(i)) : p[1] = r.lid /\ p[2] = r.part /\ r.tag = i BY <3>2
    <3>3. c \in CTAS BY <1>1, <3>2
    <3>4. i < ld[c] /\ ld[c] <= i + 4 /\ i \in in[c] BY <2>4, <2>5, <3>3
    <3>5. Owns(st, c, p[1]) BY <1>5, <3>3, <3>4, InputsOwned
    <3>6. InputFact(c, p, i) \in st.contents BY <1>2, <2>3, <3>3, <3>4 DEF ContentsAre
    <3>7. InputFact(c, p, i) = [cta |-> c, lid |-> r.lid, part |-> r.part, tag |-> r.tag]
      BY DEF InputFact
    <3> QED BY <3>5, <3>6, <3>7
  <2> QED BY <1>6, <1>7, <2>6 DEF MultiplicationInFlight
<1> QED BY <1>8, <1>9

\* What a warp's step is required of.
WarpInTurn(n, k, st, c, w) ==
  /\ At(Matmuls(n, k), st, c, w).pages \cap st.finished[c] = {}
  /\ \A x \in At(Matmuls(n, k), st, c, w).holds :
       /\ Owns(st, c, x.lid)
       /\ [cta |-> c, lid |-> x.lid, part |-> x.part, tag |-> x.tag] \in st.contents
  /\ CanAdvance(Matmuls(n, k), st, c, w) => StepInTurn(Matmuls(n, k), st, c, w)

\* The loader's leader keeps to its own pages,
LEMMA LoaderInTurn ==
  ASSUME MatmulConfig, NEW n, Iterations(n), NEW k, Epilogue(k), NEW st, NEW ld, NEW la, NEW co,
         NEW m, NEW in, GoodView(n, k, st, ld, la, co, m, in), NEW c \in CTAS,
         Inside(Matmuls(n, k), st, c, "loader")
  PROVE  WarpInTurn(n, k, st, c, "loader")
<1>1. n \in Nat \ {0} /\ n \in Nat /\ k \in {3, 4} BY IterationsIs, EpilogueIs
<1> PICK i, given, finished, six, cc, s :
      /\ i = ld[c] /\ given = st.given[c] /\ finished = st.finished[c]
      /\ six = Six(st.done, st.passed, c) /\ cc = co[c] /\ s = LoaderAt(n, i)
  OBVIOUS
<1>2. i \in 0 .. n + 3 /\ At(Matmuls(n, k), st, c, "loader") = s BY LoaderInside
<1>3. LoaderIs(n, i, s) BY LoaderStepIs
<1>4. PagesAre(n, k, given, finished, i, six, cc) BY DEF GoodView, View, AllPages
<1>5. cc[0] >= 1 => i >= n BY DrainingThen
<1>6. cc[0] = k + 2 => i >= n BY <1>1, <1>5
<1>7. /\ PagesFor(i) \cap finished = {}
      /\ FinishesAt(n, i) \subseteq (given \cup PagesFor(i)) \ finished
  BY <1>2, <1>4, <1>6, LoaderPagesOwn
<1>8. \A r \in TornBy(s) : r[1] \in ((given \cup PagesFor(i)) \ finished) \ FinishesAt(n, i)
  <2>1. CASE i >= n
    <3>1. s.loads = {} BY <1>3, <2>1 DEF LoaderIs
    <3> QED BY <3>1 DEF TornBy
  <2>2. CASE ~(i >= n)
    <3>1. i < n /\ i \in 0 .. n - 1 /\ i + 1 \in 0 .. n + 4 BY <1>1, <1>2, <2>2
    <3>2. s.loads = {LoadTo(Inputs(Stage(i)), i, 0, "inputs_arrived", Stage(i))}
      BY <1>3, <2>2 DEF LoaderIs
    <3>3. TornBy(s) = Inputs(Stage(i)) BY <3>2 DEF TornBy, LoadTo
    <3> PICK gv, fi : gv = given \cup PagesFor(i) /\ fi = finished \cup FinishesAt(n, i)
      OBVIOUS
    <3>4. PagesAre(n, k, gv, fi, i + 1, six, cc) BY <1>1, <1>2, <1>4, LoaderPages
    <3>5. cc[0] # k + 2 BY <1>6, <2>2
    <3>6. i < i + 1 /\ i + 1 <= i + 4 BY <1>2
    <3>7. \A r \in Inputs(Stage(i)) : r[1] \in gv \ fi
      BY <3>1, <3>4, <3>5, <3>6, PagesUsable
    <3> QED BY <3>3, <3>7
  <2> QED BY <2>1, <2>2
<1>9. /\ s.pages = PagesFor(i) /\ s.finishes = FinishesAt(n, i) /\ s.holds = {}
      /\ s.puts = {} /\ s.signals = {}
  BY <1>3 DEF LoaderIs
<1>10. StepInTurn(Matmuls(n, k), st, c, "loader")
  BY <1>2, <1>7, <1>8, <1>9 DEF StepInTurn, PutBy
<1> QED BY <1>2, <1>7, <1>9, <1>10 DEF WarpInTurn

\* the launcher touches none,
LEMMA LauncherInTurn ==
  ASSUME MatmulConfig, NEW n, Iterations(n), NEW k, Epilogue(k), NEW st, NEW ld, NEW la, NEW co,
         NEW m, NEW in, GoodView(n, k, st, ld, la, co, m, in), NEW c \in CTAS,
         Inside(Matmuls(n, k), st, c, "launcher")
  PROVE  WarpInTurn(n, k, st, c, "launcher")
<1> PICK s : s = LauncherAt(n, la) OBVIOUS
<1>1. n \in Nat \ {0} /\ n \in Nat BY IterationsIs
<1>2. c = 0 /\ la \in 0 .. n /\ At(Matmuls(n, k), st, c, "launcher") = s
      /\ ~st.done[c]["launcher"]
  BY LauncherInside
<1>3. LauncherIs(n, la, s) BY <1>1, <1>2, LauncherStepIs
<1>4. ~Behind(st, 0) BY <1>2, StillHere, WarpNames
<1>5. /\ s.pages = {} /\ s.loads = {} /\ s.finishes = {} /\ s.holds = {} /\ s.puts = {}
      /\ \A g \in s.signals : g.cta = 0
  BY <1>3 DEF LauncherIs, ExpectInputs, Expect
<1>6. StepInTurn(Matmuls(n, k), st, c, "launcher")
  BY <1>2, <1>4, <1>5 DEF StepInTurn, PutBy, TornBy
<1> QED BY <1>2, <1>5, <1>6 DEF WarpInTurn

\* and a consumer keeps to its half of page 0, where its results stay.
LEMMA ConsumerInTurn ==
  ASSUME MatmulConfig, NEW n, Iterations(n), NEW k, Epilogue(k), NEW st, NEW ld, NEW la, NEW co,
         NEW m, NEW in, GoodView(n, k, st, ld, la, co, m, in), NEW c \in CTAS, NEW w \in {0, 1},
         Inside(Matmuls(n, k), st, c, Consumer(w))
  PROVE  WarpInTurn(n, k, st, c, Consumer(w))
<1> PICK j : j = co[c][w] OBVIOUS
<1> PICK s : s = ConsumerAt(c, n, k, w)[j + 1] OBVIOUS
<1>1. n \in Nat \ {0} /\ k \in {3, 4} BY IterationsIs, EpilogueIs
<1>2. j \in 0 .. k + 1 /\ At(Matmuls(n, k), st, c, Consumer(w)) = s
      /\ ~st.done[c][Consumer(w)]
  BY ConsumerInside
<1>3. ConsumerIs(c, n, k, w, j, s) BY <1>2, ConsumerStepIs
<1>4. j >= 1 /\ (j <= k \/ (w = 0 /\ j = k + 1)) => 0 \in st.given[c] \ st.finished[c]
  BY ResultPageOwned
<1>5. ~Behind(st, c) BY <1>2, StillHere, WarpNames
<1>6. /\ s.pages = {} /\ s.loads = {}
      /\ s.puts = IF j = k - 1 THEN Stored(w) ELSE {}
      /\ s.holds = IF j = k THEN Stored(w) ELSE {}
      /\ s.finishes = IF j = k + 1 /\ w = 0 THEN {0} ELSE {}
      /\ s.signals = IF j = 1 THEN Meets(c, 0) ELSE IF j = k THEN Meets(c, 1) ELSE {}
  BY <1>3 DEF ConsumerIs
<1>7. Stored(w) = {[lid |-> 0, part |-> w, tag |-> RESULT]}
  <2>1. Part(0, w) = {<<0, w>>} BY DEF Part
  <2>2. <<0, w>>[1] = 0 /\ <<0, w>>[2] = w OBVIOUS
  <2> QED BY <2>1, <2>2 DEF Stored, Tagged
<1>8. ASSUME NEW x \in s.holds
      PROVE  /\ Owns(st, c, x.lid)
             /\ [cta |-> c, lid |-> x.lid, part |-> x.part, tag |-> x.tag] \in st.contents
  <2>1. j = k /\ x = [lid |-> 0, part |-> w, tag |-> RESULT] BY <1>6, <1>7, <1>8
  <2>2. 0 \in st.given[c] \ st.finished[c] BY <1>1, <1>4, <2>1
  <2>3. x.lid = 0 /\ x.part = w /\ x.tag = RESULT BY <2>1
  <2>4. ResultFact(c, w) \in st.contents
    <3>1. co[c][w] >= k BY <1>1, <2>1
    <3> QED BY <3>1 DEF GoodView, View, ContentsAre
  <2> QED BY <2>2, <2>3, <2>4 DEF Owns, ResultFact
<1>9. ASSUME NEW y \in s.puts
      PROVE  y.lid \in st.given[c] \ st.finished[c] /\ y = [lid |-> 0, part |-> w, tag |-> RESULT]
  <2>1. j = k - 1 /\ y = [lid |-> 0, part |-> w, tag |-> RESULT] BY <1>6, <1>7, <1>9
  <2>2. 0 \in st.given[c] \ st.finished[c] BY <1>1, <1>4, <2>1
  <2>3. y.lid = 0 BY <2>1
  <2> QED BY <2>1, <2>2, <2>3
<1>10. \A r \in PutBy(s) : r[1] \in st.given[c] \ st.finished[c]
  <2> SUFFICES ASSUME NEW y \in s.puts
               PROVE  <<y.lid, y.part>>[1] \in st.given[c] \ st.finished[c]
    BY DEF PutBy
  <2> QED BY <1>9
<1>11. s.finishes \subseteq st.given[c] \ st.finished[c]
  <2>1. CASE j = k + 1 /\ w = 0
    <3>1. 0 \in st.given[c] \ st.finished[c] BY <1>1, <1>4, <2>1
    <3> QED BY <1>6, <2>1, <3>1
  <2>2. CASE ~(j = k + 1 /\ w = 0) BY <1>6, <2>2
  <2> QED BY <2>1, <2>2
<1>12. \A g \in s.signals : ~Behind(st, g.cta)
  BY <1>5, <1>6 DEF Meets, Arrival
<1>13. TornBy(s) = {} BY <1>6 DEF TornBy
<1>14. StepInTurn(Matmuls(n, k), st, c, Consumer(w))
  <2>1. (st.given[c] \cup s.pages) \ st.finished[c] = st.given[c] \ st.finished[c] BY <1>6
  <2>2. \A x, y \in s.puts : x = y BY <1>9
  <2> QED BY <1>2, <1>10, <1>11, <1>12, <1>13, <2>1, <2>2 DEF StepInTurn
<1> QED BY <1>2, <1>6, <1>8, <1>14 DEF WarpInTurn

\* Every warp is in turn.
LEMMA WarpsInTurn ==
  ASSUME MatmulConfig, NEW n, Iterations(n), NEW k, Epilogue(k), NEW st, NEW ld, NEW la, NEW co,
         NEW m, NEW in, GoodView(n, k, st, ld, la, co, m, in), NEW c \in CTAS, NEW w \in WARPS,
         Inside(Matmuls(n, k), st, c, w)
  PROVE  WarpInTurn(n, k, st, c, w)
<1>1. CASE w = "loader" BY <1>1, LoaderInTurn
<1>2. CASE w = "launcher" BY <1>2, LauncherInTurn
<1>3. CASE w = "storer"
  <2>1. StateTyped(n, st) BY DEF GoodView
  <2> QED BY <1>3, <2>1, StorerOutside
<1>4. ASSUME NEW v \in {0, 1}, w = Consumer(v) PROVE WarpInTurn(n, k, st, c, w)
  BY <1>4, ConsumerInTurn
<1>5. w = "loader" \/ w = "launcher" \/ w = "storer" \/ \E v \in {0, 1} : w = Consumer(v)
  BY WarpNames
<1> QED BY <1>1, <1>2, <1>3, <1>4, <1>5

\* A good state is as is required of an instruction.
LEMMA GoodIsInTurn ==
  ASSUME MatmulConfig, NEW n, Iterations(n), NEW k, Epilogue(k), NEW st, Good(n, k, st)
  PROVE  InTurn(Matmuls(n, k), st) /\ ReadsIntact(Matmuls(n, k), st)
<1> PICK ld, la, co, m, in : GoodView(n, k, st, ld, la, co, m, in) BY GoodIs
<1>1. \A c \in CTAS :
        /\ st.finished[c] \subseteq st.given[c]
        /\ Behind(st, c) => st.finished[c] = LIDS
        /\ ~st.done[c]["loader"] =>
             Awaited(Matmuls(n, k)[c].lanes, st.passed[c]) \cap st.finished[c] = {}
        /\ \A sem \in DOMAIN st.semaphore[c] : st.semaphore[c][sem].left \in Nat
  BY PagesInTurn
<1>2. \A c \in CTAS, w \in WARPS : Inside(Matmuls(n, k), st, c, w) => WarpInTurn(n, k, st, c, w)
  BY WarpsInTurn
<1>3. \A x \in st.loading : /\ \A r \in x.places : Owns(st, x.cta, r[1])
                            /\ ~Behind(st, x.signal.cta)
  BY LoadsInTurn
<1>4. \A x \in Multiplying(st) : MultiplicationInFlight(st, x) BY MultipliesInTurn
<1>5. \A c \in CTAS, w \in WARPS :
        CanAdvance(Matmuls(n, k), st, c, w) => Inside(Matmuls(n, k), st, c, w)
  BY DEF CanAdvance
<1>6. InTurn(Matmuls(n, k), st)
  BY <1>1, <1>2, <1>3, <1>4, <1>5 DEF InTurn, WarpInTurn, MultiplicationInFlight
<1>7. ReadsIntact(Matmuls(n, k), st)
  BY <1>2, <1>4 DEF ReadsIntact, WarpInTurn, MultiplicationInFlight
<1> QED BY <1>6, <1>7

---------------------------------------------------------------------------
(* gemm and gate_silu are sound.                                           *)

\* The release orders for even counts are orders of the seven pages,
LEMMA ReleaseIs ==
  ASSUME NEW n, Iterations(n)
  PROVE  /\ MatmulRelease(n) \in [0 .. 6 -> 0 .. 6]
         /\ {MatmulRelease(n)[lid] : lid \in 0 .. 6} = 0 .. 6
<1>1. n \in Nat /\ (n % 4 = 0 \/ n % 4 = 2) BY DEF Iterations
<1>2. CASE n % 4 = 0
  <2> DEFINE released == <<6, 2, 1, 3, 5, 4, 0>>
  <2>1. MatmulRelease(n) = [query \in 0 .. 6 |-> released[query + 1]]
    BY <1>2 DEF MatmulRelease, MatmulLids, LOAD_PIPE_DEPTH
  <2>2. /\ released[1] = 6 /\ released[2] = 2 /\ released[3] = 1 /\ released[4] = 3
        /\ released[5] = 5 /\ released[6] = 4 /\ released[7] = 0
    OBVIOUS
  <2> HIDE DEF released
  <2>3. /\ MatmulRelease(n)[0] = 6 /\ MatmulRelease(n)[1] = 2 /\ MatmulRelease(n)[2] = 1
        /\ MatmulRelease(n)[3] = 3 /\ MatmulRelease(n)[4] = 5 /\ MatmulRelease(n)[5] = 4
        /\ MatmulRelease(n)[6] = 0
    BY <2>1, <2>2
  <2>4. 0 .. 6 = {0, 1, 2, 3, 4, 5, 6} OBVIOUS
  <2> QED BY <2>1, <2>3, <2>4
<1>3. CASE n % 4 = 2
  <2> DEFINE released == <<6, 3, 5, 4, 2, 1, 0>>
  <2>1. MatmulRelease(n) = [query \in 0 .. 6 |-> released[query + 1]]
    BY <1>3 DEF MatmulRelease, MatmulLids, LOAD_PIPE_DEPTH
  <2>2. /\ released[1] = 6 /\ released[2] = 3 /\ released[3] = 5 /\ released[4] = 4
        /\ released[5] = 2 /\ released[6] = 1 /\ released[7] = 0
    OBVIOUS
  <2> HIDE DEF released
  <2>3. /\ MatmulRelease(n)[0] = 6 /\ MatmulRelease(n)[1] = 3 /\ MatmulRelease(n)[2] = 5
        /\ MatmulRelease(n)[3] = 4 /\ MatmulRelease(n)[4] = 2 /\ MatmulRelease(n)[5] = 1
        /\ MatmulRelease(n)[6] = 0
    BY <2>1, <2>2
  <2>4. 0 .. 6 = {0, 1, 2, 3, 4, 5, 6} OBVIOUS
  <2> QED BY <2>1, <2>3, <2>4
<1> QED BY <1>1, <1>2, <1>3

\* and the same in both CTAs.
LEMMA MatmulsPassPagesOn ==
  ASSUME MatmulConfig, NEW n, Iterations(n), NEW k
  PROVE  PassesPagesOn(Matmuls(n, k))
<1>1. \A c \in CTAS : Matmuls(n, k)[c].release = MatmulRelease(n)
  BY DEF Matmuls, GemmOp, GateSiluOp, Matmul
<1> QED BY <1>1, ConfigIs, ReleaseIs DEF PassesPagesOn

\* gemm and gate_silu are sound for every even number of iterations: whatever
\* the order of the loader, the multiplications, the loads and the consumers,
\* each page is used between page_wait and page_finish, and what is read is
\* what the instruction put there.
THEOREM MatmulsAreSound ==
  ASSUME MatmulConfig, NEW n, Iterations(n), NEW k, Epilogue(k)
  PROVE  Sound(Matmuls(n, k))
<1> DEFINE states == {st \in Universe(n, k) : GInv(n, k, st)}
<1>1. \A st : st \in states <=> Good(n, k, st) BY DEF Good
<1>2. Start(Matmuls(n, k)) \in states BY <1>1, GoodStart
<1>3. \A st \in states : InTurn(Matmuls(n, k), st) /\ ReadsIntact(Matmuls(n, k), st)
  BY <1>1, GoodIsInTurn
<1>4. \A st \in states : \A t : Goes(Matmuls(n, k), st, t) => t \in states
  BY <1>1, GoodStep
<1> HIDE DEF states
<1>5. Closed(Matmuls(n, k), states) BY <1>2, <1>3, <1>4 DEF Closed
<1> QED BY <1>5, MatmulsPassPagesOn DEF Sound

\* A consumer of gemm that reads its sums finds them complete, and no warp of
\* its CTA has passed tensor memory on.
SumsKept(inst, st) ==
  \A c \in CTAS, w \in WARPS : Inside(inst, st, c, w) =>
    \A x \in At(inst, st, c, w).tensorHolds :
      /\ [cta |-> c, part |-> x.part, tag |-> x.tag] \in st.tensor
      /\ c \notin st.tensorFinished
\* That holds of gemm in every good state.
LEMMA GemmKeepsSums ==
  ASSUME MatmulConfig, NEW n, Iterations(n), NEW st, Good(n, GEMM, st)
  PROVE  SumsKept(Matmuls(n, GEMM), st)
<1>1. Epilogue(GEMM) /\ GEMM = 3 BY DEF Epilogue, GEMM
<1> PICK ld, la, co, m, in : GoodView(n, GEMM, st, ld, la, co, m, in) BY GoodIs
<1>2. StateTyped(n, st) /\ n \in Nat \ {0} BY IterationsIs DEF GoodView
<1> SUFFICES ASSUME NEW c \in CTAS, NEW w \in WARPS, Inside(Matmuls(n, GEMM), st, c, w),
                    NEW x \in At(Matmuls(n, GEMM), st, c, w).tensorHolds
             PROVE  /\ [cta |-> c, part |-> x.part, tag |-> x.tag] \in st.tensor
                    /\ c \notin st.tensorFinished
  BY DEF SumsKept
<1> PICK s : s = At(Matmuls(n, GEMM), st, c, w) OBVIOUS
<1>3. CASE w = "loader"
  <2>1. \E i : s = LoaderAt(n, i)
    BY <1>1, <1>3, LoaderInside
  <2>2. s.tensorHolds = {} BY <2>1 DEF LoaderAt, Step
  <2> QED BY <2>2
<1>4. CASE w = "launcher"
  <2>1. \E i : s = LauncherAt(n, i)
    BY <1>1, <1>4, LauncherInside
  <2>2. s.tensorHolds = {} BY <2>1 DEF LauncherAt, Step
  <2> QED BY <2>2
<1>5. CASE w = "storer" BY <1>1, <1>2, <1>5, StorerOutside
<1>6. ASSUME NEW v \in {0, 1}, w = Consumer(v)
      PROVE  /\ [cta |-> c, part |-> x.part, tag |-> x.tag] \in st.tensor
             /\ c \notin st.tensorFinished
  <2> PICK j : j = co[c][v] OBVIOUS
  <2>1. j \in 0 .. GEMM + 1 /\ s = ConsumerAt(c, n, GEMM, v)[j + 1]
    BY <1>1, <1>6, ConsumerInside
  <2>2. ConsumerIs(c, n, GEMM, v, j, s) BY <1>1, <2>1, ConsumerStepIs
  <2>3. j = 1 /\ x \in Sums(n, v)
    BY <1>1, <2>2 DEF ConsumerIs, SILU
  <2>4. x.part = v /\ x.tag = n - 1 BY <2>3 DEF Sums, TensorTagged
  <2>5. AllConsuming(n, GEMM, co, m) /\ SumsAre(n, st.tensor, m)
        /\ TensorPassed(st.tensorFinished, co)
    BY DEF GoodView, View
  <2> PICK e : e = co[c] OBVIOUS
  <2>6. Consuming(n, GEMM, e, m) BY <2>5 DEF AllConsuming
  <2>7. m = 2 * n + 1
    <3>1. e[v] >= 1 => m = 2 * n + 1 BY <2>6 DEF Consuming
    <3> QED BY <2>3, <3>1
  <2>8. SumFact(c, v, n - 1) \in st.tensor
    BY <1>2, <2>5, <2>7 DEF SumsAre
  <2>9. c \notin st.tensorFinished
    <3>1. e[0] >= 3 => e[1] >= 2
      <4>1. \A u \in {0, 1} : e[u] >= 3 => e[1 - u] >= 2 BY <2>6 DEF Consuming
      <4>2. 1 - 0 = 1 OBVIOUS
      <4> QED BY <4>1, <4>2
    <3>2. e[v] = 1 BY <2>3
    <3>3. v = 0 \/ v = 1 OBVIOUS
    <3>4. ~(e[0] >= 3) BY <3>1, <3>2, <3>3
    <3> QED BY <2>5, <3>4 DEF TensorPassed
  <2> QED BY <2>4, <2>8, <2>9 DEF SumFact
<1>7. w = "loader" \/ w = "launcher" \/ w = "storer" \/ \E v \in {0, 1} : w = Consumer(v)
  BY WarpNames
<1> QED BY <1>3, <1>4, <1>5, <1>6, <1>7
=============================================================================
