-------------------------- MODULE MegakernelProofs --------------------------
(***************************************************************************)
(* The global barriers of Megakernel and the memory they protect, for the  *)
(* programs of all graphs that the scheduler accepts (GraphsAssumption):   *)
(*   SyncInv    a barrier counts the arrivals that have been taken; a wait *)
(*              that has ended was for a barrier that has had them all     *)
(*   LoadInv    a row whose data is in flight has waited for its inputs    *)
(*   OrderInv   a row that has begun to store has seen everything complete *)
(*              that the scheduler ordered before it                       *)
(*   MemoryInv  a cell holds what the last row stored there that has begun *)
(*              to, and that row is ordered behind all the others          *)
(* From these follow the properties of Megakernel and, step by step, that  *)
(* it implements Dataflow.                                                 *)
(***************************************************************************)
EXTENDS Megakernel, SchedulingProofs

---------------------------------------------------------------------------
(* What the warps do with an instruction: where in the scripts of          *)
(* Megakernel the waits, loads, stores and arrivals are.  The other proofs *)
(* use GoodScript and EveryScript alone.                                   *)

OPS == {"wait", "arrive", "load", "loaded", "store", "stored"}
StepsOn(B) == OPS \X (B \cup {"none"})

Typed(inst, B) ==
  /\ inst.inputs \in Seq(B) /\ inst.reuses \in Seq(B) /\ inst.arrivals \in Seq(B)

\* r is s followed by t.
Joined(r, s, t) ==
  /\ Len(r) = Len(s) + Len(t)
  /\ \A i \in 1 .. Len(s) : r[i] = s[i]
  /\ \A i \in Len(s) + 1 .. Len(s) + Len(t) : r[i] = t[i - Len(s)]

\* Concatenation, position by position.
LEMMA Join ==
  ASSUME NEW S, NEW s \in Seq(S), NEW t \in Seq(S)
  PROVE  s \o t \in Seq(S) /\ Joined(s \o t, s, t)
  BY DEF Joined

\* A step for each of some barriers is a sequence of steps.
LEMMA EachIsSeq ==
  ASSUME NEW B, NEW bs \in Seq(B), NEW op \in OPS
  PROVE  /\ Each(op, bs) \in Seq(StepsOn(B))
         /\ Len(Each(op, bs)) = Len(bs)
         /\ \A i \in 1 .. Len(bs) : Each(op, bs)[i] = <<op, bs[i]>>
  <1>1. Each(op, bs) = [i \in 1 .. Len(bs) |-> <<op, bs[i]>>]
    BY DEF Each
  <1>2. \A i \in 1 .. Len(bs) : <<op, bs[i]>> \in StepsOn(B)
    BY DEF StepsOn
  <1>3. QED
    BY <1>1, <1>2

\* So is one step without a barrier.
LEMMA DoIsSeq ==
  ASSUME NEW B, NEW op \in OPS
  PROVE  /\ Do(op) \in Seq(StepsOn(B)) /\ Len(Do(op)) = 1
         /\ Do(op)[1] = <<op, "none">>
  BY DEF Do, StepsOn

\* r is s followed by one step, by a step for each of some barriers.
Adds(r, s, op) ==
  /\ Len(r) = Len(s) + 1 /\ r[Len(s) + 1] = <<op, "none">>
  /\ \A i \in 1 .. Len(s) : r[i] = s[i]
AddsEach(r, s, op, bs) ==
  /\ Len(r) = Len(s) + Len(bs)
  /\ \A i \in 1 .. Len(s) : r[i] = s[i]
  /\ \A i \in Len(s) + 1 .. Len(s) + Len(bs) : r[i] = <<op, bs[i - Len(s)]>>

\* A script and one more step.
LEMMA JoinDo ==
  ASSUME NEW B, NEW s \in Seq(StepsOn(B)), NEW op \in OPS
  PROVE  s \o Do(op) \in Seq(StepsOn(B)) /\ Adds(s \o Do(op), s, op)
  <1>1. Do(op) \in Seq(StepsOn(B)) /\ Len(Do(op)) = 1 /\ Do(op)[1] = <<op, "none">>
    BY DoIsSeq
  <1> DEFINE r == s \o Do(op)
  <1>2. r \in Seq(StepsOn(B)) /\ Joined(r, s, Do(op))
    BY <1>1, Join
  <1> HIDE DEF r
  <1>3. Adds(r, s, op)
    BY <1>1, <1>2 DEF Adds, Joined
  <1>4. QED
    BY <1>2, <1>3 DEF r

\* A script and a step for each of some barriers.
LEMMA JoinEach ==
  ASSUME NEW B, NEW s \in Seq(StepsOn(B)), NEW op \in OPS, NEW bs \in Seq(B)
  PROVE  /\ s \o Each(op, bs) \in Seq(StepsOn(B))
         /\ AddsEach(s \o Each(op, bs), s, op, bs)
  <1>1. /\ Each(op, bs) \in Seq(StepsOn(B)) /\ Len(Each(op, bs)) = Len(bs)
        /\ \A i \in 1 .. Len(bs) : Each(op, bs)[i] = <<op, bs[i]>>
    BY EachIsSeq
  <1> DEFINE r == s \o Each(op, bs)
  <1>2. r \in Seq(StepsOn(B)) /\ Joined(r, s, Each(op, bs))
    BY <1>1, Join
  <1> HIDE DEF r
  <1>3. AddsEach(r, s, op, bs)
    BY <1>1, <1>2 DEF AddsEach, Joined
  <1>4. QED
    BY <1>2, <1>3 DEF r

IsTileLoader(s, ins) ==
  /\ Len(s) = Len(ins) + 1
  /\ \A i \in 1 .. Len(ins) : s[i] = <<"wait", ins[i]>>
  /\ s[Len(ins) + 1] = <<"load", "none">>

\* What TileLoader does, position by position.
LEMMA TileLoaderShape ==
  ASSUME NEW B, NEW ins \in Seq(B)
  PROVE  IsTileLoader(Each("wait", ins) \o Do("load"), ins)
  <1> DEFINE a == Each("wait", ins)
             b == a \o Do("load")
  <1>1. Len(ins) \in Nat
    OBVIOUS
  <1>2. a \in Seq(StepsOn(B))
    BY EachIsSeq DEF OPS
  <1>3. /\ Len(a) = Len(ins)
        /\ \A i \in 1 .. Len(ins) : a[i] = <<"wait", ins[i]>>
    BY EachIsSeq DEF OPS
  <1> HIDE DEF a
  <1>4. b \in Seq(StepsOn(B)) /\ Adds(b, a, "load")
    BY <1>2, JoinDo DEF OPS
  <1> HIDE DEF b
  <1>5. /\ Len(b) = Len(ins) + 1
        /\ \A i \in 1 .. Len(ins) : b[i] = <<"wait", ins[i]>>
        /\ b[Len(ins) + 1] = <<"load", "none">>
    <2>1. Adds(b, a, "load")
      BY <1>4
    <2>2. QED
      BY <1>1, <1>3, <2>1, SMTT(40) DEF Adds
  <1>6. IsTileLoader(b, ins)
    BY <1>5 DEF IsTileLoader
  <1>7. QED
    BY <1>6 DEF a, b

IsTileConsumer(s, res, arr) ==
  /\ Len(s) = Len(res) + Len(arr) + 3
  /\ s[1] = <<"loaded", "none">>
  /\ \A i \in 2 .. Len(res) + 1 : s[i] = <<"wait", res[i - 1]>>
  /\ s[Len(res) + 2] = <<"store", "none">>
  /\ s[Len(res) + 3] = <<"stored", "none">>
  /\ \A i \in Len(res) + 4 .. Len(res) + Len(arr) + 3 : s[i] = <<"arrive", arr[i - (Len(res) + 3)]>>

\* What TileConsumer does.
LEMMA TileConsumerShape ==
  ASSUME NEW B, NEW res \in Seq(B), NEW arr \in Seq(B)
  PROVE  IsTileConsumer(Do("loaded") \o Each("wait", res) \o Do("store")
                        \o Do("stored") \o Each("arrive", arr), res, arr)
  <1> DEFINE a == Do("loaded")
             b == a \o Each("wait", res)
             c == b \o Do("store")
             d == c \o Do("stored")
             e == d \o Each("arrive", arr)
  <1>1. Len(res) \in Nat /\ Len(arr) \in Nat
    OBVIOUS
  <1>2. a \in Seq(StepsOn(B))
    BY DoIsSeq DEF OPS
  <1>3. /\ Len(a) = 1
        /\ a[1] = <<"loaded", "none">>
    BY DoIsSeq DEF OPS
  <1> HIDE DEF a
  <1>4. b \in Seq(StepsOn(B)) /\ AddsEach(b, a, "wait", res)
    BY <1>2, JoinEach DEF OPS
  <1> HIDE DEF b
  <1>5. /\ Len(b) = Len(res) + 1
        /\ b[1] = <<"loaded", "none">>
        /\ \A i \in 2 .. Len(res) + 1 : b[i] = <<"wait", res[i - 1]>>
    <2>1. AddsEach(b, a, "wait", res)
      BY <1>4
    <2>2. QED
      BY <1>1, <1>3, <2>1, SMTT(40) DEF AddsEach
  <1>6. c \in Seq(StepsOn(B)) /\ Adds(c, b, "store")
    BY <1>4, JoinDo DEF OPS
  <1> HIDE DEF c
  <1>7. /\ Len(c) = Len(res) + 2
        /\ c[1] = <<"loaded", "none">>
        /\ \A i \in 2 .. Len(res) + 1 : c[i] = <<"wait", res[i - 1]>>
        /\ c[Len(res) + 2] = <<"store", "none">>
    <2>1. Adds(c, b, "store")
      BY <1>6
    <2>2. QED
      BY <1>1, <1>5, <2>1, SMTT(40) DEF Adds
  <1>8. d \in Seq(StepsOn(B)) /\ Adds(d, c, "stored")
    BY <1>6, JoinDo DEF OPS
  <1> HIDE DEF d
  <1>9. /\ Len(d) = Len(res) + 3
        /\ d[1] = <<"loaded", "none">>
        /\ \A i \in 2 .. Len(res) + 1 : d[i] = <<"wait", res[i - 1]>>
        /\ d[Len(res) + 2] = <<"store", "none">>
        /\ d[Len(res) + 3] = <<"stored", "none">>
    <2>1. Adds(d, c, "stored")
      BY <1>8
    <2>2. QED
      BY <1>1, <1>7, <2>1, SMTT(120) DEF Adds
  <1>10. e \in Seq(StepsOn(B)) /\ AddsEach(e, d, "arrive", arr)
    BY <1>8, JoinEach DEF OPS
  <1> HIDE DEF e
  <1>11. /\ Len(e) = Len(res) + Len(arr) + 3
         /\ e[1] = <<"loaded", "none">>
         /\ \A i \in 2 .. Len(res) + 1 : e[i] = <<"wait", res[i - 1]>>
         /\ e[Len(res) + 2] = <<"store", "none">>
         /\ e[Len(res) + 3] = <<"stored", "none">>
         /\ \A i \in Len(res) + 4 .. Len(res) + Len(arr) + 3 :
                e[i] = <<"arrive", arr[i - (Len(res) + 3)]>>
    <2>1. AddsEach(e, d, "arrive", arr)
      BY <1>10
    <2>2. QED
      BY <1>1, <1>9, <2>1, SMTT(120) DEF AddsEach
  <1>12. IsTileConsumer(e, res, arr)
    BY <1>11 DEF IsTileConsumer
  <1>13. QED
    BY <1>12 DEF a, b, c, d, e

IsRmsLoader(s, ins, res) ==
  /\ Len(s) = Len(ins) + Len(res) + 1
  /\ \A i \in 1 .. Len(ins) : s[i] = <<"wait", ins[i]>>
  /\ \A i \in Len(ins) + 1 .. Len(ins) + Len(res) : s[i] = <<"wait", res[i - Len(ins)]>>
  /\ s[Len(ins) + Len(res) + 1] = <<"load", "none">>

\* What RmsLoader does.
LEMMA RmsLoaderShape ==
  ASSUME NEW B, NEW ins \in Seq(B), NEW res \in Seq(B)
  PROVE  IsRmsLoader(Each("wait", ins) \o Each("wait", res) \o Do("load"), ins, res)
  <1> DEFINE a == Each("wait", ins)
             b == a \o Each("wait", res)
             c == b \o Do("load")
  <1>1. Len(ins) \in Nat /\ Len(res) \in Nat
    OBVIOUS
  <1>2. a \in Seq(StepsOn(B))
    BY EachIsSeq DEF OPS
  <1>3. /\ Len(a) = Len(ins)
        /\ \A i \in 1 .. Len(ins) : a[i] = <<"wait", ins[i]>>
    BY EachIsSeq DEF OPS
  <1> HIDE DEF a
  <1>4. b \in Seq(StepsOn(B)) /\ AddsEach(b, a, "wait", res)
    BY <1>2, JoinEach DEF OPS
  <1> HIDE DEF b
  <1>5. /\ Len(b) = Len(ins) + Len(res)
        /\ \A i \in 1 .. Len(ins) : b[i] = <<"wait", ins[i]>>
        /\ \A i \in Len(ins) + 1 .. Len(ins) + Len(res) : b[i] = <<"wait", res[i - Len(ins)]>>
    <2>1. AddsEach(b, a, "wait", res)
      BY <1>4
    <2>2. QED
      BY <1>1, <1>3, <2>1, SMTT(40) DEF AddsEach
  <1>6. c \in Seq(StepsOn(B)) /\ Adds(c, b, "load")
    BY <1>4, JoinDo DEF OPS
  <1> HIDE DEF c
  <1>7. /\ Len(c) = Len(ins) + Len(res) + 1
        /\ \A i \in 1 .. Len(ins) : c[i] = <<"wait", ins[i]>>
        /\ \A i \in Len(ins) + 1 .. Len(ins) + Len(res) : c[i] = <<"wait", res[i - Len(ins)]>>
        /\ c[Len(ins) + Len(res) + 1] = <<"load", "none">>
    <2>1. Adds(c, b, "load")
      BY <1>6
    <2>2. QED
      BY <1>1, <1>5, <2>1, SMTT(40) DEF Adds
  <1>8. IsRmsLoader(c, ins, res)
    BY <1>7 DEF IsRmsLoader
  <1>9. QED
    BY <1>8 DEF a, b, c

IsRmsConsumer(s, arr) ==
  /\ Len(s) = Len(arr) + 5
  /\ s[1] = <<"loaded", "none">>
  /\ s[2] = <<"load", "none">>
  /\ s[3] = <<"store", "none">>
  /\ s[4] = <<"loaded", "none">>
  /\ s[5] = <<"stored", "none">>
  /\ \A i \in 6 .. Len(arr) + 5 : s[i] = <<"arrive", arr[i - 5]>>

\* What RmsConsumer does.
LEMMA RmsConsumerShape ==
  ASSUME NEW B, NEW arr \in Seq(B)
  PROVE  IsRmsConsumer(Do("loaded") \o Do("load") \o Do("store") \o Do("loaded")
                       \o Do("stored") \o Each("arrive", arr), arr)
  <1> DEFINE a == Do("loaded")
             b == a \o Do("load")
             c == b \o Do("store")
             d == c \o Do("loaded")
             e == d \o Do("stored")
             f == e \o Each("arrive", arr)
  <1>1. Len(arr) \in Nat
    OBVIOUS
  <1>2. a \in Seq(StepsOn(B))
    BY DoIsSeq DEF OPS
  <1>3. /\ Len(a) = 1
        /\ a[1] = <<"loaded", "none">>
    BY DoIsSeq DEF OPS
  <1> HIDE DEF a
  <1>4. b \in Seq(StepsOn(B)) /\ Adds(b, a, "load")
    BY <1>2, JoinDo DEF OPS
  <1> HIDE DEF b
  <1>5. /\ Len(b) = 2
        /\ b[1] = <<"loaded", "none">>
        /\ b[2] = <<"load", "none">>
    <2>1. Adds(b, a, "load")
      BY <1>4
    <2>2. QED
      BY <1>1, <1>3, <2>1, SMTT(40) DEF Adds
  <1>6. c \in Seq(StepsOn(B)) /\ Adds(c, b, "store")
    BY <1>4, JoinDo DEF OPS
  <1> HIDE DEF c
  <1>7. /\ Len(c) = 3
        /\ c[1] = <<"loaded", "none">>
        /\ c[2] = <<"load", "none">>
        /\ c[3] = <<"store", "none">>
    <2>1. Adds(c, b, "store")
      BY <1>6
    <2>2. QED
      BY <1>1, <1>5, <2>1, SMTT(40) DEF Adds
  <1>8. d \in Seq(StepsOn(B)) /\ Adds(d, c, "loaded")
    BY <1>6, JoinDo DEF OPS
  <1> HIDE DEF d
  <1>9. /\ Len(d) = 4
        /\ d[1] = <<"loaded", "none">>
        /\ d[2] = <<"load", "none">>
        /\ d[3] = <<"store", "none">>
        /\ d[4] = <<"loaded", "none">>
    <2>1. Adds(d, c, "loaded")
      BY <1>8
    <2>2. QED
      BY <1>1, <1>7, <2>1, SMTT(40) DEF Adds
  <1>10. e \in Seq(StepsOn(B)) /\ Adds(e, d, "stored")
    BY <1>8, JoinDo DEF OPS
  <1> HIDE DEF e
  <1>11. /\ Len(e) = 5
         /\ e[1] = <<"loaded", "none">>
         /\ e[2] = <<"load", "none">>
         /\ e[3] = <<"store", "none">>
         /\ e[4] = <<"loaded", "none">>
         /\ e[5] = <<"stored", "none">>
    <2>1. Adds(e, d, "stored")
      BY <1>10
    <2>2. QED
      BY <1>1, <1>9, <2>1, SMTT(40) DEF Adds
  <1>12. f \in Seq(StepsOn(B)) /\ AddsEach(f, e, "arrive", arr)
    BY <1>10, JoinEach DEF OPS
  <1> HIDE DEF f
  <1>13. /\ Len(f) = Len(arr) + 5
         /\ f[1] = <<"loaded", "none">>
         /\ f[2] = <<"load", "none">>
         /\ f[3] = <<"store", "none">>
         /\ f[4] = <<"loaded", "none">>
         /\ f[5] = <<"stored", "none">>
         /\ \A i \in 6 .. Len(arr) + 5 : f[i] = <<"arrive", arr[i - 5]>>
    <2>1. AddsEach(f, e, "arrive", arr)
      BY <1>12
    <2>2. QED
      BY <1>1, <1>11, <2>1, SMTT(40) DEF AddsEach
  <1>14. IsRmsConsumer(f, arr)
    BY <1>13 DEF IsRmsConsumer
  <1>15. QED
    BY <1>14 DEF a, b, c, d, e, f

IsReduceConsumer(s, ins, res, arr) ==
  /\ Len(s) = Len(ins) + Len(res) + Len(arr) + 4
  /\ \A i \in 1 .. Len(ins) : s[i] = <<"wait", ins[i]>>
  /\ s[Len(ins) + 1] = <<"load", "none">>
  /\ s[Len(ins) + 2] = <<"store", "none">>
  /\ s[Len(ins) + 3] = <<"loaded", "none">>
  /\ s[Len(ins) + 4] = <<"stored", "none">>
  /\ \A i \in Len(ins) + 5 .. Len(ins) + Len(res) + 4 : s[i] = <<"wait", res[i - (Len(ins) + 4)]>>
  /\ \A i \in Len(ins) + Len(res) + 5 .. Len(ins) + Len(res) + Len(arr) + 4 :
         s[i] = <<"arrive", arr[i - (Len(ins) + Len(res) + 4)]>>

\* What ReduceConsumer does.
LEMMA ReduceConsumerShape ==
  ASSUME NEW B, NEW ins \in Seq(B), NEW res \in Seq(B), NEW arr \in Seq(B)
  PROVE  IsReduceConsumer(Each("wait", ins) \o Do("load") \o Do("store")
                          \o Do("loaded") \o Do("stored") \o Each("wait", res) \o Each("arrive", arr), ins, res, arr)
  <1> DEFINE a == Each("wait", ins)
             b == a \o Do("load")
             c == b \o Do("store")
             d == c \o Do("loaded")
             e == d \o Do("stored")
             f == e \o Each("wait", res)
             g == f \o Each("arrive", arr)
  <1>1. Len(ins) \in Nat /\ Len(res) \in Nat /\ Len(arr) \in Nat
    OBVIOUS
  <1>2. a \in Seq(StepsOn(B))
    BY EachIsSeq DEF OPS
  <1>3. /\ Len(a) = Len(ins)
        /\ \A i \in 1 .. Len(ins) : a[i] = <<"wait", ins[i]>>
    BY EachIsSeq DEF OPS
  <1> HIDE DEF a
  <1>4. b \in Seq(StepsOn(B)) /\ Adds(b, a, "load")
    BY <1>2, JoinDo DEF OPS
  <1> HIDE DEF b
  <1>5. /\ Len(b) = Len(ins) + 1
        /\ \A i \in 1 .. Len(ins) : b[i] = <<"wait", ins[i]>>
        /\ b[Len(ins) + 1] = <<"load", "none">>
    <2>1. Adds(b, a, "load")
      BY <1>4
    <2>2. QED
      BY <1>1, <1>3, <2>1, SMTT(40) DEF Adds
  <1>6. c \in Seq(StepsOn(B)) /\ Adds(c, b, "store")
    BY <1>4, JoinDo DEF OPS
  <1> HIDE DEF c
  <1>7. /\ Len(c) = Len(ins) + 2
        /\ \A i \in 1 .. Len(ins) : c[i] = <<"wait", ins[i]>>
        /\ c[Len(ins) + 1] = <<"load", "none">>
        /\ c[Len(ins) + 2] = <<"store", "none">>
    <2>1. Adds(c, b, "store")
      BY <1>6
    <2>2. QED
      BY <1>1, <1>5, <2>1, SMTT(40) DEF Adds
  <1>8. d \in Seq(StepsOn(B)) /\ Adds(d, c, "loaded")
    BY <1>6, JoinDo DEF OPS
  <1> HIDE DEF d
  <1>9. /\ Len(d) = Len(ins) + 3
        /\ \A i \in 1 .. Len(ins) : d[i] = <<"wait", ins[i]>>
        /\ d[Len(ins) + 1] = <<"load", "none">>
        /\ d[Len(ins) + 2] = <<"store", "none">>
        /\ d[Len(ins) + 3] = <<"loaded", "none">>
    <2>1. Adds(d, c, "loaded")
      BY <1>8
    <2>2. QED
      BY <1>1, <1>7, <2>1, SMTT(40) DEF Adds
  <1>10. e \in Seq(StepsOn(B)) /\ Adds(e, d, "stored")
    BY <1>8, JoinDo DEF OPS
  <1> HIDE DEF e
  <1>11. /\ Len(e) = Len(ins) + 4
         /\ \A i \in 1 .. Len(ins) : e[i] = <<"wait", ins[i]>>
         /\ e[Len(ins) + 1] = <<"load", "none">>
         /\ e[Len(ins) + 2] = <<"store", "none">>
         /\ e[Len(ins) + 3] = <<"loaded", "none">>
         /\ e[Len(ins) + 4] = <<"stored", "none">>
    <2>1. Adds(e, d, "stored")
      BY <1>10
    <2>2. QED
      BY <1>1, <1>9, <2>1, SMTT(40) DEF Adds
  <1>12. f \in Seq(StepsOn(B)) /\ AddsEach(f, e, "wait", res)
    BY <1>10, JoinEach DEF OPS
  <1> HIDE DEF f
  <1>13. /\ Len(f) = Len(ins) + Len(res) + 4
         /\ \A i \in 1 .. Len(ins) : f[i] = <<"wait", ins[i]>>
         /\ f[Len(ins) + 1] = <<"load", "none">>
         /\ f[Len(ins) + 2] = <<"store", "none">>
         /\ f[Len(ins) + 3] = <<"loaded", "none">>
         /\ f[Len(ins) + 4] = <<"stored", "none">>
         /\ \A i \in Len(ins) + 5 .. Len(ins) + Len(res) + 4 :
                f[i] = <<"wait", res[i - (Len(ins) + 4)]>>
    <2>1. AddsEach(f, e, "wait", res)
      BY <1>12
    <2>2. QED
      BY <1>1, <1>11, <2>1, SMTT(40) DEF AddsEach
  <1>14. g \in Seq(StepsOn(B)) /\ AddsEach(g, f, "arrive", arr)
    BY <1>12, JoinEach DEF OPS
  <1> HIDE DEF g
  <1>15. /\ Len(g) = Len(ins) + Len(res) + Len(arr) + 4
         /\ \A i \in 1 .. Len(ins) : g[i] = <<"wait", ins[i]>>
         /\ g[Len(ins) + 1] = <<"load", "none">>
         /\ g[Len(ins) + 2] = <<"store", "none">>
         /\ g[Len(ins) + 3] = <<"loaded", "none">>
         /\ g[Len(ins) + 4] = <<"stored", "none">>
         /\ \A i \in Len(ins) + 5 .. Len(ins) + Len(res) + 4 :
                g[i] = <<"wait", res[i - (Len(ins) + 4)]>>
         /\ \A i \in Len(ins) + Len(res) + 5 .. Len(ins) + Len(res) + Len(arr) + 4 :
                g[i] = <<"arrive", arr[i - (Len(ins) + Len(res) + 4)]>>
    <2>1. AddsEach(g, f, "arrive", arr)
      BY <1>14
    <2>2. QED
      BY <1>1, <1>13, <2>1, SMTT(40) DEF AddsEach
  <1>16. IsReduceConsumer(g, ins, res, arr)
    BY <1>15 DEF IsReduceConsumer
  <1>17. QED
    BY <1>16 DEF a, b, c, d, e, f, g

IsIncrementStorer(s, ins, res, arr) ==
  /\ Len(s) = Len(ins) + Len(res) + Len(arr) + 4
  /\ \A i \in 1 .. Len(ins) : s[i] = <<"wait", ins[i]>>
  /\ \A i \in Len(ins) + 1 .. Len(ins) + Len(res) : s[i] = <<"wait", res[i - Len(ins)]>>
  /\ s[Len(ins) + Len(res) + 1] = <<"load", "none">>
  /\ s[Len(ins) + Len(res) + 2] = <<"loaded", "none">>
  /\ s[Len(ins) + Len(res) + 3] = <<"store", "none">>
  /\ s[Len(ins) + Len(res) + 4] = <<"stored", "none">>
  /\ \A i \in Len(ins) + Len(res) + 5 .. Len(ins) + Len(res) + Len(arr) + 4 :
         s[i] = <<"arrive", arr[i - (Len(ins) + Len(res) + 4)]>>

\* What IncrementStorer does.
LEMMA IncrementStorerShape ==
  ASSUME NEW B, NEW ins \in Seq(B), NEW res \in Seq(B), NEW arr \in Seq(B)
  PROVE  IsIncrementStorer(Each("wait", ins) \o Each("wait", res) \o Do("load")
                           \o Do("loaded") \o Do("store") \o Do("stored") \o Each("arrive", arr), ins, res, arr)
  <1> DEFINE a == Each("wait", ins)
             b == a \o Each("wait", res)
             c == b \o Do("load")
             d == c \o Do("loaded")
             e == d \o Do("store")
             f == e \o Do("stored")
             g == f \o Each("arrive", arr)
  <1>1. Len(ins) \in Nat /\ Len(res) \in Nat /\ Len(arr) \in Nat
    OBVIOUS
  <1>2. a \in Seq(StepsOn(B))
    BY EachIsSeq DEF OPS
  <1>3. /\ Len(a) = Len(ins)
        /\ \A i \in 1 .. Len(ins) : a[i] = <<"wait", ins[i]>>
    BY EachIsSeq DEF OPS
  <1> HIDE DEF a
  <1>4. b \in Seq(StepsOn(B)) /\ AddsEach(b, a, "wait", res)
    BY <1>2, JoinEach DEF OPS
  <1> HIDE DEF b
  <1>5. /\ Len(b) = Len(ins) + Len(res)
        /\ \A i \in 1 .. Len(ins) : b[i] = <<"wait", ins[i]>>
        /\ \A i \in Len(ins) + 1 .. Len(ins) + Len(res) : b[i] = <<"wait", res[i - Len(ins)]>>
    <2>1. AddsEach(b, a, "wait", res)
      BY <1>4
    <2>2. QED
      BY <1>1, <1>3, <2>1, SMTT(40) DEF AddsEach
  <1>6. c \in Seq(StepsOn(B)) /\ Adds(c, b, "load")
    BY <1>4, JoinDo DEF OPS
  <1> HIDE DEF c
  <1>7. /\ Len(c) = Len(ins) + Len(res) + 1
        /\ \A i \in 1 .. Len(ins) : c[i] = <<"wait", ins[i]>>
        /\ \A i \in Len(ins) + 1 .. Len(ins) + Len(res) : c[i] = <<"wait", res[i - Len(ins)]>>
        /\ c[Len(ins) + Len(res) + 1] = <<"load", "none">>
    <2>1. Adds(c, b, "load")
      BY <1>6
    <2>2. QED
      BY <1>1, <1>5, <2>1, SMTT(40) DEF Adds
  <1>8. d \in Seq(StepsOn(B)) /\ Adds(d, c, "loaded")
    BY <1>6, JoinDo DEF OPS
  <1> HIDE DEF d
  <1>9. /\ Len(d) = Len(ins) + Len(res) + 2
        /\ \A i \in 1 .. Len(ins) : d[i] = <<"wait", ins[i]>>
        /\ \A i \in Len(ins) + 1 .. Len(ins) + Len(res) : d[i] = <<"wait", res[i - Len(ins)]>>
        /\ d[Len(ins) + Len(res) + 1] = <<"load", "none">>
        /\ d[Len(ins) + Len(res) + 2] = <<"loaded", "none">>
    <2>1. Adds(d, c, "loaded")
      BY <1>8
    <2>2. QED
      BY <1>1, <1>7, <2>1, SMTT(40) DEF Adds
  <1>10. e \in Seq(StepsOn(B)) /\ Adds(e, d, "store")
    BY <1>8, JoinDo DEF OPS
  <1> HIDE DEF e
  <1>11. /\ Len(e) = Len(ins) + Len(res) + 3
         /\ \A i \in 1 .. Len(ins) : e[i] = <<"wait", ins[i]>>
         /\ \A i \in Len(ins) + 1 .. Len(ins) + Len(res) : e[i] = <<"wait", res[i - Len(ins)]>>
         /\ e[Len(ins) + Len(res) + 1] = <<"load", "none">>
         /\ e[Len(ins) + Len(res) + 2] = <<"loaded", "none">>
         /\ e[Len(ins) + Len(res) + 3] = <<"store", "none">>
    <2>1. Adds(e, d, "store")
      BY <1>10
    <2>2. QED
      BY <1>1, <1>9, <2>1, SMTT(40) DEF Adds
  <1>12. f \in Seq(StepsOn(B)) /\ Adds(f, e, "stored")
    BY <1>10, JoinDo DEF OPS
  <1> HIDE DEF f
  <1>13. /\ Len(f) = Len(ins) + Len(res) + 4
         /\ \A i \in 1 .. Len(ins) : f[i] = <<"wait", ins[i]>>
         /\ \A i \in Len(ins) + 1 .. Len(ins) + Len(res) : f[i] = <<"wait", res[i - Len(ins)]>>
         /\ f[Len(ins) + Len(res) + 1] = <<"load", "none">>
         /\ f[Len(ins) + Len(res) + 2] = <<"loaded", "none">>
         /\ f[Len(ins) + Len(res) + 3] = <<"store", "none">>
         /\ f[Len(ins) + Len(res) + 4] = <<"stored", "none">>
    <2>1. Adds(f, e, "stored")
      BY <1>12
    <2>2. QED
      BY <1>1, <1>11, <2>1, SMTT(120) DEF Adds
  <1>14. g \in Seq(StepsOn(B)) /\ AddsEach(g, f, "arrive", arr)
    BY <1>12, JoinEach DEF OPS
  <1> HIDE DEF g
  <1>15. /\ Len(g) = Len(ins) + Len(res) + Len(arr) + 4
         /\ \A i \in 1 .. Len(ins) : g[i] = <<"wait", ins[i]>>
         /\ \A i \in Len(ins) + 1 .. Len(ins) + Len(res) : g[i] = <<"wait", res[i - Len(ins)]>>
         /\ g[Len(ins) + Len(res) + 1] = <<"load", "none">>
         /\ g[Len(ins) + Len(res) + 2] = <<"loaded", "none">>
         /\ g[Len(ins) + Len(res) + 3] = <<"store", "none">>
         /\ g[Len(ins) + Len(res) + 4] = <<"stored", "none">>
         /\ \A i \in Len(ins) + Len(res) + 5 .. Len(ins) + Len(res) + Len(arr) + 4 :
                g[i] = <<"arrive", arr[i - (Len(ins) + Len(res) + 4)]>>
    <2>1. AddsEach(g, f, "arrive", arr)
      BY <1>14
    <2>2. QED
      BY <1>1, <1>13, <2>1, SMTT(120) DEF AddsEach
  <1>16. IsIncrementStorer(g, ins, res, arr)
    BY <1>15 DEF IsIncrementStorer
  <1>17. QED
    BY <1>16 DEF a, b, c, d, e, f, g

---------------------------------------------------------------------------
(* What is common to the scripts.                                          *)

WARPS == {"loader", "consumer", "storer"}
MODELLED == {"tile", "rms", "reduce", "increment"}

\* The warp that stores and arrives, and the one that loads first.
Arriver(inst) == IF inst.type = "increment" THEN "storer" ELSE "consumer"
Loader(inst) == IF inst.type \in {"tile", "rms"} THEN "loader" ELSE Arriver(inst)

Waits(inst) == Len(inst.inputs) + Len(inst.reuses)

\* Where in the scripts the first load is, where the last load is waited for,
\* where the store starts and is waited for, and after which steps the
\* arrivals come.
LoadAt(inst) ==
  IF inst.type \in {"tile", "reduce"} THEN Len(inst.inputs) + 1
  ELSE Waits(inst) + 1
LoadedAt(inst) ==
  IF inst.type = "tile" THEN 1
  ELSE IF inst.type = "rms" THEN 4
  ELSE IF inst.type = "reduce" THEN Len(inst.inputs) + 3
  ELSE Waits(inst) + 2
StoreAt(inst) ==
  IF inst.type = "tile" THEN Len(inst.reuses) + 2
  ELSE IF inst.type = "rms" THEN 3
  ELSE IF inst.type = "reduce" THEN Len(inst.inputs) + 2
  ELSE Waits(inst) + 3
StoredAt(inst) ==
  IF inst.type = "tile" THEN Len(inst.reuses) + 3
  ELSE IF inst.type = "rms" THEN 5
  ELSE IF inst.type = "reduce" THEN Len(inst.inputs) + 4
  ELSE Waits(inst) + 4
ArriveAfter(inst) ==
  IF inst.type = "reduce" THEN Waits(inst) + 4 ELSE StoredAt(inst)

\* The steps of warp w, and those that do `op`.
StepsOf(inst, w) == 1 .. Len(Script(inst, w))
Op(inst, w, i) == Script(inst, w)[i][1]

\* Warp w takes the last steps to arrive, once per arrival.
ArrivesLast(inst) ==
  /\ Len(Script(inst, Arriver(inst))) = ArriveAfter(inst) + Len(inst.arrivals)
  /\ \A j \in 1 .. Len(inst.arrivals) :
       Script(inst, Arriver(inst))[ArriveAfter(inst) + j]
         = <<"arrive", inst.arrivals[j]>>
  /\ \A w \in WARPS : \A i \in StepsOf(inst, w) :
       Op(inst, w, i) = "arrive" => w = Arriver(inst) /\ i > ArriveAfter(inst)

\* A row stores once, and arrives after that.
StoresOnce(inst) ==
  /\ \A w \in WARPS : \A i \in StepsOf(inst, w) :
       /\ Op(inst, w, i) = "store" <=> w = Arriver(inst) /\ i = StoreAt(inst)
       /\ Op(inst, w, i) = "stored" <=> w = Arriver(inst) /\ i = StoredAt(inst)
  /\ StoreAt(inst) \in 1 .. StoredAt(inst) - 1
  /\ LoadedAt(inst) \in 1 .. StoredAt(inst) - 1
  /\ StoredAt(inst) <= ArriveAfter(inst)

\* Other loads than the first are waited for by the warp that loads.
LoadsFirst(inst) ==
  /\ \A w \in WARPS : \A i \in StepsOf(inst, w) :
       Op(inst, w, i) = "load" =>
         \/ w = Loader(inst) /\ i = LoadAt(inst)
         \/ /\ w = Arriver(inst) /\ i > 1 /\ i < LoadedAt(inst)
            /\ Op(inst, w, 1) = "loaded"
  /\ Op(inst, Arriver(inst), LoadedAt(inst)) = "loaded"
  /\ LoadAt(inst) >= 1

\* A row does not store before it has begun to load.
StoreFollowsLoad(inst) ==
  \/ Loader(inst) = Arriver(inst) /\ LoadAt(inst) < StoreAt(inst)
  \/ \E i \in 1 .. StoreAt(inst) - 1 : Op(inst, Arriver(inst), i) = "loaded"

\* Nor does it load before it has waited for its data.
InputsBeforeLoad(inst) ==
  \A x \in 1 .. Len(inst.inputs) : \E i \in 1 .. LoadAt(inst) - 1 :
    Script(inst, Loader(inst))[i] = <<"wait", inst.inputs[x]>>

\* A reduction waits for the reuse barriers when it has stored.
ReusesBeforeStore(inst) ==
  \/ inst.type = "reduce" /\ inst.reuses # << >>
  \/ \A x \in 1 .. Len(inst.reuses) :
       \/ \E i \in 1 .. LoadAt(inst) - 1 :
            Script(inst, Loader(inst))[i] = <<"wait", inst.reuses[x]>>
       \/ \E i \in 1 .. StoreAt(inst) - 1 :
            Script(inst, Arriver(inst))[i] = <<"wait", inst.reuses[x]>>

GoodScript(inst) ==
  /\ ArrivesLast(inst) /\ StoresOnce(inst) /\ LoadsFirst(inst)
  /\ StoreFollowsLoad(inst) /\ InputsBeforeLoad(inst) /\ ReusesBeforeStore(inst)

\* The tile ops store once and arrive last, after their waits.
LEMMA TileScript ==
  ASSUME NEW B, NEW inst, Typed(inst, B), inst.type = "tile"
  PROVE  GoodScript(inst)
  <1> DEFINE L == Script(inst, "loader")
             C == Script(inst, "consumer")
             ins == inst.inputs
             res == inst.reuses
             arr == inst.arrivals
  <1>1. IsTileLoader(L, ins)
    BY TileLoaderShape DEF Script, TileLoader, InputWaits, Typed
  <1>2. IsTileConsumer(C, res, arr)
    BY TileConsumerShape DEF Script, TileConsumer, ReuseWaits, Arrives, Typed
  <1>3. Script(inst, "storer") = << >>
    BY DEF Script
  <1>4. /\ Arriver(inst) = "consumer" /\ Loader(inst) = "loader"
        /\ LoadAt(inst) = Len(ins) + 1 /\ LoadedAt(inst) = 1
        /\ StoreAt(inst) = Len(res) + 2 /\ StoredAt(inst) = Len(res) + 3
        /\ ArriveAfter(inst) = Len(res) + 3
    BY DEF Arriver, Loader, LoadAt, LoadedAt, StoreAt, StoredAt, ArriveAfter
  <1>5. Len(ins) \in Nat /\ Len(res) \in Nat /\ Len(arr) \in Nat
    BY DEF Typed
  <1>6. inst.type # "reduce"
    OBVIOUS
  <1> HIDE DEF L, C, ins, res, arr
  <1>7. \A k \in 1 .. Len(L) :
          L[k][1] = IF k <= Len(ins) THEN "wait" ELSE "load"
    BY <1>1, <1>5 DEF IsTileLoader
  <1>8. \A k \in 1 .. Len(C) :
          C[k][1] = IF k = 1 THEN "loaded"
                    ELSE IF k <= Len(res) + 1 THEN "wait"
                    ELSE IF k = Len(res) + 2 THEN "store"
                    ELSE IF k = Len(res) + 3 THEN "stored" ELSE "arrive"
    BY <1>2, <1>5 DEF IsTileConsumer
  <1>9. Len(L) = Len(ins) + 1 /\ Len(C) = Len(res) + Len(arr) + 3
    BY <1>1, <1>2 DEF IsTileLoader, IsTileConsumer
  <1>10. ASSUME NEW w \in WARPS, NEW k \in StepsOf(inst, w)
         PROVE  \/ w = "loader" /\ k \in 1 .. Len(L) /\ Op(inst, w, k) = L[k][1]
                \/ w = "consumer" /\ k \in 1 .. Len(C) /\ Op(inst, w, k) = C[k][1]
    BY <1>3 DEF WARPS, StepsOf, Op, L, C
  <1>11. ArrivesLast(inst)
    <2>1. Len(C) = ArriveAfter(inst) + Len(arr)
      BY <1>4, <1>5, <1>9
    <2>2. \A j \in 1 .. Len(arr) : C[ArriveAfter(inst) + j] = <<"arrive", arr[j]>>
      BY <1>2, <1>4, <1>5 DEF IsTileConsumer
    <2>3. ASSUME NEW w \in WARPS, NEW k \in StepsOf(inst, w), Op(inst, w, k) = "arrive"
          PROVE  w = "consumer" /\ k > Len(res) + 3
      BY <1>5, <1>7, <1>8, <1>10, <2>3
    <2>4. QED
      BY <1>4, <2>1, <2>2, <2>3 DEF ArrivesLast, C, arr
  <1>12. StoresOnce(inst)
    <2>1. ASSUME NEW w \in WARPS, NEW k \in StepsOf(inst, w)
          PROVE  /\ Op(inst, w, k) = "store" <=> w = "consumer" /\ k = Len(res) + 2
                 /\ Op(inst, w, k) = "stored" <=> w = "consumer" /\ k = Len(res) + 3
      BY <1>5, <1>7, <1>8, <1>10
    <2>2. QED
      BY <1>4, <1>5, <2>1 DEF StoresOnce
  <1>13. LoadsFirst(inst)
    <2>1. ASSUME NEW w \in WARPS, NEW k \in StepsOf(inst, w), Op(inst, w, k) = "load"
          PROVE  w = "loader" /\ k = Len(ins) + 1
      BY <1>5, <1>7, <1>8, <1>9, <1>10, <2>1
    <2>2. C[1][1] = "loaded"
      BY <1>2 DEF IsTileConsumer
    <2>3. QED
      BY <1>4, <1>5, <2>1, <2>2 DEF LoadsFirst, C, Op
  <1>14. StoreFollowsLoad(inst)
    <2>1. C[1][1] = "loaded" /\ 1 \in 1 .. StoreAt(inst) - 1
      BY <1>2, <1>4, <1>5 DEF IsTileConsumer
    <2>2. QED
      BY <1>4, <2>1 DEF StoreFollowsLoad, Op, C
  <1>15. InputsBeforeLoad(inst)
    <2>1. ASSUME NEW x \in 1 .. Len(ins)
          PROVE  x \in 1 .. LoadAt(inst) - 1 /\ L[x] = <<"wait", ins[x]>>
      BY <1>1, <1>4, <1>5 DEF IsTileLoader
    <2>2. QED
      BY <1>4, <2>1 DEF InputsBeforeLoad, L, ins
  <1>16. ReusesBeforeStore(inst)
    <2>1. ASSUME NEW x \in 1 .. Len(res)
          PROVE  x + 1 \in 1 .. StoreAt(inst) - 1 /\ C[x + 1] = <<"wait", res[x]>>
      BY <1>2, <1>4, <1>5 DEF IsTileConsumer
    <2>2. QED
      BY <1>4, <2>1 DEF ReusesBeforeStore, C, res
  <1>17. QED
    BY <1>11, <1>12, <1>13, <1>14, <1>15, <1>16 DEF GoodScript
\* So does the RMS norm, whose loader waits for everything.
LEMMA RmsScript ==
  ASSUME NEW B, NEW inst, Typed(inst, B), inst.type = "rms"
  PROVE  GoodScript(inst)
  <1> DEFINE L == Script(inst, "loader")
             C == Script(inst, "consumer")
             ins == inst.inputs
             res == inst.reuses
             arr == inst.arrivals
  <1>1. IsRmsLoader(L, ins, res)
    BY RmsLoaderShape DEF Script, RmsLoader, InputWaits, ReuseWaits, Typed
  <1>2. IsRmsConsumer(C, arr)
    BY RmsConsumerShape DEF Script, RmsConsumer, Arrives, Typed
  <1>3. Script(inst, "storer") = << >>
    BY DEF Script
  <1>4. /\ Arriver(inst) = "consumer" /\ Loader(inst) = "loader"
        /\ LoadAt(inst) = Len(ins) + Len(res) + 1 /\ LoadedAt(inst) = 4
        /\ StoreAt(inst) = 3 /\ StoredAt(inst) = 5 /\ ArriveAfter(inst) = 5
    BY DEF Arriver, Loader, LoadAt, LoadedAt, StoreAt, StoredAt, ArriveAfter, Waits
  <1>5. Len(ins) \in Nat /\ Len(res) \in Nat /\ Len(arr) \in Nat
    BY DEF Typed
  <1> HIDE DEF L, C, ins, res, arr
  <1>7. \A k \in 1 .. Len(L) :
          L[k][1] = IF k <= Len(ins) + Len(res) THEN "wait" ELSE "load"
    <2>1. ASSUME NEW k \in 1 .. Len(L), k <= Len(ins) PROVE L[k][1] = "wait"
      BY <1>1, <1>5, <2>1 DEF IsRmsLoader
    <2>2. ASSUME NEW k \in 1 .. Len(L), k > Len(ins), k <= Len(ins) + Len(res)
          PROVE  L[k][1] = "wait"
      BY <1>1, <1>5, <2>2 DEF IsRmsLoader
    <2>3. ASSUME NEW k \in 1 .. Len(L), k > Len(ins) + Len(res)
          PROVE  L[k][1] = "load"
      <3>1. k = Len(ins) + Len(res) + 1
        BY <1>1, <1>5, <2>3 DEF IsRmsLoader
      <3>2. QED
        BY <1>1, <3>1 DEF IsRmsLoader
    <2>4. QED
      BY <1>5, <2>1, <2>2, <2>3
  <1>8. \A k \in 1 .. Len(C) :
          C[k][1] = IF k \in {1, 4} THEN "loaded"
                    ELSE IF k = 2 THEN "load"
                    ELSE IF k = 3 THEN "store"
                    ELSE IF k = 5 THEN "stored" ELSE "arrive"
    BY <1>2, <1>5 DEF IsRmsConsumer
  <1>9. Len(L) = Len(ins) + Len(res) + 1 /\ Len(C) = Len(arr) + 5
    BY <1>1, <1>2 DEF IsRmsLoader, IsRmsConsumer
  <1>10. ASSUME NEW w \in WARPS, NEW k \in StepsOf(inst, w)
         PROVE  \/ w = "loader" /\ k \in 1 .. Len(L) /\ Op(inst, w, k) = L[k][1]
                \/ w = "consumer" /\ k \in 1 .. Len(C) /\ Op(inst, w, k) = C[k][1]
    BY <1>3 DEF WARPS, StepsOf, Op, L, C
  <1>11. ArrivesLast(inst)
    <2>1. Len(C) = ArriveAfter(inst) + Len(arr)
      BY <1>4, <1>5, <1>9
    <2>2. \A j \in 1 .. Len(arr) : C[ArriveAfter(inst) + j] = <<"arrive", arr[j]>>
      BY <1>2, <1>4, <1>5 DEF IsRmsConsumer
    <2>3. ASSUME NEW w \in WARPS, NEW k \in StepsOf(inst, w), Op(inst, w, k) = "arrive"
          PROVE  w = "consumer" /\ k > 5
      BY <1>5, <1>7, <1>8, <1>10, <2>3
    <2>4. QED
      BY <1>4, <2>1, <2>2, <2>3 DEF ArrivesLast, C, arr
  <1>12. StoresOnce(inst)
    <2>1. ASSUME NEW w \in WARPS, NEW k \in StepsOf(inst, w)
          PROVE  /\ Op(inst, w, k) = "store" <=> w = "consumer" /\ k = 3
                 /\ Op(inst, w, k) = "stored" <=> w = "consumer" /\ k = 5
      BY <1>5, <1>7, <1>8, <1>10, SMTT(30)
    <2>2. QED
      BY <1>4, <1>5, <2>1 DEF StoresOnce
  <1>13. LoadsFirst(inst)
    <2>1. ASSUME NEW w \in WARPS, NEW k \in StepsOf(inst, w), Op(inst, w, k) = "load"
          PROVE  \/ w = "loader" /\ k = Len(ins) + Len(res) + 1
                 \/ w = "consumer" /\ k = 2
      <3>1. CASE w = "loader"
        <4>1. k \in 1 .. Len(L) /\ L[k][1] = "load"
          BY <1>10, <2>1, <3>1
        <4>2. CASE k <= Len(ins) + Len(res)
          BY <1>5, <1>7, <4>1, <4>2
        <4>3. QED
          BY <1>5, <1>9, <3>1, <4>1, <4>2
      <3>2. CASE w = "consumer"
        <4>1. k \in 1 .. Len(C) /\ C[k][1] = "load"
          BY <1>10, <2>1, <3>2
        <4>2. QED
          BY <1>8, <3>2, <4>1
      <3>3. QED
        BY <1>10, <3>1, <3>2
    <2>2. C[1][1] = "loaded" /\ C[4][1] = "loaded"
      BY <1>2 DEF IsRmsConsumer
    <2>3. QED
      BY <1>4, <1>5, <2>1, <2>2 DEF LoadsFirst, C, Op
  <1>14. StoreFollowsLoad(inst)
    <2>1. C[1][1] = "loaded" /\ 1 \in 1 .. StoreAt(inst) - 1
      BY <1>2, <1>4, <1>5 DEF IsRmsConsumer
    <2>2. QED
      BY <1>4, <2>1 DEF StoreFollowsLoad, Op, C
  <1>15. InputsBeforeLoad(inst)
    <2>1. ASSUME NEW x \in 1 .. Len(ins)
          PROVE  x \in 1 .. LoadAt(inst) - 1 /\ L[x] = <<"wait", ins[x]>>
      BY <1>1, <1>4, <1>5 DEF IsRmsLoader
    <2>2. QED
      BY <1>4, <2>1 DEF InputsBeforeLoad, L, ins
  <1>16. ReusesBeforeStore(inst)
    <2>1. ASSUME NEW x \in 1 .. Len(res)
          PROVE  /\ Len(ins) + x \in 1 .. LoadAt(inst) - 1
                 /\ L[Len(ins) + x] = <<"wait", res[x]>>
      BY <1>1, <1>4, <1>5, SMTT(30) DEF IsRmsLoader
    <2>2. QED
      BY <1>4, <2>1 DEF ReusesBeforeStore, L, res
  <1>17. QED
    BY <1>11, <1>12, <1>13, <1>14, <1>15, <1>16 DEF GoodScript

\* So does the reduction, but for its reuse barriers.
LEMMA ReduceScript ==
  ASSUME NEW B, NEW inst, Typed(inst, B), inst.type = "reduce"
  PROVE  GoodScript(inst)
  <1> DEFINE C == Script(inst, "consumer")
             ins == inst.inputs
             res == inst.reuses
             arr == inst.arrivals
             n == Len(ins)
             m == Len(res)
  <1>1. IsReduceConsumer(C, ins, res, arr)
    BY ReduceConsumerShape DEF Script, ReduceConsumer, InputWaits, ReuseWaits, Arrives, Typed
  <1>2. Script(inst, "loader") = << >> /\ Script(inst, "storer") = << >>
    BY DEF Script
  <1>3. /\ Arriver(inst) = "consumer" /\ Loader(inst) = "consumer"
        /\ LoadAt(inst) = n + 1 /\ LoadedAt(inst) = n + 3
        /\ StoreAt(inst) = n + 2 /\ StoredAt(inst) = n + 4 /\ ArriveAfter(inst) = n + m + 4
    BY DEF Arriver, Loader, LoadAt, LoadedAt, StoreAt, StoredAt, ArriveAfter, Waits
  <1>4. n \in Nat /\ m \in Nat /\ Len(arr) \in Nat
    BY DEF Typed
  <1>5. inst.type = "reduce"
    OBVIOUS
  <1> HIDE DEF C, ins, res, arr, n, m
  <1>6. Len(C) = n + m + Len(arr) + 4
    BY <1>1 DEF IsReduceConsumer, n, m
  <1>7. \A k \in 1 .. Len(C) :
          C[k][1] = IF k <= n THEN "wait" ELSE IF k = n + 1 THEN "load"
                    ELSE IF k = n + 2 THEN "store" ELSE IF k = n + 3 THEN "loaded"
                    ELSE IF k = n + 4 THEN "stored"
                    ELSE IF k <= n + m + 4 THEN "wait" ELSE "arrive"
    <2>1. ASSUME NEW k \in 1 .. Len(C), k <= n PROVE C[k][1] = "wait"
      BY <1>1, <1>4, <1>6, <2>1 DEF IsReduceConsumer, n, m
    <2>2. ASSUME NEW k \in 1 .. Len(C), k = n + 1 PROVE C[k][1] = "load"
      BY <1>1, <1>4, <1>6, <2>2 DEF IsReduceConsumer, n, m
    <2>3. ASSUME NEW k \in 1 .. Len(C), k = n + 2 PROVE C[k][1] = "store"
      BY <1>1, <1>4, <1>6, <2>3 DEF IsReduceConsumer, n, m
    <2>4. ASSUME NEW k \in 1 .. Len(C), k = n + 3 PROVE C[k][1] = "loaded"
      BY <1>1, <1>4, <1>6, <2>4 DEF IsReduceConsumer, n, m
    <2>5. ASSUME NEW k \in 1 .. Len(C), k = n + 4 PROVE C[k][1] = "stored"
      BY <1>1, <1>4, <1>6, <2>5 DEF IsReduceConsumer, n, m
    <2>6. ASSUME NEW k \in 1 .. Len(C), k > n + 4, k <= n + m + 4 PROVE C[k][1] = "wait"
      BY <1>1, <1>4, <1>6, <2>6 DEF IsReduceConsumer, n, m
    <2>7. ASSUME NEW k \in 1 .. Len(C), k > n + m + 4 PROVE C[k][1] = "arrive"
      BY <1>1, <1>4, <1>6, <2>7, SMTT(30) DEF IsReduceConsumer, n, m
    <2>8. QED
      BY <1>4, <1>6, <2>1, <2>2, <2>3, <2>4, <2>5, <2>6, <2>7
  <1>8. ASSUME NEW w \in WARPS, NEW k \in StepsOf(inst, w)
        PROVE  w = "consumer" /\ k \in 1 .. Len(C) /\ Op(inst, w, k) = C[k][1]
    BY <1>2 DEF WARPS, StepsOf, Op, C
  <1>9. ArrivesLast(inst)
    <2>1. Len(C) = ArriveAfter(inst) + Len(arr)
      BY <1>3, <1>4, <1>6
    <2>2. \A j \in 1 .. Len(arr) : C[ArriveAfter(inst) + j] = <<"arrive", arr[j]>>
      BY <1>1, <1>3, <1>4 DEF IsReduceConsumer, n, m
    <2>3. ASSUME NEW w \in WARPS, NEW k \in StepsOf(inst, w), Op(inst, w, k) = "arrive"
          PROVE  w = "consumer" /\ k > n + m + 4
      <3>1. w = "consumer" /\ k \in 1 .. Len(C) /\ C[k][1] = "arrive"
        BY <1>8, <2>3
      <3>2. CASE k <= n + m + 4
        BY <1>4, <1>7, <3>1, <3>2
      <3>3. QED
        BY <1>4, <3>1, <3>2
    <2>4. QED
      BY <1>3, <2>1, <2>2, <2>3 DEF ArrivesLast, C, arr
  <1>10. StoresOnce(inst)
    <2>1. ASSUME NEW w \in WARPS, NEW k \in StepsOf(inst, w)
          PROVE  /\ Op(inst, w, k) = "store" <=> w = "consumer" /\ k = n + 2
                 /\ Op(inst, w, k) = "stored" <=> w = "consumer" /\ k = n + 4
      BY <1>4, <1>7, <1>8, SMTT(30)
    <2>2. QED
      BY <1>3, <1>4, <2>1 DEF StoresOnce
  <1>11. LoadsFirst(inst)
    <2>1. ASSUME NEW w \in WARPS, NEW k \in StepsOf(inst, w), Op(inst, w, k) = "load"
          PROVE  w = "consumer" /\ k = n + 1
      BY <1>4, <1>7, <1>8, <2>1
    <2>2. C[n + 3][1] = "loaded"
      BY <1>1, <1>4 DEF IsReduceConsumer, n
    <2>3. QED
      BY <1>3, <1>4, <2>1, <2>2 DEF LoadsFirst, C, Op
  <1>12. StoreFollowsLoad(inst)
    BY <1>3, <1>4 DEF StoreFollowsLoad
  <1>13. InputsBeforeLoad(inst)
    <2>1. ASSUME NEW x \in 1 .. n
          PROVE  x \in 1 .. LoadAt(inst) - 1 /\ C[x] = <<"wait", ins[x]>>
      BY <1>1, <1>3, <1>4 DEF IsReduceConsumer, n
    <2>2. QED
      BY <1>3, <2>1 DEF InputsBeforeLoad, C, ins, n
  <1>14. ReusesBeforeStore(inst)
    <2>1. CASE res = << >>
      <3>1. Len(res) = 0
        BY <2>1
      <3>2. QED
        BY <3>1 DEF ReusesBeforeStore, res
    <2>2. CASE res # << >>
      BY <1>5, <2>2 DEF ReusesBeforeStore, res
    <2>3. QED
      BY <2>1, <2>2
  <1>15. QED
    BY <1>9, <1>10, <1>11, <1>12, <1>13, <1>14 DEF GoodScript

\* So does the increment, in one warp.
LEMMA IncrementScript ==
  ASSUME NEW B, NEW inst, Typed(inst, B), inst.type = "increment"
  PROVE  GoodScript(inst)
  <1> DEFINE C == Script(inst, "storer")
             ins == inst.inputs
             res == inst.reuses
             arr == inst.arrivals
             n == Len(ins)
             m == Len(res)
  <1>1. IsIncrementStorer(C, ins, res, arr)
    BY IncrementStorerShape DEF Script, IncrementStorer, InputWaits, ReuseWaits, Arrives, Typed
  <1>2. Script(inst, "loader") = << >> /\ Script(inst, "consumer") = << >>
    BY DEF Script
  <1>3. /\ Arriver(inst) = "storer" /\ Loader(inst) = "storer"
        /\ LoadAt(inst) = n + m + 1 /\ LoadedAt(inst) = n + m + 2
        /\ StoreAt(inst) = n + m + 3 /\ StoredAt(inst) = n + m + 4 /\ ArriveAfter(inst) = n + m + 4
    BY DEF Arriver, Loader, LoadAt, LoadedAt, StoreAt, StoredAt, ArriveAfter, Waits
  <1>4. n \in Nat /\ m \in Nat /\ Len(arr) \in Nat
    BY DEF Typed
  <1>5. inst.type = "increment"
    OBVIOUS
  <1> HIDE DEF C, ins, res, arr, n, m
  <1>6. Len(C) = n + m + Len(arr) + 4
    BY <1>1 DEF IsIncrementStorer, n, m
  <1>7. \A k \in 1 .. Len(C) :
          C[k][1] = IF k <= n + m THEN "wait" ELSE IF k = n + m + 1 THEN "load"
                    ELSE IF k = n + m + 2 THEN "loaded"
                    ELSE IF k = n + m + 3 THEN "store"
                    ELSE IF k = n + m + 4 THEN "stored" ELSE "arrive"
    <2>1. ASSUME NEW k \in 1 .. Len(C), k <= n PROVE C[k][1] = "wait"
      BY <1>1, <1>4, <1>6, <2>1 DEF IsIncrementStorer, n, m
    <2>2. ASSUME NEW k \in 1 .. Len(C), k > n, k <= n + m PROVE C[k][1] = "wait"
      BY <1>1, <1>4, <1>6, <2>2 DEF IsIncrementStorer, n, m
    <2>3. ASSUME NEW k \in 1 .. Len(C), k = n + m + 1 PROVE C[k][1] = "load"
      BY <1>1, <1>4, <1>6, <2>3 DEF IsIncrementStorer, n, m
    <2>4. ASSUME NEW k \in 1 .. Len(C), k = n + m + 2 PROVE C[k][1] = "loaded"
      BY <1>1, <1>4, <1>6, <2>4 DEF IsIncrementStorer, n, m
    <2>5. ASSUME NEW k \in 1 .. Len(C), k = n + m + 3 PROVE C[k][1] = "store"
      BY <1>1, <1>4, <1>6, <2>5 DEF IsIncrementStorer, n, m
    <2>6. ASSUME NEW k \in 1 .. Len(C), k = n + m + 4 PROVE C[k][1] = "stored"
      BY <1>1, <1>4, <1>6, <2>6 DEF IsIncrementStorer, n, m
    <2>7. ASSUME NEW k \in 1 .. Len(C), k > n + m + 4 PROVE C[k][1] = "arrive"
      BY <1>1, <1>4, <1>6, <2>7 DEF IsIncrementStorer, n, m
    <2>8. QED
      BY <1>4, <1>6, <2>1, <2>2, <2>3, <2>4, <2>5, <2>6, <2>7
  <1>8. ASSUME NEW w \in WARPS, NEW k \in StepsOf(inst, w)
        PROVE  w = "storer" /\ k \in 1 .. Len(C) /\ Op(inst, w, k) = C[k][1]
    BY <1>2 DEF WARPS, StepsOf, Op, C
  <1>9. ArrivesLast(inst)
    <2>1. Len(C) = ArriveAfter(inst) + Len(arr)
      BY <1>3, <1>4, <1>6
    <2>2. \A j \in 1 .. Len(arr) : C[ArriveAfter(inst) + j] = <<"arrive", arr[j]>>
      BY <1>1, <1>3, <1>4 DEF IsIncrementStorer, n, m
    <2>3. ASSUME NEW w \in WARPS, NEW k \in StepsOf(inst, w), Op(inst, w, k) = "arrive"
          PROVE  w = "storer" /\ k > n + m + 4
      <3>1. w = "storer" /\ k \in 1 .. Len(C) /\ C[k][1] = "arrive"
        BY <1>8, <2>3
      <3>2. CASE k <= n + m + 4
        BY <1>4, <1>7, <3>1, <3>2
      <3>3. QED
        BY <1>4, <3>1, <3>2
    <2>4. QED
      BY <1>3, <2>1, <2>2, <2>3 DEF ArrivesLast, C, arr
  <1>10. StoresOnce(inst)
    <2>1. ASSUME NEW w \in WARPS, NEW k \in StepsOf(inst, w)
          PROVE  /\ Op(inst, w, k) = "store" <=> w = "storer" /\ k = n + m + 3
                 /\ Op(inst, w, k) = "stored" <=> w = "storer" /\ k = n + m + 4
      BY <1>4, <1>7, <1>8
    <2>2. QED
      BY <1>3, <1>4, <2>1 DEF StoresOnce
  <1>11. LoadsFirst(inst)
    <2>1. ASSUME NEW w \in WARPS, NEW k \in StepsOf(inst, w), Op(inst, w, k) = "load"
          PROVE  w = "storer" /\ k = n + m + 1
      BY <1>4, <1>7, <1>8, <2>1
    <2>2. C[n + m + 2][1] = "loaded"
      BY <1>4, <1>6, <1>7
    <2>3. QED
      BY <1>3, <1>4, <2>1, <2>2 DEF LoadsFirst, C, Op
  <1>12. StoreFollowsLoad(inst)
    BY <1>3, <1>4 DEF StoreFollowsLoad
  <1>13. InputsBeforeLoad(inst)
    <2>1. ASSUME NEW x \in 1 .. n
          PROVE  x \in 1 .. LoadAt(inst) - 1 /\ C[x] = <<"wait", ins[x]>>
      BY <1>1, <1>3, <1>4 DEF IsIncrementStorer, n
    <2>2. QED
      BY <1>3, <2>1 DEF InputsBeforeLoad, C, ins, n
  <1>14. ReusesBeforeStore(inst)
    <2>1. ASSUME NEW x \in 1 .. m
          PROVE  n + x \in 1 .. LoadAt(inst) - 1 /\ C[n + x] = <<"wait", res[x]>>
      <3>1. n + x \in n + 1 .. n + m /\ (n + x) - n = x
        BY <1>4
      <3>2. \A i \in n + 1 .. n + m : C[i] = <<"wait", res[i - n]>>
        BY <1>1 DEF IsIncrementStorer, n, m
      <3>3. C[n + x] = <<"wait", res[(n + x) - n]>>
        BY <3>1, <3>2
      <3>4. n + x \in 1 .. LoadAt(inst) - 1
        BY <1>3, <1>4
      <3>5. QED
        BY <3>1, <3>3, <3>4
    <2>2. QED
      BY <1>3, <2>1 DEF ReusesBeforeStore, C, res, m
  <1>15. QED
    BY <1>9, <1>10, <1>11, <1>12, <1>13, <1>14 DEF GoodScript

\* What the proofs need of the op kernels, whichever it is.
LEMMA EveryScript ==
  ASSUME NEW B, NEW inst, Typed(inst, B), inst.type \in MODELLED
  PROVE  GoodScript(inst)
  BY TileScript, RmsScript, ReduceScript, IncrementScript DEF MODELLED

\* A script is a sequence of steps on the program's barriers.
LEMMA ScriptSeq ==
  ASSUME NEW B, NEW inst, Typed(inst, B), NEW w
  PROVE  Script(inst, w) \in Seq(StepsOn(B))
  <1> DEFINE S == StepsOn(B)
             a == InputWaits(inst)
             b == ReuseWaits(inst)
             c == Arrives(inst)
  <1>1. a \in Seq(S) /\ b \in Seq(S) /\ c \in Seq(S)
    BY EachIsSeq DEF Typed, OPS, InputWaits, ReuseWaits, Arrives
  <1>2. /\ Do("load") \in Seq(S) /\ Do("loaded") \in Seq(S)
        /\ Do("store") \in Seq(S) /\ Do("stored") \in Seq(S)
    BY DoIsSeq DEF OPS
  <1> HIDE DEF S, a, b, c
  <1>3. TileLoader(inst) \in Seq(S) /\ TileConsumer(inst) \in Seq(S)
    BY <1>1, <1>2 DEF TileLoader, TileConsumer, a, b, c
  <1>4. RmsLoader(inst) \in Seq(S) /\ RmsConsumer(inst) \in Seq(S)
    BY <1>1, <1>2 DEF RmsLoader, RmsConsumer, a, b, c
  <1>5. ReduceConsumer(inst) \in Seq(S) /\ IncrementStorer(inst) \in Seq(S)
    BY <1>1, <1>2 DEF ReduceConsumer, IncrementStorer, a, b, c
  <1>6. << >> \in Seq(S)
    OBVIOUS
  <1>7. Script(inst, w) \in Seq(S)
    BY <1>3, <1>4, <1>5, <1>6, Zenon DEF Script
  <1>8. QED
    BY <1>7 DEF S

\* A Noop does nothing in any warp.
LEMMA NoopScript ==
  ASSUME NEW inst, inst.type = "noop", NEW w
  PROVE  Script(inst, w) = << >>
  BY DEF Script

---------------------------------------------------------------------------
(* How the SMs of Megakernel go through the rows: every row falls to one   *)
(* SM (statically, or by a claim of its cluster), whose warps take the     *)
(* steps of their scripts in order, each once, and all of them before the  *)
(* kernel returns.  Taken is the set of steps that have been taken.        *)

Prog == Programs[graph]

\* A row of a claim falls on rank 0 of the cluster.
Aligned(r) == (r - 1) % CLUSTER_SIZE = 0

ClaimsDistinct ==
  \A c, d \in CLUSTERS : \A m \in DOMAIN claimed[c], n \in DOMAIN claimed[d] :
    claimed[c][m] = claimed[d][n] => c = d /\ m = n

ClaimInv ==
  /\ claimed \in [CLUSTERS -> Seq(Nat)]
  /\ next \in 0 .. Len(Rows) /\ next % CLUSTER_SIZE = 0
  /\ \A c \in CLUSTERS : \A n \in DOMAIN claimed[c] :
       claimed[c][n] >= 1 /\ Aligned(claimed[c][n])
  /\ ClaimsDistinct

\* With a work queue the clusters have claimed the rows up to `next`.
QueueInv ==
  GLOBAL_WORK_QUEUE =>
    /\ \A c \in CLUSTERS :
         /\ Len(claimed[c]) <= next
         /\ \A n \in DOMAIN claimed[c] : claimed[c][n] <= next
    /\ phase # "created" =>
         \A r \in 1 .. next :
           Aligned(r) => \E c \in CLUSTERS : \E n \in DOMAIN claimed[c] :
                           claimed[c][n] = r

StaticInv ==
  ~GLOBAL_WORK_QUEUE =>
    IF phase = "created" THEN \A c \in CLUSTERS : claimed[c] = << >>
    ELSE \A c \in CLUSTERS : claimed[c] = StaticRows(c)

\* A warp that has begun an instruction has been issued it.
PlaceInv ==
  /\ retired \in [SMS -> [WORKERS -> Nat]]
  /\ step \in [SMS -> [WORKERS -> Nat]]
  /\ \A sm \in SMS, w \in WORKERS :
       /\ retired[sm][w] <= Len(claimed[ClusterOf(sm)])
       /\ step[sm][w] > 0 =>
            /\ retired[sm][w] < Len(claimed[ClusterOf(sm)])
            /\ step[sm][w] <= Len(Steps(sm, w))

PhaseInv ==
  /\ graph \in DOMAIN GRAPHS /\ Accepted(graph)
  /\ phase \in {"created", "running", "returned"}
  /\ phase = "returned" =>
       /\ GLOBAL_WORK_QUEUE => next >= Len(Rows)
       /\ \A sm \in SMS, w \in WORKERS :
            retired[sm][w] = Len(claimed[ClusterOf(sm)])

ControlInv == ClaimInv /\ QueueInv /\ StaticInv /\ PlaceInv /\ PhaseInv

---------------------------------------------------------------------------
\* Division with remainder.
LEMMA Division ==
  ASSUME NEW a \in Nat, NEW b \in Nat \ {0}
  PROVE  \E q \in Nat, r \in 0 .. b - 1 :
           q = a \div b /\ r = a % b /\ a = b * q + r
  <1>1. PICK q \in Nat : q = a \div b
    OBVIOUS
  <1>2. PICK r \in 0 .. b - 1 : r = a % b
    OBVIOUS
  <1>3. a = b * q + r
    BY <1>1, <1>2
  <1>4. QED
    BY <1>1, <1>2, <1>3

\* An even number is twice another.
LEMMA Even ==
  ASSUME NEW a \in Nat, a % 2 = 0
  PROVE  \E q \in Nat : a = 2 * q
  <1>1. PICK q \in Nat, r \in 0 .. 2 - 1 :
          q = a \div 2 /\ r = a % 2 /\ a = 2 * q + r
    BY Division
  <1>2. QED
    BY <1>1

\* Every SM is a rank of a cluster of the grid.
LEMMA Places ==
  ASSUME NEW sm \in SMS
  PROVE  /\ ClusterOf(sm) \in CLUSTERS
         /\ \E i \in 0 .. CLUSTER_SIZE - 1 :
              /\ i = sm % CLUSTER_SIZE
              /\ sm = CLUSTER_SIZE * ClusterOf(sm) + i
  <1>1. sm \in Nat /\ CLUSTER_SIZE \in Nat \ {0}
    BY SchedulingAssumption DEF SMS
  <1>2. PICK q \in Nat, i \in 0 .. CLUSTER_SIZE - 1 :
          /\ q = sm \div CLUSTER_SIZE /\ i = sm % CLUSTER_SIZE
          /\ sm = CLUSTER_SIZE * q + i
    BY <1>1, Division
  <1>3. ClusterOf(sm) \in CLUSTERS
    <2>1. CASE CLUSTER_SIZE = 1
      BY <2>1, SchedulingAssumption DEF SMS, CLUSTERS, ClusterOf
    <2>2. CASE CLUSTER_SIZE = 2
      BY <2>2, SchedulingAssumption DEF SMS, CLUSTERS, ClusterOf
    <2>3. QED
      BY <2>1, <2>2, SchedulingAssumption
  <1>4. q = ClusterOf(sm)
    BY <1>2 DEF ClusterOf
  <1>5. QED
    BY <1>2, <1>3, <1>4

\* The SMs of a cluster are all on the machine.
LEMMA ClusterRoom ==
  ASSUME NEW c \in CLUSTERS
  PROVE  c \in Nat /\ c * CLUSTER_SIZE + CLUSTER_SIZE <= SM_COUNT
  <1>1. CASE CLUSTER_SIZE = 1
    BY <1>1, SchedulingAssumption DEF CLUSTERS
  <1>2. CASE CLUSTER_SIZE = 2
    BY <1>2, SchedulingAssumption DEF CLUSTERS
  <1>3. QED
    BY <1>1, <1>2, SchedulingAssumption

\* No row falls to two SMs, or twice to one.
LEMMA RowUnique ==
  ASSUME ClaimInv, NEW a \in SMS, NEW b \in SMS,
         NEW m \in DOMAIN claimed[ClusterOf(a)],
         NEW n \in DOMAIN claimed[ClusterOf(b)], RowOf(a, m) = RowOf(b, n)
  PROVE  a = b /\ m = n
  <1> DEFINE c == ClusterOf(a)
             d == ClusterOf(b)
  <1>1. PICK i \in 0 .. CLUSTER_SIZE - 1 :
          c \in CLUSTERS /\ i = a % CLUSTER_SIZE /\ a = CLUSTER_SIZE * c + i
    BY Places
  <1>2. PICK j \in 0 .. CLUSTER_SIZE - 1 :
          d \in CLUSTERS /\ j = b % CLUSTER_SIZE /\ b = CLUSTER_SIZE * d + j
    BY Places
  <1>3. PICK x \in Nat : x = claimed[c][m] /\ x >= 1 /\ Aligned(x)
    BY <1>1 DEF ClaimInv
  <1>4. PICK y \in Nat : y = claimed[d][n] /\ y >= 1 /\ Aligned(y)
    BY <1>2 DEF ClaimInv
  <1>7. x + i = y + j
    BY <1>1, <1>2, <1>3, <1>4 DEF RowOf
  <1>8. x = y /\ i = j
    <2>1. CASE CLUSTER_SIZE = 1
      BY <1>7, <2>1
    <2>2. CASE CLUSTER_SIZE = 2
      <3>1. PICK u \in Nat : u = x - 1 /\ u % 2 = 0
        BY <1>3, <2>2 DEF Aligned
      <3>2. PICK v \in Nat : v = y - 1 /\ v % 2 = 0
        BY <1>4, <2>2 DEF Aligned
      <3>3. PICK p \in Nat : u = 2 * p
        BY <3>1, Even
      <3>4. PICK q \in Nat : v = 2 * q
        BY <3>2, Even
      <3>5. i \in {0, 1} /\ j \in {0, 1}
        BY <2>2
      <3>6. u + i = v + j
        BY <1>7, <3>1, <3>2, <3>5
      <3>7. u = v /\ i = j
        BY <3>3, <3>4, <3>5, <3>6
      <3>8. QED
        BY <3>1, <3>2, <3>7
    <2>3. QED
      BY <2>1, <2>2, SchedulingAssumption
  <1>9. c = d /\ m = n
    BY <1>1, <1>2, <1>3, <1>4, <1>8 DEF ClaimInv, ClaimsDistinct
  <1>10. QED
    BY <1>1, <1>2, <1>8, <1>9

\* The static assignment gives no row twice,
LEMMA StaticRowsDistinct ==
  ASSUME NEW c \in CLUSTERS, NEW d \in CLUSTERS, NEW m \in Nat, NEW n \in Nat,
         (m - 1) * SM_COUNT + c * CLUSTER_SIZE + 1
           = (n - 1) * SM_COUNT + d * CLUSTER_SIZE + 1
  PROVE  c = d /\ m = n
  <1> DEFINE x == c * CLUSTER_SIZE
             y == d * CLUSTER_SIZE
  <1>1. SM_COUNT \in Nat \ {0} /\ CLUSTER_SIZE \in {1, 2}
    BY SchedulingAssumption
  <1>2. c \in Nat /\ d \in Nat /\ x \in Nat /\ y \in Nat /\ x < SM_COUNT /\ y < SM_COUNT
    BY <1>1, ClusterRoom
  <1>3. (m - 1) * SM_COUNT + x = (n - 1) * SM_COUNT + y
    BY <1>1, <1>2
  <1> HIDE DEF x, y
  <1>4. ~(m < n) /\ ~(n < m)
    <2>1. CASE m < n
      <3>1. (n - 1) * SM_COUNT >= (m - 1) * SM_COUNT + SM_COUNT
        BY <1>1, <2>1
      <3>2. (n - 1) * SM_COUNT \in Int /\ (m - 1) * SM_COUNT \in Int
        BY <1>1
      <3>3. QED
        BY <1>1, <1>2, <1>3, <3>1, <3>2
    <2>2. CASE n < m
      <3>1. (m - 1) * SM_COUNT >= (n - 1) * SM_COUNT + SM_COUNT
        BY <1>1, <2>2
      <3>2. (n - 1) * SM_COUNT \in Int /\ (m - 1) * SM_COUNT \in Int
        BY <1>1
      <3>3. QED
        BY <1>1, <1>2, <1>3, <3>1, <3>2
    <2>3. QED
      BY <2>1, <2>2
  <1>5. m = n
    BY <1>4
  <1>6. x = y
    BY <1>1, <1>2, <1>3, <1>5
  <1>7. QED
    BY <1>1, <1>2, <1>5, <1>6 DEF x, y

\* and gives clusters the rows of their rank 0.
LEMMA StaticRowsAligned ==
  ASSUME NEW c \in CLUSTERS, NEW m \in Nat \ {0}
  PROVE  LET r == (m - 1) * SM_COUNT + c * CLUSTER_SIZE + 1
         IN  r \in Nat /\ r >= 1 /\ Aligned(r)
  <1>1. SM_COUNT \in Nat \ {0} /\ CLUSTER_SIZE \in {1, 2} /\ SM_COUNT % CLUSTER_SIZE = 0
    BY SchedulingAssumption
  <1>2. c \in Nat
    BY ClusterRoom
  <1>3. (m - 1) * SM_COUNT \in Nat
    BY <1>1
  <1>4. CASE CLUSTER_SIZE = 1
    BY <1>2, <1>3, <1>4 DEF Aligned
  <1>5. CASE CLUSTER_SIZE = 2
    <2>1. PICK q \in Nat : SM_COUNT = 2 * q
      BY <1>1, <1>5
    <2>2. PICK z \in Nat : z = (m - 1) * q
      BY <2>1
    <2>3. (m - 1) * SM_COUNT = 2 * z
      BY <2>1, <2>2
    <2>4. QED
      BY <1>2, <1>5, <2>2, <2>3 DEF Aligned
  <1>6. QED
    BY <1>1, <1>4, <1>5

\* The row behind whole clusters is one for rank 0.
LEMMA NextAligned ==
  ASSUME NEW a \in Nat, a % CLUSTER_SIZE = 0
  PROVE  Aligned(a + 1)
  BY SchedulingAssumption DEF Aligned

\* Below a multiple of the cluster size there is room for a cluster.
LEMMA RoomForCluster ==
  ASSUME NEW a \in Nat, NEW b \in Nat, a < b,
         a % CLUSTER_SIZE = 0, b % CLUSTER_SIZE = 0
  PROVE  a + CLUSTER_SIZE \in 0 .. b /\ (a + CLUSTER_SIZE) % CLUSTER_SIZE = 0
  <1>1. CASE CLUSTER_SIZE = 1
    BY <1>1
  <1>2. CASE CLUSTER_SIZE = 2
    BY <1>2
  <1>3. QED
    BY <1>1, <1>2, SchedulingAssumption

---------------------------------------------------------------------------
(* The program of an accepted graph.                                       *)

\* The op of a row is one of the modelled ones, and loads nothing from where it
\* stores if it stores before all its loads have arrived.
ScheduledOps(p) ==
  \A k \in RowsOf(p) :
    LET inst == p.instructions[k] IN
    /\ inst.type \in {"tile", "rms", "reduce", "increment", "noop"}
    /\ inst.type = "noop" => inst = Noop
    /\ inst.type \in {"rms", "reduce"} =>
         \A r \in inst.reads, w \in inst.writes : r.cell # w.cell

LEMMA GraphScheduled ==
  ASSUME NEW g \in DOMAIN GRAPHS, Accepted(g)
  PROVE  Scheduled(GRAPHS[g], AssignTensors(GRAPHS[g]), Programs[g])
  <1> DEFINE d == GRAPHS[g]
  <1>1. Schedulable(d) /\ AllMatched(d)
    BY GraphsAssumption DEF Accepted
  <1>2. Shaped(d) /\ Functionalised(d)
    BY <1>1 DEF Schedulable
  <1>3. PassInv(d, TensorsOf(d), AssignTensors(d))
    <2>1. 1 .. Len(d) + 1 - 1 = DOMAIN d
      BY <1>2, GraphShape
    <2>2. TensorsBefore(d, Len(d) + 1) = TensorsOf(d)
      BY <2>1 DEF TensorsBefore, TensorsOf
    <2>3. PassInv(d, TensorsBefore(d, Len(d) + 1), AssignTensors(d))
      BY <1>2, AssignTensorsPass
    <2>4. QED
      BY <2>2, <2>3
  <1>4. Programs[g] = Program(d, AssignTensors(d))
    BY DEF Programs, Schedule
  <1>5. QED
    BY <1>1, <1>3, <1>4 DEF Scheduled

\* An op that is not in place loads and stores different storage.
LEMMA NotInPlace ==
  ASSUME NEW d, NEW st, NEW p, Scheduled(d, st, p), NEW q \in InstructionsOf(d),
         DOMAIN d[q[1]].inplace = {},
         NEW e, NEW b, LoadsCell(d, q, e, b), NEW s, NEW c, StoresCell(d, q, s, c)
  PROVE  CellOf(st, d[q[1]].ins[e], b).cell # CellOf(st, <<q[1], s>>, c).cell
  <1> DEFINE t == d[q[1]].ins[e]
             v == <<q[1], s>>
  <1>1. Shaped(d) /\ SharedInv(d, TensorsOf(d), st)
    BY ProgramIs DEF Scheduled, PassInv
  <1>2. v \in TensorsOf(d) /\ q[1] \in DOMAIN d
    BY <1>1, StoredTensor
  <1>3. e \in DOMAIN d[q[1]].ins
    BY DEF LoadsCell
  <1>4. t \in TensorsOf(d) /\ t[1] < q[1]
    BY <1>1, <1>2, <1>3, EdgeShape
  <1>5. q[1] \in ReadersOf(d, t)
    BY <1>2, <1>3 DEF ReadersOf
  <1>6. q[1] \in Nat
    BY <1>1, <1>2, GraphShape
  <1>7. ~Mutates(d, v, t)
    BY DEF Mutates
  <1>8. t # v
    BY <1>4, <1>6
  <1>9. st.storage[t] # st.storage[v]
    <2>1. SUFFICES ASSUME st.storage[t] = st.storage[v]
                   PROVE  FALSE
      OBVIOUS
    <2>2. v[1] \in ReadersOf(d, t) => Mutates(d, v, t)
      BY <1>1, <1>2, <1>4, <1>8, <2>1 DEF SharedInv
    <2>3. QED
      BY <1>5, <1>7, <2>2
  <1> HIDE DEF t, v
  <1>10. QED
    BY <1>9, SameCell DEF t, v

LEMMA OpsScheduled ==
  ASSUME NEW d, NEW st, NEW p, Scheduled(d, st, p), ModelledOps(d)
  PROVE  ScheduledOps(p)
  <1> SUFFICES ASSUME NEW k \in RowsOf(p)
               PROVE  LET inst == p.instructions[k] IN
                      /\ inst.type \in {"tile", "rms", "reduce", "increment", "noop"}
                      /\ inst.type = "noop" => inst = Noop
                      /\ inst.type \in {"rms", "reduce"} =>
                           \A r \in inst.reads, w \in inst.writes : r.cell # w.cell
    BY DEF ScheduledOps
  <1>1. Shaped(d) /\ Laid(d, st, p.instructions)
    BY ProgramIs
  <1>2. CASE p.instructions[k] = Noop
    BY <1>2 DEF Noop
  <1>3. CASE p.instructions[k] # Noop
    <2>1. PICK q \in InstructionsOf(d) : k = InstRow(d, q)
      BY <1>3, RowInstruction
    <2>2. p.instructions[k].type = d[q[1]].type
      BY <1>1, <2>1, RowHolds
    <2>3. q[1] \in DOMAIN d /\ IsCompute(d, q[1])
      BY <1>1, InstructionIs
    <2>4. /\ d[q[1]].type \in {"tile", "rms", "reduce", "increment"}
          /\ d[q[1]].type \in {"rms", "reduce"} => DOMAIN d[q[1]].inplace = {}
      BY <2>3 DEF ModelledOps
    <2>5. ASSUME d[q[1]].type \in {"rms", "reduce"},
                 NEW r \in p.instructions[k].reads, NEW w \in p.instructions[k].writes
          PROVE  r.cell # w.cell
      <3>1. PICK e, b : LoadsCell(d, q, e, b) /\ r = CellOf(st, d[q[1]].ins[e], b)
        BY <2>1, <2>5, RowReads
      <3>2. PICK s, c : StoresCell(d, q, s, c) /\ w = CellOf(st, <<q[1], s>>, c)
        BY <2>1, <2>5, RowWrites
      <3>3. CellOf(st, d[q[1]].ins[e], b).cell # CellOf(st, <<q[1], s>>, c).cell
        BY <2>4, <2>5, <3>1, <3>2, NotInPlace
      <3>4. QED
        BY <3>1, <3>2, <3>3
    <2>6. QED
      BY <2>2, <2>4, <2>5
  <1>4. QED
    BY <1>2, <1>3

\* What the kernel relies on.
LEMMA ProgramPromises ==
  ASSUME NEW g \in DOMAIN GRAPHS, Accepted(g)
  PROVE  /\ WellFormed(Programs[g]) /\ Consistent(Programs[g])
         /\ NoRaces(Programs[g]) /\ ExactTargets(Programs[g])
         /\ OutputsLast(Programs[g]) /\ FollowsGraph(Programs[g], GRAPHS[g])
         /\ ScheduledOps(Programs[g])
  <1>1. Scheduled(GRAPHS[g], AssignTensors(GRAPHS[g]), Programs[g])
    BY GraphScheduled
  <1>2. ScheduledOps(Programs[g])
    BY <1>1, OpsScheduled, GraphsAssumption
  <1>3. ExactTargets(Programs[g])
    BY <1>1, ScheduledTargets DEF Accepted
  <1>4. QED
    BY <1>1, <1>2, <1>3, ProgramWellFormed, ScheduledConsistent, ScheduledNoRaces,
       ScheduledOutputsLast, ScheduledFollows

\* The rows of a program that was accepted.
LEMMA RowsFacts ==
  ASSUME PhaseInv
  PROVE  /\ WellFormed(Prog) /\ Consistent(Prog) /\ NoRaces(Prog)
         /\ ExactTargets(Prog) /\ OutputsLast(Prog) /\ ScheduledOps(Prog)
         /\ Rows = Prog.instructions
         /\ Len(Rows) \in Nat /\ DOMAIN Rows = 1 .. Len(Rows)
         /\ RowsOf(Prog) = DOMAIN Rows
         /\ Len(Rows) % CLUSTER_SIZE = 0
  <1>1. /\ WellFormed(Prog) /\ Consistent(Prog) /\ NoRaces(Prog)
        /\ ExactTargets(Prog) /\ OutputsLast(Prog) /\ ScheduledOps(Prog)
    BY ProgramPromises DEF PhaseInv, Prog
  <1>2. Rows = Prog.instructions
    BY DEF Rows, Prog
  <1>3. QED
    BY <1>1, <1>2 DEF WellFormed, RowsOf

\* Before the first launch nothing has been claimed.
LEMMA InitControl ==
  ASSUME Init
  PROVE  ControlInv
  <1>1. PhaseInv
    BY DEF Init, PhaseInv
  <1>2. Len(Rows) \in Nat
    BY <1>1, RowsFacts
  <1>3. next = 0 /\ 0 % CLUSTER_SIZE = 0
    BY SchedulingAssumption DEF Init
  <1>4. \A c \in CLUSTERS : claimed[c] = << >>
    BY DEF Init
  <1>5. ClaimInv
    <2>1. claimed \in [CLUSTERS -> Seq(Nat)]
      BY DEF Init
    <2>2. ClaimsDistinct
      BY <1>4 DEF ClaimsDistinct
    <2>3. QED
      BY <1>2, <1>3, <1>4, <2>1, <2>2 DEF ClaimInv
  <1>6. QueueInv /\ StaticInv
    BY <1>3, <1>4 DEF Init, QueueInv, StaticInv
  <1>7. PlaceInv
    <2>1. \A sm \in SMS : ClusterOf(sm) \in CLUSTERS
      BY Places
    <2>2. QED
      BY <1>4, <2>1 DEF Init, PlaceInv
  <1>8. QED
    BY <1>1, <1>5, <1>6, <1>7 DEF ControlInv

\* There are enough waves.
LEMMA EnoughWaves ==
  ASSUME PhaseInv
  PROVE  Waves \in Nat /\ Waves * SM_COUNT >= Len(Rows)
  <1>1. Len(Rows) \in Nat
    BY RowsFacts
  <1>2. SM_COUNT \in Nat \ {0}
    BY SchedulingAssumption
  <1>3. CASE Rows = << >>
    BY <1>2, <1>3 DEF Waves
  <1>4. CASE Rows # << >>
    <2>1. PICK a \in Nat : a = Len(Rows) + SM_COUNT - 1
      BY <1>1, <1>2
    <2>2. PICK q \in Nat, r \in 0 .. SM_COUNT - 1 :
            q = a \div SM_COUNT /\ r = a % SM_COUNT /\ a = SM_COUNT * q + r
      BY <1>2, Division
    <2>3. Waves = q
      BY <1>4, <2>1, <2>2 DEF Waves
    <2>4. q * SM_COUNT = SM_COUNT * q /\ SM_COUNT * q \in Nat
      BY <1>2
    <2>5. q * SM_COUNT >= Len(Rows)
      BY <1>1, <1>2, <2>1, <2>2, <2>4
    <2>6. QED
      BY <2>3, <2>5
  <1>5. QED
    BY <1>3, <1>4

\* The clusters of the grid that go to the SMs at once.
LEMMA FirstRowsFacts ==
  ASSUME NEW c \in CLUSTERS, PhaseInv
  PROVE  /\ FirstRows(c) \in Seq(Nat)
         /\ Len(FirstRows(c)) \in {0, 1}
         /\ DOMAIN FirstRows(c) = 1 .. Len(FirstRows(c))
         /\ \A n \in DOMAIN FirstRows(c) :
              /\ c * CLUSTER_SIZE < Len(Rows) /\ n = 1
              /\ FirstRows(c)[n] = c * CLUSTER_SIZE + 1
         /\ c * CLUSTER_SIZE < Len(Rows) => Len(FirstRows(c)) = 1
  <1>1. c * CLUSTER_SIZE + 1 \in Nat
    BY ClusterRoom, SchedulingAssumption
  <1>2. CASE c * CLUSTER_SIZE < Len(Rows)
    <2>1. FirstRows(c) = <<c * CLUSTER_SIZE + 1>>
      BY <1>2 DEF FirstRows
    <2>2. QED
      BY <1>1, <1>2, <2>1
  <1>3. CASE ~(c * CLUSTER_SIZE < Len(Rows))
    <2>1. FirstRows(c) = << >>
      BY <1>3 DEF FirstRows
    <2>2. QED
      BY <1>3, <2>1
  <1>4. QED
    BY <1>2, <1>3

\* A row that falls on rank 0 and an SM that exists is a first row.
LEMMA FirstRowOf ==
  ASSUME NEW r \in 1 .. SM_COUNT, Aligned(r)
  PROVE  \E c \in CLUSTERS : c * CLUSTER_SIZE + 1 = r
  <1>1. PICK a \in Nat : a = r - 1 /\ a < SM_COUNT
    BY SchedulingAssumption
  <1>2. PICK s \in SMS : s = a
    BY <1>1, SchedulingAssumption DEF SMS
  <1>3. PICK i \in 0 .. CLUSTER_SIZE - 1 :
          /\ ClusterOf(s) \in CLUSTERS /\ i = s % CLUSTER_SIZE
          /\ s = CLUSTER_SIZE * ClusterOf(s) + i
    BY Places
  <1>4. i = 0
    BY <1>1, <1>2, <1>3 DEF Aligned
  <1>5. PICK c \in CLUSTERS : c = ClusterOf(s)
    BY <1>3
  <1>6. c \in Nat
    BY ClusterRoom
  <1>7. c * CLUSTER_SIZE + 1 = r
    <2>1. CASE CLUSTER_SIZE = 1
      BY <1>1, <1>2, <1>3, <1>4, <1>5, <1>6, <2>1
    <2>2. CASE CLUSTER_SIZE = 2
      BY <1>1, <1>2, <1>3, <1>4, <1>5, <1>6, <2>2
    <2>3. QED
      BY <2>1, <2>2, SchedulingAssumption
  <1>8. QED
    BY <1>7

\* A launch hands out the first rows, or all.
LEMMA LaunchControl ==
  ASSUME ControlInv, Launch
  PROVE  ControlInv'
  <1>1. PhaseInv /\ graph' = graph
    BY DEF ControlInv, Launch
  <1>2. Rows' = Rows /\ Waves' = Waves
    BY <1>1 DEF Rows, Waves
  <1>3. Len(Rows) \in Nat /\ Len(Rows) % CLUSTER_SIZE = 0 /\ Waves \in Nat
    BY <1>1, RowsFacts, EnoughWaves
  <1>4. SM_COUNT \in Nat \ {0} /\ SM_COUNT % CLUSTER_SIZE = 0 /\ CLUSTER_SIZE \in {1, 2}
    BY SchedulingAssumption
  <1>5. next' \in 0 .. Len(Rows) /\ next' % CLUSTER_SIZE = 0
    <2>1. CASE Len(Rows) < SM_COUNT
      <3>1. next' = Len(Rows)
        BY <2>1 DEF Launch
      <3>2. QED
        BY <1>3, <3>1
    <2>2. CASE ~(Len(Rows) < SM_COUNT)
      <3>1. next' = SM_COUNT
        BY <2>2 DEF Launch
      <3>2. SM_COUNT \in 0 .. Len(Rows)
        BY <1>3, <1>4, <2>2
      <3>3. QED
        BY <1>4, <3>1, <3>2
    <2>3. QED
      BY <2>1, <2>2
  <1>6. \A c \in CLUSTERS :
             c \in Nat /\ c * CLUSTER_SIZE \in Nat /\ c * CLUSTER_SIZE + CLUSTER_SIZE <= SM_COUNT
    BY <1>4, ClusterRoom
  <1>7. PhaseInv'
    BY <1>1 DEF PhaseInv, Launch
  <1>8. \A sm \in SMS : ClusterOf(sm) \in CLUSTERS
    BY Places
  <1>9. CASE GLOBAL_WORK_QUEUE
    <2>1. claimed' = [c \in CLUSTERS |-> FirstRows(c)]
      BY <1>9 DEF Launch
    <2>2. \A c \in CLUSTERS :
             /\ claimed'[c] \in Seq(Nat) /\ Len(claimed'[c]) \in {0, 1}
             /\ DOMAIN claimed'[c] = 1 .. Len(claimed'[c])
             /\ c * CLUSTER_SIZE < Len(Rows) => Len(claimed'[c]) = 1
             /\ \A n \in DOMAIN claimed'[c] :
                  /\ c * CLUSTER_SIZE < Len(Rows) /\ n = 1
                  /\ claimed'[c][n] = c * CLUSTER_SIZE + 1
      BY <1>1, <2>1, FirstRowsFacts
    <2>3. claimed' \in [CLUSTERS -> Seq(Nat)]
      BY <2>1, <2>2
    <2>4. \A c \in CLUSTERS : \A n \in DOMAIN claimed'[c] :
            /\ claimed'[c][n] >= 1 /\ Aligned(claimed'[c][n])
            /\ claimed'[c][n] <= next'
      <3>1. SUFFICES ASSUME NEW c \in CLUSTERS, NEW n \in DOMAIN claimed'[c]
                     PROVE  /\ claimed'[c][n] >= 1 /\ Aligned(claimed'[c][n])
                            /\ claimed'[c][n] <= next'
        OBVIOUS
      <3>2. PICK x \in Nat : x = c * CLUSTER_SIZE /\ x < Len(Rows) /\ x < SM_COUNT
        BY <1>4, <1>6, <2>2
      <3>3. claimed'[c][n] = x + 1
        BY <2>2, <3>2
      <3>4. x % CLUSTER_SIZE = 0
        BY <1>4, <1>6, <3>2
      <3>5. Aligned(x + 1)
        BY <3>4, NextAligned
      <3>6. x + 1 <= next'
        BY <1>3, <1>4, <3>2 DEF Launch
      <3>7. QED
        BY <3>3, <3>5, <3>6
    <2>5. ClaimsDistinct'
      <3>1. SUFFICES ASSUME NEW c \in CLUSTERS, NEW d \in CLUSTERS,
                            NEW m \in DOMAIN claimed'[c], NEW n \in DOMAIN claimed'[d],
                            claimed'[c][m] = claimed'[d][n]
                     PROVE  c = d /\ m = n
        BY DEF ClaimsDistinct
      <3>2. c * CLUSTER_SIZE + 1 = d * CLUSTER_SIZE + 1 /\ m = 1 /\ n = 1
        BY <2>2, <3>1
      <3>3. QED
        BY <1>4, <1>6, <3>2
    <2>6. ClaimInv'
      BY <1>2, <1>5, <2>3, <2>4, <2>5 DEF ClaimInv
    <2>7. \A c \in CLUSTERS : Len(claimed'[c]) <= next'
      <3>1. SUFFICES ASSUME NEW c \in CLUSTERS PROVE Len(claimed'[c]) <= next'
        OBVIOUS
      <3>2. CASE Len(claimed'[c]) = 0
        BY <1>5, <3>2
      <3>3. CASE Len(claimed'[c]) = 1
        <4>1. 1 \in DOMAIN claimed'[c]
          BY <2>2, <3>3
        <4>2. claimed'[c][1] \in Nat /\ claimed'[c][1] >= 1 /\ claimed'[c][1] <= next'
          BY <1>6, <2>2, <2>4, <4>1
        <4>3. QED
          BY <1>5, <3>3, <4>2
      <3>4. QED
        BY <2>2, <3>2, <3>3
    <2>8. \A r \in 1 .. next' :
            Aligned(r) => \E c \in CLUSTERS : \E n \in DOMAIN claimed'[c] :
                            claimed'[c][n] = r
      <3>1. SUFFICES ASSUME NEW r \in 1 .. next', Aligned(r)
                     PROVE  \E c \in CLUSTERS : \E n \in DOMAIN claimed'[c] :
                              claimed'[c][n] = r
        OBVIOUS
      <3>2. r \in 1 .. SM_COUNT /\ r <= Len(Rows)
        BY <1>3, <1>4, <1>5 DEF Launch
      <3>3. PICK c \in CLUSTERS : c * CLUSTER_SIZE + 1 = r
        BY <3>1, <3>2, FirstRowOf
      <3>4. c * CLUSTER_SIZE < Len(Rows)
        BY <1>3, <1>6, <3>2, <3>3
      <3>5. 1 \in DOMAIN claimed'[c]
        BY <2>2, <3>4
      <3>6. QED
        BY <2>2, <3>3, <3>5
    <2>9. QueueInv' /\ StaticInv'
      BY <1>9, <2>4, <2>7, <2>8 DEF QueueInv, StaticInv
    <2>10. PlaceInv'
      <3>1. \A sm \in SMS : Len(claimed'[ClusterOf(sm)]) >= 0
        BY <1>8, <2>2
      <3>2. QED
        BY <3>1 DEF PlaceInv, Launch
    <2>11. QED
      BY <1>7, <2>6, <2>9, <2>10 DEF ControlInv
  <1>10. CASE ~GLOBAL_WORK_QUEUE
    <2>1. claimed' = [c \in CLUSTERS |-> StaticRows(c)]
      BY <1>10 DEF Launch
    <2>2. \A c \in CLUSTERS : \A n \in 1 .. Waves :
             /\ StaticRows(c)[n] = (n - 1) * SM_COUNT + c * CLUSTER_SIZE + 1
             /\ StaticRows(c)[n] \in Nat /\ StaticRows(c)[n] >= 1
             /\ Aligned(StaticRows(c)[n])
      BY <1>3, StaticRowsAligned DEF StaticRows
    <2>3. \A c \in CLUSTERS :
             /\ StaticRows(c) \in Seq(Nat) /\ Len(StaticRows(c)) = Waves
             /\ DOMAIN StaticRows(c) = 1 .. Waves
      <3>1. SUFFICES ASSUME NEW c \in CLUSTERS
                     PROVE  /\ StaticRows(c) \in Seq(Nat) /\ Len(StaticRows(c)) = Waves
                            /\ DOMAIN StaticRows(c) = 1 .. Waves
        OBVIOUS
      <3>2. DOMAIN StaticRows(c) = 1 .. Waves
        BY DEF StaticRows
      <3>3. StaticRows(c) = [n \in 1 .. Waves |-> StaticRows(c)[n]]
        BY DEF StaticRows
      <3> DEFINE f == StaticRows(c)
      <3> HIDE DEF f
      <3>4. f = [n \in 1 .. Waves |-> f[n]] /\ \A n \in 1 .. Waves : f[n] \in Nat
        BY <2>2, <3>3 DEF f
      <3>5. f \in Seq(Nat) /\ Len(f) = Waves
        BY <1>3, <3>4
      <3>6. QED
        BY <3>2, <3>5 DEF f
    <2>4. \A c \in CLUSTERS : claimed'[c] = StaticRows(c)
      BY <2>1
    <2>5. ClaimsDistinct'
      <3>1. SUFFICES ASSUME NEW c \in CLUSTERS, NEW d \in CLUSTERS,
                            NEW m \in 1 .. Waves, NEW n \in 1 .. Waves,
                            StaticRows(c)[m] = StaticRows(d)[n]
                     PROVE  c = d /\ m = n
        BY <2>3, <2>4, SMTT(30) DEF ClaimsDistinct
      <3>2. (m - 1) * SM_COUNT + c * CLUSTER_SIZE + 1
              = (n - 1) * SM_COUNT + d * CLUSTER_SIZE + 1
        BY <2>2, <3>1
      <3>3. m \in Nat /\ n \in Nat
        BY <1>3
      <3>4. QED
        BY <3>2, <3>3, StaticRowsDistinct
    <2>6. claimed' \in [CLUSTERS -> Seq(Nat)]
      BY <2>1, <2>3
    <2>7. ClaimInv'
      BY <1>2, <1>5, <2>2, <2>3, <2>4, <2>5, <2>6 DEF ClaimInv
    <2>8. QueueInv'
      BY <1>10 DEF QueueInv
    <2>9. StaticInv'
      <3>1. phase' # "created"
        BY DEF Launch
      <3>2. \A c \in CLUSTERS : StaticRows(c)' = StaticRows(c)
        BY <1>2 DEF StaticRows
      <3>3. \A c \in CLUSTERS : claimed'[c] = StaticRows(c)'
        BY <2>4, <3>2
      <3>4. QED
        BY <3>1, <3>3 DEF StaticInv
    <2>10. PlaceInv'
      <3>1. \A sm \in SMS : Len(claimed'[ClusterOf(sm)]) >= 0
        BY <1>3, <1>8, <2>3, <2>4
      <3>2. QED
        BY <3>1 DEF PlaceInv, Launch
    <2>11. QED
      BY <1>7, <2>7, <2>8, <2>9, <2>10 DEF ControlInv
  <1>11. QED
    BY <1>9, <1>10, MegakernelAssumption

\* A claim takes the next cluster of rows.
LEMMA ClaimControl ==
  ASSUME ControlInv, NEW c \in CLUSTERS, Claim(c)
  PROVE  ControlInv'
  <1>1. ClaimInv /\ QueueInv /\ PlaceInv /\ PhaseInv
    BY DEF ControlInv
  <1>2. /\ graph' = graph /\ phase' = phase /\ phase = "running"
        /\ retired' = retired /\ step' = step /\ GLOBAL_WORK_QUEUE
        /\ next < Len(Rows)
    BY DEF Claim, dispatchVars
  <1>3. Rows' = Rows
    BY <1>2 DEF Rows
  <1>4. Len(Rows) \in Nat /\ Len(Rows) % CLUSTER_SIZE = 0 /\ CLUSTER_SIZE \in {1, 2}
    BY <1>1, RowsFacts, SchedulingAssumption
  <1>5. next \in Nat /\ next % CLUSTER_SIZE = 0 /\ next' = next + CLUSTER_SIZE
    BY <1>1, <1>4 DEF ClaimInv, Claim
  <1>6. next' \in 0 .. Len(Rows) /\ next' % CLUSTER_SIZE = 0
    BY <1>2, <1>4, <1>5, RoomForCluster
  <1>7. PICK v \in Nat : v = next + 1 /\ v >= 1 /\ Aligned(v) /\ v > next /\ v <= next'
    BY <1>4, <1>5, NextAligned
  <1>8. \A d \in CLUSTERS :
          /\ claimed[d] \in Seq(Nat) /\ Len(claimed[d]) \in Nat
          /\ DOMAIN claimed[d] = 1 .. Len(claimed[d])
    BY <1>1 DEF ClaimInv
  <1>9. claimed' = [claimed EXCEPT ![c] = Append(@, v)]
    BY <1>7 DEF Claim
  <1>10. claimed' \in [CLUSTERS -> Seq(Nat)]
    BY <1>1, <1>9 DEF ClaimInv
  <1>11. \A d \in CLUSTERS :
          /\ d # c => claimed'[d] = claimed[d]
          /\ claimed'[c] = Append(claimed[c], v)
    BY <1>1, <1>9 DEF ClaimInv
  <1>12. /\ Len(claimed'[c]) = Len(claimed[c]) + 1
         /\ DOMAIN claimed'[c] = 1 .. Len(claimed[c]) + 1
         /\ claimed'[c][Len(claimed[c]) + 1] = v
         /\ \A n \in 1 .. Len(claimed[c]) : claimed'[c][n] = claimed[c][n]
    BY <1>8, <1>11
  <1>13. \A d \in CLUSTERS : \A n \in DOMAIN claimed'[d] :
           \/ d = c /\ n = Len(claimed[c]) + 1 /\ claimed'[d][n] = v
           \/ n \in DOMAIN claimed[d] /\ claimed'[d][n] = claimed[d][n]
    <2>1. SUFFICES ASSUME NEW d \in CLUSTERS, NEW n \in DOMAIN claimed'[d]
                   PROVE  \/ d = c /\ n = Len(claimed[c]) + 1 /\ claimed'[d][n] = v
                          \/ n \in DOMAIN claimed[d] /\ claimed'[d][n] = claimed[d][n]
      OBVIOUS
    <2>2. CASE d # c
      BY <1>11, <2>2
    <2>3. CASE d = c
      <3>1. PICK l \in Nat : l = Len(claimed[c])
        BY <1>8
      <3>2. n \in 1 .. l + 1 /\ DOMAIN claimed[c] = 1 .. l
        BY <1>8, <1>12, <2>3, <3>1
      <3>3. CASE n = l + 1
        BY <1>12, <2>3, <3>1, <3>3
      <3>4. CASE n \in 1 .. l
        BY <1>12, <2>3, <3>1, <3>2, <3>4
      <3>5. QED
        BY <3>1, <3>2, <3>3, <3>4
    <2>4. QED
      BY <2>2, <2>3
  <1>14. \A d \in CLUSTERS : \A n \in DOMAIN claimed[d] :
           n \in DOMAIN claimed'[d] /\ claimed'[d][n] = claimed[d][n]
    <2>1. SUFFICES ASSUME NEW d \in CLUSTERS, NEW n \in DOMAIN claimed[d]
                   PROVE  n \in DOMAIN claimed'[d] /\ claimed'[d][n] = claimed[d][n]
      OBVIOUS
    <2>2. CASE d # c
      BY <1>11, <2>2
    <2>3. CASE d = c
      <3>1. PICK l \in Nat : l = Len(claimed[c])
        BY <1>8
      <3>2. n \in 1 .. l /\ n \in 1 .. l + 1
        BY <1>8, <2>3, <3>1
      <3>3. QED
        BY <1>12, <2>3, <3>1, <3>2
    <2>4. QED
      BY <2>2, <2>3
  <1>15. \A d \in CLUSTERS : \A n \in DOMAIN claimed[d] :
           /\ claimed[d][n] \in Nat /\ claimed[d][n] >= 1 /\ Aligned(claimed[d][n])
           /\ claimed[d][n] <= next
    BY <1>1, <1>2, <1>8 DEF ClaimInv, QueueInv
  <1>16. ClaimsDistinct'
    <2>1. SUFFICES ASSUME NEW d \in CLUSTERS, NEW e \in CLUSTERS,
                          NEW m \in DOMAIN claimed'[d], NEW n \in DOMAIN claimed'[e],
                          claimed'[d][m] = claimed'[e][n]
                   PROVE  d = e /\ m = n
      BY DEF ClaimsDistinct
    <2>2. CASE m \in DOMAIN claimed[d] /\ claimed'[d][m] = claimed[d][m]
      <3>1. claimed[d][m] \in Nat /\ claimed[d][m] <= next
        BY <1>15, <2>2
      <3>2. PICK x \in Nat : x = claimed[d][m] /\ x <= next
        BY <3>1
      <3>3. claimed'[e][n] = x /\ x # v
        BY <1>5, <1>7, <2>1, <2>2, <3>2
      <3>4. n \in DOMAIN claimed[e] /\ claimed'[e][n] = claimed[e][n]
        BY <1>13, <3>3
      <3>5. m \in DOMAIN claimed[d] /\ claimed[d][m] = claimed[e][n]
        BY <2>2, <3>2, <3>3, <3>4
      <3>6. ClaimsDistinct
        BY <1>1 DEF ClaimInv
      <3>7. QED
        BY <3>4, <3>5, <3>6 DEF ClaimsDistinct
    <2>3. CASE d = c /\ m = Len(claimed[c]) + 1 /\ claimed'[d][m] = v
      <3>1. ~(n \in DOMAIN claimed[e] /\ claimed'[e][n] = claimed[e][n])
        BY <1>5, <1>7, <1>15, <2>1, <2>3
      <3>2. QED
        BY <1>13, <2>3, <3>1
    <2>4. QED
      BY <1>13, <2>2, <2>3
  <1>17. ClaimInv'
    <2>1. \A d \in CLUSTERS : \A n \in DOMAIN claimed'[d] :
            claimed'[d][n] >= 1 /\ Aligned(claimed'[d][n])
      BY <1>7, <1>13, <1>15
    <2>2. QED
      BY <1>3, <1>6, <1>10, <1>16, <2>1 DEF ClaimInv
  <1>18. QueueInv' /\ StaticInv'
    <2>1. \A d \in CLUSTERS : Len(claimed'[d]) <= next'
      <3>1. SUFFICES ASSUME NEW d \in CLUSTERS PROVE Len(claimed'[d]) <= next'
        OBVIOUS
      <3>2. Len(claimed[d]) \in Nat /\ Len(claimed[d]) <= next
        BY <1>1, <1>2, <1>8 DEF QueueInv
      <3>3. Len(claimed'[d]) = Len(claimed[d]) \/ Len(claimed'[d]) = Len(claimed[d]) + 1
        BY <1>11, <1>12
      <3>4. QED
        BY <1>4, <1>5, <3>2, <3>3
    <2>2. \A d \in CLUSTERS : \A n \in DOMAIN claimed'[d] : claimed'[d][n] <= next'
      BY <1>4, <1>5, <1>7, <1>13, <1>15
    <2>3. \A r \in 1 .. next' :
            Aligned(r) => \E d \in CLUSTERS : \E n \in DOMAIN claimed'[d] :
                            claimed'[d][n] = r
      <3>1. SUFFICES ASSUME NEW r \in 1 .. next', Aligned(r)
                     PROVE  \E d \in CLUSTERS : \E n \in DOMAIN claimed'[d] :
                              claimed'[d][n] = r
        OBVIOUS
      <3>2. CASE r \in 1 .. next
        <4>1. PICK d \in CLUSTERS : \E n \in DOMAIN claimed[d] : claimed[d][n] = r
          BY <1>1, <1>2, <3>1, <3>2 DEF QueueInv
        <4>2. QED
          BY <1>14, <4>1
      <3>3. CASE r \notin 1 .. next
        <4>1. r \in next + 1 .. next + CLUSTER_SIZE
          BY <1>4, <1>5, <1>6, <3>3
        <4>2. r = v
          BY <1>4, <1>5, <1>7, <3>1, <4>1 DEF Aligned
        <4>3. QED
          BY <1>12, <1>8, <4>2
      <3>4. QED
        BY <3>2, <3>3
    <2>4. QED
      BY <1>2, <2>1, <2>2, <2>3 DEF QueueInv, StaticInv
  <1>19. PlaceInv'
    <2>1. SUFFICES ASSUME NEW sm \in SMS, NEW w \in WORKERS
                   PROVE  /\ retired[sm][w] <= Len(claimed'[ClusterOf(sm)])
                          /\ step[sm][w] > 0 =>
                               /\ retired[sm][w] < Len(claimed'[ClusterOf(sm)])
                               /\ step[sm][w] <= Len(Steps(sm, w)')
      BY <1>1, <1>2 DEF PlaceInv
    <2>2. PICK d \in CLUSTERS : d = ClusterOf(sm)
      BY Places
    <2>3. PICK n \in Nat : n = retired[sm][w]
      BY <1>1 DEF PlaceInv
    <2>4. n <= Len(claimed[d])
          /\ (step[sm][w] > 0 => n < Len(claimed[d]) /\ step[sm][w] <= Len(Steps(sm, w)))
      BY <1>1, <2>2, <2>3 DEF PlaceInv
    <2>5. Len(claimed[d]) \in Nat /\ Len(claimed'[d]) \in {Len(claimed[d]), Len(claimed[d]) + 1}
      BY <1>8, <1>11, <1>12
    <2>6. n < Len(claimed[d]) => Steps(sm, w)' = Steps(sm, w)
      <3>1. HAVE n < Len(claimed[d])
      <3>2. n + 1 \in DOMAIN claimed[d]
        BY <1>8, <2>3, <3>1
      <3>3. claimed'[d][n + 1] = claimed[d][n + 1]
        BY <1>14, <3>2
      <3>4. Row(sm, w)' = Row(sm, w)
        BY <1>2, <2>2, <2>3, <3>3 DEF Row, RowOf
      <3>5. QED
        BY <1>3, <3>4 DEF Steps, InstructionOf
    <2>7. QED
      BY <2>2, <2>3, <2>4, <2>5, <2>6
  <1>20. PhaseInv'
    BY <1>1, <1>2 DEF PhaseInv
  <1>21. QED
    BY <1>17, <1>18, <1>19, <1>20 DEF ControlInv

\* What is known of the rows of a program that was accepted.
LEMMA RowFacts ==
  ASSUME PhaseInv, NEW k \in DOMAIN Rows
  PROVE  /\ Typed(Rows[k], DOMAIN Prog.target)
         /\ \/ Rows[k].type \in MODELLED /\ GoodScript(Rows[k])
            \/ Rows[k] = Noop /\ \A w \in WORKERS : Script(Rows[k], w) = << >>
         /\ \A w \in WORKERS : Len(Script(Rows[k], w)) \in Nat
  <1>1. /\ WellFormed(Prog) /\ ScheduledOps(Prog) /\ Rows = Prog.instructions
        /\ RowsOf(Prog) = DOMAIN Rows
    BY RowsFacts
  <1>2. Typed(Rows[k], DOMAIN Prog.target)
    BY <1>1 DEF WellFormed, Typed
  <1>3. \A w \in WORKERS : Len(Script(Rows[k], w)) \in Nat
    <2>1. \A w \in WORKERS : Script(Rows[k], w) \in Seq(StepsOn(DOMAIN Prog.target))
      BY <1>2, ScriptSeq
    <2>2. QED
      BY <2>1
  <1>4. /\ Rows[k].type \in MODELLED \cup {"noop"}
        /\ Rows[k].type = "noop" => Rows[k] = Noop
    BY <1>1 DEF ScheduledOps, MODELLED
  <1>5. CASE Rows[k].type \in MODELLED
    BY <1>2, <1>3, <1>5, EveryScript
  <1>6. CASE Rows[k].type = "noop"
    BY <1>2, <1>3, <1>4, <1>6, NoopScript
  <1>7. QED
    BY <1>4, <1>5, <1>6

\* What is known of the row a warp is at.
LEMMA PlaceFacts ==
  ASSUME ControlInv, NEW sm \in SMS, NEW w \in WORKERS,
         retired[sm][w] < Len(claimed[ClusterOf(sm)])
  PROVE  /\ retired[sm][w] + 1 \in DOMAIN claimed[ClusterOf(sm)]
         /\ Row(sm, w) \in Nat \ {0}
         /\ Len(Steps(sm, w)) \in Nat
         /\ Len(Steps(sm, w)) > 0 =>
              /\ Row(sm, w) \in DOMAIN Rows
              /\ Rows[Row(sm, w)].type \in MODELLED
              /\ Steps(sm, w) = Script(Rows[Row(sm, w)], w)
         /\ Row(sm, w) \in DOMAIN Rows => Steps(sm, w) = Script(Rows[Row(sm, w)], w)
  <1>1. ClaimInv /\ PlaceInv /\ PhaseInv
    BY DEF ControlInv
  <1>2. PICK c \in CLUSTERS, i \in 0 .. CLUSTER_SIZE - 1 :
          c = ClusterOf(sm) /\ i = sm % CLUSTER_SIZE
    BY Places
  <1>3. PICK n \in Nat : n = retired[sm][w] + 1 /\ n <= Len(claimed[c]) /\ n >= 1
    BY <1>1, <1>2 DEF PlaceInv, ClaimInv
  <1>4. claimed[c] \in Seq(Nat) /\ n \in DOMAIN claimed[c]
        /\ claimed[c][n] \in Nat /\ claimed[c][n] >= 1
    BY <1>1, <1>3 DEF ClaimInv
  <1>5. PICK r \in Nat : r = Row(sm, w) /\ r >= 1
    <2>1. Row(sm, w) = claimed[c][n] + i
      BY <1>2, <1>3 DEF Row, RowOf
    <2>2. i \in Nat
      BY SchedulingAssumption
    <2>3. PICK x \in Nat : x = claimed[c][n] /\ x >= 1
      BY <1>4
    <2>4. QED
      BY <2>1, <2>2, <2>3
  <1>6. Len(Rows) \in Nat /\ DOMAIN Rows = 1 .. Len(Rows)
    BY <1>1, RowsFacts
  <1>7. CASE r \in DOMAIN Rows
    <2>1. Steps(sm, w) = Script(Rows[r], w)
      BY <1>5, <1>6, <1>7 DEF Steps, InstructionOf
    <2>2. /\ \/ Rows[r].type \in MODELLED
             \/ Script(Rows[r], w) = << >>
          /\ Len(Script(Rows[r], w)) \in Nat
      BY <1>1, <1>7, RowFacts
    <2>3. QED
      BY <1>2, <1>3, <1>4, <1>5, <1>7, <2>1, <2>2
  <1>8. CASE r \notin DOMAIN Rows
    <2>1. Steps(sm, w) = Script(Noop, w)
      BY <1>5, <1>6, <1>8 DEF Steps, InstructionOf
    <2>2. Noop.type = "noop"
      BY DEF Noop
    <2>3. Steps(sm, w) = << >>
      BY <2>1, <2>2, NoopScript
    <2>4. QED
      BY <1>2, <1>3, <1>4, <1>5, <1>8, <2>3
  <1>9. QED
    BY <1>7, <1>8

\* What the steps of a warp have in common.
Moves(sm, w) ==
  /\ phase = "running" /\ retired[sm][w] + 1 <= Len(claimed[ClusterOf(sm)])
  /\ step[sm][w] < Len(Steps(sm, w))
  /\ Advance(sm, w)
  /\ UNCHANGED <<dispatchVars, next, claimed, retired>>

\* The steps of a warp other than the last only advance it.
LEMMA StepsMove ==
  ASSUME NEW sm, NEW w,
         \/ Wait(sm, w) \/ Arrive(sm, w) \/ Load(sm, w) \/ Loaded(sm, w)
         \/ Store(sm, w) \/ Stored(sm, w)
  PROVE  Moves(sm, w)
  <1>1. /\ phase = "running" /\ \E op : At(sm, w, op)
        /\ Advance(sm, w) /\ UNCHANGED <<dispatchVars, next, claimed, retired>>
    BY DEF Wait, Arrive, Load, Loaded, Store, Stored
  <1>2. QED
    BY <1>1 DEF Moves, At, Issued

\* They leave every warp within what it has been issued,
LEMMA MoveControl ==
  ASSUME ControlInv, NEW sm \in SMS, NEW w \in WORKERS, Moves(sm, w)
  PROVE  ControlInv'
  <1>1. ClaimInv /\ QueueInv /\ StaticInv /\ PlaceInv /\ PhaseInv
    BY DEF ControlInv
  <1>2. /\ graph' = graph /\ phase' = phase /\ phase = "running" /\ next' = next
        /\ claimed' = claimed /\ retired' = retired
    BY DEF Moves, dispatchVars
  <1>3. Rows' = Rows /\ Waves' = Waves
    BY <1>2 DEF Rows, Waves
  <1>4. ClaimInv' /\ QueueInv' /\ PhaseInv'
    BY <1>1, <1>2, <1>3 DEF ClaimInv, ClaimsDistinct, QueueInv, PhaseInv
  <1>5. StaticInv'
    BY <1>1, <1>2, <1>3 DEF StaticInv, StaticRows
  <1>6. step' = [step EXCEPT ![sm][w] = @ + 1]
    BY DEF Moves, Advance
  <1>7. step' \in [SMS -> [WORKERS -> Nat]]
    BY <1>1, <1>6 DEF PlaceInv
  <1>8. PlaceInv'
    <2>1. SUFFICES ASSUME NEW s \in SMS, NEW v \in WORKERS
                   PROVE  step'[s][v] > 0 =>
                            /\ retired[s][v] < Len(claimed[ClusterOf(s)])
                            /\ step'[s][v] <= Len(Steps(s, v)')
      BY <1>1, <1>2, <1>7 DEF PlaceInv
    <2>2. Steps(s, v)' = Steps(s, v)
      BY <1>2, <1>3 DEF Steps, InstructionOf, Row, RowOf
    <2>3. CASE s = sm /\ v = w
      <3>1. retired[sm][w] \in Nat /\ Len(claimed[ClusterOf(sm)]) \in Nat
        BY <1>1, Places DEF ClaimInv, PlaceInv
      <3>2. retired[sm][w] < Len(claimed[ClusterOf(sm)])
        BY <3>1 DEF Moves
      <3>3. Len(Steps(sm, w)) \in Nat
        BY <3>2, PlaceFacts
      <3>4. step[sm][w] \in Nat /\ step'[sm][w] = step[sm][w] + 1
        BY <1>1, <1>6 DEF PlaceInv
      <3>5. QED
        BY <2>2, <2>3, <3>2, <3>3, <3>4 DEF Moves
    <2>4. CASE ~(s = sm /\ v = w)
      <3>1. step'[s][v] = step[s][v]
        BY <1>1, <1>6, <2>4 DEF PlaceInv
      <3>2. QED
        BY <1>1, <2>2, <3>1 DEF PlaceInv
    <2>5. QED
      BY <2>3, <2>4
  <1>9. QED
    BY <1>4, <1>5, <1>8 DEF ControlInv

\* and so does the end of an instruction.
LEMMA FinishControl ==
  ASSUME ControlInv, NEW sm \in SMS, NEW w \in WORKERS, Finish(sm, w)
  PROVE  ControlInv'
  <1>1. ClaimInv /\ QueueInv /\ StaticInv /\ PlaceInv /\ PhaseInv
    BY DEF ControlInv
  <1>2. /\ graph' = graph /\ phase' = phase /\ phase = "running" /\ next' = next
        /\ claimed' = claimed
    BY DEF Finish, dispatchVars
  <1>3. Rows' = Rows /\ Waves' = Waves
    BY <1>2 DEF Rows, Waves
  <1>4. ClaimInv' /\ QueueInv' /\ PhaseInv'
    BY <1>1, <1>2, <1>3 DEF ClaimInv, ClaimsDistinct, QueueInv, PhaseInv
  <1>5. StaticInv'
    BY <1>1, <1>2, <1>3 DEF StaticInv, StaticRows
  <1>6. /\ step' = [step EXCEPT ![sm][w] = 0]
        /\ retired' = [retired EXCEPT ![sm][w] = @ + 1]
        /\ retired[sm][w] + 1 <= Len(claimed[ClusterOf(sm)])
    BY DEF Finish, Issued
  <1>7. step' \in [SMS -> [WORKERS -> Nat]] /\ retired' \in [SMS -> [WORKERS -> Nat]]
    BY <1>1, <1>6 DEF PlaceInv
  <1>8. PlaceInv'
    <2>1. SUFFICES ASSUME NEW s \in SMS, NEW v \in WORKERS
                   PROVE  /\ retired'[s][v] <= Len(claimed[ClusterOf(s)])
                          /\ step'[s][v] > 0 =>
                            /\ retired'[s][v] < Len(claimed[ClusterOf(s)])
                            /\ step'[s][v] <= Len(Steps(s, v)')
      BY <1>1, <1>2, <1>7 DEF PlaceInv
    <2>2. CASE s = sm /\ v = w
      BY <1>1, <1>6, <2>2 DEF PlaceInv
    <2>3. CASE ~(s = sm /\ v = w)
      <3>1. step'[s][v] = step[s][v] /\ retired'[s][v] = retired[s][v]
        BY <1>1, <1>6, <2>3 DEF PlaceInv
      <3>2. Steps(s, v)' = Steps(s, v)
        BY <1>2, <1>3, <3>1 DEF Steps, InstructionOf, Row, RowOf
      <3>3. QED
        BY <1>1, <3>1, <3>2 DEF PlaceInv
    <2>4. QED
      BY <2>2, <2>3
  <1>9. QED
    BY <1>4, <1>5, <1>8 DEF ControlInv

\* A step that moves no warp.
LEMMA StillControl ==
  ASSUME ControlInv,
         UNCHANGED <<dispatchVars, next, claimed, retired, step>> \/ Return
  PROVE  ControlInv'
  <1>1. ClaimInv /\ QueueInv /\ StaticInv /\ PlaceInv /\ PhaseInv
    BY DEF ControlInv
  <1>2. /\ graph' = graph /\ next' = next /\ claimed' = claimed
        /\ retired' = retired /\ step' = step
    BY DEF Return, dispatchVars
  <1>3. /\ phase' = "created" <=> phase = "created"
        /\ phase' \in {"created", "running", "returned"}
        /\ phase' = "returned" =>
             /\ GLOBAL_WORK_QUEUE => next >= Len(Rows)
             /\ \A sm \in SMS, w \in WORKERS :
                  retired[sm][w] = Len(claimed[ClusterOf(sm)])
    BY <1>1 DEF PhaseInv, Return, dispatchVars
  <1>4. Rows' = Rows /\ Waves' = Waves
    BY <1>2 DEF Rows, Waves
  <1>5. ClaimInv' /\ QueueInv'
    BY <1>1, <1>2, <1>3, <1>4 DEF ClaimInv, ClaimsDistinct, QueueInv
  <1>6. StaticInv'
    BY <1>1, <1>2, <1>3, <1>4 DEF StaticInv, StaticRows
  <1>7. PhaseInv'
    BY <1>1, <1>2, <1>3, <1>4 DEF PhaseInv
  <1>8. PlaceInv'
    <2>1. \A sm \in SMS, w \in WORKERS : Steps(sm, w)' = Steps(sm, w)
      BY <1>2, <1>4 DEF Steps, InstructionOf, Row, RowOf
    <2>2. QED
      BY <1>1, <1>2, <2>1 DEF PlaceInv
  <1>9. QED
    BY <1>5, <1>6, <1>7, <1>8 DEF ControlInv

---------------------------------------------------------------------------
(* The steps that have been taken: a row, a warp and a place in its script. *)

\* The warp is past step i of the n-th instruction of its SM.
Passed(sm, n, w, i) ==
  \/ retired[sm][w] >= n
  \/ retired[sm][w] = n - 1 /\ step[sm][w] >= i

AllSteps == {<<k, w, i>> : k \in DOMAIN Rows, w \in WORKERS, i \in Nat}
Taken ==
  {t \in AllSteps :
     /\ t[3] \in StepsOf(Rows[t[1]], t[2])
     /\ \E sm \in SMS : \E n \in DOMAIN claimed[ClusterOf(sm)] :
          RowOf(sm, n) = t[1] /\ Passed(sm, n, t[2], t[3])}

\* A step has been taken by the SM that has the row.
LEMMA InTaken ==
  ASSUME NEW k, NEW w, NEW i
  PROVE  <<k, w, i>> \in Taken <=>
           /\ k \in DOMAIN Rows /\ w \in WORKERS /\ i \in Nat
           /\ i \in StepsOf(Rows[k], w)
           /\ \E sm \in SMS : \E n \in DOMAIN claimed[ClusterOf(sm)] :
                RowOf(sm, n) = k /\ Passed(sm, n, w, i)
  <1>1. <<k, w, i>> \in AllSteps <=>
          k \in DOMAIN Rows /\ w \in WORKERS /\ i \in Nat
    BY DEF AllSteps
  <1> DEFINE t == <<k, w, i>>
  <1>2. t[1] = k /\ t[2] = w /\ t[3] = i
    OBVIOUS
  <1>3. t \in Taken <=>
           /\ t \in AllSteps /\ t[3] \in StepsOf(Rows[t[1]], t[2])
           /\ \E sm \in SMS : \E n \in DOMAIN claimed[ClusterOf(sm)] :
                RowOf(sm, n) = t[1] /\ Passed(sm, n, t[2], t[3])
    BY Zenon DEF Taken
  <1> HIDE DEF t
  <1>4. t \in Taken <=>
           /\ t \in AllSteps /\ i \in StepsOf(Rows[k], w)
           /\ \E sm \in SMS : \E n \in DOMAIN claimed[ClusterOf(sm)] :
                RowOf(sm, n) = k /\ Passed(sm, n, w, i)
    BY <1>2, <1>3, Zenon
  <1>5. QED
    BY <1>1, <1>4 DEF t

\* The same of the next state.
LEMMA InTakenNext ==
  ASSUME Rows' = Rows, NEW k, NEW w, NEW i
  PROVE  <<k, w, i>> \in Taken' <=>
           /\ k \in DOMAIN Rows /\ w \in WORKERS /\ i \in Nat
           /\ i \in StepsOf(Rows[k], w)
           /\ \E sm \in SMS : \E n \in DOMAIN claimed'[ClusterOf(sm)] :
                RowOf(sm, n)' = k /\ Passed(sm, n, w, i)'
  <1>1. <<k, w, i>> \in AllSteps <=>
          k \in DOMAIN Rows /\ w \in WORKERS /\ i \in Nat
    BY DEF AllSteps
  <1> DEFINE t == <<k, w, i>>
  <1>2. t[1] = k /\ t[2] = w /\ t[3] = i
    OBVIOUS
  <1>3. AllSteps' = AllSteps
    BY DEF AllSteps
  <1>4. Taken' = {u \in AllSteps :
           /\ u[3] \in StepsOf(Rows[u[1]], u[2])
           /\ \E sm \in SMS : \E n \in DOMAIN claimed'[ClusterOf(sm)] :
                RowOf(sm, n)' = u[1] /\ Passed(sm, n, u[2], u[3])'}
    BY <1>3 DEF Taken, Passed
  <1>5. t \in Taken' <=>
           /\ t \in AllSteps /\ t[3] \in StepsOf(Rows[t[1]], t[2])
           /\ \E sm \in SMS : \E n \in DOMAIN claimed'[ClusterOf(sm)] :
                RowOf(sm, n)' = t[1] /\ Passed(sm, n, t[2], t[3])'
    BY <1>4, Zenon DEF Passed
  <1> HIDE DEF t
  <1>6. t \in Taken' <=>
           /\ t \in AllSteps /\ i \in StepsOf(Rows[k], w)
           /\ \E sm \in SMS : \E n \in DOMAIN claimed'[ClusterOf(sm)] :
                RowOf(sm, n)' = k /\ Passed(sm, n, w, i)'
    BY <1>2, <1>5, Zenon DEF Passed
  <1>7. QED
    BY <1>1, <1>6 DEF t

\* Two sets of steps are the same.
LEMMA SameSteps ==
  ASSUME NEW S \in SUBSET AllSteps, NEW T \in SUBSET AllSteps,
         \A k \in DOMAIN Rows, w \in WORKERS, i \in Nat :
           <<k, w, i>> \in S <=> <<k, w, i>> \in T
  PROVE  S = T
  <1>1. ASSUME NEW t \in AllSteps
        PROVE  t \in S <=> t \in T
    <2>1. PICK k \in DOMAIN Rows, w \in WORKERS, i \in Nat : t = <<k, w, i>>
      BY DEF AllSteps
    <2>2. QED
      BY <2>1
  <1>2. QED
    BY <1>1

\* Steps of the memory alone, and Return, take no step of a row.
LEMMA StillTaken ==
  ASSUME ControlInv,
         UNCHANGED <<dispatchVars, next, claimed, retired, step>> \/ Return
  PROVE  Taken' = Taken /\ Rows' = Rows
  <1>1. /\ graph' = graph /\ claimed' = claimed
        /\ retired' = retired /\ step' = step
    BY DEF Return, dispatchVars
  <1>2. QED
    BY <1>1 DEF Taken, AllSteps, Passed, RowOf, Rows

\* Warps that have not moved have taken none,
LEMMA NothingTaken ==
  ASSUME retired = [sm \in SMS |-> [w \in WORKERS |-> 0]],
         step = [sm \in SMS |-> [w \in WORKERS |-> 0]],
         \A sm \in SMS : claimed[ClusterOf(sm)] \in Seq(Nat)
  PROVE  Taken = {}
  <1>1. ASSUME NEW k \in DOMAIN Rows, NEW w \in WORKERS, NEW i \in Nat,
               i \in StepsOf(Rows[k], w), NEW sm \in SMS,
               NEW n \in DOMAIN claimed[ClusterOf(sm)], Passed(sm, n, w, i)
        PROVE  FALSE
    <2>1. n \in Nat /\ n >= 1
      OBVIOUS
    <2>2. i >= 1
      BY <1>1 DEF StepsOf
    <2>3. retired[sm][w] = 0 /\ step[sm][w] = 0
      OBVIOUS
    <2>4. QED
      BY <1>1, <2>1, <2>2, <2>3 DEF Passed
  <1>2. ASSUME NEW t \in Taken
        PROVE  FALSE
    <2>1. PICK k \in DOMAIN Rows, w \in WORKERS, i \in Nat : t = <<k, w, i>>
      BY DEF Taken, AllSteps
    <2>2. QED
      BY <1>1, <2>1, InTaken
  <1>3. QED
    BY <1>2

\* neither before the first launch
LEMMA InitTaken ==
  ASSUME Init
  PROVE  Taken = {}
  <1>1. ControlInv
    BY InitControl
  <1>2. \A sm \in SMS : claimed[ClusterOf(sm)] \in Seq(Nat)
    BY <1>1, Places DEF ControlInv, ClaimInv
  <1>3. QED
    BY <1>2, NothingTaken DEF Init

\* nor right after a launch.
LEMMA LaunchTaken ==
  ASSUME ControlInv, Launch
  PROVE  Taken' = {} /\ Rows' = Rows
  <1>1. ControlInv'
    BY LaunchControl
  <1>2. \A sm \in SMS : claimed'[ClusterOf(sm)] \in Seq(Nat)
    BY <1>1, Places DEF ControlInv, ClaimInv
  <1>3. /\ retired' = [sm \in SMS |-> [w \in WORKERS |-> 0]]
        /\ step' = [sm \in SMS |-> [w \in WORKERS |-> 0]]
        /\ graph' = graph
    BY DEF Launch
  <1>4. Rows' = Rows
    BY <1>3 DEF Rows
  <1>5. ASSUME NEW k \in DOMAIN Rows, NEW w \in WORKERS, NEW i \in Nat,
               i \in StepsOf(Rows[k], w), NEW sm \in SMS,
               NEW n \in DOMAIN claimed'[ClusterOf(sm)], Passed(sm, n, w, i)'
        PROVE  FALSE
    <2>1. n \in Nat /\ n >= 1
      BY <1>2
    <2>2. i >= 1
      BY <1>5 DEF StepsOf
    <2>3. retired'[sm][w] = 0 /\ step'[sm][w] = 0
      BY <1>3
    <2>4. QED
      BY <1>5, <2>1, <2>2, <2>3 DEF Passed
  <1>6. ASSUME NEW t \in Taken'
        PROVE  FALSE
    <2>1. PICK k \in DOMAIN Rows, w \in WORKERS, i \in Nat : t = <<k, w, i>>
      BY <1>4 DEF Taken, AllSteps
    <2>2. QED
      BY <1>4, <1>5, <2>1, InTakenNext
  <1>7. QED
    BY <1>4, <1>6

\* Nor does a claim take a step.
LEMMA ClaimTaken ==
  ASSUME ControlInv, NEW c \in CLUSTERS, Claim(c)
  PROVE  Taken' = Taken /\ Rows' = Rows
  <1>1. ClaimInv /\ PlaceInv /\ PhaseInv
    BY DEF ControlInv
  <1>2. /\ graph' = graph /\ retired' = retired /\ step' = step
        /\ claimed' = [claimed EXCEPT ![c] = Append(@, next + 1)]
    BY DEF Claim, dispatchVars
  <1>3. Rows' = Rows
    BY <1>2 DEF Rows
  <1>4. next + 1 \in Nat
    BY <1>1 DEF ClaimInv
  <1>5. \A d \in CLUSTERS :
          /\ claimed[d] \in Seq(Nat) /\ Len(claimed[d]) \in Nat
          /\ DOMAIN claimed[d] = 1 .. Len(claimed[d])
          /\ d # c => claimed'[d] = claimed[d]
          /\ claimed'[c] = Append(claimed[c], next + 1)
    BY <1>1, <1>2 DEF ClaimInv
  <1>6. \A d \in CLUSTERS :
          /\ \A n \in DOMAIN claimed[d] :
               n \in DOMAIN claimed'[d] /\ claimed'[d][n] = claimed[d][n]
          /\ \A n \in DOMAIN claimed'[d] :
               n \in DOMAIN claimed[d] \/ n = Len(claimed[d]) + 1
    <2>1. SUFFICES ASSUME NEW d \in CLUSTERS
                   PROVE  /\ \A n \in DOMAIN claimed[d] :
                               n \in DOMAIN claimed'[d] /\ claimed'[d][n] = claimed[d][n]
                          /\ \A n \in DOMAIN claimed'[d] :
                               n \in DOMAIN claimed[d] \/ n = Len(claimed[d]) + 1
      OBVIOUS
    <2>2. CASE d # c
      BY <1>5, <2>2
    <2>3. CASE d = c
      <3>1. /\ DOMAIN claimed'[c] = 1 .. Len(claimed[c]) + 1
            /\ \A n \in 1 .. Len(claimed[c]) : claimed'[c][n] = claimed[c][n]
        BY <1>4, <1>5, SMTT(30)
      <3>2. QED
        BY <1>5, <2>3, <3>1
    <2>4. QED
      BY <2>2, <2>3
  <1>7. ASSUME NEW k \in DOMAIN Rows, NEW w \in WORKERS, NEW i \in Nat
        PROVE  <<k, w, i>> \in Taken' <=> <<k, w, i>> \in Taken
    <2>1. SUFFICES ASSUME i \in StepsOf(Rows[k], w)
                   PROVE  (\E sm \in SMS : \E n \in DOMAIN claimed'[ClusterOf(sm)] :
                             RowOf(sm, n)' = k /\ Passed(sm, n, w, i)')
                           <=> (\E sm \in SMS : \E n \in DOMAIN claimed[ClusterOf(sm)] :
                                  RowOf(sm, n) = k /\ Passed(sm, n, w, i))
      <3>1. <<k, w, i>> \in Taken <=>
              /\ i \in StepsOf(Rows[k], w)
              /\ \E sm \in SMS : \E n \in DOMAIN claimed[ClusterOf(sm)] :
                   RowOf(sm, n) = k /\ Passed(sm, n, w, i)
        BY InTaken
      <3>2. <<k, w, i>> \in Taken' <=>
              /\ i \in StepsOf(Rows[k], w)
              /\ \E sm \in SMS : \E n \in DOMAIN claimed'[ClusterOf(sm)] :
                   RowOf(sm, n)' = k /\ Passed(sm, n, w, i)'
        BY <1>3, InTakenNext
      <3>3. QED
        BY <3>1, <3>2
    <2>2. \A sm \in SMS, n \in Nat : Passed(sm, n, w, i)' <=> Passed(sm, n, w, i)
      BY <1>2 DEF Passed
    <2>3. \A sm \in SMS : \A n \in DOMAIN claimed[ClusterOf(sm)] :
            n \in DOMAIN claimed'[ClusterOf(sm)] /\ RowOf(sm, n)' = RowOf(sm, n) /\ n \in Nat
      BY <1>5, <1>6, Places DEF RowOf
    <2>4. ASSUME NEW sm \in SMS, NEW n \in DOMAIN claimed'[ClusterOf(sm)], Passed(sm, n, w, i)'
          PROVE  n \in DOMAIN claimed[ClusterOf(sm)]
      <3>1. PICK d \in CLUSTERS : d = ClusterOf(sm)
        BY Places
      <3>2. SUFFICES ASSUME n = Len(claimed[d]) + 1
                     PROVE  FALSE
        BY <1>6, <3>1
      <3>3. PICK l \in Nat, r \in Nat, s \in Nat :
              /\ l = Len(claimed[d]) /\ r = retired[sm][w] /\ s = step[sm][w]
              /\ r <= l /\ (s > 0 => r < l)
        BY <1>1, <1>5, <3>1 DEF PlaceInv
      <3>4. r >= n \/ (r = n - 1 /\ s >= i)
        BY <1>2, <2>4, <3>3 DEF Passed
      <3>5. i >= 1
        BY <2>1 DEF StepsOf
      <3>6. QED
        BY <3>2, <3>3, <3>4, <3>5
    <2>5. QED
      BY <2>2, <2>3, <2>4
  <1>8. Taken' \in SUBSET AllSteps /\ Taken \in SUBSET AllSteps
    BY <1>3 DEF Taken, AllSteps
  <1>9. Taken' = Taken
    BY <1>7, <1>8, SameSteps
  <1>10. QED
    BY <1>3, <1>9

\* A step of a warp is the next of its row, and adds to those taken.
LEMMA MoveTaken ==
  ASSUME ControlInv, NEW sm \in SMS, NEW w \in WORKERS, Moves(sm, w)
  PROVE  /\ Rows' = Rows
         /\ Row(sm, w) \in DOMAIN Rows /\ GoodScript(Rows[Row(sm, w)])
         /\ Steps(sm, w) = Script(Rows[Row(sm, w)], w)
         /\ step[sm][w] + 1 \in StepsOf(Rows[Row(sm, w)], w)
         /\ \A j \in 1 .. step[sm][w] : <<Row(sm, w), w, j>> \in Taken
         /\ <<Row(sm, w), w, step[sm][w] + 1>> \notin Taken
         /\ Taken' = Taken \cup {<<Row(sm, w), w, step[sm][w] + 1>>}
  <1>1. ClaimInv /\ PlaceInv /\ PhaseInv
    BY DEF ControlInv
  <1>2. /\ graph' = graph /\ claimed' = claimed /\ retired' = retired
        /\ step' = [step EXCEPT ![sm][w] = @ + 1]
    BY DEF Moves, Advance, dispatchVars
  <1>3. Rows' = Rows
    BY <1>2 DEF Rows
  <1>4. PICK n \in Nat : /\ n = retired[sm][w] + 1 /\ n >= 1
                         /\ retired[sm][w] = n - 1
    <2>1. retired[sm][w] \in Nat
      BY <1>1 DEF PlaceInv
    <2>2. QED
      BY <2>1
  <1>5. PICK i \in Nat : i = step[sm][w] /\ step'[sm][w] = i + 1
    BY <1>1, <1>2 DEF PlaceInv
  <1>6. retired[sm][w] < Len(claimed[ClusterOf(sm)])
    <2>1. Len(claimed[ClusterOf(sm)]) \in Nat
      BY <1>1, Places DEF ClaimInv
    <2>2. QED
      BY <1>4, <2>1 DEF Moves
  <1>7. PICK k : k = Row(sm, w)
    OBVIOUS
  <1>8. /\ n \in DOMAIN claimed[ClusterOf(sm)] /\ Len(Steps(sm, w)) \in Nat
        /\ i < Len(Steps(sm, w))
        /\ k \in DOMAIN Rows /\ Rows[k].type \in MODELLED
        /\ Steps(sm, w) = Script(Rows[k], w)
    <2>1. i < Len(Steps(sm, w))
      BY <1>5 DEF Moves
    <2>2. /\ retired[sm][w] + 1 \in DOMAIN claimed[ClusterOf(sm)]
          /\ Len(Steps(sm, w)) \in Nat
          /\ Len(Steps(sm, w)) > 0 =>
               /\ Row(sm, w) \in DOMAIN Rows
               /\ Rows[Row(sm, w)].type \in MODELLED
               /\ Steps(sm, w) = Script(Rows[Row(sm, w)], w)
      BY <1>6, PlaceFacts
    <2>3. Len(Steps(sm, w)) > 0
      BY <2>1, <2>2
    <2>4. QED
      BY <1>4, <1>7, <2>1, <2>2, <2>3
  <1>9. GoodScript(Rows[k])
    <2>1. Noop.type \notin MODELLED
      BY DEF Noop, MODELLED
    <2>2. QED
      BY <1>1, <1>8, <2>1, RowFacts
  <1>10. k = RowOf(sm, n)
    BY <1>4, <1>7 DEF Row
  <1>11. i + 1 \in StepsOf(Rows[k], w) /\ \A j \in 1 .. i : j \in StepsOf(Rows[k], w)
    BY <1>8 DEF StepsOf
  <1>12. \A j \in 1 .. i : <<k, w, j>> \in Taken
    <2>1. SUFFICES ASSUME NEW j \in 1 .. i PROVE <<k, w, j>> \in Taken
      OBVIOUS
    <2>2. Passed(sm, n, w, j)
      BY <1>1, <1>4, <1>5 DEF Passed, PlaceInv
    <2>3. QED
      BY <1>8, <1>10, <1>11, <2>2, InTaken
  <1>13. ASSUME NEW s \in SMS, NEW m \in DOMAIN claimed[ClusterOf(s)], RowOf(s, m) = k
         PROVE  s = sm /\ m = n
    BY <1>1, <1>8, <1>10, <1>13, RowUnique
  <1>14. <<k, w, i + 1>> \notin Taken
    <2>1. SUFFICES ASSUME <<k, w, i + 1>> \in Taken PROVE FALSE
      OBVIOUS
    <2>2. PICK s \in SMS : \E m \in DOMAIN claimed[ClusterOf(s)] :
            RowOf(s, m) = k /\ Passed(s, m, w, i + 1)
      BY <2>1, InTaken
    <2>3. Passed(sm, n, w, i + 1)
      BY <1>13, <2>2
    <2>4. QED
      BY <1>4, <1>5, <2>3 DEF Passed
  <1>15. \A s \in SMS : \A m : RowOf(s, m)' = RowOf(s, m)
    BY <1>2 DEF RowOf
  <1>16. ASSUME NEW s \in SMS, NEW m \in DOMAIN claimed[ClusterOf(s)], NEW v \in WORKERS,
                NEW j \in Nat
         PROVE  Passed(s, m, v, j)' <=>
                  Passed(s, m, v, j) \/ (s = sm /\ v = w /\ m = n /\ j = i + 1)
    <2>0. m \in Nat
      BY <1>1, Places DEF ClaimInv
    <2>1. CASE s = sm /\ v = w
      <3>1. /\ retired[s][v] = n - 1 /\ step[s][v] = i
            /\ retired'[s][v] = n - 1 /\ step'[s][v] = i + 1
        BY <1>2, <1>4, <1>5, <2>1
      <3>2. QED
        BY <2>0, <2>1, <3>1 DEF Passed
    <2>2. CASE ~(s = sm /\ v = w)
      <3>1. step'[s][v] = step[s][v] /\ retired'[s][v] = retired[s][v]
        BY <1>1, <1>2, <2>2 DEF PlaceInv
      <3>2. QED
        BY <2>2, <3>1 DEF Passed
    <2>3. QED
      BY <2>1, <2>2
  <1>17. ASSUME NEW r \in DOMAIN Rows, NEW v \in WORKERS, NEW j \in Nat
         PROVE  <<r, v, j>> \in Taken' <=>
                  <<r, v, j>> \in Taken \/ (r = k /\ v = w /\ j = i + 1)
    <2>1. <<r, v, j>> \in Taken <=>
            /\ j \in StepsOf(Rows[r], v)
            /\ \E s \in SMS : \E m \in DOMAIN claimed[ClusterOf(s)] :
                 RowOf(s, m) = r /\ Passed(s, m, v, j)
      BY InTaken
    <2>2. <<r, v, j>> \in Taken' <=>
            /\ j \in StepsOf(Rows[r], v)
            /\ \E s \in SMS : \E m \in DOMAIN claimed[ClusterOf(s)] :
                 RowOf(s, m) = r /\ Passed(s, m, v, j)'
      <3>1. <<r, v, j>> \in Taken' <=>
              /\ j \in StepsOf(Rows[r], v)
              /\ \E s \in SMS : \E m \in DOMAIN claimed'[ClusterOf(s)] :
                   RowOf(s, m)' = r /\ Passed(s, m, v, j)'
        BY <1>3, InTakenNext
      <3>2. QED
        BY <1>2, <1>15, <3>1, Zenon
    <2>3. \A s \in SMS : \A m \in DOMAIN claimed[ClusterOf(s)] :
            Passed(s, m, v, j)' <=>
              Passed(s, m, v, j) \/ (s = sm /\ v = w /\ m = n /\ j = i + 1)
      BY <1>16
    <2>4. CASE r = k /\ v = w /\ j = i + 1
      BY <1>8, <1>10, <1>11, <2>2, <2>3, <2>4, Zenon
    <2>5. CASE ~(r = k /\ v = w /\ j = i + 1)
      <3>1. \A s \in SMS : \A m \in DOMAIN claimed[ClusterOf(s)] :
              RowOf(s, m) = r => ~(s = sm /\ v = w /\ m = n /\ j = i + 1)
        BY <1>10, <2>5
      <3>2. \A s \in SMS : \A m \in DOMAIN claimed[ClusterOf(s)] :
              RowOf(s, m) = r => (Passed(s, m, v, j)' <=> Passed(s, m, v, j))
        BY <2>3, <3>1, Zenon
      <3>3. QED
        BY <2>1, <2>2, <2>5, <3>2, Zenon
    <2>6. QED
      BY <2>4, <2>5
  <1>18. Taken' = Taken \cup {<<k, w, i + 1>>}
    <2>1. Taken' \in SUBSET AllSteps /\ Taken \cup {<<k, w, i + 1>>} \in SUBSET AllSteps
      BY <1>3, <1>8 DEF Taken, AllSteps
    <2>2. \A r \in DOMAIN Rows, v \in WORKERS, j \in Nat :
            <<r, v, j>> \in Taken' <=> <<r, v, j>> \in Taken \cup {<<k, w, i + 1>>}
      <3>1. SUFFICES ASSUME NEW r \in DOMAIN Rows, NEW v \in WORKERS, NEW j \in Nat
                     PROVE  <<r, v, j>> \in Taken'
                              <=> <<r, v, j>> \in Taken \cup {<<k, w, i + 1>>}
        OBVIOUS
      <3>2. CASE r = k /\ v = w /\ j = i + 1
        BY <1>17, <3>2
      <3>3. CASE ~(r = k /\ v = w /\ j = i + 1)
        <4>1. <<r, v, j>> # <<k, w, i + 1>>
          BY <3>3
        <4>2. <<r, v, j>> \in Taken' <=> <<r, v, j>> \in Taken
          BY <1>17, <3>3, Zenon
        <4>3. QED
          BY <4>1, <4>2, Zenon
      <3>4. QED
        BY <3>2, <3>3
    <2>3. QED
      BY <2>1, <2>2, SameSteps
  <1>19. QED
    BY <1>3, <1>5, <1>7, <1>8, <1>9, <1>11, <1>12, <1>14, <1>18

\* A warp that takes its next instruction has taken all steps of this one.
LEMMA FinishTaken ==
  ASSUME ControlInv, NEW sm \in SMS, NEW w \in WORKERS, Finish(sm, w)
  PROVE  Taken' = Taken /\ Rows' = Rows
  <1>1. ClaimInv /\ PlaceInv /\ PhaseInv
    BY DEF ControlInv
  <1>2. /\ graph' = graph /\ claimed' = claimed
        /\ step' = [step EXCEPT ![sm][w] = 0]
        /\ retired' = [retired EXCEPT ![sm][w] = @ + 1]
        /\ retired[sm][w] + 1 <= Len(claimed[ClusterOf(sm)])
        /\ step[sm][w] = Len(Steps(sm, w))
    BY DEF Finish, dispatchVars, Issued
  <1>3. Rows' = Rows
    BY <1>2 DEF Rows
  <1>4. PICK n \in Nat : /\ n = retired[sm][w] + 1 /\ n >= 1
                         /\ retired[sm][w] = n - 1 /\ retired'[sm][w] = n
    BY <1>1, <1>2 DEF PlaceInv
  <1>5. PICK i \in Nat : i = step[sm][w] /\ step'[sm][w] = 0
    BY <1>1, <1>2 DEF PlaceInv
  <1>6. retired[sm][w] < Len(claimed[ClusterOf(sm)])
    <2>1. Len(claimed[ClusterOf(sm)]) \in Nat
      BY <1>1, Places DEF ClaimInv
    <2>2. QED
      BY <1>2, <1>4, <2>1
  <1>7. Row(sm, w) = RowOf(sm, n)
    BY <1>4 DEF Row
  <1>8. Row(sm, w) \in DOMAIN Rows =>
          Steps(sm, w) = Script(Rows[Row(sm, w)], w)
    BY <1>6, PlaceFacts
  <1>9. \A s \in SMS : \A m : RowOf(s, m)' = RowOf(s, m)
    BY <1>2 DEF RowOf
  <1>10. ASSUME NEW s \in SMS, NEW m \in DOMAIN claimed[ClusterOf(s)], NEW v \in WORKERS,
                RowOf(s, m) \in DOMAIN Rows, NEW j \in StepsOf(Rows[RowOf(s, m)], v)
         PROVE  Passed(s, m, v, j)' <=> Passed(s, m, v, j)
    <2>1. m \in Nat /\ j \in Int /\ j >= 1
      BY <1>1, Places DEF ClaimInv, StepsOf
    <2>2. CASE s = sm /\ v = w
      <3>0. /\ retired[s][v] = n - 1 /\ step[s][v] = i
            /\ retired'[s][v] = n /\ step'[s][v] = 0
        BY <1>4, <1>5, <2>2
      <3>1. CASE m = n
        <4>1. j <= i
          BY <1>2, <1>5, <1>7, <1>8, <1>10, <2>1, <2>2, <3>1 DEF StepsOf
        <4>2. QED
          BY <2>1, <3>0, <3>1, <4>1 DEF Passed
      <3>2. CASE m # n
        <4>1. Passed(s, m, v, j) <=> n - 1 >= m
          BY <2>1, <3>0, <3>2 DEF Passed
        <4>2. Passed(s, m, v, j)' <=> n >= m
          BY <2>1, <3>0, <3>2 DEF Passed
        <4>3. n - 1 >= m <=> n >= m
          BY <2>1, <3>2
        <4>4. QED
          BY <4>1, <4>2, <4>3, Zenon
      <3>3. QED
        BY <3>1, <3>2
    <2>3. CASE ~(s = sm /\ v = w)
      <3>1. step'[s][v] = step[s][v] /\ retired'[s][v] = retired[s][v]
        BY <1>1, <1>2, <2>3 DEF PlaceInv
      <3>2. QED
        BY <3>1 DEF Passed
    <2>4. QED
      BY <2>2, <2>3
  <1>11. ASSUME NEW r \in DOMAIN Rows, NEW v \in WORKERS, NEW j \in Nat
         PROVE  <<r, v, j>> \in Taken' <=> <<r, v, j>> \in Taken
    <2>1. <<r, v, j>> \in Taken <=>
            /\ j \in StepsOf(Rows[r], v)
            /\ \E s \in SMS : \E m \in DOMAIN claimed[ClusterOf(s)] :
                 RowOf(s, m) = r /\ Passed(s, m, v, j)
      BY InTaken
    <2>2. <<r, v, j>> \in Taken' <=>
            /\ j \in StepsOf(Rows[r], v)
            /\ \E s \in SMS : \E m \in DOMAIN claimed[ClusterOf(s)] :
                 RowOf(s, m) = r /\ Passed(s, m, v, j)'
      <3>1. <<r, v, j>> \in Taken' <=>
              /\ j \in StepsOf(Rows[r], v)
              /\ \E s \in SMS : \E m \in DOMAIN claimed'[ClusterOf(s)] :
                   RowOf(s, m)' = r /\ Passed(s, m, v, j)'
        BY <1>3, InTakenNext
      <3>2. QED
        BY <1>2, <1>9, <3>1, Zenon
    <2>3. \A s \in SMS : \A m \in DOMAIN claimed[ClusterOf(s)] :
            RowOf(s, m) = r /\ j \in StepsOf(Rows[r], v) =>
              (Passed(s, m, v, j)' <=> Passed(s, m, v, j))
      BY <1>10
    <2>4. QED
      BY <2>1, <2>2, <2>3
  <1>12. Taken' \in SUBSET AllSteps /\ Taken \in SUBSET AllSteps
    BY <1>3 DEF Taken, AllSteps
  <1>13. QED
    BY <1>3, <1>11, <1>12, SameSteps

\* Every SM of a cluster exists.
LEMMA PlaceOf ==
  ASSUME NEW c \in CLUSTERS, NEW i \in 0 .. CLUSTER_SIZE - 1
  PROVE  \E sm \in SMS : ClusterOf(sm) = c /\ sm % CLUSTER_SIZE = i
  <1>1. c \in Nat /\ c * CLUSTER_SIZE + CLUSTER_SIZE <= SM_COUNT
    BY ClusterRoom
  <1>2. CASE CLUSTER_SIZE = 1
    <2>1. c \in SMS
      BY <1>1, <1>2, SchedulingAssumption DEF SMS
    <2>2. ClusterOf(c) = c /\ c % CLUSTER_SIZE = i
      BY <1>1, <1>2 DEF ClusterOf
    <2>3. QED
      BY <2>1, <2>2
  <1>3. CASE CLUSTER_SIZE = 2
    <2>1. PICK s \in Nat : s = 2 * c + i
      BY <1>1, <1>3
    <2>2. s \in SMS
      BY <1>1, <1>3, <2>1, SchedulingAssumption DEF SMS
    <2>3. s \div 2 = c /\ s % 2 = i
      BY <1>1, <1>3, <2>1
    <2>4. QED
      BY <1>3, <2>2, <2>3 DEF ClusterOf
  <1>4. QED
    BY <1>2, <1>3, SchedulingAssumption

\* A row counted from the first of its cluster.
LEMMA RankOf ==
  ASSUME NEW k \in Nat \ {0}
  PROVE  \E r \in Nat, i \in 0 .. CLUSTER_SIZE - 1 :
           r >= 1 /\ k = r + i /\ Aligned(r)
  <1>1. CASE CLUSTER_SIZE = 1
    BY <1>1 DEF Aligned
  <1>2. CASE CLUSTER_SIZE = 2
    <2>1. PICK a \in Nat : a = k - 1
      OBVIOUS
    <2>2. PICK q \in Nat, i \in 0 .. 2 - 1 :
            q = a \div 2 /\ i = a % 2 /\ a = 2 * q + i
      BY Division
    <2>3. PICK r \in Nat : r = 2 * q + 1 /\ r >= 1
      OBVIOUS
    <2>4. (r - 1) % 2 = 0 /\ k = r + i
      BY <2>1, <2>2, <2>3
    <2>5. QED
      BY <1>2, <2>3, <2>4 DEF Aligned
  <1>3. QED
    BY <1>1, <1>2, SchedulingAssumption

\* With a static schedule every row is some cluster's.
LEMMA StaticRowsCover ==
  ASSUME PhaseInv, NEW r \in Nat, r >= 1, r <= Len(Rows), Aligned(r)
  PROVE  \E c \in CLUSTERS : \E n \in 1 .. Waves : StaticRows(c)[n] = r
  <1>1. SM_COUNT \in Nat \ {0} /\ CLUSTER_SIZE \in {1, 2} /\ SM_COUNT % CLUSTER_SIZE = 0
    BY SchedulingAssumption
  <1>2. Len(Rows) \in Nat /\ Waves \in Nat /\ Waves * SM_COUNT >= Len(Rows)
    BY RowsFacts, EnoughWaves
  <1>3. PICK a \in Nat : a = r - 1 /\ a < Len(Rows) /\ a % CLUSTER_SIZE = 0
    BY <1>2 DEF Aligned
  <1>4. PICK q \in Nat, s \in 0 .. SM_COUNT - 1 :
          q = a \div SM_COUNT /\ s = a % SM_COUNT /\ a = SM_COUNT * q + s
    BY <1>1, Division
  <1>5. s % CLUSTER_SIZE = 0
    <2>1. CASE CLUSTER_SIZE = 1
      BY <1>1, <2>1
    <2>2. CASE CLUSTER_SIZE = 2
      <3>1. PICK h \in Nat : SM_COUNT = 2 * h
        BY <1>1, <2>2
      <3>2. PICK g \in Nat : a = 2 * g
        BY <1>3, <2>2, Even
      <3>3. PICK z \in Nat : z = h * q
        BY <3>1
      <3>4. SM_COUNT * q = 2 * z
        BY <3>1, <3>3
      <3>5. 2 * g = 2 * z + s
        BY <1>4, <3>2, <3>4
      <3>6. s = 2 * (g - z) /\ g - z \in Nat
        BY <1>1, <3>5
      <3>7. QED
        BY <2>2, <3>6
    <2>3. QED
      BY <1>1, <2>1, <2>2
  <1>6. PICK t \in 1 .. SM_COUNT : t = s + 1
    BY <1>1
  <1>7. PICK c \in CLUSTERS : c * CLUSTER_SIZE + 1 = t
    <2>1. Aligned(t)
      BY <1>5, <1>6, NextAligned
    <2>2. QED
      BY <2>1, FirstRowOf
  <1>8. c * CLUSTER_SIZE = s
    <2>1. c * CLUSTER_SIZE \in Nat
      BY <1>1, ClusterRoom
    <2>2. QED
      BY <1>6, <1>7, <2>1
  <1>9. PICK n \in Nat : n = q + 1
    OBVIOUS
  <1>10. n \in 1 .. Waves
    <2>1. SUFFICES ASSUME q >= Waves PROVE FALSE
      BY <1>2, <1>9
    <2>2. q * SM_COUNT >= Waves * SM_COUNT
      BY <1>1, <1>2, <2>1
    <2>3. q * SM_COUNT = SM_COUNT * q /\ SM_COUNT * q \in Nat /\ Waves * SM_COUNT \in Nat
      BY <1>1, <1>2
    <2>4. QED
      BY <1>1, <1>2, <1>3, <1>4, <2>2, <2>3
  <1>11. StaticRows(c)[n] = r
    <2>1. StaticRows(c)[n] = (n - 1) * SM_COUNT + c * CLUSTER_SIZE + 1
      BY <1>10 DEF StaticRows
    <2>2. (n - 1) * SM_COUNT = SM_COUNT * q /\ SM_COUNT * q \in Nat
      BY <1>1, <1>9
    <2>3. QED
      BY <1>3, <1>4, <1>8, <2>1, <2>2
  <1>12. QED
    BY <1>10, <1>11

\* When the kernel has returned all steps have been taken.
LEMMA AllTaken ==
  ASSUME ControlInv, phase = "returned", NEW k \in DOMAIN Rows, NEW w \in WORKERS,
         NEW i \in StepsOf(Rows[k], w)
  PROVE  <<k, w, i>> \in Taken
  <1>1. ClaimInv /\ QueueInv /\ StaticInv /\ PlaceInv /\ PhaseInv
    BY DEF ControlInv
  <1>2. Len(Rows) \in Nat /\ DOMAIN Rows = 1 .. Len(Rows) /\ CLUSTER_SIZE \in {1, 2}
    BY <1>1, RowsFacts, SchedulingAssumption
  <1>3. PICK r \in Nat, j \in 0 .. CLUSTER_SIZE - 1 :
          r >= 1 /\ k = r + j /\ Aligned(r)
    <2>1. k \in Nat \ {0}
      BY <1>2
    <2>2. QED
      BY <2>1, RankOf
  <1>4. r <= Len(Rows)
    BY <1>2, <1>3
  <1>5. PICK c \in CLUSTERS : \E n \in DOMAIN claimed[c] : claimed[c][n] = r
    <2>1. CASE GLOBAL_WORK_QUEUE
      <3>1. next \in Nat /\ next >= Len(Rows)
        BY <1>1, <2>1 DEF PhaseInv, ClaimInv
      <3>2. r \in 1 .. next
        BY <1>2, <1>3, <1>4, <3>1
      <3>3. QED
        BY <1>1, <1>3, <2>1, <3>2 DEF QueueInv
    <2>2. CASE ~GLOBAL_WORK_QUEUE
      <3>1. PICK c \in CLUSTERS : \E n \in 1 .. Waves : StaticRows(c)[n] = r
        BY <1>1, <1>3, <1>4, StaticRowsCover
      <3>2. claimed[c] = StaticRows(c)
        BY <1>1, <2>2 DEF StaticInv
      <3>3. DOMAIN StaticRows(c) = 1 .. Waves
        BY DEF StaticRows
      <3>4. QED
        BY <3>1, <3>2, <3>3
    <2>3. QED
      BY <2>1, <2>2, MegakernelAssumption
  <1>6. PICK n \in DOMAIN claimed[c] : claimed[c][n] = r
    BY <1>5
  <1>7. PICK sm \in SMS : ClusterOf(sm) = c /\ sm % CLUSTER_SIZE = j
    BY PlaceOf
  <1>8. RowOf(sm, n) = k
    BY <1>3, <1>6, <1>7 DEF RowOf
  <1>9. retired[sm][w] = Len(claimed[c])
    BY <1>1, <1>7 DEF PhaseInv
  <1>10. retired[sm][w] >= n
    BY <1>1, <1>9 DEF ClaimInv
  <1>11. Passed(sm, n, w, i)
    BY <1>10 DEF Passed
  <1>12. i \in Nat
    <2>1. Len(Script(Rows[k], w)) \in Nat
      BY <1>1, RowFacts
    <2>2. QED
      BY <2>1 DEF StepsOf
  <1>13. QED
    BY <1>6, <1>7, <1>8, <1>11, <1>12, InTaken

---------------------------------------------------------------------------
(* The barriers.                                                           *)

\* The positions in a script are numbers.
LEMMA PositionsNat ==
  ASSUME NEW B, NEW inst, Typed(inst, B)
  PROVE  /\ LoadAt(inst) \in Nat \ {0} /\ LoadedAt(inst) \in Nat \ {0}
         /\ StoreAt(inst) \in Nat \ {0} /\ StoredAt(inst) \in Nat \ {0}
         /\ ArriveAfter(inst) \in Nat
  <1>1. Len(inst.inputs) \in Nat /\ Len(inst.reuses) \in Nat
    BY DEF Typed
  <1>2. PICK n \in Nat : n = Len(inst.inputs)
    BY <1>1
  <1>3. PICK m \in Nat : m = Len(inst.reuses)
    BY <1>1
  <1>4. Waits(inst) = n + m
    BY <1>2, <1>3 DEF Waits
  <1>5. LoadAt(inst) \in {n + 1, n + m + 1}
    BY <1>2, <1>4 DEF LoadAt
  <1>6. LoadedAt(inst) \in {1, 4, n + 3, n + m + 2}
    BY <1>2, <1>4 DEF LoadedAt
  <1>7. StoreAt(inst) \in {m + 2, 3, n + 2, n + m + 3}
    BY <1>2, <1>3, <1>4 DEF StoreAt
  <1>8. StoredAt(inst) \in {m + 3, 5, n + 4, n + m + 4}
    BY <1>2, <1>3, <1>4 DEF StoredAt
  <1>9. ArriveAfter(inst) \in {n + m + 4, StoredAt(inst)}
    BY <1>4 DEF ArriveAfter
  <1>10. QED
    BY <1>5, <1>6, <1>7, <1>8, <1>9

Loads(k) == <<k, Loader(Rows[k]), LoadAt(Rows[k])>> \in Taken
LoadDone(k) == <<k, Arriver(Rows[k]), LoadedAt(Rows[k])>> \in Taken
Stores(k) == <<k, Arriver(Rows[k]), StoreAt(Rows[k])>> \in Taken
StoreDone(k) == <<k, Arriver(Rows[k]), StoredAt(Rows[k])>> \in Taken
Arrived(a) ==
  <<a[1], Arriver(Rows[a[1]]), ArriveAfter(Rows[a[1]]) + a[2]>> \in Taken

\* The arrivals a barrier has had; whether it has had all.
ArrivedAt(b) == {a \in ArrivalsAt(Prog, b) : Arrived(a)}
Reached(b) == ArrivalsAt(Prog, b) \subseteq ArrivedAt(b)

BarrierInv ==
  /\ barrier = [b \in DOMAIN Prog.target |-> barrier[b]]
  /\ \A b \in DOMAIN Prog.target : barrier[b] = Cardinality(ArrivedAt(b))

\* What has been waited for has been reached, and stays so.
WaitInv ==
  \A k \in DOMAIN Rows, w \in WORKERS : \A i \in StepsOf(Rows[k], w) :
    <<k, w, i>> \in Taken /\ Op(Rows[k], w, i) = "wait"
      => \A b \in DOMAIN Prog.target :
           Script(Rows[k], w)[i][2] = b => Reached(b)

\* A step of warp w at row k, the i-th of its script, that does `op`.
Does(k, w, i, op) ==
  /\ Rows' = Rows /\ Prog' = Prog
  /\ k \in DOMAIN Rows /\ w \in WORKERS /\ GoodScript(Rows[k])
  /\ i \in StepsOf(Rows[k], w) /\ i \in Nat /\ Op(Rows[k], w, i) = op
  /\ \A j \in 1 .. i - 1 : <<k, w, j>> \in Taken
  /\ <<k, w, i>> \notin Taken /\ Taken' = Taken \cup {<<k, w, i>>}

\* What the steps of a warp do to the state.
LEMMA StepDoes ==
  ASSUME ControlInv, NEW sm \in SMS, NEW w \in WORKERS, NEW op, At(sm, w, op), Moves(sm, w)
  PROVE  Does(Row(sm, w), w, step[sm][w] + 1, op)
  <1>1. PICK i \in Nat : i = step[sm][w] + 1 /\ step[sm][w] = i - 1
    <2>1. step[sm][w] \in Nat
      BY DEF ControlInv, PlaceInv
    <2>2. QED
      BY <2>1
  <1>2. Prog' = Prog
    BY DEF Prog, Moves, dispatchVars
  <1>3. /\ Rows' = Rows
        /\ Row(sm, w) \in DOMAIN Rows /\ GoodScript(Rows[Row(sm, w)])
        /\ Steps(sm, w) = Script(Rows[Row(sm, w)], w)
        /\ i \in StepsOf(Rows[Row(sm, w)], w)
        /\ \A j \in 1 .. i - 1 : <<Row(sm, w), w, j>> \in Taken
        /\ <<Row(sm, w), w, i>> \notin Taken
        /\ Taken' = Taken \cup {<<Row(sm, w), w, i>>}
    BY <1>1, MoveTaken
  <1>4. Op(Rows[Row(sm, w)], w, i) = op
    BY <1>1, <1>3 DEF At, Op
  <1>5. Does(Row(sm, w), w, i, op)
    BY <1>2, <1>3, <1>4 DEF Does
  <1>6. QED
    BY <1>1, <1>5

\* A barrier has finitely many arrivals.
LEMMA ArrivalsFinite ==
  ASSUME PhaseInv, NEW b
  PROVE  IsFiniteSet(ArrivalsAt(Prog, b)) /\ IsFiniteSet(ArrivedAt(b))
  <1>1. PICK n \in Nat : RowsOf(Prog) = 1 .. n
    BY RowsFacts DEF WellFormed
  <1>2. MAX_DST_BARRIERS \in Nat
    BY SchedulingAssumption
  <1>3. IsFiniteSet(1 .. n) /\ IsFiniteSet(1 .. MAX_DST_BARRIERS)
    BY <1>1, <1>2, FS_Interval
  <1>4. IsFiniteSet(RowsOf(Prog) \X (1 .. MAX_DST_BARRIERS))
    BY <1>1, <1>3, FS_Product
  <1>5. ArrivalsAt(Prog, b) \subseteq RowsOf(Prog) \X (1 .. MAX_DST_BARRIERS)
    BY DEF ArrivalsAt
  <1>6. ArrivedAt(b) \subseteq ArrivalsAt(Prog, b)
    BY DEF ArrivedAt
  <1>7. QED
    BY <1>4, <1>5, <1>6, FS_Subset

\* An arrival is a row, and a place in its list.
LEMMA ArrivalFacts ==
  ASSUME PhaseInv, NEW b, NEW a \in ArrivalsAt(Prog, b)
  PROVE  \E k \in DOMAIN Rows, j \in Nat :
           /\ a = <<k, j>> /\ GoodScript(Rows[k]) /\ Typed(Rows[k], DOMAIN Prog.target)
           /\ j \in 1 .. Len(Rows[k].arrivals) /\ Rows[k].arrivals[j] = b
  <1>1. RowsOf(Prog) = DOMAIN Rows /\ Rows = Prog.instructions
    BY RowsFacts
  <1>2. PICK k \in DOMAIN Rows, j \in 1 .. MAX_DST_BARRIERS : a = <<k, j>>
    BY <1>1 DEF ArrivalsAt
  <1>3. j \in DOMAIN Rows[k].arrivals /\ Rows[k].arrivals[j] = b
    BY <1>1, <1>2 DEF ArrivalsAt
  <1>4. Typed(Rows[k], DOMAIN Prog.target)
    BY RowFacts
  <1>5. j \in 1 .. Len(Rows[k].arrivals)
    BY <1>3, <1>4 DEF Typed
  <1>6. Rows[k] # Noop
    <2>1. SUFFICES ASSUME Rows[k] = Noop PROVE FALSE
      OBVIOUS
    <2>2. Rows[k].arrivals = << >>
      BY <2>1 DEF Noop
    <2>3. QED
      BY <1>3, <2>2
  <1>7. GoodScript(Rows[k])
    BY <1>6, RowFacts
  <1>8. j \in Nat
    BY SchedulingAssumption
  <1>9. QED
    BY <1>2, <1>3, <1>4, <1>5, <1>7, <1>8

\* The arrivals that count after a step.
LEMMA ArrivedNext ==
  ASSUME Rows' = Rows, Prog' = Prog, NEW b
  PROVE  /\ ArrivalsAt(Prog, b)' = ArrivalsAt(Prog, b)
         /\ ArrivedAt(b)' =
              {a \in ArrivalsAt(Prog, b) :
                 <<a[1], Arriver(Rows[a[1]]), ArriveAfter(Rows[a[1]]) + a[2]>> \in Taken'}
  <1>1. ArrivalsAt(Prog, b)' = ArrivalsAt(Prog, b)
    BY DEF ArrivalsAt, RowsOf
  <1>2. QED
    BY <1>1 DEF ArrivedAt, Arrived

\* The place of an arrival in the script.
LEMMA ArriveStep ==
  ASSUME PhaseInv, NEW k \in DOMAIN Rows, GoodScript(Rows[k]),
         Typed(Rows[k], DOMAIN Prog.target),
         NEW j \in 1 .. Len(Rows[k].arrivals), NEW i, i = ArriveAfter(Rows[k]) + j
  PROVE  Script(Rows[k], Arriver(Rows[k]))[i] = <<"arrive", Rows[k].arrivals[j]>>
  BY DEF GoodScript, ArrivesLast

\* Steps that are no arrivals count at no barrier.
LEMMA OtherArrivals ==
  ASSUME PhaseInv, NEW k, NEW w, NEW i, NEW op, op # "arrive", Does(k, w, i, op), NEW b
  PROVE  ArrivedAt(b)' = ArrivedAt(b)
  <1>1. ASSUME NEW a \in ArrivalsAt(Prog, b)
        PROVE  <<a[1], Arriver(Rows[a[1]]), ArriveAfter(Rows[a[1]]) + a[2]>> # <<k, w, i>>
    <2>1. PICK r \in DOMAIN Rows, j \in Nat :
           /\ a = <<r, j>> /\ GoodScript(Rows[r]) /\ Typed(Rows[r], DOMAIN Prog.target)
           /\ j \in 1 .. Len(Rows[r].arrivals) /\ Rows[r].arrivals[j] = b
      BY ArrivalFacts
    <2>2. PICK x : x = ArriveAfter(Rows[r]) + j
      OBVIOUS
    <2>3. Op(Rows[r], Arriver(Rows[r]), x) = "arrive"
      BY <2>1, <2>2, ArriveStep DEF Op
    <2>4. SUFFICES ASSUME r = k, Arriver(Rows[r]) = w, x = i PROVE FALSE
      BY <2>1, <2>2
    <2>5. QED
      BY <2>3, <2>4 DEF Does
  <1>2. ArrivedAt(b)' =
              {a \in ArrivalsAt(Prog, b) :
                 <<a[1], Arriver(Rows[a[1]]), ArriveAfter(Rows[a[1]]) + a[2]>> \in Taken'}
    BY ArrivedNext DEF Does
  <1>3. Taken' = Taken \cup {<<k, w, i>>}
    BY DEF Does
  <1>4. QED
    BY <1>1, <1>2, <1>3 DEF ArrivedAt, Arrived

\* Barriers are reached for good.
LEMMA ReachedStays ==
  ASSUME Rows' = Rows, Prog' = Prog, Taken \subseteq Taken', NEW b, Reached(b)
  PROVE  Reached(b)'
  BY ArrivedNext DEF Reached, ArrivedAt, Arrived

\* An arrival at b: the j-th of row k.
LEMMA NewArrival ==
  ASSUME PhaseInv, NEW k, NEW w, NEW i, Does(k, w, i, "arrive")
  PROVE  \E j \in 1 .. Len(Rows[k].arrivals) :
           /\ Script(Rows[k], w)[i] = <<"arrive", Rows[k].arrivals[j]>>
           /\ Rows[k].arrivals[j] \in DOMAIN Prog.target
           /\ \A b : ArrivedAt(b)' =
                IF b = Rows[k].arrivals[j] THEN ArrivedAt(b) \cup {<<k, j>>}
                ELSE ArrivedAt(b)
           /\ \A b : <<k, j>> \notin ArrivedAt(b)
  <1>1. /\ Rows' = Rows /\ Prog' = Prog
        /\ k \in DOMAIN Rows /\ w \in WARPS /\ GoodScript(Rows[k])
        /\ i \in StepsOf(Rows[k], w) /\ i \in Nat /\ Op(Rows[k], w, i) = "arrive"
        /\ <<k, w, i>> \notin Taken /\ Taken' = Taken \cup {<<k, w, i>>}
    BY MegakernelAssumption DEF Does, WARPS
  <1>2. Typed(Rows[k], DOMAIN Prog.target)
    BY <1>1, RowFacts
  <1>3. PICK l \in Nat : l = ArriveAfter(Rows[k])
    BY <1>2, PositionsNat
  <1>4. w = Arriver(Rows[k]) /\ i > l
    BY <1>1, <1>3 DEF GoodScript, ArrivesLast
  <1>5. PICK j \in Nat : j = i - l /\ i = l + j /\ j >= 1
    BY <1>1, <1>4
  <1>6. Len(Rows[k].arrivals) \in Nat /\ i <= l + Len(Rows[k].arrivals)
    BY <1>1, <1>2, <1>3, <1>4 DEF GoodScript, ArrivesLast, StepsOf, Typed
  <1>7. j \in 1 .. Len(Rows[k].arrivals)
    BY <1>3, <1>5, <1>6, SMTT(30)
  <1>8. Script(Rows[k], w)[i] = <<"arrive", Rows[k].arrivals[j]>>
    BY <1>1, <1>2, <1>3, <1>4, <1>5, <1>7, ArriveStep
  <1>9. Rows[k].arrivals[j] \in DOMAIN Prog.target
    BY <1>2, <1>7 DEF Typed
  <1>10. j \in 1 .. MAX_DST_BARRIERS
    <2>1. WithinLimits(Rows)
      BY DEF PhaseInv, Accepted, Rows
    <2>2. Len(Rows[k].arrivals) <= MAX_DST_BARRIERS
      BY <1>1, <2>1 DEF WithinLimits
    <2>3. QED
      BY <1>6, <1>7, <2>2, SchedulingAssumption
  <1>11. <<k, j>> \in ArrivalsAt(Prog, Rows[k].arrivals[j])
    <2>1. RowsOf(Prog) = DOMAIN Rows /\ Rows = Prog.instructions
      BY RowsFacts
    <2>2. j \in DOMAIN Rows[k].arrivals
      BY <1>2, <1>7 DEF Typed
    <2>3. QED
      BY <1>1, <1>10, <2>1, <2>2 DEF ArrivalsAt
  <1>12. ASSUME NEW b, NEW a \in ArrivalsAt(Prog, b)
         PROVE  <<a[1], Arriver(Rows[a[1]]), ArriveAfter(Rows[a[1]]) + a[2]>> = <<k, w, i>>
                  <=> a = <<k, j>>
    <2>1. PICK r \in DOMAIN Rows, m \in Nat : a = <<r, m>>
      BY ArrivalFacts
    <2>2. QED
      BY <1>3, <1>4, <1>5, <2>1
  <1>13. \A b : <<k, j>> \notin ArrivedAt(b)
    BY <1>1, <1>3, <1>4, <1>5 DEF ArrivedAt, Arrived
  <1>14. ASSUME NEW b
         PROVE  ArrivedAt(b)' =
                  IF b = Rows[k].arrivals[j] THEN ArrivedAt(b) \cup {<<k, j>>}
                  ELSE ArrivedAt(b)
    <2>1. ArrivedAt(b)' =
              {a \in ArrivalsAt(Prog, b) :
                 <<a[1], Arriver(Rows[a[1]]), ArriveAfter(Rows[a[1]]) + a[2]>> \in Taken'}
      BY <1>1, ArrivedNext
    <2>2. ArrivedAt(b)' = {a \in ArrivalsAt(Prog, b) : Arrived(a) \/ a = <<k, j>>}
      BY <1>1, <1>12, <2>1 DEF Arrived
    <2>3. <<k, j>> \in ArrivalsAt(Prog, b) <=> b = Rows[k].arrivals[j]
      <3>1. ASSUME <<k, j>> \in ArrivalsAt(Prog, b)
            PROVE  b = Rows[k].arrivals[j]
        <4>1. PICK r \in DOMAIN Rows, m \in Nat :
                <<k, j>> = <<r, m>> /\ Rows[r].arrivals[m] = b
          BY <3>1, ArrivalFacts
        <4>2. QED
          BY <4>1
      <3>2. QED
        BY <1>11, <3>1
    <2>4. QED
      BY <2>2, <2>3 DEF ArrivedAt
  <1>15. QED
    BY <1>7, <1>8, <1>9, <1>13, <1>14

---------------------------------------------------------------------------
(* The steps of Next, as steps of the rows.                                *)

BarrierOf(k, w, i) == Script(Rows[k], w)[i][2]

RowWaits(k, w, i) ==
  /\ Does(k, w, i, "wait")
  /\ barrier[BarrierOf(k, w, i)] = Prog.target[BarrierOf(k, w, i)]
  /\ UNCHANGED <<barrier, memoryVars>>
RowArrives(k, w, i) ==
  /\ Does(k, w, i, "arrive")
  /\ barrier' = [barrier EXCEPT ![BarrierOf(k, w, i)] = @ + 1]
  /\ UNCHANGED memoryVars
RowLoads(k, w, i) ==
  /\ Does(k, w, i, "load")
  /\ loading' = loading \cup {k} /\ loaded' = loaded \ {k}
  /\ UNCHANGED <<barrier, memory, completed>>
RowLoaded(k, w, i) ==
  /\ Does(k, w, i, "loaded") /\ k \in loaded
  /\ UNCHANGED <<barrier, memoryVars>>
RowStores(k, w, i) ==
  /\ Does(k, w, i, "store")
  /\ memory' = [c \in DOMAIN memory |->
                  IF c \in CellsWritten(k) THEN Torn(k) ELSE memory[c]]
  /\ UNCHANGED <<barrier, loading, loaded, completed>>
RowStored(k, w, i) ==
  /\ Does(k, w, i, "stored")
  /\ memory' = [c \in DOMAIN memory |->
                  IF c \in CellsWritten(k) /\ memory[c] = Torn(k)
                  THEN DataOf(k, c) ELSE memory[c]]
  /\ completed' = completed \cup {k}
  /\ UNCHANGED <<barrier, loading, loaded>>

RowSteps(k, w, i) ==
  \/ RowWaits(k, w, i) \/ RowArrives(k, w, i) \/ RowLoads(k, w, i)
  \/ RowLoaded(k, w, i) \/ RowStores(k, w, i) \/ RowStored(k, w, i)

\* The data of a row has arrived.
Delivers(k) ==
  /\ Rows' = Rows /\ Prog' = Prog /\ Taken' = Taken
  /\ k \in loading
  /\ loading' = loading \ {k} /\ loaded' = loaded \cup {k}
  /\ UNCHANGED <<barrier, memory, completed>>

\* Nothing happens to the rows.
Rests ==
  /\ Rows' = Rows /\ Prog' = Prog /\ Taken' = Taken
  /\ UNCHANGED <<barrier, memoryVars>>

\* Nothing has happened yet.
Begins ==
  /\ Taken = {} /\ barrier = Zeroed /\ memory = FreshMemory
  /\ loading = {} /\ loaded = {} /\ completed = {}

\* A step of a warp is a step of its row, or rests.
LEMMA WorkerView ==
  ASSUME ControlInv, NEW sm \in SMS, NEW w \in WORKERS, Worker(sm, w)
  PROVE  /\ ControlInv'
         /\ Rests \/ \E k, i : RowSteps(k, w, i)
  <1> DEFINE k == Row(sm, w)
             i == step[sm][w] + 1
  <1>1. CASE Finish(sm, w)
    <2>1. Taken' = Taken /\ Rows' = Rows
      BY <1>1, FinishTaken
    <2>2. Prog' = Prog /\ UNCHANGED <<barrier, memoryVars>>
      BY <1>1 DEF Finish, Prog, dispatchVars
    <2>3. Rests
      BY <2>1, <2>2 DEF Rests
    <2>4. QED
      BY <1>1, <2>3, FinishControl
  <1>2. ASSUME Moves(sm, w), NEW op, At(sm, w, op)
        PROVE  /\ ControlInv' /\ Does(k, w, i, op)
               /\ Barrier(sm, w) = BarrierOf(k, w, i)
    <2>1. Steps(sm, w) = Script(Rows[k], w)
      BY <1>2, MoveTaken
    <2>2. QED
      BY <1>2, <2>1, MoveControl, StepDoes DEF Barrier, BarrierOf
  <1> HIDE DEF k, i
  <1>3. CASE Wait(sm, w)
    <2>1. Moves(sm, w) /\ At(sm, w, "wait")
      BY <1>3, StepsMove DEF Wait
    <2>2. RowWaits(k, w, i)
      BY <1>2, <1>3, <2>1 DEF Wait, RowWaits, Prog
    <2>3. QED
      BY <1>2, <2>1, <2>2 DEF RowSteps
  <1>4. CASE Arrive(sm, w)
    <2>1. Moves(sm, w) /\ At(sm, w, "arrive")
      BY <1>4, StepsMove DEF Arrive
    <2>2. RowArrives(k, w, i)
      BY <1>2, <1>4, <2>1 DEF Arrive, RowArrives
    <2>3. QED
      BY <1>2, <2>1, <2>2 DEF RowSteps
  <1>5. CASE Load(sm, w)
    <2>1. Moves(sm, w) /\ At(sm, w, "load")
      BY <1>5, StepsMove DEF Load
    <2>2. RowLoads(k, w, i)
      BY <1>2, <1>5, <2>1 DEF Load, RowLoads, k
    <2>3. QED
      BY <1>2, <2>1, <2>2 DEF RowSteps
  <1>6. CASE Loaded(sm, w)
    <2>1. Moves(sm, w) /\ At(sm, w, "loaded")
      BY <1>6, StepsMove DEF Loaded
    <2>2. RowLoaded(k, w, i)
      BY <1>2, <1>6, <2>1 DEF Loaded, RowLoaded, k
    <2>3. QED
      BY <1>2, <2>1, <2>2 DEF RowSteps
  <1>7. CASE Store(sm, w)
    <2>1. Moves(sm, w) /\ At(sm, w, "store")
      BY <1>7, StepsMove DEF Store
    <2>2. RowStores(k, w, i)
      BY <1>2, <1>7, <2>1 DEF Store, RowStores, k
    <2>3. QED
      BY <1>2, <2>1, <2>2 DEF RowSteps
  <1>8. CASE Stored(sm, w)
    <2>1. Moves(sm, w) /\ At(sm, w, "stored")
      BY <1>8, StepsMove DEF Stored
    <2>2. RowStored(k, w, i)
      BY <1>2, <1>8, <2>1 DEF Stored, RowStored, k
    <2>3. QED
      BY <1>2, <2>1, <2>2 DEF RowSteps
  <1>9. QED
    BY <1>1, <1>3, <1>4, <1>5, <1>6, <1>7, <1>8 DEF Worker

\* A launch begins anew,
LEMMA LaunchView ==
  ASSUME ControlInv, Launch
  PROVE  ControlInv' /\ Begins' /\ Rows' = Rows /\ Prog' = Prog
  <1>1. ControlInv' /\ Taken' = {} /\ Rows' = Rows
    BY LaunchControl, LaunchTaken
  <1>2. Prog' = Prog
    BY DEF Launch, Prog
  <1>3. Zeroed' = Zeroed
    BY DEF Zeroed, Launch
  <1>4. FreshMemory' = FreshMemory
    <2>1. Inputs' = Inputs
      BY DEF Inputs, Launch
    <2>2. Cells' = Cells
      BY <1>1, <2>1 DEF Cells
    <2>3. QED
      BY <2>1, <2>2 DEF FreshMemory
  <1>5. /\ barrier' = Zeroed' /\ memory' = FreshMemory'
        /\ loading' = {} /\ loaded' = {} /\ completed' = {}
    BY <1>3, <1>4 DEF Launch, ResetBarriers
  <1>6. QED
    BY <1>1, <1>2, <1>5 DEF Begins

\* as the initial state does.
LEMMA InitView ==
  ASSUME Init
  PROVE  ControlInv /\ Begins
  BY InitControl, InitTaken DEF Init, Begins

\* Every step is one of these.
LEMMA NextView ==
  ASSUME ControlInv, [Next]_vars
  PROVE  /\ ControlInv'
         /\ \/ Begins' /\ Rows' = Rows /\ Prog' = Prog
            \/ Rests
            \/ \E k : Delivers(k)
            \/ \E k, w, i : RowSteps(k, w, i)
  <1>1. CASE Launch
    BY <1>1, LaunchView
  <1>2. CASE Return
    <2>1. ControlInv' /\ Taken' = Taken /\ Rows' = Rows
      BY <1>2, StillControl, StillTaken
    <2>2. Prog' = Prog /\ UNCHANGED <<barrier, memoryVars>>
      BY <1>2 DEF Return, Prog
    <2>3. Rests
      BY <2>1, <2>2 DEF Rests
    <2>4. QED
      BY <2>1, <2>3
  <1>3. CASE \E cluster \in CLUSTERS : Claim(cluster)
    <2>1. PICK c \in CLUSTERS : Claim(c)
      BY <1>3
    <2>2. ControlInv' /\ Taken' = Taken /\ Rows' = Rows
      BY <2>1, ClaimControl, ClaimTaken
    <2>3. Prog' = Prog /\ UNCHANGED <<barrier, memoryVars>>
      BY <2>1 DEF Claim, Prog, dispatchVars
    <2>4. Rests
      BY <2>2, <2>3 DEF Rests
    <2>5. QED
      BY <2>2, <2>4
  <1>4. CASE \E sm \in SMS, w \in WORKERS : Worker(sm, w)
    BY <1>4, WorkerView
  <1>5. CASE \E row \in loading : Deliver(row)
    <2>1. PICK k \in loading : Deliver(k)
      BY <1>5
    <2>2. UNCHANGED <<dispatchVars, next, claimed, retired, step>>
      BY <2>1 DEF Deliver
    <2>3. ControlInv' /\ Taken' = Taken /\ Rows' = Rows
      BY <2>2, StillControl, StillTaken
    <2>4. Prog' = Prog
      BY <2>2 DEF Prog, dispatchVars
    <2>5. Delivers(k)
      BY <2>1, <2>3, <2>4 DEF Deliver, Delivers
    <2>6. QED
      BY <2>3, <2>5
  <1>6. CASE UNCHANGED vars
    <2>1. UNCHANGED <<dispatchVars, next, claimed, retired, step>>
      BY <1>6 DEF vars
    <2>2. ControlInv' /\ Taken' = Taken /\ Rows' = Rows
      BY <2>1, StillControl, StillTaken
    <2>3. Prog' = Prog /\ UNCHANGED <<barrier, memoryVars>>
      BY <1>6 DEF vars, Prog, dispatchVars
    <2>4. Rests
      BY <2>2, <2>3 DEF Rests
    <2>5. QED
      BY <2>2, <2>4
  <1>7. QED
    BY <1>1, <1>2, <1>3, <1>4, <1>5, <1>6 DEF Next

---------------------------------------------------------------------------
(* A barrier counts its arrivals, and is waited for until it has all.      *)

SyncInv == BarrierInv /\ WaitInv

\* A program's targets are a function.
LEMMA TargetFunction ==
  ASSUME PhaseInv
  PROVE  Prog.target = [b \in DOMAIN Prog.target |-> Prog.target[b]]
  BY DEF PhaseInv, Prog, Programs, Schedule, Program

\* The target of a barrier is the number of its arrivals.
LEMMA TargetsExact ==
  ASSUME PhaseInv, NEW b \in DOMAIN Prog.target
  PROVE  Prog.target[b] = Cardinality(ArrivalsAt(Prog, b))
  BY RowsFacts DEF ExactTargets

\* A barrier never has more arrivals than are expected; when it has them all,
\* all have arrived.
LEMMA TargetReached ==
  ASSUME PhaseInv, BarrierInv, NEW b \in DOMAIN Prog.target
  PROVE  /\ barrier[b] \in Nat /\ barrier[b] <= Prog.target[b]
         /\ barrier[b] = Prog.target[b] <=> Reached(b)
  <1>1. IsFiniteSet(ArrivalsAt(Prog, b)) /\ IsFiniteSet(ArrivedAt(b))
    BY ArrivalsFinite
  <1>2. ArrivedAt(b) \subseteq ArrivalsAt(Prog, b)
    BY DEF ArrivedAt
  <1>3. /\ barrier[b] = Cardinality(ArrivedAt(b))
        /\ Prog.target[b] = Cardinality(ArrivalsAt(Prog, b))
    BY TargetsExact DEF BarrierInv
  <1>4. /\ Cardinality(ArrivedAt(b)) \in Nat
        /\ Cardinality(ArrivedAt(b)) <= Cardinality(ArrivalsAt(Prog, b))
        /\ Cardinality(ArrivedAt(b)) = Cardinality(ArrivalsAt(Prog, b))
             => ArrivedAt(b) = ArrivalsAt(Prog, b)
    BY <1>1, <1>2, FS_CardinalityType, FS_Subset
  <1>5. QED
    BY <1>2, <1>3, <1>4 DEF Reached

\* At first no barrier has an arrival.
LEMMA BeginsSync ==
  ASSUME PhaseInv, Begins
  PROVE  SyncInv
  <1>1. ASSUME NEW b \in DOMAIN Prog.target
        PROVE  barrier[b] = 0 /\ ArrivedAt(b) = {}
    BY DEF Begins, Zeroed, Prog, ArrivedAt, Arrived
  <1>2. barrier = [b \in DOMAIN Prog.target |-> barrier[b]]
    BY DEF Begins, Zeroed, Prog
  <1>3. Cardinality({}) = 0
    BY FS_EmptySet
  <1>4. BarrierInv
    BY <1>1, <1>2, <1>3 DEF BarrierInv
  <1>5. WaitInv
    BY DEF WaitInv, Begins
  <1>6. QED
    BY <1>4, <1>5 DEF SyncInv

\* Without an arrival the barriers keep their count,
LEMMA BarriersKept ==
  ASSUME BarrierInv, Prog' = Prog, barrier' = barrier,
         \A b : ArrivedAt(b)' = ArrivedAt(b)
  PROVE  BarrierInv'
  BY DEF BarrierInv

\* and without a step the waits that have ended are the same.
LEMMA WaitsKept ==
  ASSUME WaitInv, Rows' = Rows, Prog' = Prog, Taken' = Taken
  PROVE  WaitInv'
  BY ReachedStays DEF WaitInv

\* A row takes a step; if it is a wait the barrier has been reached.
LEMMA WaitsAdded ==
  ASSUME WaitInv, NEW k, NEW w, NEW i, NEW op, Does(k, w, i, op),
         op = "wait" => \A b \in DOMAIN Prog.target :
                          BarrierOf(k, w, i) = b => Reached(b)
  PROVE  WaitInv'
  <1>1. Rows' = Rows /\ Prog' = Prog /\ Taken' = Taken \cup {<<k, w, i>>}
    BY DEF Does
  <1>2. SUFFICES ASSUME NEW r \in DOMAIN Rows, NEW v \in WORKERS, NEW j \in StepsOf(Rows[r], v),
                        <<r, v, j>> \in Taken', Op(Rows[r], v, j) = "wait",
                        NEW b \in DOMAIN Prog.target, Script(Rows[r], v)[j][2] = b
                 PROVE  Reached(b)'
    BY <1>1 DEF WaitInv
  <1>3. Reached(b)
    <2>1. CASE <<r, v, j>> \in Taken
      BY <1>2, <2>1 DEF WaitInv
    <2>2. CASE <<r, v, j>> \notin Taken
      <3>1. r = k /\ v = w /\ j = i
        BY <1>1, <1>2, <2>2
      <3>2. op = "wait"
        BY <1>2, <3>1 DEF Does
      <3>3. QED
        BY <1>2, <3>1, <3>2 DEF BarrierOf
    <2>3. QED
      BY <2>1, <2>2
  <1>4. QED
    BY <1>1, <1>3, ReachedStays

\* An arrival counts at its barrier, and there alone.
LEMMA ArriveSync ==
  ASSUME PhaseInv, SyncInv, NEW k, NEW w, NEW i, RowArrives(k, w, i)
  PROVE  SyncInv'
  <1>1. Does(k, w, i, "arrive") /\ BarrierInv /\ WaitInv
    BY DEF RowArrives, SyncInv
  <1>2. Prog' = Prog
    BY <1>1 DEF Does
  <1>3. PICK j \in 1 .. Len(Rows[k].arrivals) :
           /\ Script(Rows[k], w)[i] = <<"arrive", Rows[k].arrivals[j]>>
           /\ Rows[k].arrivals[j] \in DOMAIN Prog.target
           /\ \A b : ArrivedAt(b)' =
                IF b = Rows[k].arrivals[j] THEN ArrivedAt(b) \cup {<<k, j>>}
                ELSE ArrivedAt(b)
           /\ \A b : <<k, j>> \notin ArrivedAt(b)
    BY <1>1, NewArrival
  <1>4. PICK c \in DOMAIN Prog.target :
          c = Rows[k].arrivals[j] /\ c = BarrierOf(k, w, i)
    BY <1>3 DEF BarrierOf
  <1>5. barrier' = [barrier EXCEPT ![c] = @ + 1]
    BY <1>4 DEF RowArrives
  <1>6. barrier = [b \in DOMAIN Prog.target |-> barrier[b]]
    BY <1>1 DEF BarrierInv
  <1>7. barrier' = [b \in DOMAIN Prog.target |-> barrier'[b]]
    BY <1>5, <1>6
  <1>8. ASSUME NEW b \in DOMAIN Prog.target
        PROVE  barrier'[b] = Cardinality(ArrivedAt(b)')
    <2>1. CASE b = c
      <3>1. ArrivedAt(b)' = ArrivedAt(b) \cup {<<k, j>>} /\ <<k, j>> \notin ArrivedAt(b)
        BY <1>3, <1>4, <2>1
      <3>2. IsFiniteSet(ArrivedAt(b))
        BY ArrivalsFinite
      <3>3. Cardinality(ArrivedAt(b) \cup {<<k, j>>}) = Cardinality(ArrivedAt(b)) + 1
        BY <3>1, <3>2, FS_AddElement
      <3>4. barrier'[b] = barrier[b] + 1 /\ barrier[b] = Cardinality(ArrivedAt(b))
        BY <1>1, <1>5, <1>6, <2>1 DEF BarrierInv
      <3>5. QED
        BY <3>1, <3>3, <3>4
    <2>2. CASE b # c
      BY <1>1, <1>3, <1>4, <1>5, <1>6, <2>2 DEF BarrierInv
    <2>3. QED
      BY <2>1, <2>2
  <1>9. BarrierInv'
    BY <1>2, <1>7, <1>8 DEF BarrierInv
  <1>10. WaitInv'
    BY <1>1, WaitsAdded
  <1>11. QED
    BY <1>9, <1>10 DEF SyncInv

\* Every step of a row keeps the barriers counting,
LEMMA SyncStep ==
  ASSUME ControlInv, SyncInv, NEW k, NEW w, NEW i, RowSteps(k, w, i)
  PROVE  SyncInv'
  <1>1. BarrierInv /\ WaitInv /\ PhaseInv
    BY DEF SyncInv, ControlInv
  <1>2. CASE RowArrives(k, w, i)
    BY <1>1, <1>2, ArriveSync
  <1>3. ASSUME NEW op, op # "arrive", Does(k, w, i, op), barrier' = barrier,
               op = "wait" => \A b \in DOMAIN Prog.target :
                                BarrierOf(k, w, i) = b => Reached(b)
        PROVE  SyncInv'
    <2>1. \A b : ArrivedAt(b)' = ArrivedAt(b)
      BY <1>1, <1>3, OtherArrivals
    <2>2. BarrierInv'
      BY <1>1, <1>3, <2>1, BarriersKept DEF Does
    <2>3. WaitInv'
      BY <1>1, <1>3, WaitsAdded
    <2>4. QED
      BY <2>2, <2>3 DEF SyncInv
  <1>4. CASE RowWaits(k, w, i)
    <2>1. ASSUME NEW b \in DOMAIN Prog.target, BarrierOf(k, w, i) = b
          PROVE  Reached(b)
      BY <1>1, <1>4, <2>1, TargetReached DEF RowWaits
    <2>2. QED
      BY <1>3, <1>4, <2>1 DEF RowWaits
  <1>5. CASE RowLoads(k, w, i) \/ RowLoaded(k, w, i) \/ RowStores(k, w, i) \/ RowStored(k, w, i)
    BY <1>3, <1>5 DEF RowLoads, RowLoaded, RowStores, RowStored
  <1>6. QED
    BY <1>2, <1>4, <1>5 DEF RowSteps

\* and so does every step.
LEMMA SyncNext ==
  ASSUME ControlInv, SyncInv, [Next]_vars
  PROVE  ControlInv' /\ SyncInv'
  <1>1. ControlInv'
    BY NextView
  <1>2. CASE Begins' /\ Rows' = Rows /\ Prog' = Prog
    <2>1. PhaseInv'
      BY <1>1 DEF ControlInv
    <2>2. ASSUME NEW b \in DOMAIN Prog.target
          PROVE  barrier'[b] = 0 /\ ArrivedAt(b)' = {}
      BY <1>2, ArrivedNext DEF Begins, Zeroed, Prog
    <2>3. barrier' = [b \in DOMAIN Prog.target |-> barrier'[b]]
      BY <1>2 DEF Begins, Zeroed, Prog
    <2>4. Cardinality({}) = 0
      BY FS_EmptySet
    <2>5. BarrierInv'
      BY <1>2, <2>2, <2>3, <2>4 DEF BarrierInv
    <2>6. WaitInv'
      BY <1>2 DEF WaitInv, Begins
    <2>7. QED
      BY <1>1, <2>5, <2>6 DEF SyncInv
  <1>3. CASE Rests \/ \E k : Delivers(k)
    <2>1. Rows' = Rows /\ Prog' = Prog /\ Taken' = Taken /\ barrier' = barrier
      BY <1>3 DEF Rests, Delivers
    <2>2. \A b : ArrivedAt(b)' = ArrivedAt(b)
      BY <2>1, ArrivedNext DEF ArrivedAt, Arrived
    <2>3. QED
      BY <1>1, <2>1, <2>2, BarriersKept, WaitsKept DEF SyncInv
  <1>4. CASE \E k, w, i : RowSteps(k, w, i)
    BY <1>1, <1>4, SyncStep
  <1>5. QED
    BY <1>2, <1>3, <1>4, NextView

\* No barrier ever passes its target (utils.cuh barrier_wait waits for
\* equality), whatever the order the SMs run the rows in.
THEOREM BarrierTargetsHold == Spec => []BarriersNeverPass
  <1>1. ASSUME ControlInv, SyncInv
        PROVE  BarriersNeverPass
    <2>1. BarrierInv /\ PhaseInv /\ DOMAIN barrier = DOMAIN Prog.target
      BY <1>1 DEF SyncInv, BarrierInv, ControlInv
    <2>2. QED
      BY <2>1, TargetReached DEF BarriersNeverPass, Prog
  <1>2. Init => ControlInv /\ SyncInv
    BY InitView, BeginsSync DEF ControlInv
  <1>3. ControlInv /\ SyncInv /\ [Next]_vars => (ControlInv /\ SyncInv)'
    BY SyncNext
  <1>4. QED
    BY <1>1, <1>2, <1>3, PTL DEF Spec

---------------------------------------------------------------------------
(* Which rows load and store, and when.                                    *)

\* The rows that have begun to store, and those that have stored.
Begun == {k \in DOMAIN Rows : Stores(k)}
Done == {k \in DOMAIN Rows : StoreDone(k)}

\* A warp takes the steps of a row in order.
LEMMA TakenBelow ==
  ASSUME ControlInv, NEW k, NEW w, NEW i, <<k, w, i>> \in Taken, NEW j \in 1 .. i
  PROVE  <<k, w, j>> \in Taken /\ j \in StepsOf(Rows[k], w)
  <1>1. /\ k \in DOMAIN Rows /\ w \in WORKERS /\ i \in Nat
        /\ i \in StepsOf(Rows[k], w)
    BY InTaken
  <1>2. PICK sm \in SMS : \E n \in DOMAIN claimed[ClusterOf(sm)] :
          RowOf(sm, n) = k /\ Passed(sm, n, w, i)
    BY InTaken
  <1>3. PICK n \in DOMAIN claimed[ClusterOf(sm)] :
          RowOf(sm, n) = k /\ Passed(sm, n, w, i)
    BY <1>2
  <1>4. step[sm][w] \in Nat
    BY <1>1 DEF ControlInv, PlaceInv
  <1>5. Passed(sm, n, w, j)
    BY <1>1, <1>3, <1>4 DEF Passed
  <1>6. Len(Script(Rows[k], w)) \in Nat
    BY <1>1, RowFacts DEF ControlInv
  <1>7. j \in Nat /\ j \in StepsOf(Rows[k], w)
    BY <1>1, <1>6 DEF StepsOf
  <1>8. QED
    BY <1>1, <1>3, <1>5, <1>7, InTaken

\* A row that has taken a step is no Noop.
LEMMA TakenGood ==
  ASSUME ControlInv, NEW k, NEW w, NEW i, <<k, w, i>> \in Taken
  PROVE  /\ k \in DOMAIN Rows /\ w \in WORKERS /\ w \in WARPS
         /\ i \in Nat /\ i \in StepsOf(Rows[k], w)
         /\ GoodScript(Rows[k]) /\ Typed(Rows[k], DOMAIN Prog.target)
  <1>1. /\ k \in DOMAIN Rows /\ w \in WORKERS /\ i \in Nat
        /\ i \in StepsOf(Rows[k], w)
    BY InTaken
  <1>2. w \in WARPS
    BY <1>1, MegakernelAssumption DEF WARPS
  <1>3. Script(Rows[k], w) # << >>
    BY <1>1 DEF StepsOf
  <1>4. QED
    BY <1>1, <1>2, <1>3, RowFacts DEF ControlInv

\* A row that has stored has begun to, and its loads have arrived.
LEMMA DoneBegun ==
  ASSUME ControlInv, NEW k, StoreDone(k)
  PROVE  Stores(k) /\ LoadDone(k)
  <1>1. /\ GoodScript(Rows[k]) /\ Typed(Rows[k], DOMAIN Prog.target)
    BY TakenGood DEF StoreDone
  <1>2. /\ StoreAt(Rows[k]) \in 1 .. StoredAt(Rows[k]) - 1
        /\ LoadedAt(Rows[k]) \in 1 .. StoredAt(Rows[k]) - 1
    BY <1>1 DEF GoodScript, StoresOnce
  <1>3. StoredAt(Rows[k]) \in Nat
    BY <1>1, PositionsNat
  <1>4. /\ StoreAt(Rows[k]) \in 1 .. StoredAt(Rows[k])
        /\ LoadedAt(Rows[k]) \in 1 .. StoredAt(Rows[k])
    BY <1>2, <1>3
  <1>5. QED
    BY <1>4, TakenBelow DEF StoreDone, Stores, LoadDone

\* What a step changes of them.
LEMMA BegunNext ==
  ASSUME ControlInv, NEW k, NEW w, NEW i, NEW op, Does(k, w, i, op)
  PROVE  /\ Begun' = IF op = "store" THEN Begun \cup {k} ELSE Begun
         /\ Done' = IF op = "stored" THEN Done \cup {k} ELSE Done
         /\ op = "store" => k \notin Begun /\ k \notin Done
         /\ op = "stored" => k \in Begun /\ k \notin Done
  <1>1. /\ Rows' = Rows /\ Taken' = Taken \cup {<<k, w, i>>}
        /\ <<k, w, i>> \notin Taken /\ k \in DOMAIN Rows
    BY DEF Does
  <1>2. /\ op = "store" <=> w = Arriver(Rows[k]) /\ i = StoreAt(Rows[k])
        /\ op = "stored" <=> w = Arriver(Rows[k]) /\ i = StoredAt(Rows[k])
    <2>1. w \in WARPS
      BY MegakernelAssumption DEF Does, WARPS
    <2>2. QED
      BY <2>1 DEF Does, GoodScript, StoresOnce
  <1>3. \A r \in DOMAIN Rows :
          Stores(r)' <=> Stores(r) \/ (r = k /\ op = "store")
    <2>1. SUFFICES ASSUME NEW r \in DOMAIN Rows
                   PROVE  Stores(r)' <=> Stores(r) \/ (r = k /\ op = "store")
      OBVIOUS
    <2>2. Stores(r)' <=> <<r, Arriver(Rows[r]), StoreAt(Rows[r])>> \in Taken \cup {<<k, w, i>>}
      BY <1>1 DEF Stores
    <2>3. <<r, Arriver(Rows[r]), StoreAt(Rows[r])>> = <<k, w, i>> <=> r = k /\ op = "store"
      BY <1>2
    <2>4. QED
      BY <2>2, <2>3 DEF Stores
  <1>4. \A r \in DOMAIN Rows :
          StoreDone(r)' <=> StoreDone(r) \/ (r = k /\ op = "stored")
    <2>1. SUFFICES ASSUME NEW r \in DOMAIN Rows
                   PROVE  StoreDone(r)' <=> StoreDone(r) \/ (r = k /\ op = "stored")
      OBVIOUS
    <2>2. StoreDone(r)' <=> <<r, Arriver(Rows[r]), StoredAt(Rows[r])>> \in Taken \cup {<<k, w, i>>}
      BY <1>1 DEF StoreDone
    <2>3. <<r, Arriver(Rows[r]), StoredAt(Rows[r])>> = <<k, w, i>> <=> r = k /\ op = "stored"
      BY <1>2
    <2>4. QED
      BY <2>2, <2>3 DEF StoreDone
  <1>5. op = "store" => ~Stores(k)
    BY <1>1, <1>2 DEF Stores
  <1>6. op = "stored" => ~StoreDone(k) /\ Stores(k)
    <2>1. HAVE op = "stored"
    <2>2. ~StoreDone(k)
      BY <1>1, <1>2, <2>1 DEF StoreDone
    <2>3. StoreAt(Rows[k]) \in 1 .. i - 1
      BY <1>2, <2>1 DEF Does, GoodScript, StoresOnce
    <2>4. Stores(k)
      BY <1>2, <2>1, <2>3 DEF Does, Stores
    <2>5. QED
      BY <2>2, <2>4
  <1>7. op = "store" => ~StoreDone(k)
    BY <1>5, DoneBegun
  <1>8. Begun' = {r \in DOMAIN Rows : Stores(r) \/ (r = k /\ op = "store")}
    BY <1>1, <1>3 DEF Begun
  <1>9. Done' = {r \in DOMAIN Rows : StoreDone(r) \/ (r = k /\ op = "stored")}
    BY <1>1, <1>4 DEF Done
  <1>10. QED
    BY <1>1, <1>5, <1>6, <1>7, <1>8, <1>9 DEF Begun, Done

LoadInv ==
  /\ loading \subseteq DOMAIN Rows /\ loaded \subseteq DOMAIN Rows
  /\ \A k \in loading \cup loaded : Loads(k)
  /\ \A k \in loading : k \notin loaded /\ ~LoadDone(k)
  /\ \A k \in DOMAIN Rows, w \in WORKERS : \A i \in StepsOf(Rows[k], w) :
       <<k, w, i>> \in Taken /\ Op(Rows[k], w, i) = "loaded" => Loads(k)

\* LoadDone changes with a wait for the data only.
LEMMA LoadsNext ==
  ASSUME ControlInv, NEW k, NEW w, NEW i, NEW op, Does(k, w, i, op)
  PROVE  /\ \A r : Loads(r) => Loads(r)'
         /\ \A r : LoadDone(r)' => LoadDone(r) \/ (r = k /\ op = "loaded")
  <1>1. Rows' = Rows /\ Taken' = Taken \cup {<<k, w, i>>}
    BY DEF Does
  <1>2. ASSUME NEW r, Loads(r) PROVE Loads(r)'
    BY <1>1, <1>2 DEF Loads
  <1>3. ASSUME NEW r, LoadDone(r)', ~LoadDone(r)
        PROVE  r = k /\ op = "loaded"
    <2>1. <<r, Arriver(Rows[r]), LoadedAt(Rows[r])>> \in Taken \cup {<<k, w, i>>}
      BY <1>1, <1>3 DEF LoadDone
    <2>2. r = k /\ w = Arriver(Rows[k]) /\ i = LoadedAt(Rows[k])
      BY <1>3, <2>1 DEF LoadDone
    <2>3. Op(Rows[k], Arriver(Rows[k]), LoadedAt(Rows[k])) = "loaded"
      BY DEF Does, GoodScript, LoadsFirst
    <2>4. QED
      BY <2>2, <2>3 DEF Does
  <1>4. QED
    BY <1>2, <1>3

\* Waits for data end when a load of the row has been issued.
LEMMA LoadedKept ==
  ASSUME ControlInv, LoadInv, NEW k, NEW w, NEW i, NEW op, Does(k, w, i, op),
         op = "loaded" => k \in loaded
  PROVE  \A r \in DOMAIN Rows, v \in WORKERS : \A j \in StepsOf(Rows[r], v) :
           <<r, v, j>> \in Taken' /\ Op(Rows[r], v, j) = "loaded" => Loads(r)'
  <1>1. SUFFICES ASSUME NEW r \in DOMAIN Rows, NEW v \in WORKERS, NEW j \in StepsOf(Rows[r], v),
                        <<r, v, j>> \in Taken', Op(Rows[r], v, j) = "loaded"
                 PROVE  Loads(r)'
    OBVIOUS
  <1>2. CASE <<r, v, j>> \in Taken
    BY <1>1, <1>2, LoadsNext DEF LoadInv
  <1>3. CASE <<r, v, j>> \notin Taken
    <2>1. r = k /\ v = w /\ j = i
      BY <1>1, <1>3 DEF Does
    <2>2. op = "loaded"
      BY <1>1, <2>1 DEF Does
    <2>3. QED
      BY <2>1, <2>2, LoadsNext DEF LoadInv
  <1>4. QED
    BY <1>2, <1>3

\* A load is the first of its row, or its warp has seen the first arrive
\* and is yet to wait for this one.
LEMMA LoadStep ==
  ASSUME ControlInv, LoadInv, NEW k, NEW w, NEW i, RowLoads(k, w, i)
  PROVE  LoadInv'
  <1>1. /\ Does(k, w, i, "load") /\ Rows' = Rows /\ k \in DOMAIN Rows
        /\ loading' = loading \cup {k} /\ loaded' = loaded \ {k}
    BY DEF RowLoads, Does
  <1>2. w \in WARPS
    BY MegakernelAssumption DEF RowLoads, Does, WARPS
  <1>3. GoodScript(Rows[k]) /\ i \in StepsOf(Rows[k], w) /\ Op(Rows[k], w, i) = "load" /\ i \in Nat
    BY <1>1 DEF Does
  <1>4. \/ w = Loader(Rows[k]) /\ i = LoadAt(Rows[k])
        \/ /\ w = Arriver(Rows[k]) /\ i > 1 /\ i < LoadedAt(Rows[k])
           /\ Op(Rows[k], w, 1) = "loaded"
    BY <1>2, <1>3 DEF GoodScript, LoadsFirst
  <1>5. Loads(k)' /\ ~LoadDone(k)
    <2>1. CASE w = Loader(Rows[k]) /\ i = LoadAt(Rows[k])
      <3>1. Loads(k)'
        BY <1>1, <2>1 DEF Does, Loads
      <3>2. ~Loads(k)
        BY <1>1, <2>1 DEF Does, Loads
      <3>3. ~LoadDone(k)
        <4>1. SUFFICES ASSUME LoadDone(k) PROVE FALSE
          OBVIOUS
        <4>2. /\ Arriver(Rows[k]) \in WORKERS
              /\ LoadedAt(Rows[k]) \in StepsOf(Rows[k], Arriver(Rows[k]))
          BY <4>1, TakenGood DEF LoadDone
        <4>3. Op(Rows[k], Arriver(Rows[k]), LoadedAt(Rows[k])) = "loaded"
          BY <1>3 DEF GoodScript, LoadsFirst
        <4>4. QED
          BY <1>1, <3>2, <4>1, <4>2, <4>3 DEF LoadInv, LoadDone
      <3>4. QED
        BY <3>1, <3>3
    <2>2. CASE /\ w = Arriver(Rows[k]) /\ i > 1 /\ i < LoadedAt(Rows[k])
               /\ Op(Rows[k], w, 1) = "loaded"
      <3>1. 1 \in 1 .. i - 1
        BY <1>3, <2>2
      <3>2. <<k, w, 1>> \in Taken
        BY <1>1, <3>1 DEF Does
      <3>3. Loads(k)
        BY <2>2, <3>2, TakenGood DEF LoadInv
      <3>4. ~LoadDone(k)
        <4>1. SUFFICES ASSUME LoadDone(k) PROVE FALSE
          OBVIOUS
        <4>2. LoadedAt(Rows[k]) \in Nat
          BY <4>1, TakenGood DEF LoadDone
        <4>3. i \in 1 .. LoadedAt(Rows[k])
          BY <1>3, <2>2, <4>2
        <4>4. <<k, w, i>> \in Taken
          BY <2>2, <4>1, <4>3, TakenBelow DEF LoadDone
        <4>5. QED
          BY <1>1, <4>4 DEF Does
      <3>5. QED
        BY <1>1, <3>3, <3>4, LoadsNext
    <2>3. QED
      BY <1>4, <2>1, <2>2
  <1>6. \A r \in loading' \cup loaded' : Loads(r)'
    BY <1>1, <1>5, LoadsNext DEF LoadInv
  <1>7. \A r \in loading' : r \notin loaded' /\ ~LoadDone(r)'
    BY <1>1, <1>5, LoadsNext DEF LoadInv
  <1>8. \A r \in DOMAIN Rows, v \in WORKERS : \A j \in StepsOf(Rows[r], v) :
           <<r, v, j>> \in Taken' /\ Op(Rows[r], v, j) = "loaded" => Loads(r)'
    BY <1>1, LoadedKept
  <1>9. QED
    BY <1>1, <1>6, <1>7, <1>8 DEF LoadInv

\* The steps that load nothing.
LEMMA LoadKept ==
  ASSUME ControlInv, LoadInv, NEW k, NEW w, NEW i, NEW op, Does(k, w, i, op),
         op = "loaded" => k \in loaded, loading' = loading, loaded' = loaded
  PROVE  LoadInv'
  <1>1. Rows' = Rows
    BY DEF Does
  <1>2. \A r \in loading \cup loaded : Loads(r)'
    BY LoadsNext DEF LoadInv
  <1>3. \A r \in loading : r \notin loaded /\ ~LoadDone(r)'
    BY LoadsNext DEF LoadInv
  <1>4. \A r \in DOMAIN Rows, v \in WORKERS : \A j \in StepsOf(Rows[r], v) :
           <<r, v, j>> \in Taken' /\ Op(Rows[r], v, j) = "loaded" => Loads(r)'
    BY LoadedKept
  <1>5. QED
    BY <1>1, <1>2, <1>3, <1>4 DEF LoadInv

\* Every step keeps LoadInv.
LEMMA LoadNext ==
  ASSUME ControlInv, LoadInv, [Next]_vars
  PROVE  LoadInv'
  <1>1. CASE Begins' /\ Rows' = Rows /\ Prog' = Prog
    BY <1>1 DEF Begins, LoadInv
  <1>2. CASE Rests
    BY <1>2 DEF Rests, LoadInv, Loads, LoadDone, memoryVars
  <1>3. CASE \E k : Delivers(k)
    BY <1>3 DEF Delivers, LoadInv, Loads, LoadDone
  <1>4. CASE \E k, w, i : RowSteps(k, w, i)
    <2>1. PICK k, w, i : RowSteps(k, w, i)
      BY <1>4
    <2>2. CASE RowLoads(k, w, i)
      BY <2>2, LoadStep
    <2>3. CASE RowLoaded(k, w, i)
      BY <2>3, LoadKept DEF RowLoaded, memoryVars
    <2>4. CASE RowWaits(k, w, i)
      BY <2>4, LoadKept DEF RowWaits, memoryVars
    <2>5. CASE RowArrives(k, w, i)
      BY <2>5, LoadKept DEF RowArrives, memoryVars
    <2>6. CASE RowStores(k, w, i)
      BY <2>6, LoadKept DEF RowStores
    <2>7. CASE RowStored(k, w, i)
      BY <2>7, LoadKept DEF RowStored
    <2>8. QED
      BY <2>1, <2>2, <2>3, <2>4, <2>5, <2>6, <2>7 DEF RowSteps
  <1>5. QED
    BY <1>1, <1>2, <1>3, <1>4, NextView

---------------------------------------------------------------------------
(* A row stores when the rows it waits for have completed.                 *)

\* The rows whose stores the model calls complete are those that have taken
\* the step.
CompletedInv == completed = Done

\* Every step keeps CompletedInv.
LEMMA CompletedNext ==
  ASSUME ControlInv, CompletedInv, [Next]_vars
  PROVE  CompletedInv'
  <1>1. CASE Begins' /\ Rows' = Rows /\ Prog' = Prog
    <2>1. Taken' = {} /\ completed' = {}
      BY <1>1 DEF Begins
    <2>2. Done' = {}
      BY <1>1, <2>1 DEF Done, StoreDone
    <2>3. QED
      BY <2>1, <2>2 DEF CompletedInv
  <1>2. CASE Rests \/ \E k : Delivers(k)
    <2>1. Rows' = Rows /\ Taken' = Taken /\ completed' = completed
      BY <1>2 DEF Rests, Delivers, memoryVars
    <2>2. Done' = Done
      BY <2>1 DEF Done, StoreDone
    <2>3. QED
      BY <2>1, <2>2 DEF CompletedInv
  <1>3. CASE \E k, w, i : RowSteps(k, w, i)
    <2>1. PICK k, w, i : RowSteps(k, w, i)
      BY <1>3
    <2>2. CASE RowStored(k, w, i)
      BY <2>2, BegunNext DEF RowStored, CompletedInv
    <2>3. CASE RowLoads(k, w, i)
      BY <2>3, BegunNext DEF RowLoads, CompletedInv
    <2>4. CASE RowLoaded(k, w, i)
      BY <2>4, BegunNext DEF RowLoaded, CompletedInv, memoryVars
    <2>5. CASE RowWaits(k, w, i)
      BY <2>5, BegunNext DEF RowWaits, CompletedInv, memoryVars
    <2>6. CASE RowArrives(k, w, i)
      BY <2>6, BegunNext DEF RowArrives, CompletedInv, memoryVars
    <2>7. CASE RowStores(k, w, i)
      BY <2>7, BegunNext DEF RowStores, CompletedInv
    <2>8. QED
      BY <2>1, <2>2, <2>3, <2>4, <2>5, <2>6, <2>7 DEF RowSteps
  <1>4. QED
    BY <1>1, <1>2, <1>3, NextView

\* A barrier that has had all its arrivals has had those of rows that have
\* stored.
LEMMA ReachedDone ==
  ASSUME ControlInv, NEW b, Reached(b), NEW k \in Arrivers(Prog, {b})
  PROVE  k \in Done
  <1>1. PhaseInv
    BY DEF ControlInv
  <1>2. k \in DOMAIN Rows /\ RowsOf(Prog) = DOMAIN Rows /\ Rows = Prog.instructions
    BY <1>1, RowsFacts DEF Arrivers
  <1>3. PICK j \in DOMAIN Rows[k].arrivals : Rows[k].arrivals[j] = b
    BY <1>2 DEF Arrivers, ToSet
  <1>4. Typed(Rows[k], DOMAIN Prog.target)
    BY <1>1, <1>2, RowFacts
  <1>5. Len(Rows[k].arrivals) \in Nat /\ j \in 1 .. Len(Rows[k].arrivals)
    BY <1>3, <1>4 DEF Typed
  <1>6. j \in 1 .. MAX_DST_BARRIERS
    <2>1. WithinLimits(Rows)
      BY <1>1 DEF PhaseInv, Accepted, Rows
    <2>2. Len(Rows[k].arrivals) <= MAX_DST_BARRIERS
      BY <1>2, <2>1 DEF WithinLimits
    <2>3. QED
      BY <1>5, <2>2, SchedulingAssumption
  <1>7. <<k, j>> \in ArrivalsAt(Prog, b)
    BY <1>2, <1>3, <1>6 DEF ArrivalsAt
  <1>8. <<k, Arriver(Rows[k]), ArriveAfter(Rows[k]) + j>> \in Taken
    BY <1>7 DEF Reached, ArrivedAt, Arrived
  <1>9. GoodScript(Rows[k])
    BY <1>8, TakenGood
  <1>10. PICK l \in Nat : l = ArriveAfter(Rows[k])
    BY <1>4, PositionsNat
  <1>11. StoredAt(Rows[k]) \in Nat \ {0} /\ StoredAt(Rows[k]) <= l
    BY <1>4, <1>9, <1>10, PositionsNat DEF GoodScript, StoresOnce
  <1>12. StoredAt(Rows[k]) \in 1 .. l + j
    BY <1>5, <1>10, <1>11
  <1>13. StoreDone(k)
    BY <1>8, <1>10, <1>12, TakenBelow DEF StoreDone
  <1>14. QED
    BY <1>2, <1>13 DEF Done

\* The same for a set of barriers.
LEMMA AllReachedDone ==
  ASSUME ControlInv, NEW B, \A b \in B : Reached(b)
  PROVE  Arrivers(Prog, B) \subseteq Done
  <1>1. SUFFICES ASSUME NEW k \in Arrivers(Prog, B) PROVE k \in Done
    OBVIOUS
  <1>2. PICK b \in B : b \in ToSet(Prog.instructions[k].arrivals)
    BY DEF Arrivers
  <1>3. k \in Arrivers(Prog, {b})
    BY <1>2 DEF Arrivers
  <1>4. QED
    BY <1>3, ReachedDone

\* A wait that a row is past has been answered.
LEMMA WaitReached ==
  ASSUME ControlInv, WaitInv, NEW k, NEW w, NEW i, <<k, w, i>> \in Taken,
         NEW b \in DOMAIN Prog.target, Script(Rows[k], w)[i] = <<"wait", b>>
  PROVE  Reached(b)
  <1>1. k \in DOMAIN Rows /\ w \in WORKERS /\ i \in StepsOf(Rows[k], w)
    BY TakenGood
  <1>2. QED
    BY <1>1 DEF WaitInv, Op

\* A row that has begun to load has waited for its data.
LEMMA InputsDone ==
  ASSUME ControlInv, WaitInv, NEW k, Loads(k)
  PROVE  Arrivers(Prog, ToSet(Rows[k].inputs)) \subseteq Done
  <1>1. GoodScript(Rows[k]) /\ Typed(Rows[k], DOMAIN Prog.target)
    BY TakenGood DEF Loads
  <1>2. PICK l \in Nat : l = LoadAt(Rows[k])
    BY <1>1, PositionsNat
  <1>3. ASSUME NEW b \in ToSet(Rows[k].inputs) PROVE Reached(b)
    <2>1. PICK x \in 1 .. Len(Rows[k].inputs) : b = Rows[k].inputs[x]
      BY <1>1 DEF ToSet, Typed
    <2>2. b \in DOMAIN Prog.target
      BY <1>1, <2>1 DEF Typed
    <2>3. PICK i \in 1 .. l - 1 : Script(Rows[k], Loader(Rows[k]))[i] = <<"wait", b>>
      BY <1>1, <1>2, <2>1 DEF GoodScript, InputsBeforeLoad
    <2>4. i \in 1 .. l
      BY <1>2, <2>3
    <2>5. <<k, Loader(Rows[k]), i>> \in Taken
      BY <1>2, <2>4, TakenBelow DEF Loads
    <2>6. QED
      BY <2>2, <2>3, <2>5, WaitReached
  <1>4. QED
    BY <1>3, AllReachedDone

\* What the store of row k has waited for, reductions with reuse barriers
\* aside.
LEMMA StoreWaited ==
  ASSUME ControlInv, WaitInv, LoadInv, NEW k, NEW w, NEW i, Does(k, w, i, "store"),
         Rows[k].type = "reduce" => Rows[k].reuses = << >>
  PROVE  Loads(k) /\ Awaited(Prog, k) \subseteq Done
  <1>1. /\ k \in DOMAIN Rows /\ w \in WORKERS /\ w \in WARPS /\ GoodScript(Rows[k])
        /\ \A j \in 1 .. i - 1 : <<k, w, j>> \in Taken
    BY MegakernelAssumption DEF Does, WARPS
  <1>2. PhaseInv /\ Typed(Rows[k], DOMAIN Prog.target)
    BY <1>1, RowFacts DEF ControlInv
  <1>3. w = Arriver(Rows[k]) /\ i = StoreAt(Rows[k])
    BY <1>1 DEF Does, GoodScript, StoresOnce
  <1>4. Loads(k)
    <2>1. CASE Loader(Rows[k]) = Arriver(Rows[k]) /\ LoadAt(Rows[k]) < StoreAt(Rows[k])
      <3>1. LoadAt(Rows[k]) \in 1 .. i - 1
        BY <1>2, <1>3, <2>1, PositionsNat
      <3>2. QED
        BY <1>1, <1>3, <2>1, <3>1 DEF Loads
    <2>2. CASE \E j \in 1 .. StoreAt(Rows[k]) - 1 : Op(Rows[k], Arriver(Rows[k]), j) = "loaded"
      <3>1. PICK j \in 1 .. i - 1 : Op(Rows[k], w, j) = "loaded"
        BY <1>3, <2>2
      <3>2. <<k, w, j>> \in Taken
        BY <1>1, <3>1
      <3>3. QED
        BY <3>1, <3>2, TakenGood DEF LoadInv
    <2>3. QED
      BY <1>1, <2>1, <2>2 DEF GoodScript, StoreFollowsLoad
  <1>5. PICK l \in Nat : l = LoadAt(Rows[k])
    BY <1>2, PositionsNat
  <1>6. ASSUME NEW b \in ToSet(Rows[k].reuses) PROVE Reached(b)
    <2>1. PICK x \in 1 .. Len(Rows[k].reuses) : b = Rows[k].reuses[x]
      BY <1>2 DEF ToSet, Typed
    <2>2. b \in DOMAIN Prog.target /\ Rows[k].reuses # << >>
      BY <1>2, <2>1 DEF Typed
    <2>3. \/ \E j \in 1 .. l - 1 : Script(Rows[k], Loader(Rows[k]))[j] = <<"wait", b>>
          \/ \E j \in 1 .. i - 1 : Script(Rows[k], w)[j] = <<"wait", b>>
      BY <1>1, <1>3, <1>5, <2>1, <2>2 DEF GoodScript, ReusesBeforeStore
    <2>4. CASE \E j \in 1 .. l - 1 : Script(Rows[k], Loader(Rows[k]))[j] = <<"wait", b>>
      <3>1. PICK j \in 1 .. l - 1 : Script(Rows[k], Loader(Rows[k]))[j] = <<"wait", b>>
        BY <2>4
      <3>2. j \in 1 .. l
        BY <1>5, <3>1
      <3>3. <<k, Loader(Rows[k]), j>> \in Taken
        BY <1>4, <1>5, <3>2, TakenBelow DEF Loads
      <3>4. QED
        BY <2>2, <3>1, <3>3, WaitReached
    <2>5. CASE \E j \in 1 .. i - 1 : Script(Rows[k], w)[j] = <<"wait", b>>
      <3>1. PICK j \in 1 .. i - 1 : Script(Rows[k], w)[j] = <<"wait", b>>
        BY <2>5
      <3>2. <<k, w, j>> \in Taken
        BY <1>1, <3>1
      <3>3. QED
        BY <2>2, <3>1, <3>2, WaitReached
    <2>6. QED
      BY <2>3, <2>4, <2>5
  <1>7. Arrivers(Prog, ToSet(Rows[k].inputs)) \subseteq Done
    BY <1>4, InputsDone
  <1>8. Arrivers(Prog, ToSet(Rows[k].reuses)) \subseteq Done
    BY <1>6, AllReachedDone
  <1>9. Rows = Prog.instructions
    BY <1>2, RowsFacts
  <1>10. Awaited(Prog, k) \subseteq Arrivers(Prog, ToSet(Rows[k].inputs))
                                   \cup Arrivers(Prog, ToSet(Rows[k].reuses))
    BY <1>9 DEF Awaited, Arrivers
  <1>11. QED
    BY <1>4, <1>7, <1>8, <1>10

\* No reduction is given storage that other rows still use: itypes/reduce.cuh
\* waits for the reuse barriers when it has stored, and not before.
ReusesAwaited(p) ==
  \A k \in RowsOf(p) :
    p.instructions[k].type = "reduce" => p.instructions[k].reuses = << >>

\* What the scheduler orders before a row has completed before it stores.
OrderInv == \A k \in Begun : CompletedBefore(Prog)[k] \subseteq completed

\* What has completed when row k begins to store, or to load.
LEMMA WaitedFor ==
  ASSUME ControlInv, CompletedInv, OrderInv, NEW S \in SUBSET DOMAIN Rows,
         S \subseteq Done
  PROVE  UNION {{j} \cup CompletedBefore(Prog)[j] : j \in S} \subseteq completed
  <1>1. ASSUME NEW j \in S
        PROVE  {j} \cup CompletedBefore(Prog)[j] \subseteq completed
    <2>1. j \in completed /\ StoreDone(j) /\ j \in DOMAIN Rows
      BY DEF CompletedInv, Done
    <2>2. j \in Begun
      BY <2>1, DoneBegun DEF Begun
    <2>3. QED
      BY <2>1, <2>2 DEF OrderInv
  <1>2. QED
    BY <1>1

\* When a row begins to store, what the scheduler ordered before it has
\* completed.
LEMMA OrderStep ==
  ASSUME ControlInv, WaitInv, LoadInv, CompletedInv, OrderInv,
         ReusesAwaited(Prog), NEW k, NEW w, NEW i, Does(k, w, i, "store")
  PROVE  CompletedBefore(Prog)[k] \subseteq completed
  <1>1. /\ k \in DOMAIN Rows /\ WellFormed(Prog)
        /\ RowsOf(Prog) = DOMAIN Rows /\ Rows = Prog.instructions
    BY RowsFacts DEF ControlInv, Does
  <1>2. Rows[k].type = "reduce" => Rows[k].reuses = << >>
    BY <1>1 DEF ReusesAwaited
  <1>3. Awaited(Prog, k) \subseteq Done
    BY <1>2, StoreWaited
  <1>4. PICK S \in SUBSET DOMAIN Rows : S = {x \in Awaited(Prog, k) : x < k}
    BY <1>1 DEF Awaited, Arrivers
  <1>5. UNION {{j} \cup CompletedBefore(Prog)[j] : j \in S} \subseteq completed
    BY <1>3, <1>4, WaitedFor
  <1>6. CompletedBefore(Prog)[k] = UNION {{j} \cup CompletedBefore(Prog)[j] : j \in S}
    BY <1>1, <1>4, BeforeUnfolds
  <1>7. QED
    BY <1>5, <1>6

\* Every step keeps OrderInv.
LEMMA OrderNext ==
  ASSUME ControlInv, WaitInv, LoadInv, CompletedInv, OrderInv,
         ReusesAwaited(Prog), [Next]_vars
  PROVE  OrderInv'
  <1>1. CASE Begins' /\ Rows' = Rows /\ Prog' = Prog
    <2>1. Begun' = {}
      BY <1>1 DEF Begins, Begun, Stores
    <2>2. QED
      BY <2>1 DEF OrderInv
  <1> DEFINE F == CompletedBefore(Prog)
  <1>2. ASSUME Prog' = Prog PROVE F' = F
    BY <1>2 DEF CompletedBefore, RowsOf, Awaited, Arrivers
  <1>3. CASE Rests \/ \E k : Delivers(k)
    <2>1. Rows' = Rows /\ Prog' = Prog /\ Taken' = Taken /\ completed' = completed
      BY <1>3 DEF Rests, Delivers, memoryVars
    <2>2. Begun' = Begun
      BY <2>1 DEF Begun, Stores
    <2>3. QED
      BY <1>2, <2>1, <2>2 DEF OrderInv
  <1>4. CASE \E k, w, i : RowSteps(k, w, i)
    <2>1. PICK k, w, i : RowSteps(k, w, i)
      BY <1>4
    <2>2. CASE RowStores(k, w, i)
      <3>1. Does(k, w, i, "store") /\ completed' = completed
        BY <2>2 DEF RowStores
      <3>2. F' = F /\ Begun' = Begun \cup {k}
        BY <1>2, <3>1, BegunNext DEF Does
      <3>3. F[k] \subseteq completed
        BY <3>1, OrderStep
      <3>4. QED
        BY <3>1, <3>2, <3>3 DEF OrderInv
    <2>3. ASSUME NEW op, op # "store", Does(k, w, i, op), completed \subseteq completed'
          PROVE  OrderInv'
      <3>1. F' = F /\ Begun' = Begun
        BY <1>2, <2>3, BegunNext DEF Does
      <3>2. QED
        BY <2>3, <3>1 DEF OrderInv
    <2>4. CASE RowStored(k, w, i)
      BY <2>3, <2>4 DEF RowStored
    <2>5. CASE RowLoads(k, w, i)
      BY <2>3, <2>5 DEF RowLoads
    <2>6. CASE RowLoaded(k, w, i)
      BY <2>3, <2>6 DEF RowLoaded, memoryVars
    <2>7. CASE RowWaits(k, w, i)
      BY <2>3, <2>7 DEF RowWaits, memoryVars
    <2>8. CASE RowArrives(k, w, i)
      BY <2>3, <2>8 DEF RowArrives, memoryVars
    <2>9. QED
      BY <2>1, <2>2, <2>4, <2>5, <2>6, <2>7, <2>8 DEF RowSteps
  <1>5. QED
    BY <1>1, <1>3, <1>4, NextView

---------------------------------------------------------------------------
(* The last row that has begun to store in a cell decides what it holds.   *)

Storing(c) == Begun \cap Writers(Prog, c)

LastIn(c, x) ==
  /\ \A y \in Storing(c) \ {x} :
       y \in CompletedBefore(Prog)[x] /\ x \notin CompletedBefore(Prog)[y]
  /\ memory[c] = IF x \in completed THEN DataOf(x, c) ELSE Torn(x)

MemoryInv ==
  /\ memory = [c \in Cells |-> memory[c]]
  /\ \A c \in Cells :
       \/ Storing(c) = {} /\ memory[c] = FreshMemory[c]
       \/ \E x \in Storing(c) : LastIn(c, x)

\* What the launch fixes.
LEMMA Fixed ==
  ASSUME Rows' = Rows, Prog' = Prog
  PROVE  /\ CompletedBefore(Prog)' = CompletedBefore(Prog)
         /\ \A c : Writers(Prog, c)' = Writers(Prog, c)
         /\ \A k, c : DataOf(k, c)' = DataOf(k, c)
         /\ Cells' = Cells /\ FreshMemory' = FreshMemory /\ Inputs' = Inputs
  <1>1. CompletedBefore(Prog)' = CompletedBefore(Prog)
    BY DEF CompletedBefore, RowsOf, Awaited, Arrivers
  <1>2. \A c : Writers(Prog, c)' = Writers(Prog, c)
    BY DEF Writers, RowsOf
  <1>3. \A k, c : DataOf(k, c)' = DataOf(k, c)
    BY DEF DataOf
  <1>4. Inputs' = Inputs
    BY DEF Inputs, Prog
  <1>5. Cells' = Cells
    BY <1>4 DEF Cells
  <1>6. FreshMemory' = FreshMemory
    BY <1>4, <1>5 DEF FreshMemory
  <1>7. QED
    BY <1>1, <1>2, <1>3, <1>4, <1>5, <1>6

\* The rows that store in a cell are those that list it.
LEMMA WritersAre ==
  ASSUME PhaseInv, NEW k \in DOMAIN Rows, NEW c
  PROVE  /\ k \in Writers(Prog, c) <=> c \in CellsWritten(k)
         /\ c \in CellsWritten(k) => c \in Cells
  <1>1. RowsOf(Prog) = DOMAIN Rows /\ Rows = Prog.instructions
    BY RowsFacts
  <1>2. k \in Writers(Prog, c) <=> c \in CellsWritten(k)
    BY <1>1 DEF Writers, CellsWritten
  <1>3. ASSUME c \in CellsWritten(k) PROVE c \in Cells
    <2>1. PICK x \in Rows[k].writes : c = x.cell
      BY <1>3 DEF CellsWritten
    <2>2. c \in {y.cell : y \in Rows[k].reads \cup Rows[k].writes}
      BY <2>1
    <2>3. QED
      BY <2>2 DEF Cells
  <1>4. QED
    BY <1>2, <1>3

\* Nothing is stored.
LEMMA MemoryKept ==
  ASSUME MemoryInv, Rows' = Rows, Prog' = Prog, Begun' = Begun,
         memory' = memory, completed' = completed
  PROVE  MemoryInv'
  <1>1. /\ Cells' = Cells /\ FreshMemory' = FreshMemory
        /\ CompletedBefore(Prog)' = CompletedBefore(Prog)
        /\ \A k, c : DataOf(k, c)' = DataOf(k, c)
        /\ \A c : Writers(Prog, c)' = Writers(Prog, c)
    BY Fixed
  <1>2. \A c : Storing(c)' = Storing(c)
    BY <1>1 DEF Storing
  <1>3. \A c, x : LastIn(c, x) => LastIn(c, x)'
    BY <1>1, <1>2 DEF LastIn, Torn
  <1>4. QED
    BY <1>1, <1>2, <1>3 DEF MemoryInv

\* Row k begins to store: it is the last in its cells.
LEMMA StoreMemory ==
  ASSUME ControlInv, WaitInv, LoadInv, CompletedInv, OrderInv, MemoryInv,
         ReusesAwaited(Prog), NEW k, NEW w, NEW i, RowStores(k, w, i)
  PROVE  MemoryInv'
  <1> DEFINE F == CompletedBefore(Prog)
  <1>1. /\ Does(k, w, i, "store") /\ completed' = completed
        /\ Rows' = Rows /\ Prog' = Prog /\ k \in DOMAIN Rows
        /\ memory' = [c \in DOMAIN memory |->
                        IF c \in CellsWritten(k) THEN Torn(k) ELSE memory[c]]
    BY DEF RowStores, Does
  <1>2. /\ Cells' = Cells /\ FreshMemory' = FreshMemory /\ F' = F
        /\ \A r, c : DataOf(r, c)' = DataOf(r, c)
        /\ \A c : Writers(Prog, c)' = Writers(Prog, c)
    BY <1>1, Fixed
  <1>3. Begun' = Begun \cup {k} /\ k \notin Begun /\ k \notin completed
    BY <1>1, BegunNext DEF CompletedInv
  <1>4. F[k] \subseteq completed
    BY <1>1, OrderStep
  <1>5. NoRaces(Prog) /\ RowsOf(Prog) = DOMAIN Rows /\ Rows = Prog.instructions /\ PhaseInv
    BY RowsFacts DEF ControlInv
  <1>6. memory' = [c \in Cells |-> memory'[c]] /\ DOMAIN memory = Cells
    <2>1. memory = [c \in Cells |-> memory[c]]
      BY DEF MemoryInv
    <2>2. QED
      BY <1>1, <2>1
  <1> HIDE DEF F
  <1>7. ASSUME NEW c \in Cells
        PROVE  \/ Storing(c)' = {} /\ memory'[c] = FreshMemory[c]
               \/ \E x \in Storing(c)' : LastIn(c, x)'
    <2>1. CASE c \in CellsWritten(k)
      <3>1. k \in Writers(Prog, c) /\ Storing(c)' = Storing(c) \cup {k}
        BY <1>1, <1>2, <1>3, <1>5, <2>1, WritersAre DEF Storing
      <3>2. memory'[c] = Torn(k)
        BY <1>1, <1>6, <2>1
      <3>3. ASSUME NEW y \in Storing(c)
            PROVE  y \in F[k] /\ k \notin F[y]
        <4>1. y \in Begun /\ y \in Writers(Prog, c) /\ y # k
          BY <1>3 DEF Storing
        <4>2. PICK x \in Rows[k].writes : x.cell = c
          BY <2>1 DEF CellsWritten
        <4>3. WriteSafe(Prog, F, k, x)
          BY <1>1, <1>5, <4>2 DEF NoRaces, F
        <4>4. k \in F[y] \/ y \in F[k]
          BY <4>1, <4>2, <4>3 DEF WriteSafe
        <4>5. F[y] \subseteq completed
          BY <4>1 DEF OrderInv, F
        <4>6. QED
          BY <1>3, <4>4, <4>5
      <3>4. Torn(k)' = Torn(k)
        BY DEF Torn
      <3>5. LastIn(c, k)'
        BY <1>1, <1>2, <1>3, <3>1, <3>2, <3>3, <3>4 DEF LastIn, F
      <3>6. QED
        BY <3>1, <3>5
    <2>2. CASE c \notin CellsWritten(k)
      <3>1. Storing(c)' = Storing(c)
        BY <1>1, <1>2, <1>3, <1>5, <2>2, WritersAre DEF Storing
      <3>2. memory'[c] = memory[c]
        BY <1>1, <1>6, <2>2
      <3>3. ASSUME NEW x, LastIn(c, x) PROVE LastIn(c, x)'
        BY <1>1, <1>2, <3>1, <3>2, <3>3 DEF LastIn, F, Torn
      <3>4. QED
        BY <3>1, <3>2, <3>3 DEF MemoryInv
    <2>3. QED
      BY <2>1, <2>2
  <1>8. QED
    BY <1>2, <1>6, <1>7 DEF MemoryInv

\* The stores of row k are complete: it is still the last in its cells.
LEMMA StoredMemory ==
  ASSUME ControlInv, CompletedInv, OrderInv, MemoryInv,
         NEW k, NEW w, NEW i, RowStored(k, w, i)
  PROVE  MemoryInv'
  <1> DEFINE F == CompletedBefore(Prog)
  <1>1. /\ Does(k, w, i, "stored") /\ completed' = completed \cup {k}
        /\ Rows' = Rows /\ Prog' = Prog /\ k \in DOMAIN Rows
        /\ memory' = [c \in DOMAIN memory |->
                        IF c \in CellsWritten(k) /\ memory[c] = Torn(k)
                        THEN DataOf(k, c) ELSE memory[c]]
    BY DEF RowStored, Does
  <1>2. /\ Cells' = Cells /\ FreshMemory' = FreshMemory /\ F' = F
        /\ \A r, c : DataOf(r, c)' = DataOf(r, c)
        /\ \A c : Writers(Prog, c)' = Writers(Prog, c)
    BY <1>1, Fixed
  <1>3. Begun' = Begun /\ k \in Begun /\ k \notin completed
    BY <1>1, BegunNext DEF CompletedInv
  <1>4. RowsOf(Prog) = DOMAIN Rows /\ Rows = Prog.instructions /\ PhaseInv
    BY RowsFacts DEF ControlInv
  <1>5. memory' = [c \in Cells |-> memory'[c]] /\ DOMAIN memory = Cells
    <2>1. memory = [c \in Cells |-> memory[c]]
      BY DEF MemoryInv
    <2>2. QED
      BY <1>1, <2>1
  <1>6. \A c : Storing(c)' = Storing(c)
    BY <1>2, <1>3 DEF Storing
  <1> HIDE DEF F
  <1>7. ASSUME NEW c \in Cells
        PROVE  \/ Storing(c)' = {} /\ memory'[c] = FreshMemory[c]
               \/ \E x \in Storing(c)' : LastIn(c, x)'
    <2>1. CASE c \in CellsWritten(k)
      <3>1. k \in Storing(c)
        BY <1>1, <1>3, <1>4, <2>1, WritersAre DEF Storing
      <3>2. PICK x \in Storing(c) : LastIn(c, x)
        BY <3>1 DEF MemoryInv
      <3>3. x = k
        <4>1. SUFFICES ASSUME x # k PROVE FALSE
          OBVIOUS
        <4>2. k \in F[x] /\ x \in Begun
          BY <3>1, <3>2, <4>1 DEF LastIn, F, Storing
        <4>3. F[x] \subseteq completed
          BY <4>2 DEF OrderInv, F
        <4>4. QED
          BY <1>3, <4>2, <4>3
      <3>4. memory[c] = Torn(k)
        BY <1>3, <3>2, <3>3 DEF LastIn
      <3>5. memory'[c] = DataOf(k, c)
        BY <1>1, <1>5, <2>1, <3>4
      <3>6. LastIn(c, k)'
        BY <1>1, <1>2, <1>6, <3>2, <3>3, <3>5 DEF LastIn, F
      <3>7. QED
        BY <1>6, <3>1, <3>6
    <2>2. CASE c \notin CellsWritten(k)
      <3>1. k \notin Storing(c)
        BY <1>1, <1>4, <2>2, WritersAre DEF Storing
      <3>2. memory'[c] = memory[c]
        BY <1>1, <1>5, <2>2
      <3>3. ASSUME NEW x \in Storing(c), LastIn(c, x) PROVE LastIn(c, x)'
        <4>1. x # k
          BY <3>1
        <4>2. Torn(x)' = Torn(x)
          BY DEF Torn
        <4>3. QED
          BY <1>1, <1>2, <1>6, <3>2, <3>3, <4>1, <4>2 DEF LastIn, F
      <3>4. QED
        BY <1>6, <3>2, <3>3 DEF MemoryInv
    <2>3. QED
      BY <2>1, <2>2
  <1>8. QED
    BY <1>2, <1>5, <1>7 DEF MemoryInv

\* Every step keeps MemoryInv.
LEMMA MemoryNext ==
  ASSUME ControlInv, WaitInv, LoadInv, CompletedInv, OrderInv, MemoryInv,
         ReusesAwaited(Prog), [Next]_vars
  PROVE  MemoryInv'
  <1>1. CASE Begins' /\ Rows' = Rows /\ Prog' = Prog
    <2>1. Begun' = {} /\ memory' = FreshMemory' /\ Cells' = Cells /\ FreshMemory' = FreshMemory
      BY <1>1, Fixed DEF Begins, Begun, Stores
    <2>2. memory' = [c \in Cells |-> memory'[c]]
      BY <2>1 DEF FreshMemory
    <2>3. \A c : Storing(c)' = {}
      BY <2>1 DEF Storing
    <2>4. QED
      BY <2>1, <2>2, <2>3 DEF MemoryInv
  <1>2. CASE Rests \/ \E k : Delivers(k)
    <2>1. /\ Rows' = Rows /\ Prog' = Prog /\ Taken' = Taken
          /\ memory' = memory /\ completed' = completed
      BY <1>2 DEF Rests, Delivers, memoryVars
    <2>2. Begun' = Begun
      BY <2>1 DEF Begun, Stores
    <2>3. QED
      BY <2>1, <2>2, MemoryKept
  <1>3. CASE \E k, w, i : RowSteps(k, w, i)
    <2>1. PICK k, w, i : RowSteps(k, w, i)
      BY <1>3
    <2>2. ASSUME NEW op, op # "store", Does(k, w, i, op),
                 memory' = memory, completed' = completed
          PROVE  MemoryInv'
      BY <2>2, BegunNext, MemoryKept DEF Does
    <2>3. CASE RowStores(k, w, i)
      BY <2>3, StoreMemory
    <2>4. CASE RowStored(k, w, i)
      BY <2>4, StoredMemory
    <2>5. CASE RowLoads(k, w, i)
      BY <2>2, <2>5 DEF RowLoads
    <2>6. CASE RowLoaded(k, w, i)
      BY <2>2, <2>6 DEF RowLoaded, memoryVars
    <2>7. CASE RowWaits(k, w, i)
      BY <2>2, <2>7 DEF RowWaits, memoryVars
    <2>8. CASE RowArrives(k, w, i)
      BY <2>2, <2>8 DEF RowArrives, memoryVars
    <2>9. QED
      BY <2>1, <2>3, <2>4, <2>5, <2>6, <2>7, <2>8 DEF RowSteps
  <1>4. QED
    BY <1>1, <1>2, <1>3, NextView

---------------------------------------------------------------------------
(* What is read, and what is returned.                                     *)

\* The caller's tensors, and what rows store.
LEMMA InputData ==
  ASSUME PhaseInv, NEW r \in Prog.inputs
  PROVE  r.cell \in Cells /\ FreshMemory[r.cell] = r.data
  <1>1. r.cell \in {x.cell : x \in Prog.inputs}
    OBVIOUS
  <1>2. r.cell \in DOMAIN Inputs
    BY <1>1 DEF Inputs, Prog
  <1>3. r.cell \in Cells
    <2> DEFINE R == UNION {{x.cell : x \in Rows[k].reads \cup Rows[k].writes} : k \in DOMAIN Rows}
    <2>1. Cells = R \cup DOMAIN Inputs
      BY DEF Cells
    <2> HIDE DEF R
    <2>2. QED
      BY <1>2, <2>1
  <1>4. PICK x \in Prog.inputs :
          x = (CHOOSE y \in Prog.inputs : y.cell = r.cell) /\ x.cell = r.cell
    OBVIOUS
  <1>5. x = r
    BY <1>4, RowsFacts DEF Consistent
  <1>6. Inputs[r.cell] = r.data
    BY <1>1, <1>4, <1>5 DEF Inputs, Prog
  <1>7. QED
    BY <1>2, <1>3, <1>6 DEF FreshMemory

\* A row that stores r stores its data in its cell.
LEMMA RowData ==
  ASSUME PhaseInv, NEW r, NEW k \in WritersOf(Prog, r)
  PROVE  /\ k \in DOMAIN Rows /\ k \in Writers(Prog, r.cell)
         /\ DataOf(k, r.cell) = r.data
  <1>1. /\ RowsOf(Prog) = DOMAIN Rows /\ Rows = Prog.instructions
        /\ Consistent(Prog)
    BY RowsFacts
  <1>2. k \in DOMAIN Rows /\ r \in Rows[k].writes
    BY <1>1 DEF WritersOf
  <1>3. k \in Writers(Prog, r.cell)
    BY <1>1, <1>2 DEF Writers
  <1>4. PICK x \in Rows[k].writes :
          x = (CHOOSE y \in Rows[k].writes : y.cell = r.cell) /\ x.cell = r.cell
    BY <1>2
  <1>5. x = r
    BY <1>1, <1>2, <1>4 DEF Consistent
  <1>6. QED
    BY <1>2, <1>3, <1>4, <1>5 DEF DataOf

MemoryOrderInv == CompletedInv /\ OrderInv /\ MemoryInv

\* The tensor r is in its cell when the rows that store it have, and every
\* other row that has begun to store there had completed before them.
LEMMA Settled ==
  ASSUME ControlInv, MemoryOrderInv, NEW r, r.cell \in Cells,
         WritersOf(Prog, r) # {} \/ r \in Prog.inputs,
         WritersOf(Prog, r) \subseteq completed,
         \A x \in Storing(r.cell) \ WritersOf(Prog, r) :
           /\ WritersOf(Prog, r) # {}
           /\ \A j \in WritersOf(Prog, r) : x \in CompletedBefore(Prog)[j]
  PROVE  memory[r.cell] = r.data
  <1>1. PhaseInv
    BY DEF ControlInv
  <1>2. WritersOf(Prog, r) \subseteq Storing(r.cell)
    <2>1. SUFFICES ASSUME NEW k \in WritersOf(Prog, r) PROVE k \in Storing(r.cell)
      OBVIOUS
    <2>2. k \in DOMAIN Rows /\ k \in Writers(Prog, r.cell) /\ StoreDone(k)
      BY <1>1, RowData DEF MemoryOrderInv, CompletedInv, Done
    <2>3. QED
      BY <2>2, DoneBegun DEF Storing, Begun
  <1>3. CASE Storing(r.cell) = {} /\ memory[r.cell] = FreshMemory[r.cell]
    BY <1>1, <1>2, <1>3, InputData
  <1>4. ASSUME NEW x \in Storing(r.cell), LastIn(r.cell, x)
        PROVE  memory[r.cell] = r.data
    <2>1. x \in WritersOf(Prog, r)
      <3>1. SUFFICES ASSUME x \notin WritersOf(Prog, r) PROVE FALSE
        OBVIOUS
      <3>2. PICK j \in WritersOf(Prog, r) : x \in CompletedBefore(Prog)[j]
        BY <3>1
      <3>3. j \in Storing(r.cell) \ {x}
        BY <1>2, <3>1, <3>2
      <3>4. QED
        BY <1>4, <3>2, <3>3 DEF LastIn
    <2>2. QED
      BY <1>1, <1>4, <2>1, RowData DEF LastIn
  <1>5. QED
    BY <1>3, <1>4 DEF MemoryOrderInv, MemoryInv

\* The ops that may write over what they read wait for their loads first.
LEMMA LoadedBeforeStore ==
  ASSUME NEW B, NEW inst, Typed(inst, B), inst.type \notin {"rms", "reduce"}
  PROVE  LoadedAt(inst) < StoreAt(inst) /\ StoreAt(inst) \in Nat
  <1>1. Len(inst.inputs) \in Nat /\ Len(inst.reuses) \in Nat
    BY DEF Typed
  <1>2. PICK n \in Nat : n = Len(inst.inputs)
    BY <1>1
  <1>3. PICK m \in Nat : m = Len(inst.reuses)
    BY <1>1
  <1>4. Waits(inst) = n + m
    BY <1>2, <1>3 DEF Waits
  <1>5. CASE inst.type = "tile"
    <2>1. LoadedAt(inst) = 1 /\ StoreAt(inst) = m + 2
      BY <1>3, <1>5 DEF LoadedAt, StoreAt
    <2>2. QED
      BY <2>1
  <1>6. CASE inst.type # "tile"
    <2>1. LoadedAt(inst) = n + m + 2 /\ StoreAt(inst) = n + m + 3
      BY <1>4, <1>6 DEF LoadedAt, StoreAt
    <2>2. QED
      BY <2>1
  <1>7. QED
    BY <1>5, <1>6

\* A row has begun to store in a cell it reads when its loads have arrived.
LEMMA LoadsBeforeStore ==
  ASSUME ControlInv, NEW k \in DOMAIN Rows, ~LoadDone(k), NEW r \in Rows[k].reads
  PROVE  k \notin Storing(r.cell)
  <1>1. SUFFICES ASSUME k \in Begun, k \in Writers(Prog, r.cell) PROVE FALSE
    BY DEF Storing
  <1>2. Stores(k)
    BY <1>1 DEF Begun
  <1>3. PhaseInv /\ GoodScript(Rows[k]) /\ Typed(Rows[k], DOMAIN Prog.target)
    BY <1>2, TakenGood DEF Stores, ControlInv
  <1>4. /\ RowsOf(Prog) = DOMAIN Rows /\ Rows = Prog.instructions
        /\ ScheduledOps(Prog)
    BY <1>3, RowsFacts
  <1>5. PICK w \in Rows[k].writes : w.cell = r.cell
    BY <1>1, <1>4 DEF Writers
  <1>6. Rows[k].type \notin {"rms", "reduce"}
    BY <1>4, <1>5 DEF ScheduledOps
  <1>7. LoadedAt(Rows[k]) < StoreAt(Rows[k]) /\ StoreAt(Rows[k]) \in Nat
    BY <1>3, <1>6, LoadedBeforeStore
  <1>8. LoadedAt(Rows[k]) \in 1 .. StoreAt(Rows[k])
    BY <1>3, <1>7, PositionsNat
  <1>9. QED
    BY <1>2, <1>8, TakenBelow DEF Stores, LoadDone

\* What a row is loading is in memory.
LEMMA ReadsAre ==
  ASSUME ControlInv, WaitInv, LoadInv, MemoryOrderInv, NEW k \in loading,
         NEW r \in Rows[k].reads
  PROVE  memory[r.cell] = r.data
  <1> DEFINE F == CompletedBefore(Prog)
             G == LoadedAfter(Prog, F)
  <1>1. /\ k \in DOMAIN Rows /\ Loads(k) /\ ~LoadDone(k)
        /\ CompletedInv /\ OrderInv
    BY DEF LoadInv, MemoryOrderInv
  <1>2. /\ RowsOf(Prog) = DOMAIN Rows /\ Rows = Prog.instructions
        /\ NoRaces(Prog) /\ Consistent(Prog)
    BY RowsFacts DEF ControlInv
  <1>3. k \notin completed
    BY <1>1, DoneBegun DEF CompletedInv, Done
  <1>4. ReadSafe(Prog, F, G, k, r)
    BY <1>1, <1>2 DEF NoRaces
  <1>5. G[k] \subseteq completed
    <2>1. PICK S \in SUBSET DOMAIN Rows :
            S = {x \in Arrivers(Prog, ToSet(Rows[k].inputs)) : x < k}
      BY <1>2 DEF Arrivers
    <2>2. S \subseteq Done
      BY <1>1, <2>1, InputsDone DEF SyncInv
    <2>3. UNION {{j} \cup F[j] : j \in S} \subseteq completed
      BY <1>1, <2>2, WaitedFor
    <2>4. G[k] = UNION {{j} \cup F[j] : j \in S}
      BY <1>1, <1>2, <2>1 DEF LoadedAfter
    <2>5. QED
      BY <2>3, <2>4
  <1> HIDE DEF F, G
  <1>6. WritersOf(Prog, r) \subseteq completed
    BY <1>4, <1>5 DEF ReadSafe
  <1>7. WritersOf(Prog, r) # {} \/ r \in Prog.inputs
    BY <1>1, <1>2 DEF Consistent
  <1>8. ASSUME NEW x \in Storing(r.cell) \ WritersOf(Prog, r)
        PROVE  /\ WritersOf(Prog, r) # {}
               /\ \A j \in WritersOf(Prog, r) : x \in F[j]
    <2>1. x # k /\ x \in Begun /\ x \in Writers(Prog, r.cell)
      BY <1>1, LoadsBeforeStore DEF Storing
    <2>2. F[x] \subseteq completed
      BY <1>1, <2>1 DEF OrderInv, F
    <2>3. k \notin F[x]
      BY <1>3, <2>2
    <2>4. QED
      BY <1>4, <2>1, <2>3 DEF ReadSafe
  <1>9. r.cell \in Cells
    <2>1. r.cell \in {x.cell : x \in Rows[k].reads \cup Rows[k].writes}
      OBVIOUS
    <2>2. QED
      BY <1>1, <2>1 DEF Cells
  <1>10. QED
    BY <1>6, <1>7, <1>8, <1>9, Settled DEF F

\* Every row that is no Noop is run by warps of the model.
Staffed(p) ==
  \A k \in RowsOf(p) :
    p.instructions[k].type # "noop" => Arriver(p.instructions[k]) \in WORKERS

\* When the kernel has returned every row has stored and arrived,
LEMMA AllDone ==
  ASSUME ControlInv, phase = "returned", Staffed(Prog),
         NEW k \in DOMAIN Rows, Rows[k] # Noop
  PROVE  /\ StoreDone(k) /\ GoodScript(Rows[k])
         /\ \A i \in StepsOf(Rows[k], Arriver(Rows[k])) :
              <<k, Arriver(Rows[k]), i>> \in Taken
  <1>1. PhaseInv /\ RowsOf(Prog) = DOMAIN Rows /\ Rows = Prog.instructions
    BY RowsFacts DEF ControlInv
  <1>2. /\ Rows[k].type \in MODELLED /\ GoodScript(Rows[k])
        /\ Typed(Rows[k], DOMAIN Prog.target)
    BY <1>1, RowFacts
  <1>3. Arriver(Rows[k]) \in WORKERS
    BY <1>1, <1>2 DEF Staffed, MODELLED
  <1>4. \A i \in StepsOf(Rows[k], Arriver(Rows[k])) :
          <<k, Arriver(Rows[k]), i>> \in Taken
    BY <1>3, AllTaken
  <1>5. StoredAt(Rows[k]) \in StepsOf(Rows[k], Arriver(Rows[k]))
    <2>1. PICK l \in Nat, s \in Nat \ {0}, n \in Nat :
            /\ l = ArriveAfter(Rows[k]) /\ s = StoredAt(Rows[k])
            /\ n = Len(Rows[k].arrivals)
      BY <1>2, PositionsNat DEF Typed
    <2>2. Len(Script(Rows[k], Arriver(Rows[k]))) = l + n /\ s <= l
      BY <1>2, <2>1 DEF GoodScript, ArrivesLast, StoresOnce
    <2>3. QED
      BY <2>1, <2>2 DEF StepsOf
  <1>6. QED
    BY <1>2, <1>4, <1>5 DEF StoreDone

\* so every barrier is at its target,
LEMMA AllReached ==
  ASSUME ControlInv, SyncInv, phase = "returned", Staffed(Prog)
  PROVE  barrier = Prog.target
  <1>1. PhaseInv /\ BarrierInv
    BY DEF ControlInv, SyncInv
  <1>2. ASSUME NEW b \in DOMAIN Prog.target
        PROVE  barrier[b] = Prog.target[b]
    <2>1. ASSUME NEW a \in ArrivalsAt(Prog, b) PROVE Arrived(a)
      <3>1. PICK k \in DOMAIN Rows, j \in Nat :
               /\ a = <<k, j>> /\ GoodScript(Rows[k]) /\ Typed(Rows[k], DOMAIN Prog.target)
               /\ j \in 1 .. Len(Rows[k].arrivals) /\ Rows[k].arrivals[j] = b
        BY <1>1, ArrivalFacts
      <3>2. Rows[k] # Noop
        <4>1. SUFFICES ASSUME Rows[k] = Noop PROVE FALSE
          OBVIOUS
        <4>2. Len(Rows[k].arrivals) = 0
          BY <4>1 DEF Noop
        <4>3. QED
          BY <3>1, <4>2
      <3>3. PICK l \in Nat, n \in Nat : l = ArriveAfter(Rows[k]) /\ n = Len(Rows[k].arrivals)
        <4>1. ArriveAfter(Rows[k]) \in Nat
          BY <3>1, PositionsNat
        <4>2. Len(Rows[k].arrivals) \in Nat
          BY <3>1 DEF Typed
        <4>3. QED
          BY <4>1, <4>2
      <3>4. Len(Script(Rows[k], Arriver(Rows[k]))) = l + n
        BY <3>1, <3>3 DEF GoodScript, ArrivesLast
      <3>5. l + j \in StepsOf(Rows[k], Arriver(Rows[k]))
        BY <3>1, <3>3, <3>4 DEF StepsOf
      <3>6. QED
        BY <3>1, <3>2, <3>3, <3>5, AllDone DEF Arrived
    <2>2. Reached(b)
      BY <2>1 DEF Reached, ArrivedAt
    <2>3. QED
      BY <1>1, <2>2, TargetReached
  <1>3. QED
    BY <1>1, <1>2, TargetFunction DEF BarrierInv

\* and the outputs are in memory.
LEMMA ResultsAre ==
  ASSUME ControlInv, MemoryOrderInv, phase = "returned", Staffed(Prog),
         NEW out \in Prog.outputs
  PROVE  memory[out.cell] = out.data
  <1>1. /\ PhaseInv /\ RowsOf(Prog) = DOMAIN Rows /\ Rows = Prog.instructions
        /\ Consistent(Prog) /\ OutputsLast(Prog)
    BY RowsFacts DEF ControlInv
  <1>2. WritersOf(Prog, out) # {} \/ out \in Prog.inputs
    BY <1>1 DEF Consistent
  <1>3. WritersOf(Prog, out) \subseteq completed
    <2>1. SUFFICES ASSUME NEW k \in WritersOf(Prog, out) PROVE k \in completed
      OBVIOUS
    <2>2. k \in DOMAIN Rows /\ out \in Rows[k].writes
      BY <1>1 DEF WritersOf
    <2>3. Rows[k] # Noop
      BY <2>2 DEF Noop
    <2>4. QED
      BY <2>2, <2>3, AllDone DEF MemoryOrderInv, CompletedInv, Done
  <1>4. ASSUME NEW x \in Storing(out.cell) \ WritersOf(Prog, out)
        PROVE  /\ WritersOf(Prog, out) # {}
               /\ \A j \in WritersOf(Prog, out) : x \in CompletedBefore(Prog)[j]
    <2>1. x \in Writers(Prog, out.cell) \ WritersOf(Prog, out)
      BY DEF Storing
    <2>2. QED
      BY <1>1, <2>1 DEF OutputsLast
  <1>5. out.cell \in Cells
    <2>1. CASE out \in Prog.inputs
      BY <1>1, <2>1, InputData
    <2>2. CASE WritersOf(Prog, out) # {}
      <3>1. PICK k \in WritersOf(Prog, out) : k \in DOMAIN Rows /\ out \in Rows[k].writes
        BY <1>1, <2>2 DEF WritersOf
      <3>2. out.cell \in CellsWritten(k)
        BY <3>1 DEF CellsWritten
      <3>3. QED
        BY <1>1, <3>1, <3>2, WritersAre
    <2>3. QED
      BY <1>2, <2>1, <2>2
  <1>6. QED
    BY <1>2, <1>3, <1>4, <1>5, Settled

---------------------------------------------------------------------------
(* The theorems about the memory.                                          *)

KernelInv ==
  /\ ControlInv /\ SyncInv /\ LoadInv /\ CompletedInv
  /\ DOMAIN memory = Cells
  /\ ReusesAwaited(Prog) => MemoryOrderInv

\* KernelInv holds at first,
LEMMA KernelInit ==
  ASSUME Init
  PROVE  KernelInv
  <1>1. ControlInv /\ Begins /\ SyncInv
    BY InitView, BeginsSync DEF ControlInv
  <1>2. LoadInv
    BY <1>1 DEF Begins, LoadInv
  <1>3. Begun = {} /\ Done = {}
    BY <1>1 DEF Begins, Begun, Done, Stores, StoreDone
  <1>4. CompletedInv /\ OrderInv
    BY <1>1, <1>3 DEF CompletedInv, OrderInv, Begins
  <1>5. MemoryInv
    <2>1. memory = [c \in Cells |-> memory[c]]
      BY <1>1 DEF Begins, FreshMemory
    <2>2. QED
      BY <1>1, <1>3, <2>1 DEF MemoryInv, Storing, Begins
  <1>6. DOMAIN memory = Cells
    BY <1>1 DEF Begins, FreshMemory
  <1>7. QED
    BY <1>1, <1>2, <1>4, <1>5, <1>6 DEF KernelInv, MemoryOrderInv

\* No step adds or drops cells.
LEMMA MemoryDomain ==
  ASSUME ControlInv, DOMAIN memory = Cells, [Next]_vars
  PROVE  DOMAIN memory' = Cells'
  <1>1. CASE Begins' /\ Rows' = Rows /\ Prog' = Prog
    BY <1>1, Fixed DEF Begins, FreshMemory
  <1>2. CASE Rests \/ \E k : Delivers(k)
    <2>1. Rows' = Rows /\ Prog' = Prog /\ memory' = memory
      BY <1>2 DEF Rests, Delivers, memoryVars
    <2>2. QED
      BY <2>1, Fixed
  <1>3. CASE \E k, w, i : RowSteps(k, w, i)
    <2>1. PICK k, w, i : RowSteps(k, w, i)
      BY <1>3
    <2>2. PICK op : Does(k, w, i, op)
      BY <2>1 DEF RowSteps, RowWaits, RowArrives, RowLoads, RowLoaded,
         RowStores, RowStored
    <2>3. Cells' = Cells
      BY <2>2, Fixed DEF Does
    <2>4. DOMAIN memory' = DOMAIN memory
      BY <2>1 DEF RowSteps, RowWaits, RowArrives, RowLoads, RowLoaded,
         RowStores, RowStored, memoryVars
    <2>5. QED
      BY <2>3, <2>4
  <1>4. QED
    BY <1>1, <1>2, <1>3, NextView

\* and every step keeps it.
LEMMA KernelNext ==
  ASSUME KernelInv, [Next]_vars
  PROVE  KernelInv'
  <1>1. ControlInv' /\ SyncInv' /\ LoadInv' /\ CompletedInv'
    BY SyncNext, LoadNext, CompletedNext DEF KernelInv
  <1>2. Prog' = Prog
    <2>1. CASE Rests \/ \E k : Delivers(k)
      BY <2>1 DEF Rests, Delivers
    <2>2. CASE \E k, w, i : RowSteps(k, w, i)
      <3>1. PICK k, w, i : RowSteps(k, w, i)
        BY <2>2
      <3>2. PICK op : Does(k, w, i, op)
        BY <3>1 DEF RowSteps, RowWaits, RowArrives, RowLoads, RowLoaded,
           RowStores, RowStored
      <3>3. QED
        BY <3>2 DEF Does
    <2>3. QED
      BY <2>1, <2>2, NextView DEF KernelInv
  <1>3. ReusesAwaited(Prog)' <=> ReusesAwaited(Prog)
    BY <1>2 DEF ReusesAwaited, RowsOf
  <1>4. ASSUME ReusesAwaited(Prog) PROVE MemoryOrderInv'
    BY <1>4, CompletedNext, OrderNext, MemoryNext DEF KernelInv, SyncInv, MemoryOrderInv
  <1>5. DOMAIN memory' = Cells'
    BY MemoryDomain DEF KernelInv
  <1>6. QED
    BY <1>1, <1>3, <1>4, <1>5 DEF KernelInv

\* Whatever a row loads is in its cells for as long as it loads: every row
\* that stores there has completed or is yet to begin.
THEOREM ReadsHold ==
  Spec => [](ReusesAwaited(Programs[graph]) => ReadsSettled)
  <1>1. ASSUME KernelInv
        PROVE  ReusesAwaited(Programs[graph]) => ReadsSettled
    BY <1>1, ReadsAre DEF KernelInv, SyncInv, ReadsSettled, Prog
  <1>2. QED
    BY <1>1, KernelInit, KernelNext, PTL DEF Spec

\* When the kernel returns its outputs are in memory.
THEOREM ResultsHold ==
  Spec => [](ReusesAwaited(Programs[graph]) /\ Staffed(Programs[graph])
               => ResultsReady)
  <1>1. ASSUME KernelInv, ReusesAwaited(Prog), Staffed(Prog)
        PROVE  ResultsReady
    BY <1>1, ResultsAre, AllReached DEF KernelInv, ResultsReady, Prog
  <1>2. KernelInv => (ReusesAwaited(Programs[graph]) /\ Staffed(Programs[graph])
                        => ResultsReady)
    BY <1>1 DEF Prog
  <1>3. QED
    BY <1>2, KernelInit, KernelNext, PTL DEF Spec

\* There are no more waves than rows, one aside,
LEMMA FewWaves ==
  ASSUME PhaseInv
  PROVE  Waves \in Nat /\ Waves <= Len(Rows) + 1
  <1>1. PICK l \in Nat : l = Len(Rows)
    BY RowsFacts
  <1>2. PICK s \in Nat \ {0} : s = SM_COUNT
    BY SchedulingAssumption
  <1>3. CASE Rows = << >>
    BY <1>1, <1>3 DEF Waves
  <1>4. CASE Rows # << >>
    <2>1. l + s - 1 \in Nat
      OBVIOUS
    <2>2. PICK q \in Nat, r \in 0 .. s - 1 :
            q = (l + s - 1) \div s /\ l + s - 1 = s * q + r
      BY <2>1, Division
    <2>3. q <= l
      <3>1. SUFFICES ASSUME q >= l + 1 PROVE FALSE
        OBVIOUS
      <3>2. s * q >= s * (l + 1)
        BY <3>1
      <3>3. s * (l + 1) = s * l + s /\ s * l >= l
        OBVIOUS
      <3>4. r >= 0 /\ s * q \in Nat /\ s * l \in Nat
        OBVIOUS
      <3>5. QED
        BY <2>2, <3>2, <3>3, <3>4
    <2>4. Waves = q
      BY <1>1, <1>2, <1>4, <2>2 DEF Waves
    <2>5. QED
      BY <1>1, <2>3, <2>4
  <1>5. QED
    BY <1>3, <1>4

\* and no cluster gets more rows than that.
LEMMA FewClaims ==
  ASSUME ControlInv, NEW c \in CLUSTERS
  PROVE  Len(claimed[c]) \in 0 .. Len(Rows) + 1
  <1>1. PhaseInv /\ ClaimInv /\ Len(Rows) \in Nat
    BY RowsFacts DEF ControlInv
  <1>2. claimed[c] \in Seq(Nat) /\ Len(claimed[c]) \in Nat
    BY <1>1 DEF ClaimInv
  <1>3. CASE GLOBAL_WORK_QUEUE
    <2>1. Len(claimed[c]) <= next /\ next \in 0 .. Len(Rows)
      BY <1>1, <1>3 DEF ControlInv, QueueInv, ClaimInv
    <2>2. QED
      BY <1>1, <1>2, <2>1
  <1>4. CASE ~GLOBAL_WORK_QUEUE
    <2>1. claimed[c] = << >> \/ claimed[c] = StaticRows(c)
      BY <1>4 DEF ControlInv, StaticInv
    <2>2. CASE claimed[c] = << >>
      BY <1>1, <2>2
    <2>3. CASE claimed[c] = StaticRows(c)
      <3>1. Waves \in Nat /\ Waves <= Len(Rows) + 1
        BY <1>1, FewWaves
      <3>2. DOMAIN claimed[c] = 1 .. Waves
        BY <2>3 DEF StaticRows
      <3>3. Len(claimed[c]) = Waves
        BY <1>2, <3>1, <3>2
      <3>4. QED
        BY <1>1, <3>1, <3>3
    <2>4. QED
      BY <2>1, <2>2, <2>3
  <1>5. QED
    BY <1>3, <1>4

\* The state is what its declarations say, however many waves or claims the
\* schedule takes.
THEOREM TypeCorrect == Spec => []TypeOK
  <1>1. ASSUME KernelInv
        PROVE  TypeOK
    <2>1. ControlInv /\ PhaseInv /\ ClaimInv /\ PlaceInv /\ BarrierInv /\ LoadInv
      BY <1>1 DEF KernelInv, ControlInv, SyncInv
    <2>2. Len(Rows) \in Nat
      BY <2>1, RowsFacts
    <2>3. retired \in [SMS -> [WORKERS -> 0 .. Len(Rows) + 1]]
      <3>1. ASSUME NEW sm \in SMS, NEW w \in WORKERS
            PROVE  retired[sm][w] \in 0 .. Len(Rows) + 1
        <4>1. ClusterOf(sm) \in CLUSTERS
          BY Places
        <4>2. retired[sm][w] \in Nat /\ retired[sm][w] <= Len(claimed[ClusterOf(sm)])
          BY <2>1 DEF PlaceInv
        <4>3. QED
          BY <2>1, <2>2, <4>1, <4>2, FewClaims
      <3>2. retired \in [SMS -> [WORKERS -> Nat]]
        BY <2>1 DEF PlaceInv
      <3>3. QED
        BY <3>1, <3>2
    <2>4. \A sm \in SMS, w \in WORKERS : step[sm][w] \in Nat
      BY <2>1 DEF PlaceInv
    <2>5. DOMAIN barrier = DOMAIN Zeroed
      <3>1. barrier = [b \in DOMAIN Prog.target |-> barrier[b]]
        BY <2>1 DEF BarrierInv
      <3>2. QED
        BY <3>1 DEF Zeroed, Prog
    <2>6. completed \subseteq DOMAIN Rows
      BY <1>1 DEF KernelInv, CompletedInv, Done
    <2>7. DOMAIN claimed = CLUSTERS
      BY <2>1 DEF ClaimInv
    <2>8. \A c \in CLUSTERS : \A n \in DOMAIN claimed[c] : claimed[c][n] \in Nat \ {0}
      <3>1. SUFFICES ASSUME NEW c \in CLUSTERS, NEW n \in DOMAIN claimed[c]
                     PROVE  claimed[c][n] \in Nat \ {0}
        OBVIOUS
      <3>2. claimed[c] \in Seq(Nat) /\ claimed[c][n] >= 1
        BY <2>1 DEF ClaimInv
      <3>3. claimed[c][n] \in Nat
        BY <3>2
      <3>4. QED
        BY <3>2, <3>3
    <2>9. graph \in DOMAIN GRAPHS /\ phase \in {"created", "running", "returned"}
      BY <2>1 DEF PhaseInv
    <2>10. next \in 0 .. Len(Rows)
      BY <2>1 DEF ClaimInv
    <2>11. loading \subseteq DOMAIN Rows /\ loaded \subseteq DOMAIN Rows
      BY <2>1 DEF LoadInv
    <2>12. DOMAIN memory = Cells
      BY <1>1 DEF KernelInv
    <2>13. QED
      BY <2>3, <2>4, <2>5, <2>6, <2>7, <2>8, <2>9, <2>10, <2>11, <2>12 DEF TypeOK
  <1>2. QED
    BY <1>1, KernelInit, KernelNext, PTL DEF Spec

---------------------------------------------------------------------------
(* The kernel implements Dataflow.                                         *)

Executed == {<<Rows[row].node, Rows[row].index>> : row \in completed}

\* The rows that hold an instruction, and what the scheduler says of them.
Kept == {k \in RowsOf(Prog) : Prog.instructions[k] # Noop}

\* The program of an accepted graph follows the graph it was made from.
LEMMA ProgramFollows ==
  ASSUME PhaseInv
  PROVE  /\ FollowsGraph(Prog, Promise!Dag)
         /\ InstructionsOf(Promise!Dag) = Promise!Instructions
  <1>1. FollowsGraph(Prog, Promise!Dag)
    BY ProgramPromises DEF PhaseInv, Prog, Promise!Dag
  <1>2. InstructionsOf(Promise!Dag) = Promise!Instructions
    BY DEF InstructionsOf, Promise!Instructions
  <1>3. QED
    BY <1>1, <1>2

\* A row that has stored holds an instruction.
LEMMA DoneKept ==
  ASSUME ControlInv, NEW k \in Done
  PROVE  k \in Kept
  <1>1. RowsOf(Prog) = DOMAIN Rows /\ Rows = Prog.instructions /\ PhaseInv
    BY RowsFacts DEF ControlInv
  <1>2. k \in DOMAIN Rows /\ StoreDone(k)
    BY DEF Done
  <1>3. Rows[k] # Noop
    <2>1. SUFFICES ASSUME Rows[k] = Noop PROVE FALSE
      OBVIOUS
    <2>2. Script(Rows[k], Arriver(Rows[k])) = << >>
      BY <2>1, NoopScript DEF Noop
    <2>3. StoredAt(Rows[k]) \in StepsOf(Rows[k], Arriver(Rows[k]))
      BY <1>2, TakenGood DEF StoreDone
    <2>4. QED
      BY <2>2, <2>3 DEF StepsOf
  <1>4. QED
    BY <1>1, <1>2, <1>3 DEF Kept

\* When the kernel has returned everything has been executed.
Complete == phase = "returned" => Executed = Promise!Instructions

\* When the kernel has returned, every instruction of the graph has been executed.
LEMMA ReturnedComplete ==
  ASSUME KernelInv, Staffed(Prog)
  PROVE  Complete
  <1>1. SUFFICES ASSUME phase = "returned"
                 PROVE  Executed = Promise!Instructions
    BY DEF Complete
  <1>2. ControlInv /\ PhaseInv /\ completed = Done
    BY DEF KernelInv, ControlInv, CompletedInv
  <1>3. RowsOf(Prog) = DOMAIN Rows /\ Rows = Prog.instructions
    BY <1>2, RowsFacts
  <1>4. completed = Kept
    <2>1. completed \subseteq Kept
      BY <1>2, DoneKept
    <2>2. ASSUME NEW k \in Kept PROVE k \in completed
      <3>1. k \in DOMAIN Rows /\ Rows[k] # Noop
        BY <1>3 DEF Kept
      <3>2. StoreDone(k)
        BY <1>1, <1>2, <3>1, AllDone
      <3>3. QED
        BY <1>2, <3>1, <3>2 DEF Done
    <2>3. QED
      BY <2>1, <2>2
  <1>5. {InstructionAt(Prog, k) : k \in Kept} = Promise!Instructions
    BY <1>2, ProgramFollows DEF FollowsGraph, Kept
  <1>6. \A k : InstructionAt(Prog, k) = <<Rows[k].node, Rows[k].index>>
    BY <1>3 DEF InstructionAt
  <1>7. QED
    BY <1>4, <1>5, <1>6 DEF Executed

\* Nothing is executed.
LEMMA NothingExecuted ==
  ASSUME graph' = graph, phase' = phase, completed' = completed
  PROVE  UNCHANGED Promise!dataflowVars
  <1>1. Rows' = Rows
    BY DEF Rows
  <1>2. QED
    BY <1>1 DEF Promise!dataflowVars

\* The end of a row's stores executes its instruction.
LEMMA StoredExecutes ==
  ASSUME KernelInv, ReusesAwaited(Prog), NEW sm \in SMS, NEW w \in WORKERS,
         Stored(sm, w)
  PROVE  \E inst \in Promise!Instructions : Promise!Execute(inst[1], inst[2])
  <1> DEFINE F == CompletedBefore(Prog)
             k == Row(sm, w)
  <1>1. /\ ControlInv /\ PhaseInv /\ CompletedInv /\ OrderInv
        /\ Moves(sm, w) /\ At(sm, w, "stored")
    BY StepsMove DEF Stored, KernelInv, ControlInv, MemoryOrderInv
  <1>2. PICK i : Does(k, w, i, "stored")
    BY <1>1, StepDoes
  <1>3. /\ completed' = completed \cup {k} /\ phase = "running"
        /\ phase' = phase /\ graph' = graph
    BY DEF Stored, dispatchVars
  <1> HIDE DEF k
  <1>4. k \in Begun /\ k \notin completed /\ k \in Done' /\ k \in DOMAIN Rows
    BY <1>1, <1>2, BegunNext DEF CompletedInv, Does
  <1>5. RowsOf(Prog) = DOMAIN Rows /\ Rows = Prog.instructions
    BY <1>1, RowsFacts
  <1>6. Rows[k] # Noop
    <2>1. SUFFICES ASSUME Rows[k] = Noop PROVE FALSE
      OBVIOUS
    <2>2. Script(Rows[k], w) = << >>
      BY <2>1, NoopScript DEF Noop
    <2>3. QED
      BY <1>2, <2>2 DEF Does, StepsOf
  <1>7. k \in Kept
    BY <1>4, <1>5, <1>6 DEF Kept
  <1>8. completed \subseteq Kept
    BY <1>1, DoneKept DEF CompletedInv
  <1>9. F[k] \subseteq completed
    BY <1>1, <1>4 DEF OrderInv
  <1> DEFINE d == Promise!Dag
  <1>a. PICK n, x : n = Rows[k].node /\ x = Rows[k].index
    OBVIOUS
  <1>10. /\ {InstructionAt(Prog, r) : r \in Kept} = Promise!Instructions
         /\ \A j, r \in Kept : InstructionAt(Prog, j) = InstructionAt(Prog, r) => j = r
         /\ \A e \in DOMAIN d[n].ins : \A c \in d[n].insts[x].reads[e] :
              Filled(Prog, d, F[k] \cap Kept, d[n].ins[e], c)
         /\ \A s \in DOMAIN d[n].inplace : \A j \in Kept :
              Prog.instructions[j].node \in ReadersOf(d, d[n].ins[d[n].inplace[s]]) \ {n}
                => j \in F[k]
    BY <1>a, <1>1, <1>5, <1>7, ProgramFollows DEF FollowsGraph, Kept
  <1>11. \A r : InstructionAt(Prog, r) = <<Rows[r].node, Rows[r].index>>
    BY <1>5 DEF InstructionAt
  <1> HIDE DEF d, F
  <1>12. <<n, x>> \in Promise!Instructions
    BY <1>a, <1>7, <1>10, <1>11
  <1>13. <<n, x>> \notin Executed
    <2>1. SUFFICES ASSUME NEW j \in completed, <<n, x>> = <<Rows[j].node, Rows[j].index>>
                   PROVE  FALSE
      BY DEF Executed
    <2>2. j = k
      BY <1>a, <1>7, <1>8, <1>10, <1>11, <2>1
    <2>3. QED
      BY <1>4, <2>1, <2>2
  <1>14. Executed' = Executed \cup {<<n, x>>}
    <2>1. Rows' = Rows
      BY <1>3 DEF Rows
    <2>2. Executed' = {<<Rows[row].node, Rows[row].index>> : row \in completed \cup {k}}
      BY <1>3, <2>1 DEF Executed
    <2>3. QED
      BY <1>a, <2>2 DEF Executed
  <1>15. ASSUME NEW e \in DOMAIN d[n].ins, NEW c \in d[n].insts[x].reads[e]
         PROVE  c \in Promise!Computed(d[n].ins[e])
    <2>1. PICK source : source = d[n].ins[e]
      OBVIOUS
    <2>2. PICK y \in DOMAIN d[source[1]].insts :
            /\ c \in d[source[1]].insts[y].writes[source[2]]
            /\ d[source[1]].kind = "input" \/ <<source[1], y>> \in Executed
      <3>1. CASE /\ d[source[1]].kind = "input"
                 /\ \E y \in DOMAIN d[source[1]].insts :
                      c \in d[source[1]].insts[y].writes[source[2]]
        BY <3>1
      <3>2. CASE \E j \in F[k] \cap Kept :
                   /\ Prog.instructions[j].node = source[1]
                   /\ c \in d[source[1]].insts[Prog.instructions[j].index].writes[source[2]]
        <4>1. PICK j \in F[k] \cap Kept :
                   /\ Rows[j].node = source[1]
                   /\ c \in d[source[1]].insts[Rows[j].index].writes[source[2]]
          BY <1>5, <3>2
        <4>2. <<source[1], Rows[j].index>> \in Executed
          BY <1>9, <4>1 DEF Executed
        <4>3. <<Rows[j].node, Rows[j].index>> \in Promise!Instructions
          BY <1>10, <1>11, <4>1
        <4>4. Rows[j].index \in DOMAIN d[source[1]].insts
          BY <4>1, <4>3 DEF Promise!Instructions, d
        <4>5. QED
          BY <4>1, <4>2, <4>4
      <3>3. QED
        BY <1>10, <2>1, <3>1, <3>2 DEF Filled
    <2>3. y \in {z \in DOMAIN d[source[1]].insts :
                   d[source[1]].kind = "input" \/ <<source[1], z>> \in Executed}
      BY <2>2
    <2>4. c \in Promise!Computed(source)
      BY <2>2, <2>3 DEF Promise!Computed, Executed, d
    <2>5. QED
      BY <2>1, <2>4
  <1>16. Promise!Unread(n)
    <2>1. SUFFICES ASSUME NEW s \in DOMAIN d[n].inplace,
                          NEW inst \in Promise!Instructions,
                          \E e \in DOMAIN d[inst[1]].ins :
                            d[inst[1]].ins[e] = d[n].ins[d[n].inplace[s]],
                          inst[1] # n
                   PROVE  inst \in Executed
      BY DEF Promise!Unread, Executed, d
    <2>2. PICK j \in Kept : inst = <<Rows[j].node, Rows[j].index>>
      BY <1>10, <1>11
    <2>3. inst[1] \in DOMAIN d
      BY DEF Promise!Instructions, d
    <2>4. Rows[j].node \in ReadersOf(d, d[n].ins[d[n].inplace[s]]) \ {n}
      BY <2>1, <2>2, <2>3 DEF ReadersOf
    <2>5. j \in F[k]
      BY <1>5, <1>10, <2>4
    <2>6. QED
      BY <1>9, <2>2, <2>5 DEF Executed
  <1>17. Promise!Execute(n, x)
    BY <1>3, <1>13, <1>14, <1>15, <1>16 DEF Promise!Execute, Executed, d
  <1>18. PICK inst \in Promise!Instructions : inst[1] = n /\ inst[2] = x
    BY <1>12
  <1>19. Promise!Execute(inst[1], inst[2])
    BY <1>17, <1>18
  <1>20. QED
    BY <1>19

\* A step of the kernel is a step of Dataflow, or changes nothing there.
LEMMA RefinesNext ==
  ASSUME KernelInv, ReusesAwaited(Prog), Complete', [Next]_vars
  PROVE  [Promise!Next]_(Promise!dataflowVars)
  <1>1. CASE Launch
    <2>1. Executed' = {}
      BY <1>1 DEF Launch, Executed
    <2>2. Promise!Launch
      BY <1>1, <2>1 DEF Launch, Promise!Launch, Executed
    <2>3. QED
      BY <2>2 DEF Promise!Next
  <1>2. CASE Return
    <2>1. /\ phase = "running" /\ phase' = "returned" /\ graph' = graph
          /\ completed' = completed
      BY <1>2 DEF Return, memoryVars
    <2>2. Executed' = Promise!Instructions'
      BY <2>1 DEF Complete
    <2>3. Executed' = Executed
      BY <2>1 DEF Executed, Rows
    <2>4. Promise!Instructions' = Promise!Instructions
      BY <2>1 DEF Promise!Instructions, Promise!Dag
    <2>5. Promise!Return
      BY <2>1, <2>2, <2>3, <2>4 DEF Promise!Return, Executed
    <2>6. QED
      BY <2>5 DEF Promise!Next
  <1>3. CASE \E cluster \in CLUSTERS : Claim(cluster)
    BY <1>3, NothingExecuted DEF Claim, dispatchVars, memoryVars
  <1>4. ASSUME NEW sm \in SMS, NEW w \in WORKERS, Worker(sm, w)
        PROVE  [Promise!Next]_(Promise!dataflowVars)
    <2>1. CASE Stored(sm, w)
      BY <2>1, StoredExecutes DEF Promise!Next
    <2>2. CASE ~Stored(sm, w)
      <3>1. graph' = graph /\ phase' = phase /\ completed' = completed
        BY <1>4, <2>2 DEF Worker, Wait, Arrive, Load, Loaded, Store, Finish,
           dispatchVars, memoryVars
      <3>2. QED
        BY <3>1, NothingExecuted
    <2>3. QED
      BY <2>1, <2>2
  <1>5. CASE \E row \in loading : Deliver(row)
    BY <1>5, NothingExecuted DEF Deliver, dispatchVars
  <1>6. CASE UNCHANGED vars
    BY <1>6, NothingExecuted DEF vars, dispatchVars, memoryVars
  <1>7. QED
    BY <1>1, <1>2, <1>3, <1>4, <1>5, <1>6 DEF Next

\* The first state is one of Dataflow.
LEMMA RefinesInit == Init => Promise!Init
  BY DEF Init, Promise!Init

\* A launch executes the graph: every instruction once, when what it reads
\* has been computed and the other readers of what it mutates are through,
\* and it returns when all have been executed.
THEOREM ExecutesTheGraph ==
  ASSUME \A g \in DOMAIN GRAPHS :
           Accepted(g) => ReusesAwaited(Programs[g]) /\ Staffed(Programs[g])
  PROVE  Spec => ImplementsDataflow
  <1>1. ASSUME KernelInv PROVE ReusesAwaited(Prog) /\ Staffed(Prog)
    BY <1>1 DEF KernelInv, ControlInv, PhaseInv, Prog
  <1>2. Spec => []KernelInv
    BY KernelInit, KernelNext, PTL DEF Spec
  <1>3. KernelInv => Complete
    BY <1>1, ReturnedComplete
  <1>4. KernelInv /\ Complete' /\ [Next]_vars => [Promise!Next]_(Promise!dataflowVars)
    BY <1>1, RefinesNext
  <1>5. QED
    BY <1>2, <1>3, <1>4, RefinesInit, PTL DEF Spec, ImplementsDataflow, Promise!Spec

=============================================================================
