------------------------------ MODULE SchedulingProofs ----------------------
(***************************************************************************)
(* The program that the scheduler makes of a graph keeps the promises of   *)
(* ScheduledProgram, for every graph.                                      *)
(*                                                                         *)
(* First the tensor pass: tensors that share storage are ordered.  When a  *)
(* tensor gets storage that another one had, the instructions that store   *)
(* it wait, through release barriers, for every op that stored or read the *)
(* other one, but for the op that mutates it in place.  That is SharedInv; *)
(* the pass keeps it because an entry of the pool names all users of the   *)
(* last tensor in its storage (PoolInv), because these come before the op  *)
(* that reuses it (Fits), and because a release waits for whatever the     *)
(* released ops have waited for (Behind).  NodeKeeps is the step of the    *)
(* pass, AssignTensorsPass its result.                                     *)
(*                                                                         *)
(* Then the rows: what they hold (RowsLaid, RowHolds), which rows a row    *)
(* waits for (AwaitedAre) and hence what has completed before it           *)
(* (BehindPrecedes), and from these and the tensor pass that the program   *)
(* has no races, follows the graph, keeps the outputs and that its targets *)
(* are exact.                                                              *)
(***************************************************************************)
EXTENDS ScheduledProgram, FiniteSetTheorems, TLAPS

\* Induction over the naturals, for a set.
LEMMA NatSet ==
  ASSUME NEW S, 0 \in S, \A n \in Nat : n \in S => n + 1 \in S
  PROVE  Nat \subseteq S
  <1> SUFFICES ASSUME NEW k \in Nat, k \notin S PROVE FALSE
    OBVIOUS
  <1> DEFINE Initial == {1 .. n : n \in {m \in Nat : m \notin S}}
             R == StrictSubsetOrdering(Nat)
  <1>1. IsWellFoundedOn(R, FiniteSubsetsOf(Nat))
    BY FS_StrictSubsetOrderingWellFounded
  <1>2. Initial \subseteq FiniteSubsetsOf(Nat)
    <2>1. ASSUME NEW n \in Nat PROVE IsFiniteSet(1 .. n)
      BY FS_Interval
    <2>2. ASSUME NEW n \in Nat PROVE 1 .. n \in FiniteSubsetsOf(Nat)
      BY <2>1 DEF FiniteSubsetsOf
    <2>3. QED
      BY <2>2
  <1>3. Initial # {}
    OBVIOUS
  <1>4. \E T \in Initial : \A U \in Initial : ~(<<U, T>> \in R)
    <2> HIDE DEF R, Initial
    <2>1. QED
      BY <1>1, <1>2, <1>3, WFMin
  <1>5. PICK n \in Nat : n \notin S /\ \A U \in Initial : ~(<<U, 1 .. n>> \in R)
    BY <1>4
  <1>6. n # 0 /\ n - 1 \in Nat /\ n - 1 \notin S
    BY <1>5
  <1>7. 1 .. n - 1 \in Initial
    BY <1>6
  <1>8. <<1 .. n - 1, 1 .. n>> \in R
    BY <1>6 DEF StrictSubsetOrdering
  <1>9. QED
    BY <1>5, <1>7, <1>8

\* The same up to a bound.
LEMMA UpTo ==
  ASSUME NEW N \in Nat, NEW S, 0 \in S,
         \A n \in Nat : n < N /\ n \in S => n + 1 \in S
  PROVE  \A n \in 0 .. N : n \in S
  <1> DEFINE T == {n \in Nat : n <= N => n \in S}
  <1>1. 0 \in T
    OBVIOUS
  <1>2. ASSUME NEW n \in Nat, n \in T
        PROVE  n + 1 \in T
    <2>1. n + 1 <= N => n < N /\ n <= N
      OBVIOUS
    <2>2. n + 1 <= N => n + 1 \in S
      BY <1>2, <2>1
    <2>3. QED
      BY <2>2
  <1> HIDE DEF T
  <1>3. Nat \subseteq T
    BY <1>1, <1>2, NatSet
  <1>4. QED
    BY <1>3 DEF T

\* Finitely many finite sets have a finite union.
LEMMA FiniteUnion ==
  ASSUME NEW N \in Nat, NEW f, \A n \in 1 .. N : IsFiniteSet(f[n])
  PROVE  IsFiniteSet(UNION {f[n] : n \in 1 .. N})
  <1> DEFINE S == {n \in 0 .. N : IsFiniteSet(UNION {f[m] : m \in 1 .. n})}
  <1>1. 0 \in S
    <2>1. UNION {f[m] : m \in 1 .. 0} = {}
      OBVIOUS
    <2>2. QED
      BY <2>1, FS_EmptySet
  <1>2. ASSUME NEW n \in Nat, n < N, n \in S
        PROVE  n + 1 \in S
    <2>1. UNION {f[m] : m \in 1 .. n + 1}
            = (UNION {f[m] : m \in 1 .. n}) \cup f[n + 1]
      <3>1. 1 .. n + 1 = (1 .. n) \cup {n + 1}
        OBVIOUS
      <3>2. QED
        BY <3>1
    <2>2. IsFiniteSet(f[n + 1])
      BY <1>2
    <2>3. IsFiniteSet((UNION {f[m] : m \in 1 .. n}) \cup f[n + 1])
      BY <1>2, <2>2, FS_Union
    <2>4. QED
      BY <1>2, <2>1, <2>3
  <1> HIDE DEF S
  <1>3. N \in S
    BY <1>1, <1>2, UpTo
  <1>4. QED
    BY <1>3 DEF S

\* SetToSeq lists the elements of a finite set, each once.
LEMMA ListsEach ==
  ASSUME NEW S, IsFiniteSet(S)
  PROVE  /\ Cardinality(S) \in Nat
         /\ SetToSeq(S) \in Seq(S)
         /\ Len(SetToSeq(S)) = Cardinality(S)
         /\ DOMAIN SetToSeq(S) = 1 .. Cardinality(S)
         /\ ToSet(SetToSeq(S)) = S
         /\ \A i, j \in DOMAIN SetToSeq(S) :
              SetToSeq(S)[i] = SetToSeq(S)[j] => i = j
  <1> DEFINE N == Cardinality(S)
             D == 1 .. N
             P(f) == f \in [D -> S] /\ IsInjective(f)
             seq == SetToSeq(S)
  <1>1. N \in Nat /\ Bijection(D, S) # {}
    BY FS_CardinalityType DEF ExistsBijection
  <1>2. \E f : P(f)
    BY <1>1 DEF Bijection, Injection
  <1>3. P(seq)
    <2>1. seq = CHOOSE f : P(f)
      BY DEF SetToSeq
    <2> HIDE DEF P
    <2>2. QED
      BY <1>2, <2>1
  <1>4. seq \in Injection(D, S)
    BY <1>3 DEF Injection
  <1>5. seq \in Surjection(D, S)
    <2>1. IsFiniteSet(D) /\ Cardinality(D) = N
      <3>1. 1 \in Int /\ N \in Int
        BY <1>1
      <3>2. Cardinality(D) = IF 1 > N THEN 0 ELSE N - 1 + 1
        BY <3>1, FS_Interval
      <3>3. QED
        BY <1>1, <3>1, <3>2, FS_Interval
    <2> HIDE DEF seq, D
    <2>2. QED
      BY <1>4, <2>1, FS_Injection
  <1>6. ToSet(seq) = S
    BY <1>3, <1>5 DEF ToSet, Surjection
  <1>7. \A i, j \in DOMAIN seq : seq[i] = seq[j] => i = j
    BY <1>3 DEF IsInjective
  <1>8. seq \in Seq(S) /\ Len(seq) = N /\ DOMAIN seq = D
    <2> HIDE DEF seq
    <2>1. QED
      BY <1>1, <1>3
  <1>9. QED
    BY <1>1, <1>6, <1>7, <1>8

\* Two ways to list the same number of things.
LEMMA SameSize ==
  ASSUME NEW S, NEW T, NEW f \in [S -> T], IsFiniteSet(S),
         \A x, y \in S : f[x] = f[y] => x = y,
         \A y \in T : \E x \in S : f[x] = y
  PROVE  IsFiniteSet(T) /\ Cardinality(T) = Cardinality(S)
  <1>1. f \in Bijection(S, T)
    BY DEF Bijection, Injection, Surjection, IsInjective
  <1>2. ExistsBijection(S, T)
    BY <1>1 DEF ExistsBijection
  <1>3. QED
    BY <1>2, FS_Bijection

\* The least and the greatest of some naturals.
LEMMA MinIs ==
  ASSUME NEW S \in SUBSET Nat, S # {}
  PROVE  Min(S) \in S
  <1>1. PICK k \in Nat : k \in S
    OBVIOUS
  <1> DEFINE T == {n \in Nat : \A x \in S : x >= n}
  <1>2. \E x \in S : \A y \in S : x <= y
    <2>1. SUFFICES ASSUME ~ \E x \in S : \A y \in S : x <= y
                   PROVE  FALSE
      OBVIOUS
    <2>2. 0 \in T
      OBVIOUS
    <2>3. ASSUME NEW n \in Nat, n \in T
          PROVE  n + 1 \in T
      <3>1. \A x \in S : x >= n
        BY <2>3
      <3>2. n \notin S
        BY <2>1, <3>1
      <3>3. QED
        BY <3>1, <3>2
    <2> HIDE DEF T
    <2>4. Nat \subseteq T
      BY <2>2, <2>3, NatSet
    <2>5. k + 1 \in T
      BY <2>4
    <2>6. QED
      BY <1>1, <2>5 DEF T
  <1>3. QED
    BY <1>2 DEF Min

LEMMA MaxIs ==
  ASSUME NEW S \in SUBSET Nat, IsFiniteSet(S), S # {}
  PROVE  Max(S) \in S /\ \A x \in S : x <= Max(S)
  <1> DEFINE T == {n \in Nat : \A U \in SUBSET S :
                     U # {} /\ Cardinality(U) = n => \E x \in U : \A y \in U : x >= y}
  <1>1. 0 \in T
    <2>1. ASSUME NEW U \in SUBSET S, U # {}
          PROVE  Cardinality(U) # 0
      <3>1. IsFiniteSet(U)
        BY FS_Subset
      <3>2. QED
        BY <2>1, <3>1, FS_EmptySet
    <2>2. QED
      BY <2>1
  <1>2. ASSUME NEW n \in Nat, n \in T
        PROVE  n + 1 \in T
    <2>1. ASSUME NEW U \in SUBSET S, U # {}, Cardinality(U) = n + 1
          PROVE  \E x \in U : \A y \in U : x >= y
      <3>1. PICK z \in U : TRUE
        BY <2>1
      <3>2. IsFiniteSet(U)
        BY FS_Subset
      <3>3. Cardinality(U \ {z}) = n
        <4>1. Cardinality(U \ {z}) = Cardinality(U) - 1
          BY <3>1, <3>2, FS_RemoveElement
        <4>2. QED
          BY <2>1, <4>1
      <3>4. z \in Nat /\ U \ {z} \in SUBSET S
        BY <3>1
      <3>5. CASE U \ {z} = {}
        BY <3>1, <3>4, <3>5
      <3>6. CASE U \ {z} # {}
        <4>1. PICK x \in U \ {z} : \A y \in U \ {z} : x >= y
          BY <1>2, <3>3, <3>4, <3>6
        <4>2. x \in Nat /\ U \subseteq Nat
          BY <4>1
        <4>3. QED
          BY <3>1, <3>4, <4>1, <4>2
      <3>7. QED
        BY <3>5, <3>6
    <2>2. QED
      BY <2>1
  <1>3. Nat \subseteq T
    <2> HIDE DEF T
    <2>1. QED
      BY <1>1, <1>2, NatSet
  <1>4. Cardinality(S) \in Nat
    BY FS_CardinalityType
  <1>5. \E x \in S : \A y \in S : x >= y
    BY <1>3, <1>4
  <1> DEFINE m == Max(S)
  <1>6. m \in S /\ \A y \in S : m >= y
    BY <1>5 DEF Max
  <1> HIDE DEF m
  <1>7. \A x \in S : x <= m
    BY <1>6
  <1>8. QED
    BY <1>6, <1>7 DEF m

\* The sums of the first numbers of a list.
LEMMA PartialSums ==
  ASSUME NEW N \in Nat, NEW c, \A n \in 1 .. N : c[n] \in Nat
  PROVE  \E f \in [0 .. N -> Nat] :
           f[0] = 0 /\ \A n \in 1 .. N : f[n] = f[n - 1] + c[n]
  <1> DEFINE S == {m \in 0 .. N : \E f \in [0 .. m -> Nat] :
                     f[0] = 0 /\ \A n \in 1 .. m : f[n] = f[n - 1] + c[n]}
  <1>1. 0 \in S
    <2>1. PICK f : f = [n \in 0 .. 0 |-> 0]
      OBVIOUS
    <2>2. f \in [0 .. 0 -> Nat] /\ f[0] = 0
      BY <2>1
    <2>3. QED
      BY <2>2
  <1>2. ASSUME NEW m \in Nat, m < N, m \in S
        PROVE  m + 1 \in S
    <2>1. PICK f \in [0 .. m -> Nat] :
            f[0] = 0 /\ \A n \in 1 .. m : f[n] = f[n - 1] + c[n]
      BY <1>2
    <2>2. c[m + 1] \in Nat /\ f[m] \in Nat
      BY <1>2, <2>1
    <2>3. PICK g : g = [n \in 0 .. m + 1 |-> IF n = m + 1 THEN f[m] + c[m + 1] ELSE f[n]]
      OBVIOUS
    <2>4. g \in [0 .. m + 1 -> Nat] /\ g[0] = 0
      BY <2>1, <2>2, <2>3
    <2>5. ASSUME NEW n \in 1 .. m + 1
          PROVE  g[n] = g[n - 1] + c[n]
      <3>1. CASE n = m + 1
        <4>1. n - 1 = m /\ m \in 0 .. m + 1 /\ m # m + 1
          BY <3>1
        <4>2. g[n] = f[m] + c[m + 1] /\ g[m] = f[m]
          BY <2>3, <3>1, <4>1
        <4>3. QED
          BY <3>1, <4>1, <4>2
      <3>2. CASE n # m + 1
        <4>1. n \in 1 .. m /\ n - 1 \in 0 .. m /\ n - 1 # m + 1
          BY <3>2
        <4>2. g[n] = f[n] /\ g[n - 1] = f[n - 1]
          BY <2>3, <3>2, <4>1
        <4>3. QED
          BY <2>1, <4>1, <4>2
      <3>3. QED
        BY <3>1, <3>2
    <2>6. m + 1 \in 0 .. N
      BY <1>2
    <2>7. QED
      BY <2>4, <2>5, <2>6
  <1> HIDE DEF S
  <1>3. \A n \in Nat : n < N /\ n \in S => n + 1 \in S
    BY <1>2
  <1>4. \A n \in 0 .. N : n \in S
    BY <1>1, <1>3, UpTo
  <1>5. N \in S
    BY <1>4
  <1>6. QED
    BY <1>5 DEF S

---------------------------------------------------------------------------
(* Graphs.                                                                 *)

\* What Shaped says of a node.
LEMMA GraphShape ==
  ASSUME NEW d, Shaped(d)
  PROVE  /\ Len(d) \in Nat /\ DOMAIN d = 1 .. Len(d)
         /\ \A n \in DOMAIN d :
              /\ n \in Nat /\ n >= 1
              /\ d[n].kind \in {"input", "compute", "output"}
              /\ Len(d[n].outs) \in Nat
              /\ DOMAIN d[n].outs = 1 .. Len(d[n].outs)
              /\ Len(d[n].insts) \in Nat
              /\ DOMAIN d[n].insts = 1 .. Len(d[n].insts)
              /\ Len(d[n].ins) \in Nat
              /\ DOMAIN d[n].ins = 1 .. Len(d[n].ins)
              /\ d[n].kind = "compute" => Len(d[n].insts) >= 1
              /\ d[n].kind # "compute" => DOMAIN d[n].inplace = {}
              /\ d[n].kind = "input" => DOMAIN d[n].outs = {1} /\ DOMAIN d[n].ins = {}
              /\ d[n].kind = "output" => DOMAIN d[n].outs = {}
  <1>1. Len(d) \in Nat /\ DOMAIN d = 1 .. Len(d)
    BY DEF Shaped, IsSeq
  <1>2. ASSUME NEW n \in DOMAIN d
        PROVE  /\ n \in Nat /\ n >= 1
               /\ d[n].kind \in {"input", "compute", "output"}
               /\ Len(d[n].outs) \in Nat
               /\ DOMAIN d[n].outs = 1 .. Len(d[n].outs)
               /\ Len(d[n].insts) \in Nat
               /\ DOMAIN d[n].insts = 1 .. Len(d[n].insts)
               /\ Len(d[n].ins) \in Nat
               /\ DOMAIN d[n].ins = 1 .. Len(d[n].ins)
               /\ d[n].kind = "compute" => Len(d[n].insts) >= 1
               /\ d[n].kind # "compute" => DOMAIN d[n].inplace = {}
               /\ d[n].kind = "input" => DOMAIN d[n].outs = {1} /\ DOMAIN d[n].ins = {}
               /\ d[n].kind = "output" => DOMAIN d[n].outs = {}
    <2>1. /\ d[n].kind \in {"input", "compute", "output"}
          /\ d[n].outs \in Seq(ToSet(d[n].outs))
          /\ d[n].insts \in Seq(ToSet(d[n].insts))
          /\ d[n].ins \in Seq(TensorsBefore(d, n))
          /\ d[n].kind = "compute" => d[n].insts # << >>
          /\ d[n].kind # "compute" => DOMAIN d[n].inplace = {}
          /\ d[n].kind = "input" => Len(d[n].outs) = 1 /\ d[n].ins = << >>
          /\ d[n].kind = "output" => d[n].outs = << >>
      BY DEF Shaped, IsSeq
    <2>2. n \in Nat /\ n >= 1
      BY <1>1
    <2>3. Len(d[n].outs) \in Nat /\ DOMAIN d[n].outs = 1 .. Len(d[n].outs)
      BY <2>1
    <2>4. Len(d[n].insts) \in Nat /\ DOMAIN d[n].insts = 1 .. Len(d[n].insts)
      BY <2>1
    <2>5. Len(d[n].ins) \in Nat /\ DOMAIN d[n].ins = 1 .. Len(d[n].ins)
      BY <2>1
    <2>6. d[n].kind = "compute" => Len(d[n].insts) >= 1
      BY <2>1, <2>4
    <2>7. d[n].kind = "input" => DOMAIN d[n].outs = {1} /\ DOMAIN d[n].ins = {}
      <3>1. ASSUME d[n].kind = "input"
            PROVE  DOMAIN d[n].outs = {1}
        <4>1. Len(d[n].outs) = 1
          BY <2>1, <3>1
        <4>2. QED
          BY <2>3, <4>1
      <3>2. ASSUME d[n].kind = "input"
            PROVE  DOMAIN d[n].ins = {}
        <4>1. d[n].ins = << >>
          BY <2>1, <3>2
        <4>2. QED
          BY <4>1
      <3>3. QED
        BY <3>1, <3>2
    <2>8. d[n].kind = "output" => DOMAIN d[n].outs = {}
      BY <2>1
    <2>9. QED
      BY <2>1, <2>2, <2>3, <2>4, <2>5, <2>6, <2>7, <2>8
  <1>3. QED
    BY <1>1, <1>2

\* The tensors of a graph.
TensorsOf(d) == UNION {{n} \X DOMAIN d[n].outs : n \in DOMAIN d}

\* An edge comes from a tensor of an earlier node that is no output node.
LEMMA EdgeShape ==
  ASSUME NEW d, Shaped(d), NEW n \in DOMAIN d, NEW e \in DOMAIN d[n].ins
  PROVE  /\ d[n].ins[e] \in TensorsOf(d)
         /\ d[n].ins[e] = <<d[n].ins[e][1], d[n].ins[e][2]>>
         /\ d[n].ins[e][1] \in DOMAIN d /\ d[n].ins[e][1] < n
         /\ d[n].ins[e][2] \in DOMAIN d[d[n].ins[e][1]].outs
         /\ d[d[n].ins[e][1]].kind \in {"input", "compute"}
  <1> DEFINE t == d[n].ins[e]
  <1>1. t \in TensorsBefore(d, n)
    BY DEF Shaped
  <1>2. PICK m \in 1 .. n - 1 : t \in {m} \X DOMAIN d[m].outs
    BY <1>1 DEF TensorsBefore
  <1>3. n \in Nat /\ n <= Len(d) /\ Len(d) \in Nat /\ DOMAIN d = 1 .. Len(d)
    BY GraphShape
  <1>4. m \in DOMAIN d /\ m < n
    BY <1>2, <1>3
  <1>5. t = <<t[1], t[2]>> /\ t[1] = m /\ t[2] \in DOMAIN d[m].outs
    BY <1>2
  <1>6. d[m].kind \in {"input", "compute"}
    BY <1>4, <1>5, GraphShape
  <1>7. t \in TensorsOf(d)
    BY <1>2, <1>4 DEF TensorsOf
  <1>8. QED
    BY <1>4, <1>5, <1>6, <1>7

LEMMA TensorShape ==
  ASSUME NEW d, Shaped(d), NEW t \in TensorsOf(d)
  PROVE  /\ t = <<t[1], t[2]>> /\ t[1] \in DOMAIN d /\ t[1] \in Nat
         /\ t[2] \in DOMAIN d[t[1]].outs
         /\ d[t[1]].kind \in {"input", "compute"}
  <1>1. PICK n \in DOMAIN d : t \in {n} \X DOMAIN d[n].outs
    BY DEF TensorsOf
  <1>2. t = <<t[1], t[2]>> /\ t[1] = n /\ t[2] \in DOMAIN d[n].outs
    BY <1>1
  <1>3. QED
    BY <1>2, GraphShape

\* A mutated tensor is one the node reads.
LEMMA InPlaceShape ==
  ASSUME NEW d, Shaped(d), NEW n \in DOMAIN d, NEW s \in DOMAIN d[n].inplace
  PROVE  /\ s \in DOMAIN d[n].outs /\ d[n].inplace[s] \in DOMAIN d[n].ins
         /\ d[n].kind = "compute" /\ <<n, s>> \in TensorsOf(d)
  <1>1. s \in DOMAIN d[n].outs /\ d[n].inplace[s] \in DOMAIN d[n].ins
    BY DEF Shaped
  <1>2. d[n].kind = "compute"
    BY GraphShape
  <1>3. QED
    BY <1>1, <1>2 DEF TensorsOf

LEMMA Counts ==
  ASSUME NEW d, Shaped(d), NEW n \in DOMAIN d
  PROVE  /\ InstCount(d, n) \in Nat /\ Padded(InstCount(d, n)) \in Nat
         /\ Padded(InstCount(d, n)) >= InstCount(d, n)
         /\ Padded(InstCount(d, n)) % CLUSTER_SIZE = 0
         /\ IsCompute(d, n) => InstCount(d, n) = Len(d[n].insts) /\ InstCount(d, n) >= 1
         /\ ~IsCompute(d, n) => InstCount(d, n) = 0
  <1>1. /\ InstCount(d, n) \in Nat
        /\ IsCompute(d, n) => InstCount(d, n) = Len(d[n].insts) /\ InstCount(d, n) >= 1
        /\ ~IsCompute(d, n) => InstCount(d, n) = 0
    BY GraphShape DEF InstCount, IsCompute
  <1>2. ASSUME NEW c \in Nat
        PROVE  Padded(c) \in Nat /\ Padded(c) >= c /\ Padded(c) % CLUSTER_SIZE = 0
    <2>1. CASE CLUSTER_SIZE = 1
      BY <2>1 DEF Padded
    <2>2. CASE CLUSTER_SIZE = 2
      BY <2>2 DEF Padded
    <2>3. QED
      BY <2>1, <2>2, SchedulingAssumption
  <1>3. QED
    BY <1>1, <1>2

\* Where the instructions of a node start.
LEMMA OffsetsUnfold ==
  ASSUME NEW d, Shaped(d)
  PROVE  \A n \in DOMAIN d :
           /\ InstOffset(d)[n] \in Nat
           /\ InstOffset(d)[n] =
                IF n = 1 THEN 0
                ELSE InstOffset(d)[n - 1] + Padded(InstCount(d, n - 1))
  <1> DEFINE N == Len(d)
             c == [n \in 1 .. N |-> Padded(InstCount(d, n))]
             P(g) == g = [n \in DOMAIN d |->
                       IF n = 1 THEN 0 ELSE g[n - 1] + Padded(InstCount(d, n - 1))]
             offset == InstOffset(d)
  <1>1. N \in Nat /\ DOMAIN d = 1 .. N
    BY GraphShape
  <1>2. \A n \in 1 .. N : c[n] \in Nat /\ c[n] = Padded(InstCount(d, n))
    BY <1>1, Counts
  <1>3. PICK f \in [0 .. N -> Nat] :
          f[0] = 0 /\ \A n \in 1 .. N : f[n] = f[n - 1] + c[n]
    <2> HIDE DEF c
    <2>1. QED
      BY <1>1, <1>2, PartialSums
  <1>4. PICK g : g = [n \in 1 .. N |-> f[n - 1]]
    OBVIOUS
  <1>5. ASSUME NEW n \in 1 .. N
        PROVE  g[n] = IF n = 1 THEN 0 ELSE g[n - 1] + Padded(InstCount(d, n - 1))
    <2>1. CASE n = 1
      BY <1>3, <1>4, <2>1
    <2>2. CASE n # 1
      <3>1. n - 1 \in 1 .. N /\ n - 1 - 1 = n - 2
        BY <1>1, <2>2
      <3>2. g[n] = f[n - 1] /\ g[n - 1] = f[n - 2]
        BY <1>4, <3>1
      <3>3. f[n - 1] = f[n - 2] + c[n - 1]
        BY <1>3, <3>1
      <3>4. c[n - 1] = Padded(InstCount(d, n - 1))
        BY <1>2, <3>1
      <3>5. QED
        BY <2>2, <3>2, <3>3, <3>4
    <2>3. QED
      BY <2>1, <2>2
  <1>6. P(g)
    BY <1>1, <1>4, <1>5
  <1>7. P(offset)
    <2>1. offset = CHOOSE h : P(h)
      BY DEF InstOffset
    <2> HIDE DEF P
    <2>2. QED
      BY <1>6, <2>1
  <1> DEFINE S == {n \in 0 .. N : n >= 1 => offset[n] \in Nat}
  <1>8. \A n \in 1 .. N : offset[n] = IF n = 1 THEN 0
            ELSE offset[n - 1] + Padded(InstCount(d, n - 1))
    <2> HIDE DEF offset
    <2>1. QED
      BY <1>1, <1>7
  <1> HIDE DEF offset
  <1>9. 0 \in S
    BY <1>1
  <1>10. ASSUME NEW n \in Nat, n < N, n \in S
         PROVE  n + 1 \in S
    <2>1. n + 1 \in 1 .. N
      BY <1>1, <1>10
    <2>2. CASE n = 0
      BY <1>8, <2>1, <2>2
    <2>3. CASE n # 0
      <3>1. offset[n] \in Nat /\ n \in 1 .. N /\ n + 1 # 1 /\ n + 1 - 1 = n
        BY <1>10, <2>3
      <3>2. Padded(InstCount(d, n)) \in Nat
        BY <1>1, <3>1, Counts
      <3>3. offset[n + 1] = offset[n] + Padded(InstCount(d, n))
        BY <1>8, <2>1, <3>1
      <3>4. QED
        BY <2>1, <3>1, <3>2, <3>3
    <2>4. QED
      BY <2>2, <2>3
  <1>11. \A n \in 0 .. N : n \in S
    <2> HIDE DEF S
    <2>1. QED
      BY <1>1, <1>9, <1>10, UpTo
  <1>12. QED
    BY <1>1, <1>8, <1>11 DEF offset

\* Nodes follow each other in the list.
LEMMA OffsetsGrow ==
  ASSUME NEW d, Shaped(d), NEW m \in DOMAIN d, NEW n \in DOMAIN d, m < n
  PROVE  InstOffset(d)[m] + Padded(InstCount(d, m)) <= InstOffset(d)[n]
  <1> DEFINE offset == InstOffset(d)
             end(k) == offset[k] + Padded(InstCount(d, k))
             S == {k \in 0 .. Len(d) : k > m => end(m) <= offset[k]}
  <1>1. Len(d) \in Nat /\ DOMAIN d = 1 .. Len(d)
    BY GraphShape
  <1>2. \A k \in DOMAIN d : offset[k] \in Nat /\ end(k) \in Nat /\ offset[k] <= end(k)
    <2>1. ASSUME NEW k \in DOMAIN d
          PROVE  offset[k] \in Nat /\ Padded(InstCount(d, k)) \in Nat
      BY OffsetsUnfold, Counts
    <2> HIDE DEF offset
    <2>2. QED
      BY <2>1
  <1>3. \A k \in DOMAIN d : k > 1 => offset[k] = end(k - 1)
    BY <1>1, OffsetsUnfold
  <1> HIDE DEF offset, end
  <1>4. 0 \in S
    BY <1>1
  <1>5. ASSUME NEW k \in Nat, k < Len(d), k \in S
        PROVE  k + 1 \in S
    <2>1. CASE k + 1 > m
      <3>1. k \in DOMAIN d /\ k + 1 \in DOMAIN d /\ k + 1 > 1 /\ k + 1 - 1 = k
        BY <1>1, <1>5, <2>1
      <3>2. offset[k + 1] = end(k)
        BY <1>3, <3>1
      <3>3. end(m) <= end(k)
        <4>1. CASE k = m
          BY <1>2, <3>1, <4>1
        <4>2. CASE k > m
          BY <1>2, <1>5, <3>1, <4>2
        <4>3. QED
          BY <1>1, <2>1, <4>1, <4>2
      <3>4. QED
        BY <1>1, <1>5, <3>2, <3>3
    <2>2. CASE ~(k + 1 > m)
      BY <1>1, <1>5, <2>2
    <2>3. QED
      BY <2>1, <2>2
  <1>6. \A k \in 0 .. Len(d) : k \in S
    <2> HIDE DEF S
    <2>1. QED
      BY <1>1, <1>4, <1>5, UpTo
  <1>7. end(m) <= offset[n]
    BY <1>1, <1>6
  <1>8. QED
    BY <1>7 DEF offset, end

\* A node that ends where another starts, or before, is an earlier node.
LEMMA EndsBefore ==
  ASSUME NEW d, Shaped(d), NEW m \in DOMAIN d, NEW n \in DOMAIN d,
         InstOffset(d)[m] + Padded(InstCount(d, m)) < InstOffset(d)[n]
  PROVE  m < n
  <1>1. /\ InstOffset(d)[m] \in Nat /\ InstOffset(d)[n] \in Nat
        /\ Padded(InstCount(d, n)) \in Nat /\ Padded(InstCount(d, m)) \in Nat
        /\ m \in Nat /\ n \in Nat
    BY OffsetsUnfold, Counts, GraphShape
  <1>2. CASE m = n
    BY <1>1, <1>2
  <1>3. CASE n < m
    <2>1. InstOffset(d)[n] + Padded(InstCount(d, n)) <= InstOffset(d)[m]
      BY <1>3, OffsetsGrow
    <2>2. QED
      BY <1>1, <2>1
  <1>4. QED
    BY <1>1, <1>2, <1>3

---------------------------------------------------------------------------
(* Who uses a tensor.                                                      *)

LEMMA EdgeIs ==
  ASSUME NEW d, NEW n, NEW s, NEW x
  PROVE  x \in Edges(d, n, s) <=>
           /\ x = <<x[1], x[2]>> /\ x[1] \in DOMAIN d /\ x[2] \in DOMAIN d[x[1]].ins
           /\ d[x[1]].ins[x[2]] = <<n, s>>
  BY DEF Edges

LEMMA EdgesFinite ==
  ASSUME NEW d, Shaped(d), NEW n, NEW s
  PROVE  IsFiniteSet(Edges(d, n, s))
  <1> DEFINE f == [m \in 1 .. Len(d) |-> {m} \X DOMAIN d[m].ins]
             all == UNION {f[m] : m \in 1 .. Len(d)}
  <1>1. Len(d) \in Nat /\ DOMAIN d = 1 .. Len(d)
    BY GraphShape
  <1>2. \A m \in 1 .. Len(d) : f[m] = {m} \X DOMAIN d[m].ins
    OBVIOUS
  <1>3. ASSUME NEW m \in 1 .. Len(d)
        PROVE  IsFiniteSet(f[m])
    <2>1. DOMAIN d[m].ins = 1 .. Len(d[m].ins) /\ Len(d[m].ins) \in Nat
      BY <1>1, GraphShape
    <2>2. IsFiniteSet(DOMAIN d[m].ins)
      <3>1. 1 \in Int /\ Len(d[m].ins) \in Int
        BY <2>1
      <3>2. QED
        BY <2>1, <3>1, FS_Interval
    <2>3. IsFiniteSet({m})
      BY FS_Singleton
    <2>4. IsFiniteSet({m} \X DOMAIN d[m].ins)
      BY <2>2, <2>3, FS_Product
    <2>5. QED
      BY <1>2, <2>4
  <1> HIDE DEF f
  <1>4. IsFiniteSet(all)
    BY <1>1, <1>3, FiniteUnion
  <1>5. ASSUME NEW x \in Edges(d, n, s)
        PROVE  x \in all
    <2>1. x = <<x[1], x[2]>> /\ x[1] \in DOMAIN d /\ x[2] \in DOMAIN d[x[1]].ins
      BY EdgeIs
    <2>2. x \in {x[1]} \X DOMAIN d[x[1]].ins
      BY <2>1
    <2>3. x[1] \in 1 .. Len(d)
      BY <1>1, <2>1
    <2>4. x \in f[x[1]]
      BY <1>2, <2>2, <2>3
    <2>5. QED
      BY <2>3, <2>4
  <1> HIDE DEF all
  <1>6. Edges(d, n, s) \in SUBSET all
    BY <1>5
  <1>7. QED
    BY <1>4, <1>6, FS_Subset

LEMMA ConsumersAre ==
  ASSUME NEW edges, IsFiniteSet(edges), NEW S, \A x \in edges : x[1] \in S
  PROVE  /\ Consumers(edges) \in Seq(S)
         /\ ToSet(Consumers(edges)) = {x[1] : x \in edges}
  <1> DEFINE seq == SetToSeq(edges)
             N == Cardinality(edges)
  <1>1. N \in Nat /\ DOMAIN seq = 1 .. N /\ ToSet(seq) = edges
    BY ListsEach
  <1>2. Consumers(edges) = [x \in 1 .. N |-> seq[x][1]]
    BY <1>1 DEF Consumers
  <1>3. \A x \in 1 .. N : seq[x] \in edges
    BY <1>1 DEF ToSet
  <1>4. \A y \in edges : \E x \in 1 .. N : seq[x] = y
    BY <1>1 DEF ToSet
  <1> HIDE DEF seq, N
  <1>5. Consumers(edges) \in Seq(S)
    BY <1>1, <1>2, <1>3
  <1>6. ToSet(Consumers(edges)) = {x[1] : x \in edges}
    BY <1>2, <1>3, <1>4 DEF ToSet
  <1>7. QED
    BY <1>5, <1>6

\* out_nodes are the readers of the tensor.
LEMMA OutNodesAre ==
  ASSUME NEW d, Shaped(d), NEW n, NEW s
  PROVE  /\ OutNodes(d, n, s) \in Seq(DOMAIN d)
         /\ ToSet(OutNodes(d, n, s)) = ReadersOf(d, <<n, s>>)
  <1>1. IsFiniteSet(Edges(d, n, s))
    BY EdgesFinite
  <1>2. \A x \in Edges(d, n, s) : x[1] \in DOMAIN d
    BY EdgeIs
  <1>3. {x[1] : x \in Edges(d, n, s)} = ReadersOf(d, <<n, s>>)
    <2>1. ASSUME NEW m \in ReadersOf(d, <<n, s>>)
          PROVE  \E x \in Edges(d, n, s) : x[1] = m
      <3>1. PICK e \in DOMAIN d[m].ins : d[m].ins[e] = <<n, s>>
        BY DEF ReadersOf
      <3>2. m \in DOMAIN d
        BY DEF ReadersOf
      <3>3. <<m, e>> \in Edges(d, n, s)
        BY <3>1, <3>2, EdgeIs
      <3>4. QED
        BY <3>3
    <2>2. ASSUME NEW x \in Edges(d, n, s)
          PROVE  x[1] \in ReadersOf(d, <<n, s>>)
      BY EdgeIs DEF ReadersOf
    <2>3. QED
      BY <2>1, <2>2
  <1>4. QED
    BY <1>1, <1>2, <1>3, ConsumersAre DEF OutNodes

LEMMA ToSetConcat ==
  ASSUME NEW S, NEW p \in Seq(S), NEW q \in Seq(S)
  PROVE  p \o q \in Seq(S) /\ ToSet(p \o q) = ToSet(p) \cup ToSet(q)
  <1>1. /\ p \o q \in Seq(S)
        /\ Len(p) \in Nat /\ DOMAIN p = 1 .. Len(p)
        /\ Len(q) \in Nat /\ DOMAIN q = 1 .. Len(q)
        /\ DOMAIN (p \o q) = 1 .. Len(p) + Len(q)
    OBVIOUS
  <1>2. /\ \A i \in 1 .. Len(p) : (p \o q)[i] = p[i]
        /\ \A i \in 1 .. Len(q) : (p \o q)[i + Len(p)] = q[i]
    OBVIOUS
  <1> DEFINE r == p \o q
  <1> HIDE DEF r
  <1>3. ASSUME NEW i \in 1 .. Len(p) + Len(q)
        PROVE  r[i] \in ToSet(p) \cup ToSet(q)
    <2>1. CASE i <= Len(p)
      BY <1>1, <1>2, <2>1 DEF ToSet, r
    <2>2. CASE ~(i <= Len(p))
      <3>1. i - Len(p) \in 1 .. Len(q) /\ i - Len(p) + Len(p) = i
        BY <1>1, <2>2
      <3>2. r[i] = q[i - Len(p)]
        BY <1>2, <3>1 DEF r
      <3>3. QED
        BY <1>1, <3>1, <3>2 DEF ToSet
    <2>3. QED
      BY <2>1, <2>2
  <1>4. ASSUME NEW i \in 1 .. Len(p)
        PROVE  \E j \in 1 .. Len(p) + Len(q) : r[j] = p[i]
    BY <1>1, <1>2 DEF r
  <1>5. ASSUME NEW i \in 1 .. Len(q)
        PROVE  \E j \in 1 .. Len(p) + Len(q) : r[j] = q[i]
    <2>1. i + Len(p) \in 1 .. Len(p) + Len(q)
      BY <1>1
    <2>2. QED
      BY <1>2, <2>1 DEF r
  <1>6. DOMAIN r = 1 .. Len(p) + Len(q)
    BY <1>1 DEF r
  <1>7. ToSet(r) = ToSet(p) \cup ToSet(q)
    <2>1. ToSet(r) \subseteq ToSet(p) \cup ToSet(q)
      <3>1. ToSet(r) = {r[i] : i \in 1 .. Len(p) + Len(q)}
        BY <1>6 DEF ToSet
      <3>2. QED
        BY <1>3, <3>1
    <2>2. ToSet(p) \subseteq ToSet(r)
      BY <1>1, <1>4, <1>6 DEF ToSet
    <2>3. ToSet(q) \subseteq ToSet(r)
      BY <1>1, <1>5, <1>6 DEF ToSet
    <2>4. QED
      BY <2>1, <2>2, <2>3
  <1>8. QED
    BY <1>1, <1>7 DEF r

LEMMA UsersAre ==
  ASSUME NEW d, Shaped(d), NEW n \in DOMAIN d, NEW s
  PROVE  /\ Users(d, n, s) \in Seq(DOMAIN d)
         /\ ToSet(Users(d, n, s)) = {n} \cup ReadersOf(d, <<n, s>>)
  <1> DEFINE q == OutNodes(d, n, s)
  <1>1. q \in Seq(DOMAIN d) /\ ToSet(q) = ReadersOf(d, <<n, s>>)
    BY OutNodesAre
  <1> HIDE DEF q
  <1>2. <<n>> \in Seq(DOMAIN d) /\ ToSet(<<n>>) = {n}
    BY DEF ToSet
  <1>3. <<n>> \o q \in Seq(DOMAIN d) /\ ToSet(<<n>> \o q) = ToSet(<<n>>) \cup ToSet(q)
    <2> DEFINE one == <<n>>
    <2>1. one \in Seq(DOMAIN d)
      BY <1>2
    <2> HIDE DEF one
    <2>2. one \o q \in Seq(DOMAIN d) /\ ToSet(one \o q) = ToSet(one) \cup ToSet(q)
      BY <1>1, <2>1, ToSetConcat
    <2>3. QED
      BY <2>2 DEF one
  <1>4. Users(d, n, s) = <<n>> \o q
    BY DEF Users, q
  <1>5. QED
    BY <1>1, <1>2, <1>3, <1>4

LEMMA OtherUsersAre ==
  ASSUME NEW d, Shaped(d), NEW n, NEW t \in TensorsOf(d)
  PROVE  /\ OtherUsers(d, n, t) \in Seq(DOMAIN d)
         /\ \A m : m \in ToSet(OtherUsers(d, n, t)) <=>
              \/ m = t[1] /\ IsCompute(d, m)
              \/ m \in ReadersOf(d, t) /\ m # n /\ d[m].kind # "output"
  <1> DEFINE edges == {x \in Edges(d, t[1], t[2]) : x[1] # n /\ d[x[1]].kind # "output"}
             first == IF IsCompute(d, t[1]) THEN <<t[1]>> ELSE << >>
             q == Consumers(edges)
  <1>1. t = <<t[1], t[2]>> /\ t[1] \in DOMAIN d
    BY TensorShape
  <1>2. IsFiniteSet(edges)
    <2>1. edges \in SUBSET Edges(d, t[1], t[2])
      OBVIOUS
    <2>2. QED
      BY <2>1, EdgesFinite, FS_Subset
  <1>3. \A x \in edges : x[1] \in DOMAIN d
    BY EdgeIs
  <1>4. q \in Seq(DOMAIN d) /\ ToSet(q) = {x[1] : x \in edges}
    <2> HIDE DEF edges
    <2>1. QED
      BY <1>2, <1>3, ConsumersAre
  <1>5. \A m : m \in ToSet(q) <=> m \in ReadersOf(d, t) /\ m # n /\ d[m].kind # "output"
    <2>1. ASSUME NEW m \in ReadersOf(d, t), m # n, d[m].kind # "output"
          PROVE  \E x \in edges : x[1] = m
      <3>1. PICK e \in DOMAIN d[m].ins : d[m].ins[e] = t
        BY DEF ReadersOf
      <3>2. m \in DOMAIN d
        BY DEF ReadersOf
      <3>3. <<m, e>> \in Edges(d, t[1], t[2])
        BY <1>1, <3>1, <3>2, EdgeIs
      <3>4. <<m, e>> \in edges
        BY <2>1, <3>3
      <3>5. QED
        BY <3>4
    <2>2. ASSUME NEW x \in edges
          PROVE  x[1] \in ReadersOf(d, t) /\ x[1] # n /\ d[x[1]].kind # "output"
      BY <1>1, EdgeIs DEF ReadersOf
    <2>3. QED
      BY <1>4, <2>1, <2>2
  <1> HIDE DEF q, edges
  <1>6. first \in Seq(DOMAIN d) /\ ToSet(first) = {m \in {t[1]} : IsCompute(d, m)}
    <2>1. CASE IsCompute(d, t[1])
      <3>1. first = <<t[1]>>
        BY <2>1
      <3>2. ToSet(<<t[1]>>) = {t[1]}
        BY DEF ToSet
      <3>3. QED
        BY <1>1, <2>1, <3>1, <3>2
    <2>2. CASE ~IsCompute(d, t[1])
      <3>1. first = << >>
        BY <2>2
      <3>2. ToSet(<< >>) = {}
        BY DEF ToSet
      <3>3. QED
        BY <1>1, <2>2, <3>1, <3>2
    <2>3. QED
      BY <2>1, <2>2
  <1> HIDE DEF first
  <1>7. first \o q \in Seq(DOMAIN d) /\ ToSet(first \o q) = ToSet(first) \cup ToSet(q)
    BY <1>4, <1>6, ToSetConcat
  <1>8. OtherUsers(d, n, t) = first \o q
    BY DEF OtherUsers, first, q, edges
  <1>9. QED
    BY <1>5, <1>6, <1>7, <1>8

---------------------------------------------------------------------------
(* Releases.                                                               *)

\* The instructions of the listed nodes, each once per place in the list.
Releasing(d, ids) ==
  UNION {{x} \X (1 .. InstCount(d, ids[x])) : x \in DOMAIN ids}

LEMMA IntervalSize ==
  ASSUME NEW n \in Nat
  PROVE  IsFiniteSet(1 .. n) /\ Cardinality(1 .. n) = n
  <1>1. 1 \in Int /\ n \in Int
    OBVIOUS
  <1>2. Cardinality(1 .. n) = IF 1 > n THEN 0 ELSE n - 1 + 1
    BY <1>1, FS_Interval
  <1>3. QED
    BY <1>1, <1>2, FS_Interval

\* A release has as many arrivals as its target says.
LEMMA ReleaseTargetIs ==
  ASSUME NEW d, Shaped(d), NEW ids \in Seq(DOMAIN d)
  PROVE  /\ IsFiniteSet(Releasing(d, ids))
         /\ ReleaseTarget(d, ids) = Cardinality(Releasing(d, ids))
  <1> DEFINE N == Len(ids)
             c == [x \in 1 .. N |-> InstCount(d, ids[x])]
             P(g) == g = [x \in 0 .. N |->
                       IF x = 0 THEN 0 ELSE g[x - 1] + InstCount(d, ids[x])]
             sum == CHOOSE g : P(g)
             first(n) == UNION {{x} \X (1 .. InstCount(d, ids[x])) : x \in 1 .. n}
  <1>1. N \in Nat /\ DOMAIN ids = 1 .. N
    OBVIOUS
  <1>2. \A x \in 1 .. N : c[x] \in Nat /\ c[x] = InstCount(d, ids[x])
    <2>1. \A x \in 1 .. N : ids[x] \in DOMAIN d
      BY <1>1
    <2>2. QED
      BY <2>1, Counts
  <1> HIDE DEF N, c
  <1>3. PICK f \in [0 .. N -> Nat] :
          f[0] = 0 /\ \A n \in 1 .. N : f[n] = f[n - 1] + c[n]
    BY <1>1, <1>2, PartialSums
  <1>4. \E g : P(g)
    <2>1. \A x \in 0 .. N : f[x] = IF x = 0 THEN 0 ELSE f[x - 1] + InstCount(d, ids[x])
      BY <1>1, <1>2, <1>3
    <2>2. P(f)
      BY <1>3, <2>1
    <2>3. QED
      BY <2>2
  <1>5. P(sum)
    <2> HIDE DEF P
    <2>1. QED
      BY <1>4
  <1> HIDE DEF sum
  <1>6. sum[0] = 0 /\ \A x \in 1 .. N : sum[x] = sum[x - 1] + c[x]
    BY <1>1, <1>2, <1>5
  <1>7. ReleaseTarget(d, ids) = sum[N]
    BY DEF ReleaseTarget, sum, N
  <1> DEFINE S == {n \in 0 .. N : IsFiniteSet(first(n)) /\ sum[n] = Cardinality(first(n))}
  <1>8. 0 \in S
    <2>1. first(0) = {}
      OBVIOUS
    <2> HIDE DEF first
    <2>2. IsFiniteSet(first(0)) /\ Cardinality(first(0)) = 0
      BY <2>1, FS_EmptySet
    <2>3. 0 \in 0 .. N
      BY <1>1
    <2>4. QED
      BY <1>6, <2>2, <2>3
  <1>9. ASSUME NEW n \in Nat, n < N, n \in S
        PROVE  n + 1 \in S
    <2> DEFINE new == {n + 1} \X (1 .. InstCount(d, ids[n + 1]))
    <2>1. n + 1 \in 1 .. N /\ n + 1 - 1 = n
      BY <1>1, <1>9
    <2>2. first(n + 1) = first(n) \cup new
      <3>1. 1 .. n + 1 = (1 .. n) \cup {n + 1}
        OBVIOUS
      <3>2. QED
        BY <3>1
    <2>3. first(n) \cap new = {}
      <3>1. \A z \in first(n) : z[1] \in 1 .. n
        OBVIOUS
      <3>2. \A z \in new : z[1] = n + 1
        OBVIOUS
      <3>3. QED
        BY <3>1, <3>2
    <2>4. InstCount(d, ids[n + 1]) \in Nat
      BY <1>2, <2>1
    <2>5. IsFiniteSet(new) /\ Cardinality(new) = InstCount(d, ids[n + 1])
      <3>1. /\ IsFiniteSet(1 .. InstCount(d, ids[n + 1]))
            /\ Cardinality(1 .. InstCount(d, ids[n + 1])) = InstCount(d, ids[n + 1])
        BY <2>4, IntervalSize
      <3> DEFINE A == {n + 1}
                 B == 1 .. InstCount(d, ids[n + 1])
      <3>2. IsFiniteSet(A) /\ Cardinality(A) = 1
        BY FS_Singleton
      <3> HIDE DEF A, B
      <3>3. IsFiniteSet(A \X B) /\ Cardinality(A \X B) = Cardinality(A) * Cardinality(B)
        BY <3>1, <3>2, FS_Product DEF B
      <3>4. new = A \X B
        BY DEF A, B
      <3>5. Cardinality(B) = InstCount(d, ids[n + 1])
        BY <3>1 DEF B
      <3> HIDE DEF new
      <3>6. QED
        BY <2>4, <3>2, <3>3, <3>4, <3>5
    <2> HIDE DEF first, new
    <2>6. IsFiniteSet(first(n)) /\ sum[n] = Cardinality(first(n))
      BY <1>9
    <2>7. IsFiniteSet(first(n) \cup new)
          /\ Cardinality(first(n) \cup new)
               = Cardinality(first(n)) + Cardinality(new) - Cardinality(first(n) \cap new)
      BY <2>5, <2>6, FS_Union
    <2>8. Cardinality(first(n)) \in Nat /\ Cardinality({}) = 0
      BY <2>6, FS_CardinalityType, FS_EmptySet
    <2>9. Cardinality(first(n + 1)) = sum[n] + InstCount(d, ids[n + 1])
      <3>1. Cardinality(first(n + 1)) = Cardinality(first(n)) + Cardinality(new) - 0
        BY <2>2, <2>3, <2>7, <2>8
      <3>2. QED
        BY <2>4, <2>5, <2>6, <2>8, <3>1
    <2>10. sum[n + 1] = sum[n] + InstCount(d, ids[n + 1])
      BY <1>2, <1>6, <2>1
    <2>11. n + 1 \in 0 .. N
      BY <2>1
    <2>12. QED
      BY <2>2, <2>7, <2>9, <2>10, <2>11
  <1>10. N \in S
    <2> HIDE DEF S
    <2>1. \A n \in Nat : n < N /\ n \in S => n + 1 \in S
      BY <1>9
    <2>2. \A n \in 0 .. N : n \in S
      BY <1>1, <1>8, <2>1, UpTo
    <2>3. QED
      BY <1>1, <2>2
  <1>11. first(N) = Releasing(d, ids)
    BY <1>1 DEF Releasing
  <1> HIDE DEF first
  <1>12. QED
    BY <1>7, <1>10, <1>11

\* A storage's last user ends where all its users have ended.
LEMMA LastInstIs ==
  ASSUME NEW d, Shaped(d), NEW ids, ToSet(ids) \subseteq DOMAIN d, ToSet(ids) # {}
  PROVE  /\ LastInst(d, ids) \in Nat
         /\ \A m \in ToSet(ids) :
              InstOffset(d)[m] + Padded(InstCount(d, m)) <= LastInst(d, ids)
  <1> DEFINE end(m) == InstOffset(d)[m] + Padded(InstCount(d, m))
             S == {end(m) : m \in ToSet(ids)}
             N == Len(d)
  <1>1. N \in Nat /\ DOMAIN d = 1 .. N /\ N \in DOMAIN d
    BY GraphShape
  <1>2. \A m \in DOMAIN d : end(m) \in Nat
    BY OffsetsUnfold, Counts
  <1>3. \A m \in DOMAIN d : end(m) <= end(N)
    <2>1. ASSUME NEW m \in DOMAIN d
          PROVE  end(m) <= end(N)
      <3>1. CASE m = N
        BY <1>2, <3>1
      <3>2. CASE m < N
        <4>1. end(m) <= InstOffset(d)[N]
          BY <1>1, <3>2, OffsetsGrow
        <4>2. InstOffset(d)[N] \in Nat /\ Padded(InstCount(d, N)) \in Nat
          BY <1>1, OffsetsUnfold, Counts
        <4>3. QED
          BY <1>2, <4>1, <4>2
      <3>3. QED
        BY <1>1, <3>1, <3>2
    <2>2. QED
      BY <2>1
  <1> HIDE DEF end
  <1>4. S \in SUBSET Nat /\ S # {}
    BY <1>2
  <1>5. IsFiniteSet(S)
    <2>1. \A s \in S : s <= end(N)
      BY <1>3
    <2>2. end(N) \in Nat
      BY <1>1, <1>2
    <2> HIDE DEF S
    <2>3. QED
      BY <1>4, <2>1, <2>2, FS_BoundedSetOfNaturals
  <1>6. Max(S) \in S /\ \A x \in S : x <= Max(S)
    <2> HIDE DEF S
    <2>1. QED
      BY <1>4, <1>5, MaxIs
  <1>7. LastInst(d, ids) = Max(S)
    BY DEF LastInst, end
  <1>8. QED
    BY <1>4, <1>6, <1>7 DEF end

---------------------------------------------------------------------------
(* The tensor pass: what holds when the tensors of D have been placed.     *)

\* Tensor t is tensor u, mutated.
Mutates(d, t, u) ==
  /\ t[2] \in DOMAIN d[t[1]].inplace
  /\ d[t[1]].ins[d[t[1]].inplace[t[2]]] = u

\* The ops that store to a tensor or read it.
UsersOf(d, t) == {x \in {t[1]} \cup ReadersOf(d, t) : IsCompute(d, x)}

\* Relations that hold between the users of a release and its reuser.
Ordering(releases, C) ==
  /\ \A k \in DOMAIN releases : \A m \in ToSet(releases[k].ids) :
       <<m, releases[k].reuser>> \in C
  /\ \A x, y, z : <<x, y>> \in C /\ <<y, z>> \in C => <<x, z>> \in C

\* Node y waits for a release of node x, or of one that waits for x, ...
Behind(releases, x, y) == \A C : Ordering(releases, C) => <<x, y>> \in C

StorageInv(D, st) ==
  /\ st = [storage |-> st.storage, pool |-> st.pool,
           releases |-> st.releases, allocated |-> st.allocated]
  /\ st.allocated \in Nat
  /\ DOMAIN st.storage = D
  /\ \A t \in D : st.storage[t] \in 1 .. st.allocated

\* A mutated tensor stays where it is.
AliasInv(d, D, st) ==
  \A u, v \in D : Mutates(d, v, u) => st.storage[v] = st.storage[u]

\* Tensors that share storage are of different nodes, and the users of the
\* earlier one are done before the later one is stored, but for the op that
\* mutates the earlier one into the later.
SharedInv(d, D, st) ==
  \A u, v \in D : st.storage[u] = st.storage[v] /\ u # v =>
    /\ u[1] # v[1]
    /\ u[1] < v[1] =>
         /\ IsCompute(d, v[1])
         /\ \A x \in UsersOf(d, u) \ {v[1]} : Behind(st.releases, x, v[1])
         /\ v[1] \in ReadersOf(d, u) => Mutates(d, v, u)
         /\ MayReuse(d, u[1], u[2]) \/ \E z \in D : Mutates(d, z, u)

\* The tensor w is the last one in its storage, and no one else will use it.
Entry(d, D, st, entry, w) ==
  /\ MayReuse(d, w[1], w[2])
  /\ entry.ids = Users(d, w[1], w[2])
  /\ entry.last = LastInst(d, entry.ids)
  /\ entry.count = ReleaseTarget(d, entry.ids)
  /\ entry.storage = st.storage[w]
  /\ \A u \in D : st.storage[u] = st.storage[w] => u = w \/ u[1] < w[1]

PoolInv(d, D, st) ==
  /\ IsSeq(st.pool)
  /\ \A i \in DOMAIN st.pool : \E w \in D : Entry(d, D, st, st.pool[i], w)
  /\ \A i, j \in DOMAIN st.pool :
       st.pool[i].storage = st.pool[j].storage => i = j

ReleaseInv(d, st) ==
  /\ IsSeq(st.releases)
  /\ \A k \in DOMAIN st.releases :
       LET r == st.releases[k] IN
       /\ r.reuser \in DOMAIN d /\ IsCompute(d, r.reuser)
       /\ r.ids \in Seq(DOMAIN d)
       /\ \A m \in ToSet(r.ids) : IsCompute(d, m) /\ m < r.reuser
       /\ r.count = ReleaseTarget(d, r.ids)

\* What shares storage with one of the caller's tensors is a version of it.
CallersInv(d, D, st) ==
  \A u, v \in D : st.storage[u] = st.storage[v] /\ d[u[1]].kind = "input"
    => v[2] \in CallersSlots(d)[v[1]]

PassInv(d, D, st) ==
  /\ StorageInv(D, st)
  /\ AliasInv(d, D, st)
  /\ SharedInv(d, D, st)
  /\ PoolInv(d, D, st)
  /\ ReleaseInv(d, st)
  /\ MutationsReturned(d) => CallersInv(d, D, st)

LEMMA BehindMore ==
  ASSUME NEW releases, NEW more, NEW x, NEW y, Behind(releases, x, y),
         \A k \in DOMAIN releases : \E l \in DOMAIN more : more[l] = releases[k]
  PROVE  Behind(more, x, y)
  <1>1. ASSUME NEW C, Ordering(more, C)
        PROVE  Ordering(releases, C)
    BY <1>1 DEF Ordering
  <1>2. QED
    BY <1>1 DEF Behind

LEMMA BehindThrough ==
  ASSUME NEW releases, NEW x, NEW y, NEW z, Behind(releases, x, y), Behind(releases, y, z)
  PROVE  Behind(releases, x, z)
  <1>1. ASSUME NEW C, Ordering(releases, C)
        PROVE  <<x, z>> \in C
    <2>1. <<x, y>> \in C /\ <<y, z>> \in C
      BY <1>1 DEF Behind
    <2>2. QED
      BY <1>1, <2>1 DEF Ordering
  <1>2. QED
    BY <1>1 DEF Behind

LEMMA BehindRelease ==
  ASSUME NEW releases, NEW k \in DOMAIN releases, NEW x \in ToSet(releases[k].ids)
  PROVE  Behind(releases, x, releases[k].reuser)
  BY DEF Behind, Ordering

\* Releases order ops as the graph does.
LEMMA BehindLater ==
  ASSUME NEW d, Shaped(d), NEW st, ReleaseInv(d, st), NEW x, NEW y,
         Behind(st.releases, x, y)
  PROVE  /\ x \in DOMAIN d /\ y \in DOMAIN d /\ x < y
         /\ IsCompute(d, x) /\ IsCompute(d, y)
  <1> DEFINE Ops == {m \in DOMAIN d : IsCompute(d, m)}
             C == {p \in Ops \X Ops : p[1] < p[2]}
  <1>1. \A m \in DOMAIN d : m \in Nat
    BY GraphShape
  <1>2. ASSUME NEW a, NEW b, NEW c, <<a, b>> \in C, <<b, c>> \in C
        PROVE  <<a, c>> \in C
    BY <1>1, <1>2
  <1>3. ASSUME NEW k \in DOMAIN st.releases, NEW m \in ToSet(st.releases[k].ids)
        PROVE  <<m, st.releases[k].reuser>> \in C
    <2>1. m \in DOMAIN d
      <3>1. st.releases[k].ids \in Seq(DOMAIN d)
        BY DEF ReleaseInv
      <3>2. QED
        BY <3>1 DEF ToSet
    <2>2. QED
      BY <2>1 DEF ReleaseInv
  <1> HIDE DEF C
  <1>4. Ordering(st.releases, C)
    BY <1>2, <1>3 DEF Ordering
  <1>5. <<x, y>> \in C
    BY <1>4 DEF Behind
  <1>6. QED
    BY <1>5 DEF C

\* A state st2 with tensor v placed, in new storage or in the one that the
\* tensors before v are done with.
Extension(d, D, v, st, st2) ==
  /\ st2 = [storage |-> st2.storage, pool |-> st2.pool,
            releases |-> st2.releases, allocated |-> st2.allocated]
  /\ st2.allocated \in Nat /\ st2.allocated >= st.allocated
  /\ DOMAIN st2.storage = D \cup {v}
  /\ \A u \in D : st2.storage[u] = st.storage[u]
  /\ st2.storage[v] \in 1 .. st2.allocated
  /\ ReleaseInv(d, st2)
  /\ \A x, y : Behind(st.releases, x, y) => Behind(st2.releases, x, y)
  /\ \A u \in D : st2.storage[u] = st2.storage[v] =>
       /\ u[1] \in Nat /\ v[1] \in Nat /\ u[1] < v[1] /\ IsCompute(d, v[1])
       /\ \A x \in UsersOf(d, u) \ {v[1]} : Behind(st2.releases, x, v[1])
       /\ v[1] \in ReadersOf(d, u) => Mutates(d, v, u)
       /\ MayReuse(d, u[1], u[2]) \/ \E z \in D \cup {v} : Mutates(d, z, u)
  /\ \A u \in D : /\ Mutates(d, v, u) => st2.storage[v] = st2.storage[u]
                 /\ ~Mutates(d, u, v)
  /\ IsSeq(st2.pool)
  /\ \A i \in DOMAIN st2.pool : \E j \in DOMAIN st.pool :
       st2.pool[i] = st.pool[j] /\ st.pool[j].storage # st2.storage[v]
  /\ \A i, j \in DOMAIN st2.pool :
       st2.pool[i].storage = st2.pool[j].storage => i = j
  /\ MutationsReturned(d) => \A u \in D \cup {v} : st2.storage[u] = st2.storage[v] =>
       /\ d[u[1]].kind = "input" => v[2] \in CallersSlots(d)[v[1]]
       /\ d[v[1]].kind = "input" => u[2] \in CallersSlots(d)[u[1]]

\* Tensor v has been placed, and the pool does not have its storage.
HasPlaced(d, D, v, st) ==
  /\ PassInv(d, D \cup {v}, st)
  /\ \A i \in DOMAIN st.pool : st.pool[i].storage # st.storage[v]
  /\ \A u \in D : st.storage[u] = st.storage[v] => u[1] < v[1]

LEMMA PassExtends ==
  ASSUME NEW d, NEW D, NEW v, v \notin D, NEW st, NEW st2, PassInv(d, D, st),
         Extension(d, D, v, st, st2)
  PROVE  HasPlaced(d, D, v, st2)
  <1> USE DEF Extension
  <1> DEFINE E == D \cup {v}
  <1>1. StorageInv(D, st) /\ SharedInv(d, D, st) /\ PoolInv(d, D, st)
    BY DEF PassInv
  <1>2. StorageInv(E, st2)
    <2>1. \A t \in D : st2.storage[t] \in 1 .. st2.allocated
      BY <1>1 DEF StorageInv
    <2>2. QED
      BY <2>1 DEF StorageInv
  <1>3. SharedInv(d, E, st2)
    <2>1. ASSUME NEW u \in E, NEW w \in E, st2.storage[u] = st2.storage[w], u # w
          PROVE  /\ u[1] # w[1]
                 /\ u[1] < w[1] =>
                      /\ IsCompute(d, w[1])
                      /\ \A x \in UsersOf(d, u) \ {w[1]} : Behind(st2.releases, x, w[1])
                      /\ w[1] \in ReadersOf(d, u) => Mutates(d, w, u)
                      /\ MayReuse(d, u[1], u[2]) \/ \E z \in E : Mutates(d, z, u)
      <3>1. CASE u \in D /\ w \in D
        <4>1. st.storage[u] = st.storage[w]
          BY <2>1, <3>1
        <4>2. /\ u[1] # w[1]
              /\ u[1] < w[1] =>
                   /\ IsCompute(d, w[1])
                   /\ \A x \in UsersOf(d, u) \ {w[1]} : Behind(st.releases, x, w[1])
                   /\ w[1] \in ReadersOf(d, u) => Mutates(d, w, u)
                   /\ MayReuse(d, u[1], u[2]) \/ \E z \in D : Mutates(d, z, u)
          BY <1>1, <2>1, <3>1, <4>1 DEF SharedInv
        <4>3. QED
          BY <4>2
      <3>2. CASE w = v
        <4>1. u \in D
          BY <2>1, <3>2
        <4>2. QED
          BY <2>1, <3>2, <4>1
      <3>3. CASE u = v
        <4>1. w \in D
          BY <2>1, <3>3
        <4>2. w[1] \in Nat /\ u[1] \in Nat /\ w[1] < u[1]
          BY <2>1, <3>3, <4>1
        <4>3. u[1] # w[1] /\ ~(u[1] < w[1])
          BY <4>2
        <4>4. QED
          BY <4>3
      <3>4. QED
        BY <3>1, <3>2, <3>3
    <2>2. QED
      BY <2>1, Zenon DEF SharedInv
  <1>4. AliasInv(d, E, st2)
    <2>1. ASSUME NEW u \in E, NEW w \in E, Mutates(d, w, u)
          PROVE  st2.storage[w] = st2.storage[u]
      <3>1. CASE u \in D /\ w \in D
        <4>1. AliasInv(d, D, st)
          BY DEF PassInv
        <4>2. st.storage[w] = st.storage[u]
          BY <2>1, <3>1, <4>1 DEF AliasInv
        <4>3. QED
          BY <3>1, <4>2
      <3>2. CASE u = v /\ w = v
        BY <3>2
      <3>3. CASE u = v /\ w \in D
        BY <2>1, <3>3
      <3>4. CASE u \in D /\ w = v
        BY <2>1, <3>4
      <3>5. QED
        BY <3>1, <3>2, <3>3, <3>4
    <2>2. QED
      BY <2>1, Zenon DEF AliasInv
  <1>5. PoolInv(d, E, st2)
    <2>1. ASSUME NEW i \in DOMAIN st2.pool
          PROVE  \E w \in E : Entry(d, E, st2, st2.pool[i], w)
      <3>1. PICK j \in DOMAIN st.pool :
              st2.pool[i] = st.pool[j] /\ st.pool[j].storage # st2.storage[v]
        OBVIOUS
      <3>2. PICK w \in D : Entry(d, D, st, st.pool[j], w)
        BY <1>1 DEF PoolInv
      <3>3. st.pool[j].storage = st2.storage[w]
        BY <3>2 DEF Entry
      <3>4. \A u \in E : st2.storage[u] = st2.storage[w] => u = w \/ u[1] < w[1]
        <4>1. ASSUME NEW u \in E, st2.storage[u] = st2.storage[w]
              PROVE  u = w \/ u[1] < w[1]
          <5>1. u \in D
            BY <3>1, <3>3, <4>1
          <5>2. st.storage[u] = st.storage[w]
            BY <3>2, <4>1, <5>1
          <5>3. QED
            BY <3>2, <5>1, <5>2 DEF Entry
        <4>2. QED
          BY <4>1
      <3>5. Entry(d, E, st2, st2.pool[i], w)
        <4> DEFINE entry == st.pool[j]
        <4>1. /\ MayReuse(d, w[1], w[2]) /\ entry.ids = Users(d, w[1], w[2])
              /\ entry.last = LastInst(d, entry.ids)
              /\ entry.count = ReleaseTarget(d, entry.ids)
          BY <3>2, Zenon DEF Entry
        <4>2. st2.pool[i] = entry /\ entry.storage = st2.storage[w]
          BY <3>1, <3>3
        <4> HIDE DEF entry, E
        <4>3. Entry(d, E, st2, entry, w)
          BY <3>4, <4>1, <4>2, Zenon DEF Entry
        <4>4. QED
          BY <4>2, <4>3
      <3>6. QED
        BY <3>5
    <2>2. QED
      BY <2>1, Zenon DEF PoolInv
  <1>6. MutationsReturned(d) => CallersInv(d, E, st2)
    <2>1. ASSUME MutationsReturned(d), NEW u \in E, NEW w \in E,
                 st2.storage[u] = st2.storage[w], d[u[1]].kind = "input"
          PROVE  w[2] \in CallersSlots(d)[w[1]]
      <3>1. CASE u \in D /\ w \in D
        <4>1. st.storage[u] = st.storage[w]
          BY <2>1, <3>1
        <4>2. CallersInv(d, D, st)
          BY <2>1 DEF PassInv
        <4>3. QED
          BY <2>1, <3>1, <4>1, <4>2 DEF CallersInv
      <3>2. CASE w = v
        BY <2>1, <3>2
      <3>3. CASE u = v
        BY <2>1, <3>3
      <3>4. QED
        BY <3>1, <3>2, <3>3
    <2>2. QED
      BY <2>1, Zenon DEF CallersInv
  <1>7. /\ \A i \in DOMAIN st2.pool : st2.pool[i].storage # st2.storage[v]
        /\ \A u \in D : st2.storage[u] = st2.storage[v] => u[1] < v[1]
    OBVIOUS
  <1>8. PassInv(d, E, st2)
    BY <1>2, <1>3, <1>5, <1>6, <1>4, Zenon DEF PassInv
  <1>9. QED
    BY <1>7, <1>8, Zenon DEF HasPlaced

---------------------------------------------------------------------------
(* The caller's tensors.                                                   *)

\* The slots of node n that are the caller's, given those of earlier nodes.
SlotsFrom(d, f, n) ==
  IF d[n].kind = "input" THEN DOMAIN d[n].outs
  ELSE {s \in DOMAIN d[n].inplace :
          LET source == d[n].ins[d[n].inplace[s]] IN source[2] \in f[source[1]]}

LEMMA SlotsAgree ==
  ASSUME NEW d, Shaped(d), NEW n \in DOMAIN d, NEW f, NEW g,
         \A m \in DOMAIN d : m < n => f[m] = g[m]
  PROVE  SlotsFrom(d, f, n) = SlotsFrom(d, g, n)
  <1>1. ASSUME NEW s \in DOMAIN d[n].inplace
        PROVE  f[d[n].ins[d[n].inplace[s]][1]] = g[d[n].ins[d[n].inplace[s]][1]]
    <2>1. d[n].inplace[s] \in DOMAIN d[n].ins
      BY InPlaceShape
    <2> DEFINE m == d[n].ins[d[n].inplace[s]][1]
    <2>2. m \in DOMAIN d /\ m < n
      BY <2>1, EdgeShape
    <2> HIDE DEF m
    <2>3. f[m] = g[m]
      BY <2>2
    <2>4. QED
      BY <2>3 DEF m
  <1>2. QED
    BY <1>1 DEF SlotsFrom

LEMMA SlotsExist ==
  ASSUME NEW d, Shaped(d), NEW N \in Nat, N <= Len(d)
  PROVE  \E f : f = [n \in 1 .. N |-> SlotsFrom(d, f, n)]
  <1> DEFINE S == {m \in 0 .. N : \E f : f = [n \in 1 .. m |-> SlotsFrom(d, f, n)]}
  <1>1. Len(d) \in Nat /\ DOMAIN d = 1 .. Len(d)
    BY GraphShape
  <1>2. 0 \in S
    <2>1. PICK f : f = [n \in 1 .. 0 |-> {}]
      OBVIOUS
    <2>2. f = [n \in 1 .. 0 |-> SlotsFrom(d, f, n)]
      BY <2>1
    <2>3. 0 \in 0 .. N
      OBVIOUS
    <2>4. QED
      BY <2>2, <2>3
  <1>3. ASSUME NEW m \in Nat, m < N, m \in S
        PROVE  m + 1 \in S
    <2>1. PICK f : f = [n \in 1 .. m |-> SlotsFrom(d, f, n)]
      BY <1>3
    <2>2. PICK g : g = [n \in 1 .. m + 1 |->
                          IF n <= m THEN f[n] ELSE SlotsFrom(d, f, m + 1)]
      OBVIOUS
    <2>3. \A n \in 1 .. m : f[n] = g[n]
      BY <2>2
    <2>4. ASSUME NEW n \in 1 .. m + 1
          PROVE  g[n] = SlotsFrom(d, g, n)
      <3>1. n \in DOMAIN d
        BY <1>1, <1>3
      <3>2. \A k \in DOMAIN d : k < n => f[k] = g[k]
        BY <1>1, <2>3
      <3>3. SlotsFrom(d, f, n) = SlotsFrom(d, g, n)
        BY <3>1, <3>2, SlotsAgree
      <3>4. g[n] = SlotsFrom(d, f, n)
        <4>1. CASE n <= m
          <5>1. g[n] = f[n] /\ n \in 1 .. m
            BY <2>2, <4>1
          <5>2. f[n] = SlotsFrom(d, f, n)
            BY <2>1, <5>1
          <5>3. QED
            BY <5>1, <5>2
        <4>2. CASE ~(n <= m)
          <5>1. n = m + 1
            BY <4>2
          <5>2. QED
            BY <2>2, <4>2, <5>1
        <4>3. QED
          BY <4>1, <4>2
      <3>5. QED
        BY <3>3, <3>4
    <2>5. g = [n \in 1 .. m + 1 |-> SlotsFrom(d, g, n)]
      BY <2>2, <2>4
    <2>6. m + 1 \in 0 .. N
      BY <1>3
    <2>7. QED
      BY <2>5, <2>6
  <1> HIDE DEF S
  <1>4. \A m \in Nat : m < N /\ m \in S => m + 1 \in S
    BY <1>3
  <1>5. \A m \in 0 .. N : m \in S
    BY <1>2, <1>4, UpTo
  <1>6. N \in S
    BY <1>5
  <1>7. QED
    BY <1>6 DEF S

LEMMA CallersUnfold ==
  ASSUME NEW d, Shaped(d), NEW n \in DOMAIN d
  PROVE  CallersSlots(d)[n] = SlotsFrom(d, CallersSlots(d), n)
  <1> DEFINE P(g) == g = [m \in DOMAIN d |->
               IF d[m].kind = "input" THEN DOMAIN d[m].outs
               ELSE {s \in DOMAIN d[m].inplace :
                       LET source == d[m].ins[d[m].inplace[s]] IN
                       source[2] \in g[source[1]]}]
             slots == CallersSlots(d)
  <1>1. Len(d) \in Nat /\ DOMAIN d = 1 .. Len(d)
    BY GraphShape
  <1>2. PICK f : f = [m \in 1 .. Len(d) |-> SlotsFrom(d, f, m)]
    BY <1>1, SlotsExist
  <1>3. P(f)
    BY <1>1, <1>2 DEF SlotsFrom
  <1>4. slots = CHOOSE g : P(g)
    BY DEF CallersSlots
  <1>5. P(slots)
    <2> HIDE DEF P, slots
    <2>1. QED
      BY <1>3, <1>4
  <1> HIDE DEF slots
  <1>6. slots[n] = SlotsFrom(d, slots, n)
    BY <1>5 DEF SlotsFrom
  <1>7. QED
    BY <1>6 DEF slots

---------------------------------------------------------------------------
(* Users and mutations.                                                    *)

LEMMA ReaderIs ==
  ASSUME NEW d, Shaped(d), NEW t, NEW m \in ReadersOf(d, t)
  PROVE  /\ m \in DOMAIN d /\ d[m].kind \in {"compute", "output"}
         /\ t \in ToSet(d[m].ins) /\ t[1] < m
  <1>1. PICK e \in DOMAIN d[m].ins : d[m].ins[e] = t
    BY DEF ReadersOf
  <1>2. m \in DOMAIN d
    BY DEF ReadersOf
  <1>3. d[m].kind # "input" /\ d[m].kind \in {"input", "compute", "output"}
    BY <1>1, <1>2, GraphShape
  <1>4. t \in ToSet(d[m].ins)
    BY <1>1 DEF ToSet
  <1>5. t[1] < m
    BY <1>1, <1>2, EdgeShape
  <1>6. QED
    BY <1>2, <1>3, <1>4, <1>5

\* A storage that may be reused is used by ops only.
LEMMA ReusableUsers ==
  ASSUME NEW d, Shaped(d), NEW t \in TensorsOf(d), MayReuse(d, t[1], t[2])
  PROVE  /\ IsCompute(d, t[1])
         /\ Users(d, t[1], t[2]) \in Seq(DOMAIN d)
         /\ ToSet(Users(d, t[1], t[2])) = UsersOf(d, t)
         /\ t[1] \in UsersOf(d, t)
  <1>1. t = <<t[1], t[2]>> /\ t[1] \in DOMAIN d /\ d[t[1]].kind \in {"input", "compute"}
    BY TensorShape
  <1>2. IsCompute(d, t[1])
    BY <1>1 DEF MayReuse, IsCompute
  <1>3. /\ Users(d, t[1], t[2]) \in Seq(DOMAIN d)
        /\ ToSet(Users(d, t[1], t[2])) = {t[1]} \cup ReadersOf(d, t)
    BY <1>1, UsersAre
  <1>4. ASSUME NEW m \in ReadersOf(d, t)
        PROVE  IsCompute(d, m)
    <2>1. m \in ToSet(OutNodes(d, t[1], t[2]))
      BY <1>1, OutNodesAre
    <2>2. d[m].kind # "output"
      BY <2>1 DEF MayReuse
    <2>3. QED
      BY <2>2, ReaderIs DEF IsCompute
  <1>5. UsersOf(d, t) = {t[1]} \cup ReadersOf(d, t)
    BY <1>2, <1>4 DEF UsersOf
  <1>6. QED
    BY <1>2, <1>3, <1>5

\* A storage that is mutated may not be reused.
LEMMA MutatedHeld ==
  ASSUME NEW d, Shaped(d), NEW t \in TensorsOf(d), NEW u \in TensorsOf(d),
         Mutates(d, u, t)
  PROVE  ~MayReuse(d, t[1], t[2]) /\ u[1] \in ReadersOf(d, t) /\ IsCompute(d, u[1])
  <1>1. t = <<t[1], t[2]>> /\ u[1] \in DOMAIN d
    BY TensorShape
  <1>2. u[2] \in DOMAIN d[u[1]].inplace /\ d[u[1]].ins[d[u[1]].inplace[u[2]]] = t
    BY DEF Mutates
  <1>3. d[u[1]].inplace[u[2]] \in DOMAIN d[u[1]].ins /\ d[u[1]].kind = "compute"
    BY <1>1, <1>2, InPlaceShape
  <1>4. u[1] \in ReadersOf(d, t)
    BY <1>1, <1>2, <1>3 DEF ReadersOf
  <1>5. u[1] \in ToSet(OutNodes(d, t[1], t[2]))
    BY <1>1, <1>4, OutNodesAre
  <1>6. ~MayReuse(d, t[1], t[2])
    BY <1>1, <1>2, <1>5 DEF MayReuse
  <1>7. QED
    BY <1>3, <1>4, <1>6 DEF IsCompute

\* Nor may the storage of a caller's tensor, if mutated ones are returned.
LEMMA CallersHeld ==
  ASSUME NEW d, Shaped(d), MutationsReturned(d), NEW n \in DOMAIN d,
         NEW s \in CallersSlots(d)[n]
  PROVE  ~MayReuse(d, n, s)
  <1>1. CASE d[n].kind = "input"
    BY <1>1 DEF MayReuse
  <1>2. CASE d[n].kind # "input"
    <2>1. PICK m \in DOMAIN d :
            /\ <<n, s>> \in ToSet(d[m].ins)
            /\ \/ d[m].kind = "output"
               \/ \E t \in DOMAIN d[m].inplace : d[m].ins[d[m].inplace[t]] = <<n, s>>
      BY <1>2, Zenon DEF MutationsReturned
    <2>2. m \in ReadersOf(d, <<n, s>>)
      BY <2>1 DEF ReadersOf, ToSet
    <2>3. m \in ToSet(OutNodes(d, n, s))
      BY <2>2, OutNodesAre
    <2>4. QED
      BY <2>1, <2>3, Zenon DEF MayReuse
  <1>3. QED
    BY <1>1, <1>2

\* Nobody reads a tensor after the node that mutates it, which does so once.
LEMMA MutatedOnce ==
  ASSUME NEW d, Shaped(d), Functionalised(d), NEW t, NEW u \in TensorsOf(d),
         Mutates(d, u, t)
  PROVE  /\ \A m \in ReadersOf(d, t) : m <= u[1] /\ d[m].kind # "output"
         /\ \A v \in TensorsOf(d) : Mutates(d, v, t) => u = v
  <1>1. u = <<u[1], u[2]>> /\ u[1] \in DOMAIN d
    BY TensorShape
  <1>2. u[2] \in DOMAIN d[u[1]].inplace /\ d[u[1]].ins[d[u[1]].inplace[u[2]]] = t
    BY DEF Mutates
  <1>3. ASSUME NEW m \in ReadersOf(d, t)
        PROVE  m <= u[1] /\ d[m].kind # "output"
    <2>1. m \in DOMAIN d /\ t \in ToSet(d[m].ins)
      BY ReaderIs
    <2>2. QED
      BY <1>1, <1>2, <2>1 DEF Functionalised
  <1>4. ASSUME NEW v \in TensorsOf(d), Mutates(d, v, t)
        PROVE  u = v
    <2>1. v = <<v[1], v[2]>> /\ v[1] \in DOMAIN d
      BY TensorShape
    <2>2. v[2] \in DOMAIN d[v[1]].inplace /\ d[v[1]].ins[d[v[1]].inplace[v[2]]] = t
      BY <1>4 DEF Mutates
    <2>3. d[v[1]].inplace[v[2]] \in DOMAIN d[v[1]].ins
          /\ d[u[1]].inplace[u[2]] \in DOMAIN d[u[1]].ins
      BY <1>1, <1>2, <2>1, <2>2, InPlaceShape
    <2>4. t \in ToSet(d[v[1]].ins) /\ t \in ToSet(d[u[1]].ins)
      BY <1>2, <2>2, <2>3 DEF ToSet
    <2>5. v[1] <= u[1] /\ u[1] <= v[1]
      BY <1>1, <1>2, <2>1, <2>2, <2>4 DEF Functionalised
    <2>6. u[1] \in Nat /\ v[1] \in Nat
      BY TensorShape
    <2>7. u[1] = v[1]
      BY <2>5, <2>6
    <2>8. u[2] = v[2]
      BY <1>1, <1>2, <2>2, <2>7 DEF Functionalised
    <2>9. QED
      BY <1>1, <2>1, <2>7, <2>8
  <1>5. QED
    BY <1>3, <1>4

---------------------------------------------------------------------------
(* The steps of the pass.                                                  *)

\* The state with a storage for tensor v, a pool and releases.
Placed(D, st, v, x, pool, releases, allocated) ==
  [storage |-> [t \in D \cup {v} |-> IF t = v THEN x ELSE st.storage[t]],
   pool |-> pool, releases |-> releases, allocated |-> allocated]

LEMMA WithStorageIs ==
  ASSUME NEW D, NEW st, StorageInv(D, st), NEW n, NEW s, NEW x
  PROVE  WithStorage(st, n, s, x)
           = Placed(D, st, <<n, s>>, x, st.pool, st.releases, st.allocated)
  <1>1. st = [storage |-> st.storage, pool |-> st.pool,
              releases |-> st.releases, allocated |-> st.allocated]
        /\ DOMAIN st.storage = D
    BY DEF StorageInv
  <1>2. PICK a, b, c, e : st = [storage |-> a, pool |-> b, releases |-> c, allocated |-> e]
    BY <1>1
  <1>3. st.storage = a /\ st.pool = b /\ st.releases = c /\ st.allocated = e
    BY <1>2
  <1>4. WithStorage(st, n, s, x) =
          [storage |-> [t \in D \cup {<<n, s>>} |-> IF t = <<n, s>> THEN x ELSE a[t]],
           pool |-> b, releases |-> c, allocated |-> e]
    BY <1>1, <1>2, <1>3 DEF WithStorage
  <1>5. QED
    BY <1>3, <1>4 DEF Placed

LEMMA WithReleaseIs ==
  ASSUME NEW D, NEW st, NEW v, NEW x, NEW pool, NEW releases, NEW allocated,
         NEW ids, NEW count, NEW n
  PROVE  WithRelease(Placed(D, st, v, x, pool, releases, allocated), ids, count, n)
           = Placed(D, st, v, x, pool,
                    Append(releases, [ids |-> ids, count |-> count, reuser |-> n]),
                    allocated)
  <1> DEFINE storage == [t \in D \cup {v} |-> IF t = v THEN x ELSE st.storage[t]]
             new == [ids |-> ids, count |-> count, reuser |-> n]
  <1> HIDE DEF storage, new
  <1>1. [[storage |-> storage, pool |-> pool, releases |-> releases, allocated |-> allocated]
           EXCEPT !.releases = Append(@, new)]
          = [storage |-> storage, pool |-> pool, releases |-> Append(releases, new),
             allocated |-> allocated]
    OBVIOUS
  <1>2. QED
    BY <1>1 DEF WithRelease, Placed, storage, new

IsPlaced(st2, D, st, v, x, pool, releases, allocated) ==
  /\ st2 = [storage |-> st2.storage, pool |-> st2.pool,
            releases |-> st2.releases, allocated |-> st2.allocated]
  /\ st2.pool = pool /\ st2.releases = releases /\ st2.allocated = allocated
  /\ DOMAIN st2.storage = D \cup {v}
  /\ \A u \in D : st2.storage[u] = st.storage[u]
  /\ st2.storage[v] = x

LEMMA PlacedIs ==
  ASSUME NEW D, NEW st, NEW v, v \notin D, NEW x, NEW pool, NEW releases,
         NEW allocated
  PROVE  IsPlaced(Placed(D, st, v, x, pool, releases, allocated),
                  D, st, v, x, pool, releases, allocated)
  <1> DEFINE storage == [t \in D \cup {v} |-> IF t = v THEN x ELSE st.storage[t]]
             st2 == Placed(D, st, v, x, pool, releases, allocated)
  <1>1. DOMAIN storage = D \cup {v} /\ storage[v] = x
        /\ \A u \in D : storage[u] = st.storage[u]
    OBVIOUS
  <1> HIDE DEF storage
  <1>2. st2 = [storage |-> storage, pool |-> pool, releases |-> releases,
               allocated |-> allocated]
    BY DEF Placed, storage
  <1> HIDE DEF st2
  <1>3. IsPlaced(st2, D, st, v, x, pool, releases, allocated)
    BY <1>1, <1>2 DEF IsPlaced
  <1>4. QED
    BY <1>3 DEF st2

LEMMA AppendIs ==
  ASSUME NEW q, IsSeq(q), NEW e
  PROVE  /\ IsSeq(Append(q, e)) /\ Len(q) \in Nat /\ DOMAIN q = 1 .. Len(q)
         /\ DOMAIN Append(q, e) = 1 .. Len(q) + 1
         /\ \A i \in DOMAIN q : Append(q, e)[i] = q[i]
         /\ Append(q, e)[Len(q) + 1] = e
         /\ \A i \in DOMAIN Append(q, e) : i \in DOMAIN q \/ i = Len(q) + 1
  <1> DEFINE S == ToSet(q) \cup {e}
             r == Append(q, e)
  <1>1. q \in Seq(ToSet(q))
    BY DEF IsSeq
  <1>2. q \in Seq(S) /\ e \in S
    BY <1>1
  <1> HIDE DEF S
  <1>3. /\ r \in Seq(S) /\ Len(q) \in Nat /\ DOMAIN q = 1 .. Len(q)
        /\ Len(r) = Len(q) + 1
        /\ DOMAIN r = 1 .. Len(q) + 1
        /\ \A i \in DOMAIN q : r[i] = q[i]
        /\ r[Len(q) + 1] = e
    BY <1>2
  <1> HIDE DEF r
  <1>4. r \in Seq(ToSet(r))
    <2>1. r \in [1 .. Len(q) + 1 -> ToSet(r)]
      BY <1>3 DEF ToSet
    <2>2. QED
      BY <1>3, <2>1
  <1>5. QED
    BY <1>3, <1>4 DEF IsSeq, r

LEMMA ConcatIs ==
  ASSUME NEW S, NEW p \in Seq(S), NEW q \in Seq(S)
  PROVE  /\ p \o q \in Seq(S) /\ Len(p \o q) = Len(p) + Len(q)
         /\ \A i \in 1 .. Len(p) : (p \o q)[i] = p[i]
         /\ \A i \in 1 .. Len(q) : (p \o q)[i + Len(p)] = q[i]
  OBVIOUS

LEMMA RemoveIs ==
  ASSUME NEW q, IsSeq(q), NEW i \in DOMAIN q
  PROVE  /\ IsSeq(RemoveAt(q, i))
         /\ DOMAIN RemoveAt(q, i) = 1 .. Len(q) - 1
         /\ Len(q) \in Nat /\ DOMAIN q = 1 .. Len(q)
         /\ \A a \in DOMAIN RemoveAt(q, i) :
              RemoveAt(q, i)[a] = q[IF a < i THEN a ELSE a + 1]
  <1> DEFINE S == ToSet(q)
             a == SubSeq(q, 1, i - 1)
             b == SubSeq(q, i + 1, Len(q))
             r == RemoveAt(q, i)
  <1>1. q \in Seq(S)
    BY DEF IsSeq
  <1>2. Len(q) \in Nat /\ DOMAIN q = 1 .. Len(q) /\ i \in 1 .. Len(q)
    BY <1>1
  <1> HIDE DEF S
  <1>3. a \in Seq(S) /\ Len(a) = i - 1 /\ \A k \in 1 .. i - 1 : a[k] = q[k]
    BY <1>1, <1>2
  <1>4. b \in Seq(S) /\ Len(b) = Len(q) - i
        /\ \A k \in 1 .. Len(q) - i : b[k] = q[i + k]
    BY <1>1, <1>2
  <1>5. r = a \o b
    BY DEF RemoveAt
  <1> HIDE DEF a, b, r
  <1>6. /\ r \in Seq(S) /\ Len(r) = Len(q) - 1
        /\ \A k \in 1 .. i - 1 : r[k] = a[k]
        /\ \A k \in 1 .. Len(q) - i : r[k + (i - 1)] = b[k]
    <2>1. /\ a \o b \in Seq(S) /\ Len(a \o b) = Len(a) + Len(b)
          /\ \A k \in 1 .. Len(a) : (a \o b)[k] = a[k]
          /\ \A k \in 1 .. Len(b) : (a \o b)[k + Len(a)] = b[k]
      <3>1. a \in Seq(S) /\ b \in Seq(S)
        BY <1>3, <1>4
      <3>2. QED
        BY <3>1, ConcatIs
    <2>2. Len(a) + Len(b) = Len(q) - 1
      BY <1>2, <1>3, <1>4
    <2>3. QED
      BY <1>3, <1>4, <1>5, <2>1, <2>2
  <1>7. DOMAIN r = 1 .. Len(q) - 1
    BY <1>6
  <1>8. ASSUME NEW k \in 1 .. Len(q) - 1
        PROVE  r[k] = q[IF k < i THEN k ELSE k + 1]
    <2>1. CASE k < i
      BY <1>2, <1>3, <1>6, <2>1
    <2>2. CASE ~(k < i)
      <3>1. k - (i - 1) \in 1 .. Len(q) - i /\ k - (i - 1) + (i - 1) = k
            /\ i + (k - (i - 1)) = k + 1
        BY <1>2, <2>2
      <3>2. r[k] = b[k - (i - 1)]
        BY <1>6, <3>1
      <3>3. b[k - (i - 1)] = q[k + 1]
        BY <1>4, <3>1
      <3>4. QED
        BY <2>2, <3>2, <3>3
    <2>3. QED
      BY <2>1, <2>2
  <1>9. r \in Seq(ToSet(r))
    <2>1. Len(q) - 1 \in Nat
      BY <1>2
    <2>2. r \in [1 .. Len(q) - 1 -> ToSet(r)]
      BY <1>6, <1>7 DEF ToSet
    <2>3. QED
      BY <2>1, <2>2
  <1>10. QED
    BY <1>2, <1>7, <1>8, <1>9 DEF IsSeq, r

LEMMA ReleaseAdded ==
  ASSUME NEW d, NEW st, ReleaseInv(d, st), NEW st2, NEW ids, NEW count, NEW n \in DOMAIN d,
         IsCompute(d, n), ids \in Seq(DOMAIN d), count = ReleaseTarget(d, ids),
         \A m \in ToSet(ids) : IsCompute(d, m) /\ m < n,
         st2.releases = Append(st.releases, [ids |-> ids, count |-> count, reuser |-> n])
  PROVE  /\ ReleaseInv(d, st2)
         /\ \A x, y : Behind(st.releases, x, y) => Behind(st2.releases, x, y)
         /\ \A x \in ToSet(ids) : Behind(st2.releases, x, n)
  <1> DEFINE q == st.releases
             new == [ids |-> ids, count |-> count, reuser |-> n]
             r == Append(q, new)
  <1>1. IsSeq(q)
    BY DEF ReleaseInv
  <1> HIDE DEF q, new
  <1>2. /\ IsSeq(r) /\ Len(q) \in Nat /\ DOMAIN q = 1 .. Len(q)
        /\ DOMAIN r = 1 .. Len(q) + 1
        /\ \A i \in DOMAIN q : r[i] = q[i]
        /\ r[Len(q) + 1] = new
        /\ \A i \in DOMAIN r : i \in DOMAIN q \/ i = Len(q) + 1
    BY <1>1, AppendIs
  <1>3. st2.releases = r
    BY DEF q, new
  <1> HIDE DEF r
  <1>4. new.ids = ids /\ new.count = count /\ new.reuser = n
    BY DEF new
  <1>5. ASSUME NEW k \in DOMAIN r
        PROVE  /\ r[k].reuser \in DOMAIN d /\ IsCompute(d, r[k].reuser)
               /\ r[k].ids \in Seq(DOMAIN d)
               /\ \A m \in ToSet(r[k].ids) : IsCompute(d, m) /\ m < r[k].reuser
               /\ r[k].count = ReleaseTarget(d, r[k].ids)
    <2>1. CASE k \in DOMAIN q
      <3>1. r[k] = st.releases[k] /\ k \in DOMAIN st.releases
        BY <1>2, <2>1 DEF q
      <3>2. QED
        BY <3>1 DEF ReleaseInv
    <2>2. CASE k = Len(q) + 1
      <3>1. r[k] = new
        BY <1>2, <2>2
      <3>2. QED
        BY <1>4, <3>1
    <2>3. QED
      BY <1>2, <2>1, <2>2
  <1>6. ReleaseInv(d, st2)
    BY <1>2, <1>3, <1>5 DEF ReleaseInv
  <1>7. \A x, y : Behind(st.releases, x, y) => Behind(st2.releases, x, y)
    <2>1. \A k \in DOMAIN q : \E l \in DOMAIN r : r[l] = q[k]
      <3>1. \A k \in DOMAIN q : k \in DOMAIN r
        BY <1>2
      <3>2. QED
        BY <1>2, <3>1
    <2>2. QED
      BY <1>3, <2>1, BehindMore DEF q
  <1>8. ASSUME NEW x \in ToSet(ids)
        PROVE  Behind(st2.releases, x, n)
    <2>1. Len(q) + 1 \in DOMAIN r
      BY <1>2
    <2>2. x \in ToSet(r[Len(q) + 1].ids)
      BY <1>2, <1>4
    <2>3. Behind(r, x, r[Len(q) + 1].reuser)
      BY <2>1, <2>2, BehindRelease
    <2>4. QED
      BY <1>2, <1>3, <1>4, <2>3
  <1>9. QED
    BY <1>6, <1>7, <1>8

\* The pass is at slot s of node n, with D the tensors placed before.
Placing(d, D, st, n, s) ==
  /\ Shaped(d) /\ Functionalised(d)
  /\ n \in DOMAIN d /\ s \in DOMAIN d[n].outs /\ <<n, s>> \notin D
  /\ D \subseteq TensorsOf(d) /\ \A u \in D : u[1] <= n
  /\ \A e \in DOMAIN d[n].ins : d[n].ins[e] \in D
  /\ PassInv(d, D, st)

\* Nothing placed before mutates the tensor.
LEMMA NotMutated ==
  ASSUME NEW d, NEW D, NEW st, NEW n, NEW s, Placing(d, D, st, n, s), NEW u \in D
  PROVE  ~Mutates(d, u, <<n, s>>)
  <1>1. Shaped(d) /\ n \in DOMAIN d /\ u \in TensorsOf(d) /\ u[1] <= n
    BY DEF Placing
  <1>2. SUFFICES ASSUME Mutates(d, u, <<n, s>>)
                 PROVE  FALSE
    OBVIOUS
  <1>3. u[1] \in DOMAIN d /\ u[1] \in Nat /\ n \in Nat
    BY <1>1, GraphShape, TensorShape
  <1>4. u[2] \in DOMAIN d[u[1]].inplace /\ d[u[1]].ins[d[u[1]].inplace[u[2]]] = <<n, s>>
    BY <1>2 DEF Mutates
  <1>5. d[u[1]].inplace[u[2]] \in DOMAIN d[u[1]].ins
    BY <1>1, <1>3, <1>4, InPlaceShape
  <1>6. n < u[1]
    <2>1. PICK e \in DOMAIN d[u[1]].ins : e = d[u[1]].inplace[u[2]]
      BY <1>5
    <2>2. d[u[1]].ins[e][1] < u[1]
      BY <1>1, <1>3, EdgeShape
    <2>3. d[u[1]].ins[e][1] = n
      <3>1. d[u[1]].ins[e] = <<n, s>>
        BY <1>4, <2>1, Zenon
      <3>2. QED
        BY <3>1
    <2>4. QED
      BY <2>2, <2>3
  <1>7. QED
    BY <1>1, <1>3, <1>6

LEMMA AllocatePlaces ==
  ASSUME NEW d, NEW D, NEW st, NEW n, NEW s, Placing(d, D, st, n, s),
         s \notin DOMAIN d[n].inplace
  PROVE  HasPlaced(d, D, <<n, s>>, Allocate(st, n, s))
  <1> DEFINE v == <<n, s>>
             st1 == [st EXCEPT !.allocated = @ + 1]
             st2 == Allocate(st, n, s)
             x == st.allocated + 1
  <1>1. /\ Shaped(d) /\ n \in DOMAIN d /\ s \in DOMAIN d[n].outs
        /\ v \notin D /\ PassInv(d, D, st)
    BY DEF Placing
  <1>2. /\ st = [storage |-> st.storage, pool |-> st.pool,
                 releases |-> st.releases, allocated |-> st.allocated]
        /\ st.allocated \in Nat /\ DOMAIN st.storage = D
        /\ \A t \in D : st.storage[t] \in 1 .. st.allocated
    BY <1>1 DEF PassInv, StorageInv
  <1>3. st1 = [storage |-> st.storage, pool |-> st.pool,
               releases |-> st.releases, allocated |-> st.allocated + 1]
    BY <1>2
  <1> HIDE DEF st1
  <1>4. StorageInv(D, st1)
    <2>1. st1.storage = st.storage /\ st1.allocated = x /\ x \in Nat
      BY <1>2, <1>3
    <2>2. \A t \in D : st1.storage[t] \in 1 .. st1.allocated
      BY <1>2, <2>1
    <2>3. QED
      BY <1>2, <1>3, <2>1, <2>2 DEF StorageInv
  <1>5. st2 = Placed(D, st1, v, x, st.pool, st.releases, x)
    <2>1. WithStorage(st1, n, s, x)
            = Placed(D, st1, v, x, st1.pool, st1.releases, st1.allocated)
      BY <1>4, WithStorageIs
    <2>2. st1.pool = st.pool /\ st1.releases = st.releases /\ st1.allocated = x
      BY <1>3
    <2>3. st2 = WithStorage(st1, n, s, x)
      BY DEF Allocate, st1
    <2>4. QED
      BY <2>1, <2>2, <2>3
  <1> HIDE DEF st2, v, x
  <1>6. /\ st2 = [storage |-> st2.storage, pool |-> st2.pool,
                  releases |-> st2.releases, allocated |-> st2.allocated]
        /\ st2.pool = st.pool /\ st2.releases = st.releases /\ st2.allocated = x
        /\ DOMAIN st2.storage = D \cup {v}
        /\ \A u \in D : st2.storage[u] = st1.storage[u]
        /\ st2.storage[v] = x
    <2>1. v \notin D
      BY <1>1
    <2>2. IsPlaced(st2, D, st1, v, x, st.pool, st.releases, x)
      BY <1>5, <2>1, PlacedIs
    <2>3. QED
      BY <2>2 DEF IsPlaced
  <1>7. \A u \in D : st2.storage[u] = st.storage[u]
    BY <1>3, <1>6
  <1>8. x \in Nat /\ x > st.allocated /\ x >= 1
    BY <1>2 DEF x
  <1>9. \A u \in D : st2.storage[u] # st2.storage[v]
    BY <1>2, <1>6, <1>7, <1>8
  <1>10. PoolInv(d, D, st) /\ ReleaseInv(d, st)
    BY <1>1 DEF PassInv
  <1>11. ReleaseInv(d, st2)
    BY <1>6, <1>10 DEF ReleaseInv
  <1>12. ASSUME NEW i \in DOMAIN st2.pool
         PROVE  \E j \in DOMAIN st.pool :
                  st2.pool[i] = st.pool[j] /\ st.pool[j].storage # st2.storage[v]
    <2>1. PICK w \in D : Entry(d, D, st, st.pool[i], w)
      BY <1>6, <1>10 DEF PoolInv
    <2>2. st.pool[i].storage = st.storage[w]
      BY <2>1 DEF Entry
    <2>3. QED
      BY <1>6, <1>7, <1>9, <2>2
  <1>13. ASSUME d[v[1]].kind = "input"
         PROVE  v[2] \in CallersSlots(d)[v[1]]
    <2>1. CallersSlots(d)[n] = DOMAIN d[n].outs
      BY <1>1, <1>13, CallersUnfold DEF SlotsFrom, v
    <2>2. QED
      BY <1>1, <2>1 DEF v
  <1>14. \A u \in D \cup {v} : st2.storage[u] = st2.storage[v] =>
           /\ d[u[1]].kind = "input" => v[2] \in CallersSlots(d)[v[1]]
           /\ d[v[1]].kind = "input" => u[2] \in CallersSlots(d)[u[1]]
    BY <1>9, <1>13
  <1>15. /\ st2.allocated \in Nat /\ st2.allocated >= st.allocated
         /\ st2.storage[v] \in 1 .. st2.allocated
    BY <1>2, <1>6, <1>8
  <1>16. IsSeq(st2.pool) /\ \A i, j \in DOMAIN st2.pool :
           st2.pool[i].storage = st2.pool[j].storage => i = j
    BY <1>6, <1>10 DEF PoolInv
  <1>17. \A y, z : Behind(st.releases, y, z) => Behind(st2.releases, y, z)
    BY <1>6
  <1>18. HasPlaced(d, D, v, st2)
    <2>1. \A u \in D : st2.storage[u] = st2.storage[v] =>
           /\ u[1] \in Nat /\ v[1] \in Nat /\ u[1] < v[1] /\ IsCompute(d, v[1])
           /\ \A y \in UsersOf(d, u) \ {v[1]} : Behind(st2.releases, y, v[1])
           /\ v[1] \in ReadersOf(d, u) => Mutates(d, v, u)
           /\ MayReuse(d, u[1], u[2]) \/ \E z \in D \cup {v} : Mutates(d, z, u)
      BY <1>9
    <2>2. v \notin D /\ PassInv(d, D, st)
      BY <1>1
    <2>3. \A u \in D : /\ Mutates(d, v, u) => st2.storage[v] = st2.storage[u]
                       /\ ~Mutates(d, u, v)
      BY NotMutated DEF Mutates, v
    <2>4. Extension(d, D, v, st, st2)
      BY <1>6, <1>7, <1>11, <1>12, <1>14, <1>15, <1>16, <1>17, <2>1, <2>3, Zenon DEF Extension
    <2>5. QED
      BY <2>2, <2>4, PassExtends
  <1>19. QED
    BY <1>18 DEF st2, v

LEMMA AliasPlaces ==
  ASSUME NEW d, NEW D, NEW st, NEW n, NEW s, Placing(d, D, st, n, s),
         s \in DOMAIN d[n].inplace
  PROVE  HasPlaced(d, D, <<n, s>>, Alias(d, st, n, s))
  <1> DEFINE v == <<n, s>>
             t == d[n].ins[d[n].inplace[s]]
             others == OtherUsers(d, n, t)
             new == [ids |-> others, count |-> ReleaseTarget(d, others), reuser |-> n]
             releases == IF others = << >> THEN st.releases ELSE Append(st.releases, new)
             st2 == Alias(d, st, n, s)
             x == st.storage[t]
  <1>1. /\ Shaped(d) /\ Functionalised(d) /\ n \in DOMAIN d
        /\ v \notin D /\ PassInv(d, D, st) /\ D \subseteq TensorsOf(d)
    BY DEF Placing
  <1>2. /\ StorageInv(D, st) /\ SharedInv(d, D, st) /\ PoolInv(d, D, st)
        /\ ReleaseInv(d, st)
    BY <1>1 DEF PassInv
  <1>3. d[n].inplace[s] \in DOMAIN d[n].ins /\ IsCompute(d, n) /\ v \in TensorsOf(d)
    BY <1>1, InPlaceShape DEF IsCompute
  <1>4. t \in D /\ t \in TensorsOf(d) /\ t[1] < n
    BY <1>1, <1>3, EdgeShape DEF Placing
  <1>5. Mutates(d, v, t) /\ v[1] = n /\ v[2] = s
    BY DEF Mutates
  <1>6. n \in Nat /\ \A u \in TensorsOf(d) : u[1] \in Nat
    BY <1>1, GraphShape, TensorShape
  <1>7. ~MayReuse(d, t[1], t[2])
    BY <1>1, <1>3, <1>4, <1>5, MutatedHeld
  <1>8. n \in ReadersOf(d, t)
    BY <1>1, <1>3 DEF ReadersOf
  <1> HIDE DEF t, v
  \* t is the last tensor in its storage.
  <1>9. \A u \in D : st.storage[u] = x => u = t \/ u[1] < t[1]
    <2>1. ASSUME NEW u \in D, st.storage[u] = x, u # t, ~(u[1] < t[1])
          PROVE  FALSE
      <3>1. t[1] < u[1]
        <4>1. u[1] \in Nat /\ t[1] \in Nat
          BY <1>1, <1>4, <1>6
        <4>2. u[1] # t[1]
          BY <1>2, <1>4, <2>1 DEF SharedInv
        <4>3. QED
          BY <2>1, <4>1, <4>2
      <3>2. PICK z \in D : Mutates(d, z, t)
        BY <1>2, <1>4, <1>7, <2>1, <3>1 DEF SharedInv
      <3>3. v = z
        <4>1. z \in TensorsOf(d)
          BY <1>1
        <4>2. QED
          BY <1>1, <1>3, <1>5, <3>2, <4>1, MutatedOnce
      <3>4. QED
        BY <1>1, <3>2, <3>3
    <2>2. QED
      BY <2>1
  <1>10. \A m \in ToSet(others) : IsCompute(d, m) /\ m < n /\ m \in DOMAIN d
    <2>1. ASSUME NEW m \in ToSet(others)
          PROVE  IsCompute(d, m) /\ m < n /\ m \in DOMAIN d
      <3>1. \/ m = t[1] /\ IsCompute(d, m)
            \/ m \in ReadersOf(d, t) /\ m # n /\ d[m].kind # "output"
        BY <1>1, <1>4, OtherUsersAre
      <3>2. CASE m = t[1] /\ IsCompute(d, m)
        BY <1>1, <1>4, <3>2, TensorShape
      <3>3. CASE m \in ReadersOf(d, t) /\ m # n /\ d[m].kind # "output"
        <4>1. m \in DOMAIN d /\ IsCompute(d, m)
          BY <1>1, <3>3, ReaderIs DEF IsCompute
        <4>2. m <= n
          BY <1>1, <1>3, <1>5, <3>3, MutatedOnce
        <4>3. m \in Nat
          BY <1>1, <4>1, GraphShape
        <4>4. QED
          BY <1>6, <3>3, <4>1, <4>2, <4>3
      <3>4. QED
        BY <3>1, <3>2, <3>3
    <2>2. QED
      BY <2>1
  <1>11. \A y \in UsersOf(d, t) \ {n} : y \in ToSet(others)
    <2>1. ASSUME NEW y \in UsersOf(d, t) \ {n}
          PROVE  \/ y = t[1] /\ IsCompute(d, y)
                 \/ y \in ReadersOf(d, t) /\ y # n /\ d[y].kind # "output"
      BY DEF UsersOf, IsCompute
    <2>2. QED
      BY <1>1, <1>4, <2>1, OtherUsersAre
  <1>12. others \in Seq(DOMAIN d)
    BY <1>1, <1>4, OtherUsersAre
  <1>13. st2 = Placed(D, st, v, x, st.pool, releases, st.allocated)
    <2> DEFINE aliased == WithStorage(st, n, s, x)
    <2>1. aliased = Placed(D, st, v, x, st.pool, st.releases, st.allocated)
      BY <1>2, WithStorageIs DEF v
    <2>2. st2 = IF others = << >> THEN aliased
                ELSE WithRelease(aliased, others, ReleaseTarget(d, others), n)
      BY DEF Alias, t
    <2> HIDE DEF st2, aliased, others, x
    <2>3. CASE others = << >>
      BY <2>1, <2>2, <2>3
    <2>4. CASE others # << >>
      <3>1. st2 = WithRelease(Placed(D, st, v, x, st.pool, st.releases, st.allocated),
                              others, ReleaseTarget(d, others), n)
        BY <2>1, <2>2, <2>4
      <3>2. QED
        BY <2>4, <3>1, WithReleaseIs
    <2>5. QED
      BY <2>3, <2>4
  <1> HIDE DEF st2, x, releases, others
  <1>14. IsPlaced(st2, D, st, v, x, st.pool, releases, st.allocated)
    BY <1>1, <1>13, PlacedIs
  <1>15. /\ ReleaseInv(d, st2)
         /\ \A y, z : Behind(st.releases, y, z) => Behind(st2.releases, y, z)
         /\ \A y \in ToSet(others) : Behind(st2.releases, y, n)
    <2>1. CASE others = << >>
      <3>1. st2.releases = st.releases
        BY <1>14, <2>1 DEF IsPlaced, releases
      <3>2. ToSet(others) = {}
        BY <2>1 DEF ToSet
      <3>3. QED
        BY <1>2, <3>1, <3>2 DEF ReleaseInv
    <2>2. CASE others # << >>
      <3>1. st2.releases = Append(st.releases,
               [ids |-> others, count |-> ReleaseTarget(d, others), reuser |-> n])
        BY <1>14, <2>2 DEF IsPlaced, releases
      <3>2. QED
        BY <1>1, <1>2, <1>3, <1>10, <1>12, <3>1, ReleaseAdded
    <2>3. QED
      BY <2>1, <2>2
  <1>16. /\ st2.storage[v] = x /\ \A u \in D : st2.storage[u] = st.storage[u]
         /\ st2.pool = st.pool /\ DOMAIN st2.storage = D \cup {v}
         /\ st2.allocated = st.allocated
         /\ st2 = [storage |-> st2.storage, pool |-> st2.pool,
                   releases |-> st2.releases, allocated |-> st2.allocated]
    BY <1>14 DEF IsPlaced
  <1>17. ASSUME NEW u \in D, st2.storage[u] = st2.storage[v]
         PROVE  /\ u[1] \in Nat /\ v[1] \in Nat /\ u[1] < v[1] /\ IsCompute(d, v[1])
                /\ \A y \in UsersOf(d, u) \ {v[1]} : Behind(st2.releases, y, v[1])
                /\ v[1] \in ReadersOf(d, u) => Mutates(d, v, u)
                /\ MayReuse(d, u[1], u[2]) \/ \E z \in D \cup {v} : Mutates(d, z, u)
    <2>1. st.storage[u] = x
      BY <1>16, <1>17
    <2>2. CASE u = t
      <3>1. \A y \in UsersOf(d, u) \ {v[1]} : Behind(st2.releases, y, v[1])
        BY <1>5, <1>11, <1>15, <2>2
      <3>2. QED
        BY <1>3, <1>4, <1>5, <1>6, <2>2, <3>1
    <2>3. CASE u # t
      <3>1. u[1] < t[1] /\ u[1] \in Nat /\ t[1] \in Nat
        BY <1>1, <1>4, <1>6, <1>9, <2>1, <2>3
      <3>2. u[1] < n
        BY <1>4, <1>6, <3>1
      <3>3. /\ IsCompute(d, t[1])
            /\ \A y \in UsersOf(d, u) \ {t[1]} : Behind(st.releases, y, t[1])
            /\ MayReuse(d, u[1], u[2]) \/ \E z \in D : Mutates(d, z, u)
        BY <1>2, <1>4, <2>1, <2>3, <3>1 DEF SharedInv, x
      <3>4. Behind(st2.releases, t[1], n)
        <4>1. t[1] \in UsersOf(d, t) /\ t[1] # n
          BY <1>4, <1>6, <3>1, <3>3 DEF UsersOf
        <4>2. QED
          BY <1>11, <1>15, <4>1
      <3>5. ASSUME NEW y \in UsersOf(d, u) \ {v[1]}
            PROVE  Behind(st2.releases, y, v[1])
        <4>1. CASE y = t[1]
          BY <1>5, <3>4, <4>1
        <4>2. CASE y # t[1]
          <5>1. Behind(st2.releases, y, t[1])
            BY <1>15, <3>3, <4>2
          <5>2. QED
            BY <1>5, <3>4, <5>1, BehindThrough
        <4>3. QED
          BY <4>1, <4>2
      <3>6. v[1] \notin ReadersOf(d, u)
        <4>1. SUFFICES ASSUME n \in ReadersOf(d, u)
                       PROVE  FALSE
          BY <1>5
        <4>2. n \in UsersOf(d, u) /\ n # t[1]
          BY <1>3, <1>4, <1>6, <3>1, <4>1 DEF UsersOf
        <4>3. n < t[1]
          BY <1>1, <1>2, <3>3, <4>2, BehindLater
        <4>4. QED
          BY <1>4, <1>6, <3>1, <4>3
      <3>7. QED
        BY <1>3, <1>5, <1>6, <3>1, <3>2, <3>3, <3>5, <3>6
    <2>4. QED
      BY <2>2, <2>3
  <1>18. ASSUME NEW i \in DOMAIN st2.pool
         PROVE  \E j \in DOMAIN st.pool :
                  st2.pool[i] = st.pool[j] /\ st.pool[j].storage # st2.storage[v]
    <2>1. PICK w \in D : Entry(d, D, st, st.pool[i], w)
      BY <1>2, <1>16 DEF PoolInv
    <2>2. /\ st.pool[i].storage = st.storage[w] /\ MayReuse(d, w[1], w[2])
          /\ \A u \in D : st.storage[u] = st.storage[w] => u = w \/ u[1] < w[1]
      BY <2>1, Zenon DEF Entry
    <2>3. st.storage[w] # x
      <3>1. SUFFICES ASSUME st.storage[w] = x
                     PROVE  FALSE
        OBVIOUS
      <3>2. w = t \/ w[1] < t[1]
        BY <1>9, <3>1
      <3>3. t = w \/ t[1] < w[1]
        BY <1>4, <2>2, <3>1 DEF x
      <3>4. w[1] \in Nat /\ t[1] \in Nat
        BY <1>1, <1>4, <1>6
      <3>5. w = t
        BY <3>2, <3>3, <3>4
      <3>6. QED
        BY <1>7, <2>2, <3>5
    <2>4. QED
      BY <1>16, <2>2, <2>3
  <1>19. ASSUME MutationsReturned(d), NEW u \in D \cup {v},
                st2.storage[u] = st2.storage[v]
         PROVE  /\ d[u[1]].kind = "input" => v[2] \in CallersSlots(d)[v[1]]
                /\ d[v[1]].kind = "input" => u[2] \in CallersSlots(d)[u[1]]
    <2>1. d[v[1]].kind = "compute"
      BY <1>3, <1>5 DEF IsCompute
    <2>2. ASSUME d[u[1]].kind = "input"
          PROVE  v[2] \in CallersSlots(d)[v[1]]
      <3>1. u \in D /\ st.storage[u] = st.storage[t]
        BY <1>16, <1>19, <2>1, <2>2 DEF x
      <3>2. CallersInv(d, D, st)
        BY <1>1, <1>19 DEF PassInv
      <3>3. t[2] \in CallersSlots(d)[t[1]]
        BY <1>4, <2>2, <3>1, <3>2 DEF CallersInv
      <3>4. s \in SlotsFrom(d, CallersSlots(d), n)
        BY <1>5, <2>1, <3>3 DEF SlotsFrom, t
      <3>5. QED
        BY <1>1, <1>5, <3>4, CallersUnfold
    <2>3. QED
      BY <2>1, <2>2
  <1>20. /\ st2.allocated \in Nat /\ st2.allocated >= st.allocated
         /\ st2.storage[v] \in 1 .. st2.allocated
    BY <1>2, <1>4, <1>16 DEF StorageInv, x
  <1>21. IsSeq(st2.pool) /\ \A i, j \in DOMAIN st2.pool :
           st2.pool[i].storage = st2.pool[j].storage => i = j
    BY <1>2, <1>16, SMTT(30) DEF PoolInv
  <1>22. \A u \in D : /\ Mutates(d, v, u) => st2.storage[v] = st2.storage[u]
                      /\ ~Mutates(d, u, v)
    <2>1. ASSUME NEW u \in D, Mutates(d, v, u)
          PROVE  st2.storage[v] = st2.storage[u]
      <3>1. u = t
        BY <1>5, <2>1, Zenon DEF Mutates
      <3>2. QED
        BY <1>16, <3>1 DEF x
    <2>2. \A u \in D : ~Mutates(d, u, v)
      BY NotMutated, Zenon DEF v
    <2>3. QED
      BY <2>1, <2>2, Zenon
  <1>23. Extension(d, D, v, st, st2)
    BY <1>15, <1>16, <1>17, <1>18, <1>19, <1>20, <1>21, <1>22, Zenon DEF Extension
  <1>24. v \notin D /\ PassInv(d, D, st)
    BY <1>1
  <1>25. HasPlaced(d, D, v, st2)
    BY <1>23, <1>24, PassExtends
  <1>26. QED
    BY <1>25 DEF st2, v

LEMMA ReusePlaces ==
  ASSUME NEW d, NEW D, NEW st, NEW n, NEW s, Placing(d, D, st, n, s), IsCompute(d, n),
         s \notin DOMAIN d[n].inplace, NEW i \in DOMAIN st.pool, Fits(d, st.pool[i], n, s)
  PROVE  HasPlaced(d, D, <<n, s>>, Reuse(d, st, n, s, i))
  <1> DEFINE v == <<n, s>>
             entry == st.pool[i]
             x == entry.storage
             pool == RemoveAt(st.pool, i)
             taken == [st EXCEPT !.pool = RemoveAt(@, i)]
             new == [ids |-> entry.ids, count |-> entry.count, reuser |-> n]
             releases == Append(st.releases, new)
             st2 == Reuse(d, st, n, s, i)
  <1>1. /\ Shaped(d) /\ n \in DOMAIN d /\ s \in DOMAIN d[n].outs
        /\ v \notin D /\ PassInv(d, D, st) /\ D \subseteq TensorsOf(d)
    BY DEF Placing
  <1>2. /\ StorageInv(D, st) /\ SharedInv(d, D, st) /\ PoolInv(d, D, st)
        /\ ReleaseInv(d, st)
    BY <1>1 DEF PassInv
  <1>3. n \in Nat /\ \A u \in TensorsOf(d) : u[1] \in Nat
    BY <1>1, GraphShape, TensorShape
  <1>4. v[1] = n /\ v[2] = s
    OBVIOUS
  <1>5. PICK w \in D : Entry(d, D, st, entry, w)
    BY <1>2 DEF PoolInv
  <1>6. /\ MayReuse(d, w[1], w[2]) /\ entry.ids = Users(d, w[1], w[2])
        /\ entry.last = LastInst(d, entry.ids)
        /\ entry.count = ReleaseTarget(d, entry.ids)
        /\ x = st.storage[w]
        /\ \A u \in D : st.storage[u] = st.storage[w] => u = w \/ u[1] < w[1]
    BY <1>5, Zenon DEF Entry
  <1>7. w \in TensorsOf(d)
    BY <1>1
  <1>8. /\ IsCompute(d, w[1]) /\ entry.ids \in Seq(DOMAIN d)
        /\ ToSet(entry.ids) = UsersOf(d, w) /\ w[1] \in UsersOf(d, w)
    BY <1>1, <1>6, <1>7, ReusableUsers
  <1>9. \A m \in ToSet(entry.ids) : IsCompute(d, m) /\ m < n
    <2>1. ASSUME NEW m \in ToSet(entry.ids)
          PROVE  IsCompute(d, m) /\ m < n
      <3>1. IsCompute(d, m)
        BY <1>8 DEF UsersOf
      <3>2. ToSet(entry.ids) \subseteq DOMAIN d /\ m \in DOMAIN d
        BY <1>8 DEF ToSet
      <3>3. /\ LastInst(d, entry.ids) \in Nat
            /\ InstOffset(d)[m] + Padded(InstCount(d, m)) <= LastInst(d, entry.ids)
        BY <1>1, <3>2, LastInstIs
      <3>4. /\ InstOffset(d)[m] \in Nat /\ InstOffset(d)[n] \in Nat
            /\ Padded(InstCount(d, m)) \in Nat
        BY <1>1, <3>2, OffsetsUnfold, Counts
      <3>5. InstOffset(d)[n] - LastInst(d, entry.ids) >= SM_COUNT
        BY <1>6 DEF Fits
      <3>6. SM_COUNT \in Nat /\ SM_COUNT >= 1
        BY SchedulingAssumption
      <3>7. InstOffset(d)[m] + Padded(InstCount(d, m)) < InstOffset(d)[n]
        BY <3>3, <3>4, <3>5, <3>6
      <3>8. m < n
        BY <1>1, <3>2, <3>7, EndsBefore
      <3>9. QED
        BY <3>1, <3>8
    <2>2. QED
      BY <2>1
  <1>10. taken = [storage |-> st.storage, pool |-> pool,
                  releases |-> st.releases, allocated |-> st.allocated]
    <2>1. st = [storage |-> st.storage, pool |-> st.pool,
                releases |-> st.releases, allocated |-> st.allocated]
      BY <1>2 DEF StorageInv
    <2>2. PICK a, b, c, e : st = [storage |-> a, pool |-> b, releases |-> c, allocated |-> e]
      BY <2>1
    <2>3. st.storage = a /\ st.pool = b /\ st.releases = c /\ st.allocated = e
      BY <2>2
    <2>4. taken = [storage |-> a, pool |-> RemoveAt(b, i), releases |-> c, allocated |-> e]
      BY <2>2, <2>3
    <2>5. QED
      BY <2>3, <2>4
  <1>11. st2 = WithRelease(WithStorage(taken, n, s, x), entry.ids, entry.count, n)
    BY DEF Reuse
  <1> HIDE DEF taken, pool
  <1>12. StorageInv(D, taken)
    BY <1>2, <1>10 DEF StorageInv
  <1>13. st2 = Placed(D, st, v, x, pool, releases, st.allocated)
    <2>1. WithStorage(taken, n, s, x)
            = Placed(D, taken, v, x, taken.pool, taken.releases, taken.allocated)
      BY <1>12, WithStorageIs
    <2>2. /\ taken.storage = st.storage /\ taken.pool = pool
          /\ taken.releases = st.releases /\ taken.allocated = st.allocated
      BY <1>10
    <2>3. WithStorage(taken, n, s, x)
            = Placed(D, st, v, x, pool, st.releases, st.allocated)
      BY <2>1, <2>2 DEF Placed
    <2> HIDE DEF st2, v, x, entry
    <2>4. st2 = WithRelease(Placed(D, st, v, x, pool, st.releases, st.allocated),
                            entry.ids, entry.count, n)
      BY <1>11, <2>3
    <2>5. QED
      BY <2>4, WithReleaseIs
  <1> HIDE DEF st2, v, x, releases, entry
  <1>14. IsPlaced(st2, D, st, v, x, pool, releases, st.allocated)
    BY <1>1, <1>13, PlacedIs
  <1>15. /\ st2.storage[v] = x /\ \A u \in D : st2.storage[u] = st.storage[u]
         /\ st2.pool = pool /\ DOMAIN st2.storage = D \cup {v}
         /\ st2.releases = releases /\ st2.allocated = st.allocated
         /\ st2 = [storage |-> st2.storage, pool |-> st2.pool,
                   releases |-> st2.releases, allocated |-> st2.allocated]
    BY <1>14 DEF IsPlaced
  <1>16. /\ ReleaseInv(d, st2)
         /\ \A y, z : Behind(st.releases, y, z) => Behind(st2.releases, y, z)
         /\ \A y \in ToSet(entry.ids) : Behind(st2.releases, y, n)
    <2>1. st2.releases = Append(st.releases,
             [ids |-> entry.ids, count |-> entry.count, reuser |-> n])
      BY <1>15 DEF releases
    <2>2. entry.count = ReleaseTarget(d, entry.ids) /\ entry.ids \in Seq(DOMAIN d)
      BY <1>6, <1>8
    <2>3. QED
      BY <1>1, <1>2, <1>9, <2>1, <2>2, ReleaseAdded
  <1>17. ASSUME NEW u \in D, st2.storage[u] = st2.storage[v]
         PROVE  /\ u[1] \in Nat /\ v[1] \in Nat /\ u[1] < v[1] /\ IsCompute(d, v[1])
                /\ \A y \in UsersOf(d, u) \ {v[1]} : Behind(st2.releases, y, v[1])
                /\ v[1] \in ReadersOf(d, u) => Mutates(d, v, u)
                /\ MayReuse(d, u[1], u[2]) \/ \E z \in D \cup {v} : Mutates(d, z, u)
    <2>1. st.storage[u] = st.storage[w]
      BY <1>6, <1>15, <1>17
    <2>2. u \in TensorsOf(d) /\ u[1] \in Nat /\ w[1] \in Nat /\ w[1] < n
      BY <1>1, <1>3, <1>7, <1>8, <1>9
    <2>3. CASE u = w
      <3>1. \A y \in UsersOf(d, u) \ {v[1]} : Behind(st2.releases, y, v[1])
        BY <1>4, <1>8, <1>16, <2>3
      <3>2. v[1] \notin ReadersOf(d, u)
        <4>1. SUFFICES ASSUME n \in ReadersOf(d, w)
                       PROVE  FALSE
          BY <1>4, <2>3
        <4>2. n < n
          BY <1>8, <1>9, <4>1 DEF UsersOf
        <4>3. QED
          BY <1>3, <4>2
      <3>3. QED
        BY <1>3, <1>4, <1>6, <2>2, <2>3, <3>1, <3>2
    <2>4. CASE u # w
      <3>1. u[1] < w[1]
        BY <1>6, <2>1, <2>4
      <3>2. /\ \A y \in UsersOf(d, u) \ {w[1]} : Behind(st.releases, y, w[1])
            /\ MayReuse(d, u[1], u[2]) \/ \E z \in D : Mutates(d, z, u)
        BY <1>2, <2>1, <2>4, <3>1 DEF SharedInv
      <3>3. Behind(st2.releases, w[1], n)
        BY <1>8, <1>16
      <3>4. ASSUME NEW y \in UsersOf(d, u) \ {v[1]}
            PROVE  Behind(st2.releases, y, v[1])
        <4>1. CASE y = w[1]
          BY <1>4, <3>3, <4>1
        <4>2. CASE y # w[1]
          <5>1. Behind(st2.releases, y, w[1])
            BY <1>16, <3>2, <4>2
          <5>2. QED
            BY <1>4, <3>3, <5>1, BehindThrough
        <4>3. QED
          BY <4>1, <4>2
      <3>5. u[1] < n
        BY <1>3, <2>2, <3>1
      <3>6. v[1] \notin ReadersOf(d, u)
        <4>1. SUFFICES ASSUME n \in ReadersOf(d, u)
                       PROVE  FALSE
          BY <1>4
        <4>2. n \in UsersOf(d, u) /\ n # w[1]
          BY <1>3, <2>2, <4>1 DEF UsersOf
        <4>3. n < w[1]
          BY <1>1, <1>2, <3>2, <4>2, BehindLater
        <4>4. QED
          BY <1>3, <2>2, <4>3
      <3>7. QED
        BY <1>3, <1>4, <2>2, <3>2, <3>4, <3>5, <3>6
    <2>5. QED
      BY <2>3, <2>4
  <1>18. /\ IsSeq(pool) /\ Len(st.pool) \in Nat /\ DOMAIN st.pool = 1 .. Len(st.pool)
         /\ DOMAIN pool = 1 .. Len(st.pool) - 1
         /\ \A a \in DOMAIN pool : pool[a] = st.pool[IF a < i THEN a ELSE a + 1]
    BY <1>2, RemoveIs DEF PoolInv, pool
  <1> DEFINE at(a) == IF a < i THEN a ELSE a + 1
  <1>19. \A a \in DOMAIN pool : at(a) \in DOMAIN st.pool /\ at(a) # i
    BY <1>18
  <1>20. \A a, b \in DOMAIN pool : at(a) = at(b) => a = b
    BY <1>18
  <1>21. \A a \in DOMAIN pool : pool[a] = st.pool[at(a)]
    BY <1>18
  <1> HIDE DEF at
  <1>22. \A a, b \in DOMAIN st.pool : st.pool[a].storage = st.pool[b].storage => a = b
    BY <1>2 DEF PoolInv
  <1>23. ASSUME NEW a \in DOMAIN st2.pool
         PROVE  \E j \in DOMAIN st.pool :
                  st2.pool[a] = st.pool[j] /\ st.pool[j].storage # st2.storage[v]
    <2>1. a \in DOMAIN pool
      BY <1>15
    <2>2. st2.pool[a] = st.pool[at(a)] /\ at(a) \in DOMAIN st.pool /\ at(a) # i
      BY <1>15, <1>19, <1>21, <2>1
    <2>3. st.pool[at(a)].storage # st.pool[i].storage
      BY <1>22, <2>2
    <2>4. QED
      BY <1>15, <2>2, <2>3 DEF x, entry
  <1>24. IsSeq(st2.pool) /\ \A a, b \in DOMAIN st2.pool :
           st2.pool[a].storage = st2.pool[b].storage => a = b
    <2>1. ASSUME NEW a \in DOMAIN pool, NEW b \in DOMAIN pool,
                 pool[a].storage = pool[b].storage
          PROVE  a = b
      <3>1. at(a) = at(b)
        BY <1>19, <1>21, <1>22, <2>1
      <3>2. QED
        BY <1>20, <3>1
    <2>2. QED
      BY <1>15, <1>18, <2>1
  <1>25. ASSUME MutationsReturned(d), NEW u \in D \cup {v},
                st2.storage[u] = st2.storage[v]
         PROVE  /\ d[u[1]].kind = "input" => v[2] \in CallersSlots(d)[v[1]]
                /\ d[v[1]].kind = "input" => u[2] \in CallersSlots(d)[u[1]]
    <2>1. d[v[1]].kind = "compute"
      BY <1>4 DEF IsCompute
    <2>2. ASSUME d[u[1]].kind = "input"
          PROVE  FALSE
      <3>1. u \in D /\ st.storage[u] = st.storage[w]
        BY <1>6, <1>15, <1>25, <2>1, <2>2
      <3>2. CallersInv(d, D, st)
        BY <1>1, <1>25 DEF PassInv
      <3>3. w[2] \in CallersSlots(d)[w[1]]
        BY <2>2, <3>1, <3>2 DEF CallersInv
      <3>4. w[1] \in DOMAIN d
        BY <1>1, <1>7, TensorShape
      <3>5. ~MayReuse(d, w[1], w[2])
        BY <1>1, <1>25, <3>3, <3>4, CallersHeld DEF Placing
      <3>6. QED
        BY <1>6, <3>5
    <2>3. QED
      BY <2>1, <2>2
  <1>26. /\ st2.allocated \in Nat /\ st2.allocated >= st.allocated
         /\ st2.storage[v] \in 1 .. st2.allocated
    BY <1>2, <1>6, <1>15 DEF StorageInv
  <1>27. \A u \in D : /\ Mutates(d, v, u) => st2.storage[v] = st2.storage[u]
                      /\ ~Mutates(d, u, v)
    BY <1>4, NotMutated DEF Mutates, v
  <1>28. Extension(d, D, v, st, st2)
    BY <1>15, <1>16, <1>17, <1>23, <1>24, <1>25, <1>26, <1>27, Zenon DEF Extension
  <1>29. v \notin D /\ PassInv(d, D, st)
    BY <1>1
  <1>30. HasPlaced(d, D, v, st2)
    BY <1>28, <1>29, PassExtends
  <1>31. QED
    BY <1>30 DEF st2, v

LEMMA PlacePlaces ==
  ASSUME NEW d, NEW D, NEW st, NEW n, NEW s, Placing(d, D, st, n, s)
  PROVE  HasPlaced(d, D, <<n, s>>, Place(d, st, n, s))
  <1> DEFINE fitting == {i \in DOMAIN st.pool : Fits(d, st.pool[i], n, s)}
  <1>1. CASE d[n].kind # "input" /\ s \in DOMAIN d[n].inplace
    <2>1. Place(d, st, n, s) = Alias(d, st, n, s)
      BY <1>1 DEF Place
    <2>2. QED
      BY <1>1, <2>1, AliasPlaces
  <1>2. CASE /\ ~(d[n].kind # "input" /\ s \in DOMAIN d[n].inplace)
             /\ d[n].kind # "input" /\ fitting # {}
    <2>1. Place(d, st, n, s) = Reuse(d, st, n, s, Min(fitting))
      BY <1>2 DEF Place, PlaceApart
    <2>2. fitting \in SUBSET Nat
      <3>1. IsSeq(st.pool)
        BY DEF Placing, PassInv, PoolInv
      <3>2. st.pool \in Seq(ToSet(st.pool))
        BY <3>1 DEF IsSeq
      <3>3. DOMAIN st.pool = 1 .. Len(st.pool) /\ Len(st.pool) \in Nat
        BY <3>2
      <3>4. QED
        BY <3>3
    <2>3. Min(fitting) \in fitting
      BY <1>2, <2>2, MinIs
    <2>4. IsCompute(d, n)
      <3>1. Shaped(d) /\ n \in DOMAIN d /\ s \in DOMAIN d[n].outs
        BY DEF Placing
      <3>2. d[n].kind \in {"input", "compute", "output"}
            /\ (d[n].kind = "output" => DOMAIN d[n].outs = {})
        BY <3>1, GraphShape
      <3>3. QED
        BY <1>2, <3>1, <3>2 DEF IsCompute
    <2>5. Min(fitting) \in DOMAIN st.pool /\ Fits(d, st.pool[Min(fitting)], n, s)
      BY <2>3
    <2> HIDE DEF fitting
    <2>6. QED
      BY <1>2, <2>1, <2>4, <2>5, ReusePlaces
  <1>3. CASE /\ ~(d[n].kind # "input" /\ s \in DOMAIN d[n].inplace)
             /\ ~(d[n].kind # "input" /\ fitting # {})
    <2>1. Place(d, st, n, s) = Allocate(st, n, s)
      BY <1>3 DEF Place, PlaceApart
    <2>2. s \notin DOMAIN d[n].inplace
      <3>1. Shaped(d) /\ n \in DOMAIN d
        BY DEF Placing
      <3>2. d[n].kind = "input" => DOMAIN d[n].inplace = {}
        BY <3>1, GraphShape
      <3>3. QED
        BY <1>3, <3>2
    <2>3. QED
      BY <2>1, <2>2, AllocatePlaces
  <1>4. QED
    BY <1>1, <1>2, <1>3

LEMMA SlotKeeps ==
  ASSUME NEW d, NEW D, NEW st, NEW n, NEW s, Placing(d, D, st, n, s)
  PROVE  PassInv(d, D \cup {<<n, s>>}, AssignSlot(d, st, n, s))
  <1> DEFINE v == <<n, s>>
             E == D \cup {v}
             placed == Place(d, st, n, s)
             ids == Users(d, n, s)
             entry == [size |-> d[n].outs[s], ids |-> ids, last |-> LastInst(d, ids),
                       count |-> ReleaseTarget(d, ids), storage |-> placed.storage[v]]
             st2 == [placed EXCEPT !.pool = Append(@, entry)]
  <1>1. HasPlaced(d, D, v, placed)
    BY PlacePlaces
  <1>2. CASE ~MayReuse(d, n, s)
    <2>1. AssignSlot(d, st, n, s) = placed
      BY <1>2 DEF AssignSlot, Offer
    <2>2. QED
      BY <1>1, <2>1 DEF HasPlaced
  <1>3. CASE MayReuse(d, n, s)
    <2>1. AssignSlot(d, st, n, s) = st2
      BY <1>3 DEF AssignSlot, Offer, PoolEntry
    <2>2. /\ StorageInv(E, placed) /\ AliasInv(d, E, placed)
          /\ SharedInv(d, E, placed) /\ PoolInv(d, E, placed)
          /\ ReleaseInv(d, placed) /\ (MutationsReturned(d) => CallersInv(d, E, placed))
      BY <1>1 DEF HasPlaced, PassInv
    <2>3. /\ \A i \in DOMAIN placed.pool : placed.pool[i].storage # placed.storage[v]
          /\ \A u \in D : placed.storage[u] = placed.storage[v] => u[1] < v[1]
      BY <1>1 DEF HasPlaced
    <2>4. /\ entry.ids = Users(d, v[1], v[2]) /\ entry.last = LastInst(d, entry.ids)
          /\ entry.count = ReleaseTarget(d, entry.ids)
          /\ entry.storage = placed.storage[v]
          /\ MayReuse(d, v[1], v[2]) /\ v \in E
      BY <1>3
    <2> HIDE DEF entry, placed, v, E
    <2>5. st2 = [storage |-> placed.storage, pool |-> Append(placed.pool, entry),
                 releases |-> placed.releases, allocated |-> placed.allocated]
      <3>1. placed = [storage |-> placed.storage, pool |-> placed.pool,
                      releases |-> placed.releases, allocated |-> placed.allocated]
        BY <2>2 DEF StorageInv
      <3>2. PICK a, b, c, e : placed = [storage |-> a, pool |-> b, releases |-> c, allocated |-> e]
        BY <3>1
      <3>3. placed.storage = a /\ placed.pool = b /\ placed.releases = c /\ placed.allocated = e
        BY <3>2
      <3>4. st2 = [storage |-> a, pool |-> Append(b, entry), releases |-> c, allocated |-> e]
        BY <3>2, <3>3
      <3>5. QED
        BY <3>3, <3>4
    <2> HIDE DEF st2
    <2>6. /\ st2.storage = placed.storage /\ st2.pool = Append(placed.pool, entry)
          /\ st2.releases = placed.releases /\ st2.allocated = placed.allocated
          /\ st2 = [storage |-> st2.storage, pool |-> st2.pool,
                    releases |-> st2.releases, allocated |-> st2.allocated]
      BY <2>5
    <2>7. StorageInv(E, st2)
      BY <2>2, <2>6 DEF StorageInv
    <2>8. SharedInv(d, E, st2)
      BY <2>2, <2>6, Zenon DEF SharedInv
    <2>9. AliasInv(d, E, st2)
      BY <2>2, <2>6, Zenon DEF AliasInv
    <2>10. ReleaseInv(d, st2)
      BY <2>2, <2>6 DEF ReleaseInv
    <2>11. MutationsReturned(d) => CallersInv(d, E, st2)
      BY <2>2, <2>6, Zenon DEF CallersInv
    <2>12. PoolInv(d, E, st2)
      <3> DEFINE q == placed.pool
                 r == st2.pool
      <3>1. IsSeq(q) /\ r = Append(q, entry)
        BY <2>2, <2>6 DEF PoolInv
      <3> HIDE DEF q, r
      <3>2. /\ IsSeq(r) /\ Len(q) \in Nat /\ DOMAIN q = 1 .. Len(q)
            /\ \A i \in DOMAIN q : r[i] = q[i]
            /\ r[Len(q) + 1] = entry
            /\ \A i \in DOMAIN r : i \in DOMAIN q \/ i = Len(q) + 1
        BY <3>1, AppendIs
      <3>3. ASSUME NEW i \in DOMAIN r
            PROVE  \E w \in E : Entry(d, E, st2, r[i], w)
        <4>1. CASE i \in DOMAIN q
          <5>1. PICK w \in E : Entry(d, E, placed, q[i], w)
            BY <2>2, <4>1 DEF PoolInv, q
          <5>2. Entry(d, E, st2, q[i], w)
            BY <2>6, <5>1, Zenon DEF Entry
          <5>3. QED
            BY <3>2, <4>1, <5>2
        <4>2. CASE i = Len(q) + 1
          <5>1. \A u \in E : placed.storage[u] = placed.storage[v] => u = v \/ u[1] < v[1]
            BY <2>3 DEF E
          <5>2. Entry(d, E, st2, entry, v)
            BY <2>4, <2>6, <5>1, Zenon DEF Entry
          <5>3. QED
            BY <2>4, <3>2, <4>2, <5>2
        <4>3. QED
          BY <3>2, <4>1, <4>2
      <3>4. ASSUME NEW i \in DOMAIN r, NEW j \in DOMAIN r, r[i].storage = r[j].storage
            PROVE  i = j
        <4>1. CASE i \in DOMAIN q /\ j \in DOMAIN q
          BY <2>2, <3>2, <3>4, <4>1 DEF PoolInv, q
        <4>2. CASE i \notin DOMAIN q \/ j \notin DOMAIN q
          <5>1. \A k \in DOMAIN q : r[k].storage # entry.storage
            BY <2>3, <2>4, <3>2 DEF q
          <5>2. QED
            BY <3>2, <3>4, <4>2, <5>1
        <4>3. QED
          BY <4>1, <4>2
      <3>5. QED
        BY <3>2, <3>3, <3>4, Zenon DEF PoolInv, r
    <2>13. PassInv(d, E, st2)
      BY <2>7, <2>8, <2>10, <2>11, <2>12, <2>9, Zenon DEF PassInv
    <2>14. QED
      BY <2>1, <2>13 DEF E, v
  <1>4. QED
    BY <1>2, <1>3

---------------------------------------------------------------------------
(* A node of the pass.                                                     *)

\* The states after each slot of node n.
SlotStates(d, st, n, after) ==
  /\ after[0] = st
  /\ \A s \in 1 .. Len(d[n].outs) : after[s] = AssignSlot(d, after[s - 1], n, s)
  /\ AssignNode(d, st, n) = after[Len(d[n].outs)]

LEMMA SlotStatesExist ==
  ASSUME NEW d, NEW st, NEW n, Len(d[n].outs) \in Nat, d[n].kind # "output"
  PROVE  \E after : SlotStates(d, st, n, after)
  <1> DEFINE N == Len(d[n].outs)
             At(f, s) == IF s = 0 THEN st ELSE AssignSlot(d, f[s - 1], n, s)
             S == {k \in 0 .. N : \E f : f = [s \in 0 .. k |-> At(f, s)]}
             P(g) == g = [s \in 0 .. N |-> IF s = 0 THEN st
                                           ELSE AssignSlot(d, g[s - 1], n, s)]
             chosen == CHOOSE g : P(g)
  <1>1. 0 \in S
    <2>1. PICK f : f = [s \in 0 .. 0 |-> st]
      OBVIOUS
    <2>2. f = [s \in 0 .. 0 |-> At(f, s)]
      BY <2>1
    <2>3. 0 \in 0 .. N
      OBVIOUS
    <2>4. QED
      BY <2>2, <2>3
  <1>2. ASSUME NEW k \in Nat, k < N, k \in S
        PROVE  k + 1 \in S
    <2>1. PICK f : f = [s \in 0 .. k |-> At(f, s)]
      BY <1>2
    <2>2. PICK g : g = [s \in 0 .. k + 1 |->
                          IF s <= k THEN f[s] ELSE AssignSlot(d, f[k], n, k + 1)]
      OBVIOUS
    <2>3. \A s \in 0 .. k : g[s] = f[s]
      BY <2>2
    <2>4. ASSUME NEW s \in 0 .. k + 1
          PROVE  g[s] = At(g, s)
      <3>1. CASE s = 0
        <4>1. 0 \in 0 .. k
          OBVIOUS
        <4>2. f[0] = st
          BY <2>1, <4>1
        <4>3. QED
          BY <2>3, <3>1, <4>1, <4>2
      <3>2. CASE s # 0 /\ s <= k
        <4>1. s - 1 \in 0 .. k /\ s \in 0 .. k
          BY <3>2
        <4>2. f[s] = AssignSlot(d, f[s - 1], n, s)
          BY <2>1, <3>2, <4>1
        <4>3. QED
          BY <2>3, <3>2, <4>1, <4>2
      <3>3. CASE s = k + 1
        <4>1. k \in 0 .. k /\ s - 1 = k /\ s # 0 /\ ~(s <= k)
          BY <3>3
        <4>2. g[s] = AssignSlot(d, f[k], n, k + 1)
          BY <2>2, <4>1
        <4>3. QED
          BY <2>3, <3>3, <4>1, <4>2
      <3>4. QED
        BY <3>1, <3>2, <3>3
    <2> HIDE DEF At
    <2>5. g = [s \in 0 .. k + 1 |-> At(g, s)]
      BY <2>2, <2>4
    <2>6. k + 1 \in 0 .. N
      BY <1>2
    <2>7. QED
      BY <2>5, <2>6
  <1>3. \E f : P(f)
    <2> HIDE DEF S
    <2>1. \A k \in Nat : k < N /\ k \in S => k + 1 \in S
      BY <1>2
    <2>2. \A k \in 0 .. N : k \in S
      BY <1>1, <2>1, UpTo
    <2>3. N \in S
      BY <2>2
    <2>4. QED
      BY <2>3 DEF S
  <1>4. AssignNode(d, st, n) = chosen[N]
    BY DEF AssignNode
  <1>5. P(chosen)
    <2> HIDE DEF P
    <2>1. QED
      BY <1>3
  <1> HIDE DEF chosen
  <1>6. chosen[0] = st
    BY <1>5
  <1>7. ASSUME NEW s \in 1 .. N
        PROVE  chosen[s] = AssignSlot(d, chosen[s - 1], n, s)
    <2>1. s \in 0 .. N /\ s # 0
      OBVIOUS
    <2>2. QED
      BY <1>5, <2>1
  <1>8. QED
    BY <1>4, <1>6, <1>7 DEF SlotStates

LEMMA NodeKeeps ==
  ASSUME NEW d, Shaped(d), Functionalised(d), NEW n \in DOMAIN d, NEW st,
         PassInv(d, TensorsBefore(d, n), st)
  PROVE  PassInv(d, TensorsBefore(d, n + 1), AssignNode(d, st, n))
  <1>1. /\ Len(d) \in Nat /\ DOMAIN d = 1 .. Len(d) /\ n \in Nat /\ n >= 1
        /\ Len(d[n].outs) \in Nat /\ DOMAIN d[n].outs = 1 .. Len(d[n].outs)
        /\ (d[n].kind = "output" => DOMAIN d[n].outs = {})
    BY GraphShape
  <1> DEFINE N == Len(d[n].outs)
             B == TensorsBefore(d, n)
             D(s) == B \cup ({n} \X (1 .. s))
  <1>2. TensorsBefore(d, n + 1) = D(N)
    <2>1. 1 .. n + 1 - 1 = (1 .. n - 1) \cup {n}
      BY <1>1
    <2>2. QED
      BY <1>1, <2>1 DEF TensorsBefore
  <1>3. CASE d[n].kind = "output"
    <2>1. D(N) = B
      BY <1>1, <1>3
    <2>2. AssignNode(d, st, n) = st
      BY <1>3 DEF AssignNode
    <2>3. QED
      BY <1>2, <2>1, <2>2
  <1>4. CASE d[n].kind # "output"
    <2>1. PICK after : SlotStates(d, st, n, after)
      BY <1>1, <1>4, SlotStatesExist
    <2> DEFINE S == {s \in 0 .. N : PassInv(d, D(s), after[s])}
    <2>2. 0 \in S
      <3>1. D(0) = B
        OBVIOUS
      <3>2. 0 \in 0 .. N
        BY <1>1
      <3>3. after[0] = st
        BY <2>1 DEF SlotStates
      <3>4. QED
        BY <3>1, <3>2, <3>3
    <2>3. ASSUME NEW k \in Nat, k < N, k \in S
          PROVE  k + 1 \in S
      <3> DEFINE s == k + 1
      <3>1. s \in 1 .. N /\ s - 1 = k /\ s \in DOMAIN d[n].outs /\ s \in 0 .. N
        BY <1>1, <2>3
      <3>2. after[s] = AssignSlot(d, after[k], n, s)
        BY <2>1, <3>1 DEF SlotStates
      <3>3. B \subseteq TensorsOf(d) /\ \A u \in B : u[1] < n
        <4>1. ASSUME NEW m \in 1 .. n - 1
              PROVE  m \in DOMAIN d /\ m < n
          BY <1>1
        <4>2. QED
          BY <4>1 DEF TensorsBefore, TensorsOf
      <3>4. D(k) \subseteq TensorsOf(d) /\ \A u \in D(k) : u[1] <= n
        <4>1. \A u \in {n} \X (1 .. k) : u[1] = n /\ u \in TensorsOf(d)
          BY <1>1, <2>3 DEF TensorsOf
        <4>2. \A u \in B : u[1] <= n
          <5>1. \A u \in TensorsOf(d) : u[1] \in Nat
            BY TensorShape
          <5>2. QED
            BY <1>1, <3>3, <5>1
        <4>3. \A u \in D(k) : u \in B \/ u \in {n} \X (1 .. k)
          OBVIOUS
        <4> HIDE DEF D
        <4>4. QED
          BY <1>1, <3>3, <4>1, <4>2, <4>3
      <3>5. <<n, s>> \notin D(k)
        <4>1. <<n, s>> \notin B
          <5>1. ~(n < n)
            BY <1>1
          <5>2. QED
            BY <3>3, <5>1
        <4>2. s \notin 1 .. k
          OBVIOUS
        <4>3. QED
          BY <4>1, <4>2
      <3>6. \A e \in DOMAIN d[n].ins : d[n].ins[e] \in D(k)
        <4>1. d[n].ins \in Seq(B)
          BY DEF Shaped
        <4>2. \A e \in DOMAIN d[n].ins : d[n].ins[e] \in B
          BY <4>1
        <4>3. QED
          BY <4>2
      <3>7. D(s) = D(k) \cup {<<n, s>>}
        <4>1. 1 .. s = (1 .. k) \cup {s}
          OBVIOUS
        <4>2. QED
          BY <4>1
      <3>8. PassInv(d, D(k), after[k])
        BY <2>3
      <3> HIDE DEF D, s
      <3>9. Placing(d, D(k), after[k], n, s)
        BY <3>1, <3>4, <3>5, <3>6, <3>8, Zenon DEF Placing
      <3>10. PassInv(d, D(k) \cup {<<n, s>>}, AssignSlot(d, after[k], n, s))
        BY <3>9, SlotKeeps
      <3>11. PassInv(d, D(s), after[s])
        BY <3>2, <3>7, <3>10
      <3>12. QED
        BY <3>1, <3>11 DEF s
    <2> HIDE DEF S
    <2>4. \A k \in Nat : k < N /\ k \in S => k + 1 \in S
      BY <2>3
    <2>5. \A k \in 0 .. N : k \in S
      BY <1>1, <2>2, <2>4, UpTo
    <2>6. N \in S
      BY <1>1, <2>5
    <2>7. PassInv(d, D(N), after[N])
      BY <2>6 DEF S
    <2>8. AssignNode(d, st, n) = after[N]
      BY <2>1 DEF SlotStates
    <2>9. QED
      BY <1>2, <2>7, <2>8
  <1>5. QED
    BY <1>3, <1>4

LEMMA PassStarts ==
  ASSUME NEW d
  PROVE  PassInv(d, TensorsBefore(d, 1), NothingAssigned)
  <1> DEFINE D == TensorsBefore(d, 1)
             st == NothingAssigned
  <1>1. D = {}
    BY DEF TensorsBefore
  <1>2. st = [storage |-> << >>, pool |-> << >>, releases |-> << >>, allocated |-> 0]
    BY DEF NothingAssigned
  <1> HIDE DEF D, st
  <1>3. /\ st.storage = << >> /\ st.pool = << >> /\ st.releases = << >>
        /\ st.allocated = 0
        /\ st = [storage |-> st.storage, pool |-> st.pool,
                 releases |-> st.releases, allocated |-> st.allocated]
    BY <1>2
  <1>4. DOMAIN st.storage = {} /\ DOMAIN st.pool = {} /\ DOMAIN st.releases = {}
    BY <1>3
  <1>5. IsSeq(st.pool) /\ IsSeq(st.releases)
    BY <1>3 DEF IsSeq
  <1>6. StorageInv(D, st)
    BY <1>1, <1>3, <1>4 DEF StorageInv
  <1>7. SharedInv(d, D, st) /\ CallersInv(d, D, st) /\ AliasInv(d, D, st)
    BY <1>1 DEF SharedInv, CallersInv, AliasInv
  <1>8. PoolInv(d, D, st)
    BY <1>4, <1>5 DEF PoolInv
  <1>9. ReleaseInv(d, st)
    BY <1>4, <1>5 DEF ReleaseInv
  <1>10. PassInv(d, D, st)
    BY <1>6, <1>7, <1>8, <1>9 DEF PassInv
  <1>11. QED
    BY <1>10 DEF D, st

\* The whole pass.
LEMMA AssignTensorsPass ==
  ASSUME NEW d, Shaped(d), Functionalised(d)
  PROVE  PassInv(d, TensorsBefore(d, Len(d) + 1), AssignTensors(d))
  <1> DEFINE N == Len(d)
             At(f, n) == IF n = 0 THEN NothingAssigned ELSE AssignNode(d, f[n - 1], n)
             S == {k \in 0 .. N : \E f : f = [n \in 0 .. k |-> At(f, n)]}
             P(g) == g = [n \in 0 .. N |-> IF n = 0 THEN NothingAssigned
                                           ELSE AssignNode(d, g[n - 1], n)]
             after == CHOOSE g : P(g)
             T == {k \in 0 .. N : PassInv(d, TensorsBefore(d, k + 1), after[k])}
  <1>1. N \in Nat /\ DOMAIN d = 1 .. N
    BY GraphShape
  <1>2. 0 \in S
    <2>1. PICK f : f = [n \in 0 .. 0 |-> NothingAssigned]
      OBVIOUS
    <2>2. f = [n \in 0 .. 0 |-> At(f, n)]
      BY <2>1
    <2>3. 0 \in 0 .. N
      BY <1>1
    <2>4. QED
      BY <2>2, <2>3
  <1>3. ASSUME NEW k \in Nat, k < N, k \in S
        PROVE  k + 1 \in S
    <2>1. PICK f : f = [n \in 0 .. k |-> At(f, n)]
      BY <1>3
    <2>2. PICK g : g = [n \in 0 .. k + 1 |->
                          IF n <= k THEN f[n] ELSE AssignNode(d, f[k], k + 1)]
      OBVIOUS
    <2>3. \A n \in 0 .. k : g[n] = f[n]
      BY <2>2
    <2>4. ASSUME NEW n \in 0 .. k + 1
          PROVE  g[n] = At(g, n)
      <3>1. CASE n = 0
        <4>1. 0 \in 0 .. k
          OBVIOUS
        <4>2. f[0] = NothingAssigned
          BY <2>1, <4>1
        <4>3. QED
          BY <2>3, <3>1, <4>1, <4>2
      <3>2. CASE n # 0 /\ n <= k
        <4>1. n - 1 \in 0 .. k /\ n \in 0 .. k
          BY <3>2
        <4>2. f[n] = AssignNode(d, f[n - 1], n)
          BY <2>1, <3>2, <4>1
        <4>3. QED
          BY <2>3, <3>2, <4>1, <4>2
      <3>3. CASE n = k + 1
        <4>1. k \in 0 .. k /\ n - 1 = k /\ n # 0 /\ ~(n <= k)
          BY <3>3
        <4>2. g[n] = AssignNode(d, f[k], k + 1)
          BY <2>2, <4>1
        <4>3. QED
          BY <2>3, <3>3, <4>1, <4>2
      <3>4. QED
        BY <3>1, <3>2, <3>3
    <2> HIDE DEF At
    <2>5. g = [n \in 0 .. k + 1 |-> At(g, n)]
      BY <2>2, <2>4
    <2>6. k + 1 \in 0 .. N
      BY <1>1, <1>3
    <2>7. QED
      BY <2>5, <2>6
  <1>4. \E f : P(f)
    <2> HIDE DEF S
    <2>1. \A k \in Nat : k < N /\ k \in S => k + 1 \in S
      BY <1>3
    <2>2. \A k \in 0 .. N : k \in S
      BY <1>1, <1>2, <2>1, UpTo
    <2>3. N \in S
      BY <1>1, <2>2
    <2>4. QED
      BY <2>3 DEF S
  <1>5. AssignTensors(d) = after[N]
    BY DEF AssignTensors
  <1>6. P(after)
    <2> HIDE DEF P
    <2>1. QED
      BY <1>4
  <1> HIDE DEF after
  <1>7. 0 \in T
    <2>1. after[0] = NothingAssigned /\ 0 \in 0 .. N
      BY <1>1, <1>6
    <2>2. PassInv(d, TensorsBefore(d, 1), after[0])
      BY <2>1, PassStarts
    <2>3. QED
      BY <2>1, <2>2
  <1>8. ASSUME NEW k \in Nat, k < N, k \in T
        PROVE  k + 1 \in T
    <2>1. k + 1 \in 0 .. N /\ k + 1 # 0 /\ k + 1 - 1 = k /\ k + 1 \in DOMAIN d
      BY <1>1, <1>8
    <2>2. after[k + 1] = AssignNode(d, after[k], k + 1)
      BY <1>6, <2>1
    <2>3. PassInv(d, TensorsBefore(d, k + 1), after[k])
      BY <1>8
    <2>4. PassInv(d, TensorsBefore(d, k + 1 + 1), AssignNode(d, after[k], k + 1))
      BY <2>1, <2>3, NodeKeeps
    <2>5. QED
      BY <2>1, <2>2, <2>4
  <1> HIDE DEF T
  <1>9. \A k \in 0 .. N : k \in T
    <2>1. \A k \in Nat : k < N /\ k \in T => k + 1 \in T
      BY <1>8
    <2>2. QED
      BY <1>1, <1>7, <2>1, UpTo
  <1>10. N \in T
    BY <1>1, <1>9
  <1>11. QED
    BY <1>5, <1>10 DEF T

---------------------------------------------------------------------------
(* The rows of the program.                                                *)

\* r is the first n sequences of q one after the other, starting at offset.
Flat(S, q, offset, n, r) ==
  /\ r \in Seq(S) /\ Len(r) = offset[n] + Len(q[n])
  /\ \A m \in 1 .. n : \A i \in 1 .. Len(q[m]) :
       offset[m] + i \in 1 .. Len(r) /\ r[offset[m] + i] = q[m][i]
  /\ \A k \in 1 .. Len(r) : \E m \in 1 .. n : \E i \in 1 .. Len(q[m]) :
       k = offset[m] + i

LEMMA FlatMore ==
  ASSUME NEW S, NEW q, NEW offset, NEW n \in Nat \ {0}, NEW r, Flat(S, q, offset, n, r),
         q[n + 1] \in Seq(S), offset[n] \in Nat, Len(q[n]) \in Nat,
         offset[n + 1] = offset[n] + Len(q[n])
  PROVE  Flat(S, q, offset, n + 1, r \o q[n + 1])
  <1> DEFINE p == q[n + 1]
             t == r \o p
  <1>1. /\ r \in Seq(S) /\ Len(r) = offset[n + 1] /\ Len(r) \in Nat /\ p \in Seq(S)
        /\ Len(p) \in Nat
    BY DEF Flat
  <1>2. /\ t \in Seq(S) /\ Len(t) = Len(r) + Len(p)
        /\ \A i \in 1 .. Len(r) : t[i] = r[i]
        /\ \A i \in 1 .. Len(p) : t[i + Len(r)] = p[i]
    <2> HIDE DEF p
    <2>1. r \in Seq(S) /\ p \in Seq(S)
      BY <1>1
    <2>2. QED
      BY <2>1, ConcatIs
  <1> HIDE DEF t
  <1>3. ASSUME NEW m \in 1 .. n + 1, NEW i \in 1 .. Len(q[m])
        PROVE  offset[m] + i \in 1 .. Len(t) /\ t[offset[m] + i] = q[m][i]
    <2>1. CASE m \in 1 .. n
      <3>1. offset[m] + i \in 1 .. Len(r) /\ r[offset[m] + i] = q[m][i]
        BY <2>1 DEF Flat
      <3>2. offset[m] + i \in 1 .. Len(t)
        BY <1>1, <1>2, <3>1
      <3>3. QED
        BY <1>2, <3>1, <3>2, SMTT(30)
    <2>2. CASE m = n + 1
      <3>1. i \in 1 .. Len(p) /\ offset[m] + i = i + Len(r) /\ q[m][i] = p[i]
        BY <1>1, <2>2
      <3>2. i + Len(r) \in 1 .. Len(t)
        <4>1. PICK a \in Nat : a = Len(r)
          BY <1>1
        <4>2. PICK c \in Nat : c = Len(p)
          BY <1>1
        <4>3. Len(t) = a + c /\ i \in 1 .. c
          BY <1>2, <3>1, <4>1, <4>2
        <4>4. i + a \in 1 .. a + c
          BY <4>3
        <4>5. QED
          BY <4>1, <4>3, <4>4
      <3>3. QED
        BY <1>2, <3>1, <3>2, SMTT(30)
    <2>3. QED
      BY <2>1, <2>2
  <1>4. ASSUME NEW k \in 1 .. Len(t)
        PROVE  \E m \in 1 .. n + 1 : \E i \in 1 .. Len(q[m]) : k = offset[m] + i
    <2>1. CASE k \in 1 .. Len(r)
      <3>1. PICK m \in 1 .. n : \E i \in 1 .. Len(q[m]) : k = offset[m] + i
        BY <2>1 DEF Flat
      <3>2. m \in 1 .. n + 1
        OBVIOUS
      <3>3. QED
        BY <3>1, <3>2
    <2>2. CASE k \notin 1 .. Len(r)
      <3>1. k - Len(r) \in 1 .. Len(p) /\ k = Len(r) + (k - Len(r))
        <4>1. PICK a \in Nat : a = Len(r)
          BY <1>1
        <4>2. PICK b \in Nat : b = Len(p)
          BY <1>1
        <4>3. k \in 1 .. a + b /\ k \notin 1 .. a
          BY <1>2, <2>2, <4>1, <4>2
        <4>4. k - a \in 1 .. b /\ k = a + (k - a)
          BY <4>3
        <4>5. QED
          BY <4>1, <4>2, <4>4
      <3>2. n + 1 \in 1 .. n + 1
        OBVIOUS
      <3>3. k - Len(r) \in 1 .. Len(q[n + 1]) /\ k = offset[n + 1] + (k - Len(r))
        BY <1>1, <3>1
      <3>4. QED
        BY <3>2, <3>3
    <2>3. QED
      BY <2>1, <2>2
  <1>5. Len(t) = offset[n + 1] + Len(q[n + 1])
    BY <1>1, <1>2
  <1>6. Flat(S, q, offset, n + 1, t)
    BY <1>2, <1>3, <1>4, <1>5, Zenon DEF Flat
  <1>7. QED
    BY <1>6 DEF t

LEMMA FlattenSeqIs ==
  ASSUME NEW S, NEW N \in Nat \ {0}, NEW q \in [1 .. N -> Seq(S)], NEW offset,
         offset[1] = 0, \A n \in 1 .. N : offset[n] \in Nat,
         \A n \in 2 .. N : offset[n] = offset[n - 1] + Len(q[n - 1])
  PROVE  Flat(S, q, offset, N, FlattenSeq(q))
  <1> DEFINE At(f, n) == IF n = 1 THEN q[1] ELSE f[n - 1] \o q[n]
             T == {k \in 0 .. N : \E f : f = [n \in 1 .. k |-> At(f, n)]}
             P(g) == g = [n \in 1 .. N |-> IF n = 1 THEN q[n] ELSE g[n - 1] \o q[n]]
             flatten == CHOOSE g : P(g)
             U == {k \in 0 .. N : k >= 1 => Flat(S, q, offset, k, flatten[k])}
  <1>1. 0 \in T
    <2>1. PICK f : f = [n \in 1 .. 0 |-> << >>]
      OBVIOUS
    <2>2. f = [n \in 1 .. 0 |-> At(f, n)]
      BY <2>1
    <2>3. 0 \in 0 .. N
      OBVIOUS
    <2>4. QED
      BY <2>2, <2>3
  <1>2. ASSUME NEW k \in Nat, k < N, k \in T
        PROVE  k + 1 \in T
    <2>1. PICK f : f = [n \in 1 .. k |-> At(f, n)]
      BY <1>2
    <2>2. PICK g : g = [n \in 1 .. k + 1 |-> IF n <= k THEN f[n] ELSE At(f, k + 1)]
      OBVIOUS
    <2>3. \A n \in 1 .. k : g[n] = f[n]
      BY <2>2
    <2>4. ASSUME NEW n \in 1 .. k + 1
          PROVE  g[n] = At(g, n)
      <3>1. g[n] = At(f, n)
        <4>1. CASE n <= k
          <5>1. n \in 1 .. k
            BY <4>1
          <5>2. g[n] = f[n]
            BY <2>3, <5>1
          <5>3. QED
            BY <2>1, <5>1, <5>2
        <4>2. CASE ~(n <= k)
          <5>1. n = k + 1
            BY <4>2
          <5> HIDE DEF At
          <5>2. QED
            BY <2>2, <4>2, <5>1
        <4>3. QED
          BY <4>1, <4>2
      <3>2. n # 1 => n - 1 \in 1 .. k
        OBVIOUS
      <3>3. n # 1 => g[n - 1] = f[n - 1]
        BY <2>3, <3>2
      <3>4. QED
        BY <3>1, <3>3
    <2> HIDE DEF At
    <2>5. g = [n \in 1 .. k + 1 |-> At(g, n)]
      BY <2>2, <2>4
    <2>6. k + 1 \in 0 .. N
      BY <1>2
    <2>7. QED
      BY <2>5, <2>6
  <1>3. \E f : P(f)
    <2>1. ASSUME NEW f, f = [n \in 1 .. N |-> At(f, n)]
          PROVE  P(f)
      BY <2>1
    <2> HIDE DEF T, P, At
    <2>2. \A k \in Nat : k < N /\ k \in T => k + 1 \in T
      BY <1>2
    <2>3. \A k \in 0 .. N : k \in T
      BY <1>1, <2>2, UpTo
    <2>4. N \in T
      BY <2>3
    <2>5. QED
      BY <2>1, <2>4 DEF T
  <1>4. Len(q) = N
    <2>1. q \in Seq(Seq(S))
      OBVIOUS
    <2>2. QED
      BY <2>1
  <1>5. FlattenSeq(q) = flatten[N]
    BY <1>4 DEF FlattenSeq
  <1>6. P(flatten)
    <2> HIDE DEF P
    <2>1. QED
      BY <1>3
  <1> HIDE DEF flatten
  <1>7. flatten[1] = q[1] /\ \A n \in 2 .. N : flatten[n] = flatten[n - 1] \o q[n]
    <2>1. 1 \in 1 .. N
      OBVIOUS
    <2>2. \A n \in 2 .. N : n \in 1 .. N /\ n # 1
      OBVIOUS
    <2>3. DOMAIN flatten = 1 .. N
      BY <1>6
    <2>4. \A n \in 1 .. N : flatten[n] = IF n = 1 THEN q[n] ELSE flatten[n - 1] \o q[n]
      BY <1>6, Zenon
    <2>5. QED
      BY <2>1, <2>2, <2>4, Zenon
  <1>8. Flat(S, q, offset, 1, flatten[1])
    <2> DEFINE r == q[1]
    <2>1. r \in Seq(S) /\ Len(r) \in Nat
      OBVIOUS
    <2>2. Len(r) = offset[1] + Len(r)
      BY <2>1
    <2>3. \A i \in 1 .. Len(r) : offset[1] + i = i /\ i \in 1 .. Len(r)
      OBVIOUS
    <2> HIDE DEF r
    <2>4. \A m \in 1 .. 1 : m = 1
      OBVIOUS
    <2>5. /\ \A m \in 1 .. 1 : \A i \in 1 .. Len(q[m]) :
               offset[m] + i \in 1 .. Len(r) /\ r[offset[m] + i] = q[m][i]
          /\ \A k \in 1 .. Len(r) : \E m \in 1 .. 1 : \E i \in 1 .. Len(q[m]) :
               k = offset[m] + i
      BY <2>3, <2>4 DEF r
    <2>6. r = flatten[1] /\ r = q[1]
      BY <1>7 DEF r
    <2>7. QED
      BY <2>1, <2>2, <2>5, <2>6 DEF Flat
  <1>9. 0 \in U
    OBVIOUS
  <1>10. ASSUME NEW k \in Nat, k < N, k \in U
         PROVE  k + 1 \in U
    <2>1. CASE k = 0
      <3>1. k + 1 = 1 /\ 1 \in 0 .. N
        BY <2>1
      <3>2. QED
        BY <1>8, <3>1
    <2>2. CASE k # 0
      <3>1. k + 1 \in 0 .. N /\ k + 1 \in 2 .. N /\ k \in 1 .. N /\ k + 1 \in 1 .. N
            /\ k + 1 - 1 = k
        BY <1>10, <2>2
      <3>2. Flat(S, q, offset, k, flatten[k])
        BY <1>10, <2>2
      <3>3. /\ q[k + 1] \in Seq(S) /\ offset[k] \in Nat /\ Len(q[k]) \in Nat
            /\ offset[k + 1] = offset[k] + Len(q[k])
        BY <3>1
      <3>4. Flat(S, q, offset, k + 1, flatten[k] \o q[k + 1])
        BY <2>2, <3>2, <3>3, FlatMore
      <3>5. flatten[k + 1] = flatten[k] \o q[k + 1]
        <4>1. PICK l \in 2 .. N : l = k + 1 /\ l - 1 = k
          BY <3>1
        <4>2. flatten[l] = flatten[l - 1] \o q[l]
          BY <1>7, Zenon
        <4>3. QED
          BY <4>1, <4>2
      <3>6. QED
        BY <3>1, <3>4, <3>5
    <2>3. QED
      BY <2>1, <2>2
  <1> HIDE DEF U
  <1>11. \A k \in 0 .. N : k \in U
    <2>1. \A k \in Nat : k < N /\ k \in U => k + 1 \in U
      BY <1>10
    <2>2. QED
      BY <1>9, <2>1, UpTo
  <1>12. Flat(S, q, offset, N, flatten[N])
    <2>1. N \in U
      BY <1>11
    <2>2. QED
      BY <2>1 DEF U
  <1>13. QED
    BY <1>5, <1>12

\* The row of an instruction of the graph.
InstRow(d, q) == InstOffset(d)[q[1]] + q[2]

Laid(d, st, rows) ==
  /\ Len(rows) \in Nat /\ DOMAIN rows = 1 .. Len(rows) /\ Len(rows) % CLUSTER_SIZE = 0
  /\ \A q \in InstructionsOf(d) :
       /\ InstRow(d, q) \in DOMAIN rows
       /\ rows[InstRow(d, q)] = Instruction(d, st, AllInputBarriers(d), q[1], q[2])
  /\ \A k \in DOMAIN rows :
       rows[k] = Noop \/ \E q \in InstructionsOf(d) : k = InstRow(d, q)

LEMMA InstructionIs ==
  ASSUME NEW d, Shaped(d), NEW q
  PROVE  q \in InstructionsOf(d) <=>
           /\ q = <<q[1], q[2]>> /\ q[1] \in DOMAIN d /\ IsCompute(d, q[1])
           /\ q[2] \in 1 .. InstCount(d, q[1])
  <1>1. \A n \in DOMAIN d : IsCompute(d, n) => DOMAIN d[n].insts = 1 .. InstCount(d, n)
    BY GraphShape, Counts
  <1>2. ASSUME q \in InstructionsOf(d)
        PROVE  /\ q = <<q[1], q[2]>> /\ q[1] \in DOMAIN d /\ IsCompute(d, q[1])
               /\ q[2] \in 1 .. InstCount(d, q[1])
    <2>1. PICK n \in {x \in DOMAIN d : d[x].kind = "compute"} :
            q \in {<<n, i>> : i \in DOMAIN d[n].insts}
      BY <1>2 DEF InstructionsOf
    <2>2. PICK i \in DOMAIN d[n].insts : q = <<n, i>>
      BY <2>1
    <2>3. n \in DOMAIN d /\ IsCompute(d, n)
      BY DEF IsCompute
    <2>4. i \in 1 .. InstCount(d, n)
      BY <1>1, <2>3
    <2>5. QED
      BY <2>2, <2>3, <2>4
  <1>3. ASSUME q = <<q[1], q[2]>>, q[1] \in DOMAIN d, IsCompute(d, q[1]),
               q[2] \in 1 .. InstCount(d, q[1])
        PROVE  q \in InstructionsOf(d)
    <2>1. q[2] \in DOMAIN d[q[1]].insts
      BY <1>1, <1>3
    <2>2. q[1] \in {x \in DOMAIN d : d[x].kind = "compute"}
      BY <1>3 DEF IsCompute
    <2>3. q \in {<<q[1], i>> : i \in DOMAIN d[q[1]].insts}
      BY <1>3, <2>1
    <2>4. QED
      BY <2>2, <2>3 DEF InstructionsOf
  <1>4. QED
    BY <1>2, <1>3

\* Rows are in the order of the nodes.
LEMMA RowsOrdered ==
  ASSUME NEW d, Shaped(d), NEW q \in InstructionsOf(d), NEW r \in InstructionsOf(d)
  PROVE  /\ InstRow(d, q) \in Nat
         /\ q[1] < r[1] => InstRow(d, q) < InstRow(d, r)
         /\ InstRow(d, q) = InstRow(d, r) => q = r
  <1>1. /\ q = <<q[1], q[2]>> /\ q[1] \in DOMAIN d /\ q[2] \in 1 .. InstCount(d, q[1])
        /\ r = <<r[1], r[2]>> /\ r[1] \in DOMAIN d /\ r[2] \in 1 .. InstCount(d, r[1])
    BY InstructionIs
  <1>2. /\ q[1] \in Nat /\ r[1] \in Nat
        /\ InstOffset(d)[q[1]] \in Nat /\ InstOffset(d)[r[1]] \in Nat
        /\ InstCount(d, q[1]) \in Nat /\ InstCount(d, r[1]) \in Nat
        /\ Padded(InstCount(d, q[1])) \in Nat /\ Padded(InstCount(d, r[1])) \in Nat
        /\ InstCount(d, q[1]) <= Padded(InstCount(d, q[1]))
        /\ InstCount(d, r[1]) <= Padded(InstCount(d, r[1]))
    BY <1>1, GraphShape, OffsetsUnfold, Counts
  <1>3. q[1] < r[1] => InstRow(d, q) < InstRow(d, r)
    <2>1. q[1] < r[1] =>
            InstOffset(d)[q[1]] + Padded(InstCount(d, q[1])) <= InstOffset(d)[r[1]]
      BY <1>1, OffsetsGrow
    <2>2. QED
      BY <1>1, <1>2, <2>1 DEF InstRow
  <1>4. r[1] < q[1] => InstRow(d, r) < InstRow(d, q)
    <2>1. r[1] < q[1] =>
            InstOffset(d)[r[1]] + Padded(InstCount(d, r[1])) <= InstOffset(d)[q[1]]
      BY <1>1, OffsetsGrow
    <2>2. QED
      BY <1>1, <1>2, <2>1 DEF InstRow
  <1>5. InstRow(d, q) \in Nat /\ InstRow(d, r) \in Nat
    BY <1>1, <1>2 DEF InstRow
  <1>6. ASSUME InstRow(d, q) = InstRow(d, r)
        PROVE  q = r
    <2>1. q[1] = r[1]
      BY <1>2, <1>3, <1>4, <1>5, <1>6
    <2>2. q[2] = r[2]
      BY <1>1, <1>2, <1>6, <2>1 DEF InstRow
    <2>3. QED
      BY <1>1, <2>1, <2>2
  <1>7. QED
    BY <1>3, <1>5, <1>6

LEMMA Multiples ==
  ASSUME NEW a \in Nat, NEW b \in Nat, a % CLUSTER_SIZE = 0, b % CLUSTER_SIZE = 0
  PROVE  (a + b) % CLUSTER_SIZE = 0
  <1>1. CASE CLUSTER_SIZE = 1
    BY <1>1
  <1>2. CASE CLUSTER_SIZE = 2
    <2>1. a % 2 = 0 /\ b % 2 = 0
      BY <1>2
    <2>2. (a + b) % 2 = 0
      BY <2>1
    <2>3. QED
      BY <1>2, <2>2
  <1>3. QED
    BY <1>1, <1>2, SchedulingAssumption

LEMMA OffsetsAligned ==
  ASSUME NEW d, Shaped(d), NEW n \in DOMAIN d
  PROVE  InstOffset(d)[n] % CLUSTER_SIZE = 0
  <1> DEFINE N == Len(d)
             T == {k \in 0 .. N : k >= 1 => InstOffset(d)[k] % CLUSTER_SIZE = 0}
  <1>1. N \in Nat /\ DOMAIN d = 1 .. N
    BY GraphShape
  <1>2. 0 \in T
    BY <1>1
  <1>3. ASSUME NEW k \in Nat, k < N, k \in T
        PROVE  k + 1 \in T
    <2>1. k + 1 \in 0 .. N /\ k + 1 \in DOMAIN d /\ k + 1 - 1 = k
      BY <1>1, <1>3
    <2>2. CASE k = 0
      <3>1. InstOffset(d)[k + 1] = 0
        BY <2>1, <2>2, OffsetsUnfold
      <3>2. 0 % CLUSTER_SIZE = 0
        BY SchedulingAssumption
      <3>3. QED
        BY <2>1, <3>1, <3>2
    <2>3. CASE k # 0
      <3>1. k \in DOMAIN d /\ k + 1 # 1
        BY <1>1, <1>3, <2>3
      <3>2. InstOffset(d)[k + 1] = InstOffset(d)[k] + Padded(InstCount(d, k))
        BY <2>1, <3>1, OffsetsUnfold
      <3>3. InstOffset(d)[k] \in Nat /\ InstOffset(d)[k] % CLUSTER_SIZE = 0
        BY <1>3, <3>1, <2>3, OffsetsUnfold
      <3>4. Padded(InstCount(d, k)) \in Nat /\ Padded(InstCount(d, k)) % CLUSTER_SIZE = 0
        BY <3>1, Counts
      <3>5. (InstOffset(d)[k] + Padded(InstCount(d, k))) % CLUSTER_SIZE = 0
        BY <3>3, <3>4, Multiples
      <3>6. QED
        BY <2>1, <3>2, <3>5
    <2>4. QED
      BY <2>2, <2>3
  <1> HIDE DEF T
  <1>4. \A k \in 0 .. N : k \in T
    <2>1. \A k \in Nat : k < N /\ k \in T => k + 1 \in T
      BY <1>3
    <2>2. QED
      BY <1>1, <1>2, <2>1, UpTo
  <1>5. n \in T /\ n >= 1
    BY <1>1, <1>4
  <1>6. QED
    BY <1>5 DEF T

LEMMA RowsLaid ==
  ASSUME NEW d, Shaped(d), NEW st
  PROVE  Laid(d, st, GenerateInstructions(d, st))
  <1> DEFINE N == Len(d)
             inputBarriers == AllInputBarriers(d)
             inst(n, i) == Instruction(d, st, inputBarriers, n, i)
             entry(n, i) == IF i <= InstCount(d, n) THEN inst(n, i) ELSE Noop
             padded(n) == [i \in 1 .. Padded(InstCount(d, n)) |-> entry(n, i)]
             q == [n \in DOMAIN d |-> padded(n)]
             rows == GenerateInstructions(d, st)
             S == {Noop} \cup UNION {{entry(n, i) : i \in 1 .. Padded(InstCount(d, n))} :
                                       n \in DOMAIN d}
             offset == InstOffset(d)
  <1>1. N \in Nat /\ DOMAIN d = 1 .. N
    BY GraphShape
  <1>2. rows = FlattenSeq(q)
    BY Zenon DEF GenerateInstructions
  <1>3. \A n \in 1 .. N : Padded(InstCount(d, n)) \in Nat
    BY <1>1, Counts
  <1>4. CASE N = 0
    <2>1. DOMAIN q = {} /\ Len(q) = 0
      <3>1. q \in [1 .. 0 -> {}]
        BY <1>1, <1>4
      <3>2. q \in Seq({})
        BY <3>1
      <3>3. QED
        BY <1>1, <1>4, <3>2
    <2>2. rows = q
      BY <1>2, <2>1 DEF FlattenSeq
    <2>3. InstructionsOf(d) = {}
      BY <1>1, <1>4 DEF InstructionsOf
    <2>4. 0 % CLUSTER_SIZE = 0
      BY SchedulingAssumption
    <2> HIDE DEF rows, q
    <2>5. DOMAIN rows = {} /\ Len(rows) = 0 /\ 1 .. 0 = {}
      BY <2>1, <2>2
    <2>6. Laid(d, st, rows)
      BY <2>3, <2>4, <2>5 DEF Laid
    <2>7. QED
      BY <2>6 DEF rows
  <1>5. CASE N # 0
    <2>1. q \in [1 .. N -> Seq(S)]
      <3>1. ASSUME NEW n \in 1 .. N
            PROVE  padded(n) \in Seq(S)
        <4>1. \A i \in 1 .. Padded(InstCount(d, n)) : entry(n, i) \in S
          BY <1>1
        <4> HIDE DEF S, entry
        <4>2. padded(n) \in [1 .. Padded(InstCount(d, n)) -> S]
          BY <4>1
        <4>3. QED
          BY <1>3, <4>2
      <3>2. QED
        BY <1>1, <3>1
    <2>2. \A n \in 1 .. N : Len(q[n]) = Padded(InstCount(d, n))
      <3>1. ASSUME NEW n \in 1 .. N
            PROVE  Len(q[n]) = Padded(InstCount(d, n))
        <4>1. q[n] \in Seq(S) /\ q[n] = padded(n)
          BY <1>1, <2>1
        <4>2. DOMAIN q[n] = 1 .. Padded(InstCount(d, n))
          BY <4>1
        <4> HIDE DEF q, S, padded
        <4>3. PICK l \in Nat : l = Len(q[n]) /\ DOMAIN q[n] = 1 .. l
          BY <4>1
        <4>4. QED
          BY <1>3, <4>2, <4>3
      <3>2. QED
        BY <3>1
    <2>3. \A n \in 1 .. N : \A i \in 1 .. Padded(InstCount(d, n)) : q[n][i] = entry(n, i)
      BY <1>1
    <2>4. /\ offset[1] = 0 /\ \A n \in 1 .. N : offset[n] \in Nat
          /\ \A n \in 2 .. N : offset[n] = offset[n - 1] + Padded(InstCount(d, n - 1))
      <3>1. 1 \in DOMAIN d
        BY <1>1, <1>5
      <3>2. \A n \in 2 .. N : n \in DOMAIN d /\ n # 1
        BY <1>1
      <3>3. QED
        BY <1>1, <3>1, <3>2, OffsetsUnfold
    <2> HIDE DEF q, S, entry, rows, offset
    <2>5. \A n \in 2 .. N : offset[n] = offset[n - 1] + Len(q[n - 1])
      <3>1. \A n \in 2 .. N : n - 1 \in 1 .. N
        BY <1>1
      <3>2. QED
        BY <2>2, <2>4, <3>1
    <2>6. N \in Nat \ {0} /\ offset[1] = 0 /\ \A n \in 1 .. N : offset[n] \in Nat
      BY <1>1, <1>5, <2>4
    <2>7. Flat(S, q, offset, N, rows)
      BY <1>2, <2>1, <2>5, <2>6, FlattenSeqIs
    <2>8. N \in 1 .. N
      BY <2>6
    <2>9. Len(rows) = offset[N] + Padded(InstCount(d, N))
      BY <2>2, <2>7, <2>8 DEF Flat
    <2>10. DOMAIN rows = 1 .. Len(rows) /\ Len(rows) \in Nat
      BY <2>7 DEF Flat
    <2>11. Len(rows) % CLUSTER_SIZE = 0
      <3>1. N \in DOMAIN d
        BY <1>1, <2>8
      <3>2. offset[N] \in Nat /\ offset[N] % CLUSTER_SIZE = 0
        BY <2>6, <2>8, <3>1, OffsetsAligned DEF offset
      <3>3. Padded(InstCount(d, N)) \in Nat /\ Padded(InstCount(d, N)) % CLUSTER_SIZE = 0
        BY <3>1, Counts
      <3>4. QED
        BY <2>9, <3>2, <3>3, Multiples
    <2>12. ASSUME NEW x \in InstructionsOf(d)
           PROVE  /\ InstRow(d, x) \in DOMAIN rows
                  /\ rows[InstRow(d, x)] = inst(x[1], x[2])
      <3>1. x[1] \in DOMAIN d /\ x[2] \in 1 .. InstCount(d, x[1])
        BY InstructionIs
      <3>2. x[1] \in 1 .. N /\ x[2] \in 1 .. Padded(InstCount(d, x[1]))
            /\ x[2] <= InstCount(d, x[1])
        BY <1>1, <3>1, Counts
      <3>3. /\ offset[x[1]] + x[2] \in 1 .. Len(rows)
            /\ rows[offset[x[1]] + x[2]] = q[x[1]][x[2]]
        BY <2>2, <2>7, <3>2 DEF Flat
      <3>4. q[x[1]][x[2]] = inst(x[1], x[2])
        BY <2>3, <3>2 DEF entry
      <3>5. QED
        BY <2>10, <3>3, <3>4 DEF InstRow, offset
    <2>13. ASSUME NEW k \in DOMAIN rows
           PROVE  rows[k] = Noop \/ \E x \in InstructionsOf(d) : k = InstRow(d, x)
      <3>1. k \in 1 .. Len(rows)
        BY <2>10
      <3>2. PICK n \in 1 .. N : \E i \in 1 .. Len(q[n]) : k = offset[n] + i
        BY <2>7, <3>1 DEF Flat
      <3>3. PICK i \in 1 .. Padded(InstCount(d, n)) : k = offset[n] + i
        BY <2>2, <3>2
      <3>4. rows[k] = entry(n, i)
        BY <2>2, <2>3, <2>7, <3>3 DEF Flat
      <3>5. CASE ~(i <= InstCount(d, n))
        BY <3>4, <3>5 DEF entry
      <3>6. CASE i <= InstCount(d, n)
        <4>1. n \in DOMAIN d /\ InstCount(d, n) \in Nat
          BY <1>1, Counts
        <4>2. i \in 1 .. InstCount(d, n) /\ InstCount(d, n) # 0
          BY <3>6, <4>1
        <4>3. IsCompute(d, n)
          BY <4>1, <4>2, Counts
        <4>4. <<n, i>> \in InstructionsOf(d)
          BY <4>1, <4>2, <4>3, InstructionIs
        <4>5. k = InstRow(d, <<n, i>>)
          BY <3>3 DEF InstRow, offset
        <4>6. QED
          BY <4>4, <4>5
      <3>7. QED
        BY <3>5, <3>6
    <2>14. Laid(d, st, rows)
      BY <2>10, <2>11, <2>12, <2>13, Zenon DEF Laid
    <2>15. QED
      BY <2>14 DEF rows
  <1>6. QED
    BY <1>4, <1>5

---------------------------------------------------------------------------
(* What an instruction waits for, arrives at, reads and writes.            *)

\* Instruction q waits for the data of its edge e, at this barrier.
WaitsFor(d, q, e) ==
  /\ e \in DOMAIN d[q[1]].ins
  /\ IsCompute(d, d[q[1]].ins[e][1]) /\ Dependencies(d, q[1], q[2], e) # {}

DataBarrier(d, q, e) ==
  <<"input", d[q[1]].ins[e][1], Dependencies(d, q[1], q[2], e)>>

LEMMA ListFinite ==
  ASSUME NEW S, NEW s \in Seq(S)
  PROVE  IsFiniteSet(ToSet(s))
  <1> DEFINE f == [i \in 1 .. Len(s) |-> {s[i]}]
  <1>1. Len(s) \in Nat /\ DOMAIN s = 1 .. Len(s)
    OBVIOUS
  <1>2. \A i \in 1 .. Len(s) : f[i] = {s[i]}
    OBVIOUS
  <1>3. \A i \in 1 .. Len(s) : IsFiniteSet(f[i])
    BY <1>2, FS_Singleton
  <1> HIDE DEF f
  <1>4. IsFiniteSet(UNION {f[i] : i \in 1 .. Len(s)})
    BY <1>1, <1>3, FiniteUnion
  <1>5. ToSet(s) \subseteq UNION {f[i] : i \in 1 .. Len(s)}
    <2>1. ASSUME NEW x \in ToSet(s)
          PROVE  x \in UNION {f[i] : i \in 1 .. Len(s)}
      <3>1. PICK i \in 1 .. Len(s) : x = s[i]
        BY <1>1 DEF ToSet
      <3>2. x \in f[i]
        BY <1>2, <3>1
      <3>3. QED
        BY <3>2
    <2>2. QED
      BY <2>1
  <1>6. QED
    BY <1>4, <1>5, FS_Subset

LEMMA DependenciesAre ==
  ASSUME NEW d, Shaped(d), NEW q, NEW e, WaitsFor(d, q, e), q[1] \in DOMAIN d
  PROVE  /\ d[q[1]].ins[e][1] \in DOMAIN d /\ d[q[1]].ins[e][1] < q[1]
         /\ \A j \in Dependencies(d, q[1], q[2], e) :
              <<d[q[1]].ins[e][1], j>> \in InstructionsOf(d)
  <1> DEFINE m == d[q[1]].ins[e][1]
  <1>1. m \in DOMAIN d /\ m < q[1] /\ IsCompute(d, m)
    BY EdgeShape DEF WaitsFor
  <1>2. \A j \in Dependencies(d, q[1], q[2], e) : j \in DOMAIN d[m].insts
    BY DEF Dependencies
  <1>3. DOMAIN d[m].insts = 1 .. InstCount(d, m)
    BY <1>1, GraphShape, Counts
  <1> HIDE DEF m
  <1>4. ASSUME NEW j \in Dependencies(d, q[1], q[2], e)
        PROVE  <<m, j>> \in InstructionsOf(d)
    <2>1. j \in 1 .. InstCount(d, m)
      BY <1>2, <1>3
    <2>2. QED
      BY <1>1, <2>1, InstructionIs
  <1>5. QED
    BY <1>1, <1>4 DEF m

LEMMA InputsAre ==
  ASSUME NEW d, Shaped(d), NEW q, q[1] \in DOMAIN d
  PROVE  /\ InputBarriers(d, q[1], q[2]) \in Seq(ToSet(InputBarriers(d, q[1], q[2])))
         /\ \A b : b \in ToSet(InputBarriers(d, q[1], q[2])) <=>
              \E e : WaitsFor(d, q, e) /\ b = DataBarrier(d, q, e)
  <1> DEFINE E == {e \in DOMAIN d[q[1]].ins :
                     /\ IsCompute(d, d[q[1]].ins[e][1])
                     /\ Dependencies(d, q[1], q[2], e) # {}}
             edges == SetToSeq(E)
             s == InputBarriers(d, q[1], q[2])
  <1>1. IsFiniteSet(E)
    <2>1. DOMAIN d[q[1]].ins = 1 .. Len(d[q[1]].ins) /\ Len(d[q[1]].ins) \in Nat
      BY GraphShape
    <2>2. IsFiniteSet(DOMAIN d[q[1]].ins)
      BY <2>1, IntervalSize
    <2>3. QED
      BY <2>2, FS_Subset
  <1>2. \A e : e \in E <=> WaitsFor(d, q, e)
    BY DEF WaitsFor
  <1>3. s = [x \in DOMAIN edges |->
               <<"input", d[q[1]].ins[edges[x]][1], Dependencies(d, q[1], q[2], edges[x])>>]
    BY DEF InputBarriers
  <1> HIDE DEF E
  <1>4. Cardinality(E) \in Nat /\ DOMAIN edges = 1 .. Cardinality(E) /\ ToSet(edges) = E
    BY <1>1, ListsEach
  <1> HIDE DEF edges, s
  <1>5. DOMAIN s = 1 .. Cardinality(E) /\ \A x \in DOMAIN s : s[x] = DataBarrier(d, q, edges[x])
    BY <1>3, <1>4 DEF DataBarrier
  <1>6. s \in Seq(ToSet(s))
    <2>1. s \in [1 .. Cardinality(E) -> ToSet(s)]
      BY <1>3, <1>5 DEF ToSet
    <2>2. QED
      BY <1>4, <2>1
  <1>7. \A e : e \in E <=> \E x \in DOMAIN s : e = edges[x]
    BY <1>4, <1>5 DEF ToSet
  <1>8. ASSUME NEW b
        PROVE  b \in ToSet(s) <=> \E e : WaitsFor(d, q, e) /\ b = DataBarrier(d, q, e)
    <2>1. b \in ToSet(s) <=> \E x \in DOMAIN s : b = s[x]
      BY DEF ToSet
    <2>2. QED
      BY <1>2, <1>5, <1>7, <2>1
  <1>9. QED
    BY <1>6, <1>8 DEF s

LEMMA AllInputsAre ==
  ASSUME NEW d, Shaped(d)
  PROVE  /\ IsFiniteSet(AllInputBarriers(d))
         /\ \A b : b \in AllInputBarriers(d) <=>
              \E q \in InstructionsOf(d) : b \in ToSet(InputBarriers(d, q[1], q[2]))
  <1> DEFINE of(n) == UNION {ToSet(InputBarriers(d, n, i)) : i \in 1 .. InstCount(d, n)}
             all == AllInputBarriers(d)
  <1>1. Len(d) \in Nat /\ DOMAIN d = 1 .. Len(d)
    BY GraphShape
  <1>2. all = UNION {of(n) : n \in DOMAIN d}
    BY DEF AllInputBarriers
  <1>3. ASSUME NEW n \in DOMAIN d
        PROVE  IsFiniteSet(of(n))
    <2> DEFINE f == [i \in 1 .. InstCount(d, n) |-> ToSet(InputBarriers(d, n, i))]
    <2>1. InstCount(d, n) \in Nat
      BY Counts
    <2>2. \A i \in 1 .. InstCount(d, n) : f[i] = ToSet(InputBarriers(d, n, i))
      OBVIOUS
    <2> HIDE DEF f
    <2>3. ASSUME NEW i \in 1 .. InstCount(d, n)
          PROVE  IsFiniteSet(f[i])
      <3> DEFINE q == <<n, i>>
      <3>1. q[1] \in DOMAIN d /\ q[1] = n /\ q[2] = i
        OBVIOUS
      <3> HIDE DEF q
      <3>2. InputBarriers(d, q[1], q[2]) \in Seq(ToSet(InputBarriers(d, q[1], q[2])))
        BY <3>1, InputsAre
      <3>3. IsFiniteSet(ToSet(InputBarriers(d, n, i)))
        BY <3>1, <3>2, ListFinite
      <3>4. QED
        BY <2>2, <3>3
    <2>4. IsFiniteSet(UNION {f[i] : i \in 1 .. InstCount(d, n)})
      BY <2>1, <2>3, FiniteUnion
    <2>5. UNION {f[i] : i \in 1 .. InstCount(d, n)} = of(n)
      BY <2>2
    <2>6. QED
      BY <2>4, <2>5
  <1> HIDE DEF of, all
  <1>4. IsFiniteSet(all)
    <2> DEFINE f == [n \in 1 .. Len(d) |-> of(n)]
    <2>1. \A n \in 1 .. Len(d) : f[n] = of(n)
      OBVIOUS
    <2> HIDE DEF f
    <2>2. \A n \in 1 .. Len(d) : IsFiniteSet(f[n])
      BY <1>1, <1>3, <2>1
    <2>3. IsFiniteSet(UNION {f[n] : n \in 1 .. Len(d)})
      BY <1>1, <2>2, FiniteUnion
    <2>4. UNION {f[n] : n \in 1 .. Len(d)} = all
      BY <1>1, <1>2, <2>1
    <2>5. QED
      BY <2>3, <2>4
  <1>5. ASSUME NEW b, b \in all
        PROVE  \E q \in InstructionsOf(d) : b \in ToSet(InputBarriers(d, q[1], q[2]))
    <2>1. PICK n \in DOMAIN d : b \in of(n)
      BY <1>2, <1>5
    <2>2. PICK i \in 1 .. InstCount(d, n) : b \in ToSet(InputBarriers(d, n, i))
      BY <2>1 DEF of
    <2>3. InstCount(d, n) \in Nat /\ InstCount(d, n) # 0
      BY Counts
    <2>4. IsCompute(d, n)
      BY <2>3, Counts
    <2>5. <<n, i>> \in InstructionsOf(d)
      BY <2>4, InstructionIs
    <2>6. QED
      BY <2>2, <2>5
  <1>6. ASSUME NEW b, NEW q \in InstructionsOf(d), b \in ToSet(InputBarriers(d, q[1], q[2]))
        PROVE  b \in all
    <2>1. q[1] \in DOMAIN d /\ q[2] \in 1 .. InstCount(d, q[1])
      BY InstructionIs
    <2>2. b \in of(q[1])
      BY <1>6, <2>1 DEF of
    <2>3. QED
      BY <1>2, <2>1, <2>2
  <1>7. QED
    BY <1>4, <1>5, <1>6 DEF all

LEMMA ReusesAre ==
  ASSUME NEW releases, IsSeq(releases), NEW n
  PROVE  /\ SetToSeq(ReuseBarriers(releases, n)) \in Seq(ReuseBarriers(releases, n))
         /\ ToSet(SetToSeq(ReuseBarriers(releases, n))) = ReuseBarriers(releases, n)
  <1> DEFINE R == ReuseBarriers(releases, n)
             s == [k \in DOMAIN releases |-> ReuseBarrier(k)]
  <1>1. releases \in Seq(ToSet(releases))
    BY DEF IsSeq
  <1>2. Len(releases) \in Nat /\ DOMAIN releases = 1 .. Len(releases)
    BY <1>1
  <1>3. s \in Seq(ToSet(s))
    <2>1. s \in [1 .. Len(releases) -> ToSet(s)]
      BY <1>2 DEF ToSet
    <2> HIDE DEF s
    <2>2. QED
      BY <1>2, <2>1
  <1>4. R \subseteq ToSet(s)
    BY DEF ReuseBarriers, ToSet
  <1> HIDE DEF s, R
  <1>5. IsFiniteSet(R)
    BY <1>3, <1>4, ListFinite, FS_Subset
  <1>6. SetToSeq(R) \in Seq(R) /\ ToSet(SetToSeq(R)) = R
    BY <1>5, ListsEach
  <1>7. QED
    BY <1>6 DEF R

LEMMA ListedAre ==
  ASSUME NEW d, NEW st, ReleaseInv(d, st), NEW n
  PROVE  /\ IsFiniteSet(Listed(st.releases, n))
         /\ \A x : x \in Listed(st.releases, n) <=>
              /\ x = <<x[1], x[2]>> /\ x[1] \in DOMAIN st.releases
              /\ x[2] \in DOMAIN st.releases[x[1]].ids
              /\ st.releases[x[1]].ids[x[2]] = n
  <1> DEFINE R == st.releases
             L == Listed(R, n)
             of(k) == {<<k, x>> : x \in {y \in DOMAIN R[k].ids : R[k].ids[y] = n}}
             f == [k \in 1 .. Len(R) |-> {k} \X DOMAIN R[k].ids]
  <1>1. R \in Seq(ToSet(R)) /\ \A k \in DOMAIN R : R[k].ids \in Seq(DOMAIN d)
    BY DEF ReleaseInv, IsSeq
  <1>2. Len(R) \in Nat /\ DOMAIN R = 1 .. Len(R)
    BY <1>1
  <1>3. L = UNION {of(k) : k \in DOMAIN R}
    BY DEF Listed
  <1>4. ASSUME NEW x
        PROVE  x \in L <=> /\ x = <<x[1], x[2]>> /\ x[1] \in DOMAIN R
                           /\ x[2] \in DOMAIN R[x[1]].ids /\ R[x[1]].ids[x[2]] = n
    <2>1. ASSUME x \in L
          PROVE  /\ x = <<x[1], x[2]>> /\ x[1] \in DOMAIN R
                 /\ x[2] \in DOMAIN R[x[1]].ids /\ R[x[1]].ids[x[2]] = n
      <3>1. PICK k \in DOMAIN R : x \in of(k)
        BY <1>3, <2>1
      <3>2. PICK y \in DOMAIN R[k].ids : R[k].ids[y] = n /\ x = <<k, y>>
        BY <3>1
      <3>3. QED
        BY <3>2
    <2>2. ASSUME x = <<x[1], x[2]>>, x[1] \in DOMAIN R,
                 x[2] \in DOMAIN R[x[1]].ids, R[x[1]].ids[x[2]] = n
          PROVE  x \in L
      <3>1. x \in of(x[1])
        BY <2>2
      <3>2. QED
        BY <1>3, <2>2, <3>1
    <2>3. QED
      BY <2>1, <2>2
  <1>5. \A k \in 1 .. Len(R) : f[k] = {k} \X DOMAIN R[k].ids
    OBVIOUS
  <1>6. ASSUME NEW k \in 1 .. Len(R)
        PROVE  IsFiniteSet(f[k])
    <2> DEFINE I == DOMAIN R[k].ids
    <2>1. R[k].ids \in Seq(DOMAIN d)
      BY <1>1, <1>2
    <2>2. Len(R[k].ids) \in Nat /\ I = 1 .. Len(R[k].ids)
      BY <2>1
    <2>3. IsFiniteSet(I)
      BY <2>2, IntervalSize
    <2>4. IsFiniteSet({k})
      BY FS_Singleton
    <2> HIDE DEF I
    <2>5. IsFiniteSet({k} \X I)
      BY <2>3, <2>4, FS_Product
    <2>6. QED
      BY <1>5, <2>5 DEF I
  <1> HIDE DEF f, L, R, of
  <1>7. IsFiniteSet(UNION {f[k] : k \in 1 .. Len(R)})
    BY <1>2, <1>6, FiniteUnion
  <1>8. L \subseteq UNION {f[k] : k \in 1 .. Len(R)}
    <2>1. ASSUME NEW x \in L
          PROVE  x \in UNION {f[k] : k \in 1 .. Len(R)}
      <3>1. x = <<x[1], x[2]>> /\ x[1] \in 1 .. Len(R) /\ x[2] \in DOMAIN R[x[1]].ids
        BY <1>2, <1>4
      <3>2. x \in f[x[1]]
        BY <1>5, <3>1
      <3>3. QED
        BY <3>1, <3>2
    <2>2. QED
      BY <2>1
  <1>9. IsFiniteSet(L)
    BY <1>7, <1>8, FS_Subset
  <1>10. QED
    BY <1>4, <1>9 DEF L, R

\* The data barriers that instruction q arrives at.
DataArrivals(d, q) == {b \in AllInputBarriers(d) : b[2] = q[1] /\ q[2] \in b[3]}

\* An instruction's arrivals: first the a data barriers, then the releases
\* that L names.
ArrivalList(d, st, q, arrivals, a, L) ==
  /\ a \in Nat /\ Len(L) \in Nat /\ DOMAIN L = 1 .. Len(L)
  /\ arrivals \in Seq(ToSet(arrivals))
  /\ Len(arrivals) = a + Len(L) /\ DOMAIN arrivals = 1 .. a + Len(L)
  /\ \A y \in 1 .. a : arrivals[y] \in DataArrivals(d, q)
  /\ \A b \in DataArrivals(d, q) : \E y \in 1 .. a : arrivals[y] = b
  /\ \A x, y \in 1 .. a : arrivals[x] = arrivals[y] => x = y
  /\ \A y \in 1 .. Len(L) :
       /\ L[y] \in Listed(st.releases, q[1])
       /\ arrivals[y + a] = ReuseBarrier(L[y][1])
  /\ \A x \in Listed(st.releases, q[1]) : \E y \in 1 .. Len(L) : L[y] = x
  /\ \A x, y \in 1 .. Len(L) : L[x] = L[y] => x = y

ArrivalsOf(d, st, q) == Arrivals(AllInputBarriers(d), st.releases, q[1], q[2])

LEMMA ArrivalsAre ==
  ASSUME NEW d, Shaped(d), NEW st, ReleaseInv(d, st), NEW q
  PROVE  \E a, L : ArrivalList(d, st, q, ArrivalsOf(d, st, q), a, L)
  <1> DEFINE F == DataArrivals(d, q)
             A == SetToSeq(F)
             G == Listed(st.releases, q[1])
             L == SetToSeq(G)
             B == [y \in DOMAIN L |-> ReuseBarrier(L[y][1])]
             a == Cardinality(F)
             arrivals == ArrivalsOf(d, st, q)
             U == ToSet(A) \cup ToSet(B)
  <1>1. IsFiniteSet(F)
    BY AllInputsAre, FS_Subset DEF DataArrivals
  <1>2. IsFiniteSet(G)
    BY ListedAre
  <1>3. arrivals = A \o B
    BY DEF ArrivalsOf, Arrivals, DataArrivals
  <1> HIDE DEF F, G, A, L, B, arrivals, U, a
  <1>4. /\ a \in Nat /\ A \in Seq(F) /\ Len(A) = a /\ DOMAIN A = 1 .. a /\ ToSet(A) = F
        /\ \A i, j \in DOMAIN A : A[i] = A[j] => i = j
    BY <1>1, ListsEach DEF A, a
  <1>5. /\ L \in Seq(G) /\ ToSet(L) = G
        /\ \A i, j \in DOMAIN L : L[i] = L[j] => i = j
    BY <1>2, ListsEach DEF L
  <1>6. Len(L) \in Nat /\ DOMAIN L = 1 .. Len(L)
    BY <1>5
  <1>7. /\ DOMAIN B = 1 .. Len(L)
        /\ \A y \in 1 .. Len(L) : B[y] = ReuseBarrier(L[y][1])
    BY <1>6 DEF B
  <1>8. A \in Seq(U) /\ B \in Seq(U) /\ Len(B) = Len(L)
    <2>1. A \in [1 .. a -> U]
      <3>1. \A i \in DOMAIN A : A[i] \in U
        BY DEF ToSet, U
      <3>2. A = [i \in DOMAIN A |-> A[i]]
        BY <1>4
      <3>3. QED
        BY <1>4, <3>1, <3>2
    <2>2. B \in [1 .. Len(L) -> U]
      <3>1. \A i \in DOMAIN B : B[i] \in U
        BY DEF ToSet, U
      <3>2. B = [i \in DOMAIN B |-> B[i]]
        BY DEF B
      <3>3. QED
        BY <1>7, <3>1, <3>2
    <2>3. A \in Seq(U) /\ B \in Seq(U)
      BY <1>4, <1>6, <2>1, <2>2
    <2>4. QED
      BY <1>6, <1>7, <2>3
  <1>9. /\ A \o B \in Seq(U) /\ Len(A \o B) = Len(A) + Len(B)
        /\ \A i \in 1 .. Len(A) : (A \o B)[i] = A[i]
        /\ \A i \in 1 .. Len(B) : (A \o B)[i + Len(A)] = B[i]
    <2>1. A \in Seq(U) /\ B \in Seq(U)
      BY <1>8
    <2>2. QED
      BY <2>1, ConcatIs
  <1>10. /\ arrivals \in Seq(U) /\ Len(arrivals) = a + Len(L)
         /\ \A i \in 1 .. a : arrivals[i] = A[i]
         /\ \A i \in 1 .. Len(L) : arrivals[i + a] = B[i]
    BY <1>3, <1>4, <1>8, <1>9
  <1>11. DOMAIN arrivals = 1 .. a + Len(L)
    BY <1>10
  <1>12. arrivals \in Seq(ToSet(arrivals))
    <2>1. arrivals = [i \in DOMAIN arrivals |-> arrivals[i]]
      BY <1>10
    <2>2. arrivals \in [1 .. a + Len(L) -> ToSet(arrivals)]
      BY <1>11, <2>1 DEF ToSet
    <2>3. a + Len(L) \in Nat
      BY <1>4, <1>6
    <2>4. QED
      BY <2>2, <2>3
  <1>13. /\ \A y \in 1 .. a : arrivals[y] \in F
         /\ \A b \in F : \E y \in 1 .. a : arrivals[y] = b
         /\ \A x, y \in 1 .. a : arrivals[x] = arrivals[y] => x = y
    <2>1. \A y \in 1 .. a : A[y] \in F
      BY <1>4 DEF ToSet
    <2>2. \A b \in F : \E y \in 1 .. a : A[y] = b
      BY <1>4 DEF ToSet
    <2>3. \A x, y \in 1 .. a : A[x] = A[y] => x = y
      BY <1>4
    <2>4. \A i \in 1 .. a : arrivals[i] = A[i]
      BY <1>10
    <2>5. QED
      BY <2>1, <2>2, <2>3, <2>4, Zenon
  <1>14. /\ \A y \in 1 .. Len(L) : L[y] \in G /\ arrivals[y + a] = ReuseBarrier(L[y][1])
         /\ \A x \in G : \E y \in 1 .. Len(L) : L[y] = x
         /\ \A x, y \in 1 .. Len(L) : L[x] = L[y] => x = y
    <2>1. \A y \in 1 .. Len(L) : L[y] \in G
      BY <1>5, <1>6 DEF ToSet
    <2>2. \A x \in G : \E y \in 1 .. Len(L) : L[y] = x
      BY <1>5, <1>6 DEF ToSet
    <2>3. QED
      BY <1>5, <1>6, <1>7, <1>10, <2>1, <2>2
  <1>15. ArrivalList(d, st, q, arrivals, a, L)
    BY <1>4, <1>6, <1>10, <1>11, <1>12, <1>13, <1>14, Zenon DEF ArrivalList, F, G
  <1>16. QED
    BY <1>15 DEF arrivals

\* A data barrier and a release barrier are different.
LEMMA BarrierKinds ==
  ASSUME NEW d, Shaped(d), NEW b \in AllInputBarriers(d)
  PROVE  /\ b[1] = "input" /\ \A k : b # ReuseBarrier(k)
         /\ \E q \in InstructionsOf(d) : \E e : WaitsFor(d, q, e) /\ b = DataBarrier(d, q, e)
  <1>1. PICK q \in InstructionsOf(d) : b \in ToSet(InputBarriers(d, q[1], q[2]))
    BY AllInputsAre
  <1>2. q[1] \in DOMAIN d
    BY InstructionIs
  <1>3. PICK e : WaitsFor(d, q, e) /\ b = DataBarrier(d, q, e)
    <2>1. \A c : c \in ToSet(InputBarriers(d, q[1], q[2])) <=>
                  \E e : WaitsFor(d, q, e) /\ c = DataBarrier(d, q, e)
      BY <1>2, InputsAre
    <2>2. QED
      BY <1>1, <2>1, Zenon
  <1>4. b[1] = "input"
    BY <1>3 DEF DataBarrier
  <1>5. \A k : ReuseBarrier(k)[1] = "reuse"
    BY DEF ReuseBarrier
  <1>6. QED
    BY <1>3, <1>4, <1>5

\* What an instruction arrives at.
LEMMA ArrivesAt ==
  ASSUME NEW d, Shaped(d), NEW st, ReleaseInv(d, st), NEW q, NEW b
  PROVE  b \in ToSet(ArrivalsOf(d, st, q)) <=>
           \/ b \in DataArrivals(d, q)
           \/ \E k \in DOMAIN st.releases :
                q[1] \in ToSet(st.releases[k].ids) /\ b = ReuseBarrier(k)
  <1> DEFINE arrivals == ArrivalsOf(d, st, q)
             R == st.releases
  <1>1. PICK a, L : ArrivalList(d, st, q, arrivals, a, L)
    BY ArrivalsAre
  <1> HIDE DEF arrivals, R
  <1>2. ASSUME b \in ToSet(arrivals)
        PROVE  \/ b \in DataArrivals(d, q)
               \/ \E k \in DOMAIN R : q[1] \in ToSet(R[k].ids) /\ b = ReuseBarrier(k)
    <2>1. PICK x \in 1 .. a + Len(L) : b = arrivals[x]
      BY <1>1, <1>2 DEF ToSet, ArrivalList
    <2>2. a \in Nat /\ Len(L) \in Nat
      BY <1>1 DEF ArrivalList
    <2>3. CASE x \in 1 .. a
      BY <1>1, <2>1, <2>3 DEF ArrivalList
    <2>4. CASE x \notin 1 .. a
      <3>1. x - a \in 1 .. Len(L) /\ x - a + a = x
        BY <2>2, <2>4
      <3>2. PICK y \in 1 .. Len(L) : y + a = x
        BY <3>1
      <3>3. L[y] \in Listed(R, q[1]) /\ b = ReuseBarrier(L[y][1])
        BY <1>1, <2>1, <3>2 DEF ArrivalList, R
      <3>4. L[y][1] \in DOMAIN R /\ q[1] \in ToSet(R[L[y][1]].ids)
        <4> DEFINE p == L[y]
        <4>1. p \in Listed(st.releases, q[1])
          BY <3>3 DEF R
        <4> HIDE DEF p
        <4>2. /\ p[1] \in DOMAIN st.releases
              /\ p[2] \in DOMAIN st.releases[p[1]].ids
              /\ st.releases[p[1]].ids[p[2]] = q[1]
          <5>1. \A l : l \in Listed(st.releases, q[1]) <=>
                  /\ l = <<l[1], l[2]>> /\ l[1] \in DOMAIN st.releases
                  /\ l[2] \in DOMAIN st.releases[l[1]].ids
                  /\ st.releases[l[1]].ids[l[2]] = q[1]
            BY ListedAre
          <5>2. QED
            BY <4>1, <5>1
        <4>3. QED
          BY <4>2 DEF ToSet, R, p
      <3>5. QED
        BY <3>3, <3>4
    <2>5. QED
      BY <2>3, <2>4
  <1>3. ASSUME b \in DataArrivals(d, q)
        PROVE  b \in ToSet(arrivals)
    <2>1. PICK y \in 1 .. a : arrivals[y] = b
      BY <1>1, <1>3 DEF ArrivalList
    <2>2. y \in DOMAIN arrivals
      BY <1>1 DEF ArrivalList
    <2>3. QED
      BY <2>1, <2>2 DEF ToSet
  <1>4. ASSUME NEW k \in DOMAIN R, q[1] \in ToSet(R[k].ids), b = ReuseBarrier(k)
        PROVE  b \in ToSet(arrivals)
    <2>1. PICK x \in DOMAIN R[k].ids : R[k].ids[x] = q[1]
      BY <1>4 DEF ToSet
    <2> DEFINE p == <<k, x>>
    <2>2. p = <<p[1], p[2]>> /\ p[1] = k /\ p[2] = x
      OBVIOUS
    <2> HIDE DEF p
    <2>3. p \in Listed(R, q[1])
      BY <2>1, <2>2, ListedAre DEF R
    <2>4. PICK y \in 1 .. Len(L) : L[y] = p
      BY <1>1, <2>3 DEF ArrivalList, R
    <2>5. arrivals[y + a] = ReuseBarrier(k) /\ y + a \in DOMAIN arrivals
      BY <1>1, <2>2, <2>4 DEF ArrivalList
    <2>6. QED
      BY <1>4, <2>5 DEF ToSet
  <1>5. QED
    BY <1>2, <1>3, <1>4 DEF arrivals, R

---------------------------------------------------------------------------
(* The cells.                                                              *)

ReadsOf(d, st, q) == Instruction(d, st, AllInputBarriers(d), q[1], q[2]).reads
WritesOf(d, st, q) == Instruction(d, st, AllInputBarriers(d), q[1], q[2]).writes

\* What the row of instruction q holds.
LEMMA RowHolds ==
  ASSUME NEW d, NEW st, NEW rows, Laid(d, st, rows), NEW q \in InstructionsOf(d)
  PROVE  /\ InstRow(d, q) \in DOMAIN rows
         /\ rows[InstRow(d, q)].node = q[1] /\ rows[InstRow(d, q)].index = q[2]
         /\ rows[InstRow(d, q)].type = d[q[1]].type
         /\ rows[InstRow(d, q)].inputs = InputBarriers(d, q[1], q[2])
         /\ rows[InstRow(d, q)].reuses = SetToSeq(ReuseBarriers(st.releases, q[1]))
         /\ rows[InstRow(d, q)].arrivals = ArrivalsOf(d, st, q)
         /\ rows[InstRow(d, q)].reads = ReadsOf(d, st, q)
         /\ rows[InstRow(d, q)].writes = WritesOf(d, st, q)
  <1> DEFINE x == Instruction(d, st, AllInputBarriers(d), q[1], q[2])
  <1>1. InstRow(d, q) \in DOMAIN rows /\ rows[InstRow(d, q)] = x
    BY DEF Laid
  <1>2. x.reads = ReadsOf(d, st, q) /\ x.writes = WritesOf(d, st, q)
    BY DEF ReadsOf, WritesOf
  <1>3. /\ x.node = q[1] /\ x.index = q[2] /\ x.type = d[q[1]].type
        /\ x.inputs = InputBarriers(d, q[1], q[2])
        /\ x.reuses = SetToSeq(ReuseBarriers(st.releases, q[1]))
        /\ x.arrivals = ArrivalsOf(d, st, q)
    BY DEF Instruction, ArrivalsOf
  <1> HIDE DEF x
  <1>4. QED
    BY <1>1, <1>2, <1>3

\* A row that is not empty holds an instruction.
LEMMA RowEmpty ==
  ASSUME NEW d, Shaped(d), NEW st, NEW rows, Laid(d, st, rows), NEW k \in DOMAIN rows
  PROVE  /\ rows[k] = Noop \/ \E q \in InstructionsOf(d) : k = InstRow(d, q)
         /\ \A q \in InstructionsOf(d) : k = InstRow(d, q) => rows[k] # Noop
         /\ rows[k] = Noop => /\ rows[k].inputs = << >> /\ rows[k].reuses = << >>
                              /\ rows[k].arrivals = << >>
                              /\ rows[k].reads = {} /\ rows[k].writes = {}
  <1>1. ASSUME NEW q \in InstructionsOf(d), k = InstRow(d, q)
        PROVE  rows[k] # Noop
    <2>1. rows[k].node = q[1]
      BY <1>1, RowHolds
    <2>2. q[1] \in DOMAIN d
      BY InstructionIs
    <2>3. q[1] # 0
      BY <2>2, GraphShape
    <2>4. Noop.node = 0
      BY DEF Noop
    <2>5. QED
      BY <2>1, <2>3, <2>4
  <1>2. rows[k] = Noop \/ \E q \in InstructionsOf(d) : k = InstRow(d, q)
    BY DEF Laid
  <1>3. rows[k] = Noop => /\ rows[k].inputs = << >> /\ rows[k].reuses = << >>
                          /\ rows[k].arrivals = << >>
                          /\ rows[k].reads = {} /\ rows[k].writes = {}
    BY DEF Noop
  <1>4. QED
    BY <1>1, <1>2, <1>3

---------------------------------------------------------------------------
(* The program of a graph.                                                 *)

\* p is the program of d, with the storages of st.
Scheduled(d, st, p) ==
  /\ Schedulable(d) /\ AllMatched(d)
  /\ PassInv(d, TensorsOf(d), st)
  /\ p = Program(d, st)

LEMMA ProgramIs ==
  ASSUME NEW d, NEW st, NEW p, Scheduled(d, st, p)
  PROVE  /\ Shaped(d) /\ Functionalised(d) /\ ReleaseInv(d, st)
         /\ Laid(d, st, p.instructions)
         /\ \A b : b \in DOMAIN p.target <=>
              \E k \in DOMAIN p.instructions :
                b \in ToSet(p.instructions[k].inputs)
                      \cup ToSet(p.instructions[k].reuses)
                      \cup ToSet(p.instructions[k].arrivals)
         /\ \A b \in DOMAIN p.target : p.target[b] = Target(st.releases, b)
         /\ RowsOf(p) = DOMAIN p.instructions
  <1> DEFINE instructions == GenerateInstructions(d, st)
             barriers == UNION {ToSet(instructions[k].inputs) \cup
                                ToSet(instructions[k].reuses) \cup
                                ToSet(instructions[k].arrivals) :
                                  k \in DOMAIN instructions}
             target == [b \in barriers |-> Target(st.releases, b)]
  <1>1. Shaped(d) /\ Functionalised(d) /\ ReleaseInv(d, st)
    BY DEF Scheduled, Schedulable, PassInv
  <1>2. p.instructions = instructions /\ p.target = target
    BY DEF Scheduled, Program
  <1>3. Laid(d, st, instructions)
    BY <1>1, RowsLaid
  <1> HIDE DEF instructions
  <1>4. DOMAIN target = barriers /\ \A b \in barriers : target[b] = Target(st.releases, b)
    OBVIOUS
  <1>5. \A b : b \in barriers <=>
              \E k \in DOMAIN instructions :
                b \in ToSet(instructions[k].inputs) \cup ToSet(instructions[k].reuses)
                      \cup ToSet(instructions[k].arrivals)
    BY Zenon
  <1> HIDE DEF target, barriers
  <1>6. RowsOf(p) = DOMAIN p.instructions
    BY DEF RowsOf
  <1>7. QED
    BY <1>1, <1>2, <1>3, <1>4, <1>5, <1>6

LEMMA SeqWithin ==
  ASSUME NEW S, NEW T, S \subseteq T, NEW s \in Seq(S)
  PROVE  s \in Seq(T)
  OBVIOUS

LEMMA ProgramWellFormed ==
  ASSUME NEW d, NEW st, NEW p, Scheduled(d, st, p)
  PROVE  WellFormed(p)
  <1> DEFINE rows == p.instructions
             B == DOMAIN p.target
  <1>1. /\ Shaped(d) /\ ReleaseInv(d, st) /\ Laid(d, st, rows)
        /\ \A b : b \in B <=>
             \E k \in DOMAIN rows :
               b \in ToSet(rows[k].inputs) \cup ToSet(rows[k].reuses)
                     \cup ToSet(rows[k].arrivals)
        /\ RowsOf(p) = DOMAIN rows
    BY ProgramIs
  <1> HIDE DEF rows, B
  <1>2. Len(rows) \in Nat /\ DOMAIN rows = 1 .. Len(rows) /\ Len(rows) % CLUSTER_SIZE = 0
    BY <1>1 DEF Laid
  <1>3. ASSUME NEW k \in DOMAIN rows
        PROVE  {rows[k].inputs, rows[k].reuses, rows[k].arrivals} \subseteq Seq(B)
    <2>1. /\ ToSet(rows[k].inputs) \subseteq B /\ ToSet(rows[k].reuses) \subseteq B
          /\ ToSet(rows[k].arrivals) \subseteq B
      BY <1>1
    <2>2. CASE rows[k] = Noop
      <3>1. /\ rows[k].inputs = << >> /\ rows[k].reuses = << >>
            /\ rows[k].arrivals = << >>
        BY <1>1, <2>2, RowEmpty
      <3>2. << >> \in Seq(B)
        OBVIOUS
      <3>3. QED
        BY <3>1, <3>2
    <2>3. CASE rows[k] # Noop
      <3>1. PICK q \in InstructionsOf(d) : k = InstRow(d, q)
        BY <1>1, <2>3, RowEmpty
      <3>2. /\ rows[k].inputs = InputBarriers(d, q[1], q[2])
            /\ rows[k].reuses = SetToSeq(ReuseBarriers(st.releases, q[1]))
            /\ rows[k].arrivals = ArrivalsOf(d, st, q)
        BY <1>1, <3>1, RowHolds
      <3>3. rows[k].inputs \in Seq(ToSet(rows[k].inputs))
        <4>1. q[1] \in DOMAIN d
          BY <1>1, InstructionIs
        <4>2. InputBarriers(d, q[1], q[2]) \in Seq(ToSet(InputBarriers(d, q[1], q[2])))
          BY <1>1, <4>1, InputsAre
        <4>3. QED
          BY <3>2, <4>2
      <3>4. rows[k].reuses \in Seq(ToSet(rows[k].reuses))
        <4> DEFINE R == ReuseBarriers(st.releases, q[1])
        <4>1. IsSeq(st.releases)
          BY <1>1 DEF ReleaseInv
        <4>2. SetToSeq(R) \in Seq(R) /\ ToSet(SetToSeq(R)) = R
          BY <4>1, ReusesAre
        <4> HIDE DEF R
        <4>3. SetToSeq(R) \in Seq(ToSet(SetToSeq(R)))
          BY <4>2
        <4>4. QED
          BY <3>2, <4>3 DEF R
      <3>5. rows[k].arrivals \in Seq(ToSet(rows[k].arrivals))
        <4>1. PICK a, L : ArrivalList(d, st, q, ArrivalsOf(d, st, q), a, L)
          BY <1>1, ArrivalsAre
        <4>2. QED
          BY <3>2, <4>1 DEF ArrivalList
      <3>6. rows[k].inputs \in Seq(B)
        BY <2>1, <3>3, SeqWithin
      <3>7. rows[k].reuses \in Seq(B)
        BY <2>1, <3>4, SeqWithin
      <3>8. rows[k].arrivals \in Seq(B)
        BY <2>1, <3>5, SeqWithin
      <3>9. QED
        BY <3>6, <3>7, <3>8
    <2>4. QED
      BY <2>2, <2>3
  <1>4. QED
    BY <1>1, <1>2, <1>3 DEF WellFormed, rows, B

---------------------------------------------------------------------------
(* The rows a row waits for.                                               *)

\* Instruction q waits for the data of instruction r.
Feeds(d, r, q) ==
  \E e : /\ WaitsFor(d, q, e)
         /\ r[1] = d[q[1]].ins[e][1] /\ r[2] \in Dependencies(d, q[1], q[2], e)

\* Instruction q waits for r to be done with a storage.
Frees(st, r, q) ==
  \E k \in DOMAIN st.releases :
    st.releases[k].reuser = q[1] /\ r[1] \in ToSet(st.releases[k].ids)

LEMMA ReuseBarrierNamed ==
  ASSUME NEW k, NEW l, ReuseBarrier(k) = ReuseBarrier(l)
  PROVE  k = l
  BY DEF ReuseBarrier

\* The arrivals at data barriers come from instructions that feed q.
LEMMA FeedersArrive ==
  ASSUME NEW d, NEW st, NEW p, Scheduled(d, st, p), NEW q \in InstructionsOf(d), NEW j
  PROVE  j \in Arrivers(p, ToSet(p.instructions[InstRow(d, q)].inputs)) <=>
           \E r \in InstructionsOf(d) : j = InstRow(d, r) /\ Feeds(d, r, q)
  <1> DEFINE rows == p.instructions
  <1>1. Shaped(d) /\ ReleaseInv(d, st) /\ Laid(d, st, rows) /\ RowsOf(p) = DOMAIN rows
    BY ProgramIs
  <1>2. rows[InstRow(d, q)].inputs = InputBarriers(d, q[1], q[2]) /\ q[1] \in DOMAIN d
    BY <1>1, RowHolds, InstructionIs
  <1> DEFINE B == ToSet(rows[InstRow(d, q)].inputs)
  <1>3. \A b : b \in B <=> \E e : WaitsFor(d, q, e) /\ b = DataBarrier(d, q, e)
    BY <1>1, <1>2, InputsAre
  <1>4. B \subseteq AllInputBarriers(d)
    BY <1>1, <1>2, AllInputsAre
  <1>5. \A k : k \in Arrivers(p, B) <=> k \in DOMAIN rows /\ \E b \in B : b \in ToSet(rows[k].arrivals)
    BY <1>1 DEF Arrivers
  <1> HIDE DEF rows, B
  <1>6. ASSUME j \in Arrivers(p, B)
        PROVE  \E r \in InstructionsOf(d) : j = InstRow(d, r) /\ Feeds(d, r, q)
    <2>1. PICK b \in B : j \in DOMAIN rows /\ b \in ToSet(rows[j].arrivals)
      BY <1>5, <1>6
    <2>2. PICK r \in InstructionsOf(d) : j = InstRow(d, r)
      <3>1. rows[j].arrivals # << >>
        BY <2>1 DEF ToSet
      <3>2. QED
        BY <1>1, <2>1, <3>1, RowEmpty
    <2>3. b \in ToSet(ArrivalsOf(d, st, r))
      BY <1>1, <2>1, <2>2, RowHolds
    <2>4. b \in AllInputBarriers(d) /\ \A k : b # ReuseBarrier(k)
      BY <1>1, <1>4, BarrierKinds
    <2>5. b \in DataArrivals(d, r)
      BY <1>1, <2>3, <2>4, ArrivesAt
    <2>6. b[2] = r[1] /\ r[2] \in b[3]
      BY <2>5 DEF DataArrivals
    <2>7. PICK e : WaitsFor(d, q, e) /\ b = DataBarrier(d, q, e)
      BY <1>3
    <2>8. Feeds(d, r, q)
      BY <2>6, <2>7 DEF Feeds, DataBarrier
    <2>9. QED
      BY <2>2, <2>8
  <1>7. ASSUME NEW r \in InstructionsOf(d), j = InstRow(d, r), Feeds(d, r, q)
        PROVE  j \in Arrivers(p, B)
    <2>1. PICK e : /\ WaitsFor(d, q, e)
                   /\ r[1] = d[q[1]].ins[e][1] /\ r[2] \in Dependencies(d, q[1], q[2], e)
      BY <1>7 DEF Feeds
    <2> DEFINE b == DataBarrier(d, q, e)
    <2>2. b \in B
      BY <1>3, <2>1
    <2>3. b[2] = r[1] /\ r[2] \in b[3]
      BY <2>1 DEF DataBarrier
    <2> HIDE DEF b
    <2>4. b \in DataArrivals(d, r)
      BY <1>4, <2>2, <2>3 DEF DataArrivals
    <2>5. b \in ToSet(ArrivalsOf(d, st, r))
      BY <1>1, <2>4, ArrivesAt
    <2>6. j \in DOMAIN rows /\ rows[j].arrivals = ArrivalsOf(d, st, r)
      BY <1>1, <1>7, RowHolds
    <2>7. QED
      BY <1>5, <2>2, <2>5, <2>6
  <1>8. QED
    BY <1>6, <1>7 DEF B, rows

\* The arrivals at release barriers come from the users of a storage.
LEMMA FreersArrive ==
  ASSUME NEW d, NEW st, NEW p, Scheduled(d, st, p), NEW q \in InstructionsOf(d), NEW j
  PROVE  j \in Arrivers(p, ToSet(p.instructions[InstRow(d, q)].reuses)) <=>
           \E r \in InstructionsOf(d) : j = InstRow(d, r) /\ Frees(st, r, q)
  <1> DEFINE rows == p.instructions
             R == st.releases
  <1>1. Shaped(d) /\ ReleaseInv(d, st) /\ Laid(d, st, rows) /\ RowsOf(p) = DOMAIN rows
    BY ProgramIs
  <1>2. rows[InstRow(d, q)].reuses = SetToSeq(ReuseBarriers(R, q[1]))
    BY <1>1, RowHolds
  <1> DEFINE B == ToSet(rows[InstRow(d, q)].reuses)
  <1>3. \A b : b \in B <=> \E k \in DOMAIN R : R[k].reuser = q[1] /\ b = ReuseBarrier(k)
    <2>1. IsSeq(R)
      BY <1>1 DEF ReleaseInv
    <2>2. ToSet(SetToSeq(ReuseBarriers(R, q[1]))) = ReuseBarriers(R, q[1])
      BY <2>1, ReusesAre
    <2>3. B = ReuseBarriers(R, q[1])
      BY <1>2, <2>2
    <2> HIDE DEF B, R
    <2>4. QED
      BY <2>3 DEF ReuseBarriers
  <1>4. \A k : k \in Arrivers(p, B) <=> k \in DOMAIN rows /\ \E b \in B : b \in ToSet(rows[k].arrivals)
    BY <1>1 DEF Arrivers
  <1> HIDE DEF rows, B, R
  <1>5. ASSUME j \in Arrivers(p, B)
        PROVE  \E r \in InstructionsOf(d) : j = InstRow(d, r) /\ Frees(st, r, q)
    <2>1. PICK b \in B : j \in DOMAIN rows /\ b \in ToSet(rows[j].arrivals)
      BY <1>4, <1>5
    <2>2. PICK r \in InstructionsOf(d) : j = InstRow(d, r)
      <3>1. rows[j].arrivals # << >>
        BY <2>1 DEF ToSet
      <3>2. QED
        BY <1>1, <2>1, <3>1, RowEmpty
    <2>3. b \in ToSet(ArrivalsOf(d, st, r))
      BY <1>1, <2>1, <2>2, RowHolds
    <2>4. PICK k \in DOMAIN R : R[k].reuser = q[1] /\ b = ReuseBarrier(k)
      BY <1>3
    <2>5. b \notin DataArrivals(d, r)
      BY <1>1, <2>4, BarrierKinds DEF DataArrivals
    <2>6. PICK l \in DOMAIN R : r[1] \in ToSet(R[l].ids) /\ b = ReuseBarrier(l)
      BY <1>1, <2>3, <2>5, ArrivesAt DEF R
    <2>7. k = l
      BY <2>4, <2>6, ReuseBarrierNamed
    <2>8. Frees(st, r, q)
      BY <2>4, <2>6, <2>7 DEF Frees, R
    <2>9. QED
      BY <2>2, <2>8
  <1>6. ASSUME NEW r \in InstructionsOf(d), j = InstRow(d, r), Frees(st, r, q)
        PROVE  j \in Arrivers(p, B)
    <2>1. PICK k \in DOMAIN R : R[k].reuser = q[1] /\ r[1] \in ToSet(R[k].ids)
      BY <1>6 DEF Frees, R
    <2> DEFINE b == ReuseBarrier(k)
    <2>2. b \in B
      BY <1>3, <2>1
    <2>3. b \in ToSet(ArrivalsOf(d, st, r))
      BY <1>1, <2>1, ArrivesAt DEF R
    <2>4. j \in DOMAIN rows /\ rows[j].arrivals = ArrivalsOf(d, st, r)
      BY <1>1, <1>6, RowHolds
    <2> HIDE DEF b
    <2>5. QED
      BY <1>4, <2>2, <2>3, <2>4
  <1>7. QED
    BY <1>5, <1>6 DEF B, rows

\* A row waits for rows of earlier nodes.
LEMMA FeedersEarlier ==
  ASSUME NEW d, NEW st, NEW p, Scheduled(d, st, p), NEW q \in InstructionsOf(d),
         NEW r \in InstructionsOf(d), Feeds(d, r, q) \/ Frees(st, r, q)
  PROVE  InstRow(d, r) < InstRow(d, q)
  <1>1. Shaped(d) /\ ReleaseInv(d, st)
    BY ProgramIs
  <1>2. q[1] \in DOMAIN d
    BY <1>1, InstructionIs
  <1>3. CASE Feeds(d, r, q)
    <2>1. PICK e : WaitsFor(d, q, e) /\ r[1] = d[q[1]].ins[e][1]
      BY <1>3 DEF Feeds
    <2>2. r[1] < q[1]
      BY <1>1, <1>2, <2>1, DependenciesAre
    <2>3. QED
      BY <1>1, <2>2, RowsOrdered
  <1>4. CASE Frees(st, r, q)
    <2>1. r[1] < q[1]
      BY <1>1, <1>4 DEF Frees, ReleaseInv
    <2>2. QED
      BY <1>1, <2>1, RowsOrdered
  <1>5. QED
    BY <1>3, <1>4

LEMMA AwaitedAre ==
  ASSUME NEW d, NEW st, NEW p, Scheduled(d, st, p), NEW q \in InstructionsOf(d), NEW j
  PROVE  j \in Awaited(p, InstRow(d, q)) <=>
           \E r \in InstructionsOf(d) :
             j = InstRow(d, r) /\ (Feeds(d, r, q) \/ Frees(st, r, q))
  <1> DEFINE x == p.instructions[InstRow(d, q)]
  <1>1. Awaited(p, InstRow(d, q)) = Arrivers(p, ToSet(x.inputs)) \cup Arrivers(p, ToSet(x.reuses))
    BY DEF Awaited, Arrivers
  <1>2. j \in Arrivers(p, ToSet(x.inputs)) <=>
           \E r \in InstructionsOf(d) : j = InstRow(d, r) /\ Feeds(d, r, q)
    BY FeedersArrive
  <1>3. j \in Arrivers(p, ToSet(x.reuses)) <=>
           \E r \in InstructionsOf(d) : j = InstRow(d, r) /\ Frees(st, r, q)
    BY FreersArrive
  <1> HIDE DEF x
  <1>4. QED
    BY <1>1, <1>2, <1>3

\* WaitsForEarlierRows of Scheduler.
LEMMA WaitsForEarlier ==
  ASSUME NEW d, NEW st, NEW p, Scheduled(d, st, p), NEW k \in RowsOf(p), NEW j \in Awaited(p, k)
  PROVE  j < k
  <1> DEFINE rows == p.instructions
  <1>1. Shaped(d) /\ Laid(d, st, rows) /\ RowsOf(p) = DOMAIN rows
    BY ProgramIs
  <1>2. rows[k] # Noop
    <2>1. SUFFICES ASSUME rows[k] = Noop
                   PROVE  FALSE
      OBVIOUS
    <2>2. rows[k].inputs = << >> /\ rows[k].reuses = << >>
      BY <1>1, <2>1, RowEmpty
    <2>3. ToSet(<< >>) = {}
      BY DEF ToSet
    <2>4. QED
      BY <2>2, <2>3 DEF Awaited, Arrivers
  <1>3. PICK q \in InstructionsOf(d) : k = InstRow(d, q)
    BY <1>1, <1>2, RowEmpty
  <1>4. PICK r \in InstructionsOf(d) : j = InstRow(d, r) /\ (Feeds(d, r, q) \/ Frees(st, r, q))
    BY <1>3, AwaitedAre
  <1>5. QED
    BY <1>3, <1>4, FeedersEarlier

---------------------------------------------------------------------------
(* The rows that have completed before a row stores.                       *)

Earlier(p, f, k) ==
  UNION {{j} \cup f[j] : j \in {x \in Awaited(p, k) : x < k}}

\* Earlier looks at earlier rows only,
LEMMA EarlierAgrees ==
  ASSUME NEW p, WellFormed(p), NEW k \in Nat, NEW f, NEW g,
         \A j \in Nat : j >= 1 /\ j < k => f[j] = g[j]
  PROVE  Earlier(p, f, k) = Earlier(p, g, k)
  <1>1. \A j \in Awaited(p, k) : j \in Nat /\ j >= 1
    BY DEF Awaited, Arrivers, WellFormed
  <1>2. \A j \in {x \in Awaited(p, k) : x < k} : f[j] = g[j]
    BY <1>1
  <1> DEFINE J == {x \in Awaited(p, k) : x < k}
  <1> HIDE DEF J
  <1>3. \A j \in J : f[j] = g[j]
    BY <1>2 DEF J
  <1>4. {{j} \cup f[j] : j \in J} = {{j} \cup g[j] : j \in J}
    BY <1>3
  <1>5. QED
    BY <1>4 DEF Earlier, J

\* and so the recursion of CompletedBefore has a solution.
LEMMA EarlierExists ==
  ASSUME NEW p, WellFormed(p), NEW n \in Nat
  PROVE  \E f : f = [k \in 1 .. n |-> Earlier(p, f, k)]
  <1> DEFINE S == {m \in Nat : \E f : f = [k \in 1 .. m |-> Earlier(p, f, k)]}
  <1>1. 0 \in S
    <2>1. PICK f : f = [k \in 1 .. 0 |-> {}]
      OBVIOUS
    <2>2. f = [k \in 1 .. 0 |-> Earlier(p, f, k)]
      BY <2>1
    <2>3. QED
      BY <2>2
  <1>2. ASSUME NEW m \in Nat, m \in S
        PROVE  m + 1 \in S
    <2>1. PICK f : f = [k \in 1 .. m |-> Earlier(p, f, k)]
      BY <1>2
    <2>2. PICK g : g = [k \in 1 .. m + 1 |->
                          IF k <= m THEN f[k] ELSE Earlier(p, f, m + 1)]
      OBVIOUS
    <2>3. \A j \in Nat : j >= 1 /\ j <= m => f[j] = g[j]
      BY <2>2
    <2>4. ASSUME NEW k \in 1 .. m + 1
          PROVE  g[k] = Earlier(p, g, k)
      <3>1. \A j \in Nat : j >= 1 /\ j < k => f[j] = g[j]
        BY <2>3
      <3>2. Earlier(p, f, k) = Earlier(p, g, k)
        BY <3>1, EarlierAgrees
      <3>3. g[k] = Earlier(p, f, k)
        <4>1. CASE k <= m
          <5>1. g[k] = f[k] /\ k \in 1 .. m
            BY <2>2, <4>1
          <5>2. QED
            BY <2>1, <5>1
        <4>2. CASE ~(k <= m)
          <5>1. k = m + 1
            BY <4>2
          <5>2. QED
            BY <2>2, <4>2, <5>1
        <4>3. QED
          BY <4>1, <4>2
      <3>4. QED
        BY <3>2, <3>3
    <2>5. g = [k \in 1 .. m + 1 |-> Earlier(p, g, k)]
      BY <2>2, <2>4
    <2>6. QED
      BY <2>5
  <1>3. Nat \subseteq S
    <2> HIDE DEF S
    <2>1. QED
      BY <1>1, <1>2, NatSet
  <1>4. QED
    BY <1>3

\* CompletedBefore satisfies its recursion: what a row waits for, and what
\* has completed before that.
LEMMA BeforeUnfolds ==
  ASSUME NEW p, WellFormed(p), NEW k \in RowsOf(p)
  PROVE  CompletedBefore(p)[k] =
           UNION {{j} \cup CompletedBefore(p)[j] :
                    j \in {x \in Awaited(p, k) : x < k}}
  <1> DEFINE Is(f) == f = [r \in RowsOf(p) |->
                             UNION {{j} \cup f[j] : j \in {x \in Awaited(p, r) : x < r}}]
  <1>1. CompletedBefore(p) = CHOOSE f : Is(f)
    BY DEF CompletedBefore
  <1>2. \E f : Is(f)
    <2>1. PICK n \in Nat : RowsOf(p) = 1 .. n
      BY DEF WellFormed
    <2>2. PICK f : f = [r \in 1 .. n |-> Earlier(p, f, r)]
      BY EarlierExists
    <2>3. Is(f)
      BY <2>1, <2>2 DEF Earlier
    <2>4. QED
      BY <2>3
  <1> HIDE DEF Is
  <1>3. Is(CompletedBefore(p))
    BY <1>1, <1>2
  <1>4. QED
    BY <1>3 DEF Is

---------------------------------------------------------------------------
(* The order in which rows complete.                                       *)

\* A row stores after what it waits for, and what that has waited for.
LEMMA AwaitedBefore ==
  ASSUME NEW p, WellFormed(p), NEW k \in RowsOf(p), NEW j \in Awaited(p, k), j < k
  PROVE  /\ j \in CompletedBefore(p)[k]
         /\ CompletedBefore(p)[j] \subseteq CompletedBefore(p)[k]
  <1> DEFINE F == CompletedBefore(p)
             J == {x \in Awaited(p, k) : x < k}
  <1>1. F[k] = UNION {{x} \cup F[x] : x \in J}
    BY BeforeUnfolds
  <1>2. j \in J
    OBVIOUS
  <1> HIDE DEF F, J
  <1>3. j \in F[k] /\ F[j] \subseteq F[k]
    BY <1>1, <1>2
  <1>4. QED
    BY <1>3 DEF F

\* Completion is transitive.
LEMMA BeforeTransitive ==
  ASSUME NEW p, WellFormed(p), NEW k \in RowsOf(p), NEW j \in CompletedBefore(p)[k]
  PROVE  CompletedBefore(p)[j] \subseteq CompletedBefore(p)[k]
  <1> DEFINE F == CompletedBefore(p)
             N == Len(p.instructions)
             S == {n \in 0 .. N : \A y \in 1 .. n : \A x \in F[y] : F[x] \subseteq F[y]}
  <1>1. N \in Nat /\ RowsOf(p) = 1 .. N
    BY DEF WellFormed
  <1>2. 0 \in S
    BY <1>1
  <1>3. ASSUME NEW n \in Nat, n < N, n \in S
        PROVE  n + 1 \in S
    <2>1. PICK y : y = n + 1
      OBVIOUS
    <2>2. y \in RowsOf(p) /\ y \in 0 .. N
      BY <1>1, <1>3, <2>1
    <2> DEFINE J == {x \in Awaited(p, y) : x < y}
    <2>3. F[y] = UNION {{x} \cup F[x] : x \in J}
      BY <2>2, BeforeUnfolds
    <2>4. \A x \in J : x \in 1 .. n
      BY <1>1, <2>1 DEF Awaited, Arrivers
    <2>5. \A z \in 1 .. n : \A x \in F[z] : F[x] \subseteq F[z]
      BY <1>3
    <2> HIDE DEF F, J
    <2>6. ASSUME NEW x \in F[y]
          PROVE  F[x] \subseteq F[y]
      <3>1. PICK z \in J : x = z \/ x \in F[z]
        BY <2>3
      <3>2. F[z] \subseteq F[y]
        BY <2>3
      <3>3. x \in F[z] => F[x] \subseteq F[z]
        BY <2>4, <2>5
      <3>4. QED
        BY <3>1, <3>2, <3>3
    <2>7. \A z \in 1 .. y : z \in 1 .. n \/ z = y
      BY <2>1
    <2>8. \A z \in 1 .. y : \A x \in F[z] : F[x] \subseteq F[z]
      BY <2>5, <2>6, <2>7
    <2>9. y \in S
      BY <2>2, <2>8
    <2>10. QED
      BY <2>1, <2>9
  <1>4. N \in S
    <2> HIDE DEF S
    <2>1. \A n \in 0 .. N : n \in S
      BY <1>1, <1>2, <1>3, UpTo
    <2>2. QED
      BY <1>1, <2>1
  <1> HIDE DEF F
  <1>5. QED
    BY <1>1, <1>4 DEF F

\* Instruction r has completed when q stores, when q loads.
Precedes(d, p, r, q) == InstRow(d, r) \in CompletedBefore(p)[InstRow(d, q)]
PrecedesLoad(d, p, r, q) ==
  InstRow(d, r) \in LoadedAfter(p, CompletedBefore(p))[InstRow(d, q)]

LEMMA FeedersPrecede ==
  ASSUME NEW d, NEW st, NEW p, Scheduled(d, st, p), NEW q \in InstructionsOf(d),
         NEW r \in InstructionsOf(d), Feeds(d, r, q) \/ Frees(st, r, q)
  PROVE  Precedes(d, p, r, q)
  <1>1. InstRow(d, q) \in RowsOf(p)
    BY ProgramIs, RowHolds
  <1>2. InstRow(d, r) \in Awaited(p, InstRow(d, q))
    BY AwaitedAre
  <1>3. InstRow(d, r) < InstRow(d, q)
    BY FeedersEarlier
  <1>4. QED
    BY <1>1, <1>2, <1>3, ProgramWellFormed, AwaitedBefore DEF Precedes

LEMMA PrecedesThrough ==
  ASSUME NEW d, NEW st, NEW p, Scheduled(d, st, p), NEW q \in InstructionsOf(d),
         NEW r \in InstructionsOf(d), NEW s, Precedes(d, p, s, r), Precedes(d, p, r, q)
  PROVE  Precedes(d, p, s, q)
  <1>1. InstRow(d, q) \in RowsOf(p)
    BY ProgramIs, RowHolds
  <1>2. CompletedBefore(p)[InstRow(d, r)] \subseteq CompletedBefore(p)[InstRow(d, q)]
    BY <1>1, ProgramWellFormed, BeforeTransitive DEF Precedes
  <1>3. QED
    BY <1>2 DEF Precedes

\* An instruction waits for the data it loads.
LEMMA FeedersLoaded ==
  ASSUME NEW d, NEW st, NEW p, Scheduled(d, st, p), NEW q \in InstructionsOf(d),
         NEW r \in InstructionsOf(d), Feeds(d, r, q)
  PROVE  PrecedesLoad(d, p, r, q)
  <1> DEFINE k == InstRow(d, q)
             F == CompletedBefore(p)
             J == {x \in Arrivers(p, ToSet(p.instructions[k].inputs)) : x < k}
  <1>1. k \in RowsOf(p)
    BY ProgramIs, RowHolds
  <1>2. InstRow(d, r) \in Arrivers(p, ToSet(p.instructions[k].inputs))
    BY FeedersArrive
  <1>3. InstRow(d, r) < k
    BY FeedersEarlier
  <1>4. LoadedAfter(p, F)[k] = UNION {{j} \cup F[j] : j \in J}
    BY <1>1 DEF LoadedAfter
  <1>5. InstRow(d, r) \in J
    BY <1>2, <1>3
  <1> HIDE DEF J, F
  <1>6. InstRow(d, r) \in LoadedAfter(p, F)[k]
    BY <1>4, <1>5
  <1>7. QED
    BY <1>6 DEF PrecedesLoad, F

\* An op that is behind another waits for all its instructions.
LEMMA BehindPrecedes ==
  ASSUME NEW d, NEW st, NEW p, Scheduled(d, st, p), NEW q \in InstructionsOf(d),
         NEW r \in InstructionsOf(d), Behind(st.releases, r[1], q[1])
  PROVE  Precedes(d, p, r, q)
  <1> DEFINE Ops == {n \in DOMAIN d : IsCompute(d, n)}
             C == {c \in Ops \X Ops : \A a, b \in InstructionsOf(d) :
                     b[1] = c[1] /\ a[1] = c[2] => Precedes(d, p, b, a)}
             R == st.releases
  <1>1. Shaped(d) /\ ReleaseInv(d, st)
    BY ProgramIs
  <1>2. ASSUME NEW k \in DOMAIN R, NEW m \in ToSet(R[k].ids)
        PROVE  <<m, R[k].reuser>> \in C
    <2>1. m \in DOMAIN d
      <3>1. R[k].ids \in Seq(DOMAIN d)
        BY <1>1 DEF ReleaseInv
      <3>2. QED
        BY <3>1 DEF ToSet
    <2>2. R[k].reuser \in DOMAIN d /\ IsCompute(d, R[k].reuser) /\ IsCompute(d, m)
      BY <1>1 DEF ReleaseInv
    <2>3. ASSUME NEW a \in InstructionsOf(d), NEW b \in InstructionsOf(d),
                 b[1] = m, a[1] = R[k].reuser
          PROVE  Precedes(d, p, b, a)
      <3>1. Frees(st, b, a)
        BY <2>3 DEF Frees
      <3>2. QED
        BY <3>1, FeedersPrecede
    <2> DEFINE c == <<m, R[k].reuser>>
    <2>4. c \in Ops \X Ops /\ c[1] = m /\ c[2] = R[k].reuser
      BY <2>1, <2>2
    <2> HIDE DEF c, Ops, R
    <2>5. c \in C
      BY <2>3, <2>4
    <2>6. QED
      BY <2>5 DEF c
  <1>3. ASSUME NEW x, NEW y, NEW z, <<x, y>> \in C, <<y, z>> \in C
        PROVE  <<x, z>> \in C
    <2>1. x \in Ops /\ y \in Ops /\ z \in Ops
      BY <1>3
    <2>2. <<y, 1>> \in InstructionsOf(d)
      <3>1. InstCount(d, y) \in Nat /\ InstCount(d, y) >= 1 /\ y \in DOMAIN d /\ IsCompute(d, y)
        BY <1>1, <2>1, Counts
      <3>2. QED
        BY <1>1, <3>1, InstructionIs
    <2>3. ASSUME NEW a \in InstructionsOf(d), NEW b \in InstructionsOf(d), b[1] = x, a[1] = z
          PROVE  Precedes(d, p, b, a)
      <3>1. Precedes(d, p, b, <<y, 1>>)
        BY <1>3, <2>2, <2>3
      <3>2. Precedes(d, p, <<y, 1>>, a)
        BY <1>3, <2>2, <2>3
      <3>3. QED
        BY <2>2, <3>1, <3>2, PrecedesThrough
    <2> HIDE DEF Ops
    <2>4. QED
      BY <2>1, <2>3
  <1> HIDE DEF C
  <1>4. Ordering(R, C)
    BY <1>2, <1>3 DEF Ordering
  <1>5. <<r[1], q[1]>> \in C
    BY <1>4 DEF Behind
  <1>6. QED
    BY <1>5 DEF C

---------------------------------------------------------------------------
(* The cells that rows load and store.                                     *)

\* Cell c of tensor t, with its data.
CellOf(st, t, c) == [cell |-> <<st.storage[t], c>>, data |-> t]

\* Instruction q stores cell c of its slot s, loads cell c of its edge e.
StoresCell(d, q, s, c) ==
  s \in DOMAIN d[q[1]].outs /\ c \in d[q[1]].insts[q[2]].writes[s]
LoadsCell(d, q, e, c) ==
  e \in DOMAIN d[q[1]].ins /\ c \in d[q[1]].insts[q[2]].reads[e]

\* Instruction q stores to a cell of storage.
StoresTo(d, st, q, cell) ==
  \E s, c : StoresCell(d, q, s, c) /\ cell = CellOf(st, <<q[1], s>>, c).cell

LEMMA SameCell ==
  ASSUME NEW st, NEW t, NEW u, NEW b, NEW c
  PROVE  /\ CellOf(st, t, b).cell = CellOf(st, u, c).cell
              <=> st.storage[t] = st.storage[u] /\ b = c
         /\ CellOf(st, t, b) = CellOf(st, u, c) => t = u
         /\ CellOf(st, t, b).data = t
  BY DEF CellOf

LEMMA RowWrites ==
  ASSUME NEW d, NEW st, NEW p, Scheduled(d, st, p), NEW q \in InstructionsOf(d), NEW w
  PROVE  w \in p.instructions[InstRow(d, q)].writes <=>
           \E s, c : StoresCell(d, q, s, c) /\ w = CellOf(st, <<q[1], s>>, c)
  <1>1. p.instructions[InstRow(d, q)].writes = WritesOf(d, st, q)
    BY ProgramIs, RowHolds
  <1>2. w \in WritesOf(d, st, q) <=>
           \E s \in DOMAIN d[q[1]].outs : \E c \in d[q[1]].insts[q[2]].writes[s] :
             w = CellOf(st, <<q[1], s>>, c)
    <2> DEFINE of(s) == {CellOf(st, <<q[1], s>>, c) : c \in d[q[1]].insts[q[2]].writes[s]}
    <2>1. WritesOf(d, st, q) = UNION {of(s) : s \in DOMAIN d[q[1]].outs}
      BY DEF WritesOf, Instruction, CellOf
    <2>2. w \in WritesOf(d, st, q) <=> \E s \in DOMAIN d[q[1]].outs : w \in of(s)
      <3> HIDE DEF of
      <3>1. QED
        BY <2>1
    <2>3. QED
      BY <2>2, Zenon
  <1>3. QED
    BY <1>1, <1>2 DEF StoresCell

LEMMA RowReads ==
  ASSUME NEW d, NEW st, NEW p, Scheduled(d, st, p), NEW q \in InstructionsOf(d), NEW r
  PROVE  r \in p.instructions[InstRow(d, q)].reads <=>
           \E e, c : LoadsCell(d, q, e, c) /\ r = CellOf(st, d[q[1]].ins[e], c)
  <1>1. p.instructions[InstRow(d, q)].reads = ReadsOf(d, st, q)
    BY ProgramIs, RowHolds
  <1>2. r \in ReadsOf(d, st, q) <=>
           \E e \in DOMAIN d[q[1]].ins : \E c \in d[q[1]].insts[q[2]].reads[e] :
             r = CellOf(st, d[q[1]].ins[e], c)
    <2> DEFINE of(e) == {CellOf(st, d[q[1]].ins[e], c) : c \in d[q[1]].insts[q[2]].reads[e]}
    <2>1. ReadsOf(d, st, q) = UNION {of(e) : e \in DOMAIN d[q[1]].ins}
      BY DEF ReadsOf, Instruction, CellOf
    <2>2. r \in ReadsOf(d, st, q) <=> \E e \in DOMAIN d[q[1]].ins : r \in of(e)
      <3> HIDE DEF of
      <3>1. QED
        BY <2>1
    <2>3. QED
      BY <2>2, Zenon
  <1>3. QED
    BY <1>1, <1>2 DEF LoadsCell

\* A row that stores or loads is the row of an instruction.
LEMMA RowInstruction ==
  ASSUME NEW d, NEW st, NEW p, Scheduled(d, st, p), NEW k \in RowsOf(p),
         p.instructions[k].reads # {} \/ p.instructions[k].writes # {}
           \/ p.instructions[k].arrivals # << >> \/ p.instructions[k] # Noop
  PROVE  \E q \in InstructionsOf(d) : k = InstRow(d, q)
  <1>1. Shaped(d) /\ Laid(d, st, p.instructions) /\ k \in DOMAIN p.instructions
    BY ProgramIs
  <1>2. p.instructions[k] # Noop
    BY <1>1, RowEmpty
  <1>3. QED
    BY <1>1, <1>2, RowEmpty

\* The slots that an instruction stores are tensors.
LEMMA StoredTensor ==
  ASSUME NEW d, Shaped(d), NEW q \in InstructionsOf(d), NEW s, NEW c, StoresCell(d, q, s, c)
  PROVE  /\ <<q[1], s>> \in TensorsOf(d) /\ q[1] \in DOMAIN d /\ IsCompute(d, q[1])
         /\ q[1] \in UsersOf(d, <<q[1], s>>)
  <1>1. q[1] \in DOMAIN d /\ IsCompute(d, q[1])
    BY InstructionIs
  <1>2. <<q[1], s>> \in TensorsOf(d)
    BY <1>1 DEF StoresCell, TensorsOf
  <1>3. q[1] \in UsersOf(d, <<q[1], s>>)
    BY <1>1 DEF UsersOf
  <1>4. QED
    BY <1>1, <1>2, <1>3

LEMMA CellWritersAre ==
  ASSUME NEW d, NEW st, NEW p, Scheduled(d, st, p), NEW cell, NEW k
  PROVE  k \in Writers(p, cell) <=>
           \E q \in InstructionsOf(d) : k = InstRow(d, q) /\ StoresTo(d, st, q, cell)
  <1>1. ASSUME k \in Writers(p, cell)
        PROVE  \E q \in InstructionsOf(d) : k = InstRow(d, q) /\ StoresTo(d, st, q, cell)
    <2>1. k \in RowsOf(p) /\ \E w \in p.instructions[k].writes : w.cell = cell
      BY <1>1 DEF Writers
    <2>2. PICK w \in p.instructions[k].writes : w.cell = cell
      BY <2>1
    <2>3. PICK q \in InstructionsOf(d) : k = InstRow(d, q)
      BY <2>1, RowInstruction
    <2>4. PICK s, b : StoresCell(d, q, s, b) /\ w = CellOf(st, <<q[1], s>>, b)
      BY <2>2, <2>3, RowWrites
    <2>5. QED
      BY <2>2, <2>3, <2>4 DEF StoresTo
  <1>2. ASSUME NEW q \in InstructionsOf(d), k = InstRow(d, q), StoresTo(d, st, q, cell)
        PROVE  k \in Writers(p, cell)
    <2>1. PICK s, c : StoresCell(d, q, s, c) /\ cell = CellOf(st, <<q[1], s>>, c).cell
      BY <1>2 DEF StoresTo
    <2>2. CellOf(st, <<q[1], s>>, c) \in p.instructions[k].writes
      BY <1>2, <2>1, RowWrites
    <2>3. k \in RowsOf(p)
      BY <1>2, ProgramIs, RowHolds
    <2>4. QED
      BY <2>1, <2>2, <2>3 DEF Writers
  <1>3. QED
    BY <1>1, <1>2

LEMMA DataWritersAre ==
  ASSUME NEW d, NEW st, NEW p, Scheduled(d, st, p), NEW t, t = <<t[1], t[2]>>, NEW c, NEW k
  PROVE  k \in WritersOf(p, CellOf(st, t, c)) <=>
           \E q \in InstructionsOf(d) :
             k = InstRow(d, q) /\ q[1] = t[1] /\ StoresCell(d, q, t[2], c)
  <1>1. ASSUME k \in WritersOf(p, CellOf(st, t, c))
        PROVE  \E q \in InstructionsOf(d) :
                 k = InstRow(d, q) /\ q[1] = t[1] /\ StoresCell(d, q, t[2], c)
    <2>1. k \in RowsOf(p) /\ CellOf(st, t, c) \in p.instructions[k].writes
      BY <1>1 DEF WritersOf
    <2>2. PICK q \in InstructionsOf(d) : k = InstRow(d, q)
      BY <2>1, RowInstruction
    <2>3. PICK s, b : StoresCell(d, q, s, b) /\ CellOf(st, t, c) = CellOf(st, <<q[1], s>>, b)
      BY <2>1, <2>2, RowWrites
    <2>4. b = c /\ t = <<q[1], s>>
      BY <2>3, SameCell
    <2>5. t[1] = q[1] /\ t[2] = s
      BY <2>4
    <2>6. QED
      BY <2>2, <2>3, <2>4, <2>5
  <1>2. ASSUME NEW q \in InstructionsOf(d), k = InstRow(d, q), q[1] = t[1], StoresCell(d, q, t[2], c)
        PROVE  k \in WritersOf(p, CellOf(st, t, c))
    <2>1. CellOf(st, t, c) \in p.instructions[k].writes
      BY <1>2, RowWrites
    <2>2. k \in RowsOf(p)
      BY <1>2, ProgramIs, RowHolds
    <2>3. QED
      BY <2>1, <2>2 DEF WritersOf
  <1>3. QED
    BY <1>1, <1>2

---------------------------------------------------------------------------
(* The order that shared storage enforces.                                 *)

\* Of two tensors in one storage, the users of the earlier one precede the
\* instructions that store the later one.
LEMMA UsersFirst ==
  ASSUME NEW d, NEW st, NEW p, Scheduled(d, st, p), NEW u \in TensorsOf(d),
         NEW v \in TensorsOf(d), st.storage[u] = st.storage[v], u[1] < v[1],
         NEW q \in InstructionsOf(d), q[1] \in UsersOf(d, u) \ {v[1]},
         NEW r \in InstructionsOf(d), r[1] = v[1]
  PROVE  Precedes(d, p, q, r)
  <1>1. SharedInv(d, TensorsOf(d), st)
    BY DEF Scheduled, PassInv
  <1>2. u # v
    <2>1. u[1] \in Nat /\ v[1] \in Nat
      BY ProgramIs, TensorShape
    <2>2. QED
      BY <2>1
  <1>3. Behind(st.releases, q[1], v[1])
    BY <1>1, <1>2 DEF SharedInv
  <1>4. QED
    BY <1>3, BehindPrecedes

\* Two tensors that share storage are of different nodes, one earlier.
LEMMA SharersApart ==
  ASSUME NEW d, NEW st, NEW p, Scheduled(d, st, p), NEW u \in TensorsOf(d),
         NEW v \in TensorsOf(d), st.storage[u] = st.storage[v], u # v
  PROVE  /\ u[1] < v[1] \/ v[1] < u[1]
         /\ u[1] # v[1] /\ u[1] \in Nat /\ v[1] \in Nat
         /\ u[1] < v[1] =>
              /\ IsCompute(d, v[1])
              /\ v[1] \in ReadersOf(d, u) => Mutates(d, v, u)
              /\ MayReuse(d, u[1], u[2]) \/ \E z \in TensorsOf(d) : Mutates(d, z, u)
  <1>1. SharedInv(d, TensorsOf(d), st)
    BY DEF Scheduled, PassInv
  <1>2. u[1] \in Nat /\ v[1] \in Nat
    BY ProgramIs, TensorShape
  <1>3. /\ u[1] # v[1]
        /\ u[1] < v[1] =>
             /\ IsCompute(d, v[1])
             /\ v[1] \in ReadersOf(d, u) => Mutates(d, v, u)
             /\ MayReuse(d, u[1], u[2]) \/ \E z \in TensorsOf(d) : Mutates(d, z, u)
    BY <1>1 DEF SharedInv
  <1>4. QED
    BY <1>2, <1>3

\* Instructions that store to one cell of storage, one after the other.
LEMMA StoresOrdered ==
  ASSUME NEW d, NEW st, NEW p, Scheduled(d, st, p), NEW c,
         NEW q \in InstructionsOf(d), NEW s, StoresCell(d, q, s, c),
         NEW r \in InstructionsOf(d), NEW z, StoresCell(d, r, z, c), q # r,
         st.storage[<<q[1], s>>] = st.storage[<<r[1], z>>]
  PROVE  Precedes(d, p, q, r) \/ Precedes(d, p, r, q)
  <1> DEFINE t == <<q[1], s>>
             u == <<r[1], z>>
  <1>1. Shaped(d) /\ InstructionsApart(d)
    BY DEF Scheduled, Schedulable
  <1>2. /\ t \in TensorsOf(d) /\ q[1] \in UsersOf(d, t) /\ t[1] = q[1] /\ t[2] = s
        /\ u \in TensorsOf(d) /\ r[1] \in UsersOf(d, u) /\ u[1] = r[1] /\ u[2] = z
    BY <1>1, StoredTensor
  <1>3. st.storage[t] = st.storage[u]
    OBVIOUS
  <1> HIDE DEF t, u
  <1>4. CASE t = u
    <2>1. q[1] = r[1] /\ s = z
      BY <1>2, <1>4
    <2>2. /\ q = <<q[1], q[2]>> /\ r = <<r[1], r[2]>> /\ q[1] \in DOMAIN d
          /\ IsCompute(d, q[1])
          /\ q[2] \in 1 .. InstCount(d, q[1]) /\ r[2] \in 1 .. InstCount(d, r[1])
      BY <1>1, InstructionIs
    <2>3. DOMAIN d[q[1]].insts = 1 .. InstCount(d, q[1])
      BY <1>1, <2>2, Counts, GraphShape
    <2>4. q[2] # r[2]
      BY <2>1, <2>2
    <2>5. d[q[1]].insts[q[2]].writes[s] \cap d[q[1]].insts[r[2]].writes[s] = {}
      BY <1>1, <2>1, <2>2, <2>3, <2>4 DEF InstructionsApart, StoresCell
    <2>6. c \in d[q[1]].insts[q[2]].writes[s] /\ c \in d[q[1]].insts[r[2]].writes[s]
      BY <2>1 DEF StoresCell
    <2>7. QED
      BY <2>5, <2>6
  <1>5. CASE t # u
    <2>1. (t[1] < u[1] \/ u[1] < t[1]) /\ u[1] # t[1]
      BY <1>2, <1>3, <1>5, SharersApart
    <2>2. CASE t[1] < u[1]
      <3>1. q[1] \in UsersOf(d, t) \ {u[1]}
        BY <1>2, <2>1
      <3>2. Precedes(d, p, q, r)
        BY <1>2, <1>3, <2>2, <3>1, UsersFirst
      <3>3. QED
        BY <3>2
    <2>3. CASE u[1] < t[1]
      <3>1. r[1] \in UsersOf(d, u) \ {t[1]}
        BY <1>2, <2>1
      <3>2. Precedes(d, p, r, q)
        BY <1>2, <1>3, <2>3, <3>1, UsersFirst
      <3>3. QED
        BY <3>2
    <2>4. QED
      BY <2>1, <2>2, <2>3
  <1>6. QED
    BY <1>4, <1>5

---------------------------------------------------------------------------
(* No races.                                                               *)

\* Where an op's edge comes from an op, some instruction of it stores what is
\* loaded, and feeds the one that loads.
LEMMA LoadedIsStored ==
  ASSUME NEW d, NEW st, NEW p, Scheduled(d, st, p), NEW q \in InstructionsOf(d),
         NEW e, NEW c, LoadsCell(d, q, e, c), IsCompute(d, d[q[1]].ins[e][1])
  PROVE  \E r \in InstructionsOf(d) :
           /\ r[1] = d[q[1]].ins[e][1] /\ StoresCell(d, r, d[q[1]].ins[e][2], c)
           /\ Feeds(d, r, q)
  <1> DEFINE t == d[q[1]].ins[e]
             inst == d[q[1]].insts[q[2]]
             from == d[t[1]].insts
  <1>1. Shaped(d) /\ AllMatched(d)
    BY DEF Scheduled, Schedulable
  <1>2. /\ q[1] \in DOMAIN d /\ IsCompute(d, q[1]) /\ q[2] \in 1 .. InstCount(d, q[1])
        /\ e \in DOMAIN d[q[1]].ins /\ c \in inst.reads[e]
    BY <1>1, InstructionIs DEF LoadsCell
  <1>3. DOMAIN d[q[1]].insts = 1 .. InstCount(d, q[1])
    BY <1>1, <1>2, Counts, GraphShape
  <1>4. t[1] \in DOMAIN d /\ t[2] \in DOMAIN d[t[1]].outs
    BY <1>1, <1>2, EdgeShape
  <1>5. DOMAIN from = 1 .. InstCount(d, t[1])
    BY <1>1, <1>4, Counts, GraphShape
  <1>6. ~Unmatched(d, q[1])
    BY <1>1, <1>2 DEF AllMatched
  <1>7. inst.reads[e] \subseteq UNION {from[j].writes[t[2]] : j \in DOMAIN from}
    BY <1>2, <1>3, <1>6 DEF Unmatched
  <1>8. PICK j \in DOMAIN from : c \in from[j].writes[t[2]]
    <2> HIDE DEF from, t, inst
    <2>1. QED
      BY <1>2, <1>7
  <1>9. j \in Dependencies(d, q[1], q[2], e)
    BY <1>2, <1>8 DEF Dependencies
  <1>10. WaitsFor(d, q, e)
    BY <1>2, <1>9 DEF WaitsFor
  <1>11. PICK r : r = <<t[1], j>> /\ r[1] = t[1] /\ r[2] = j
    <2> DEFINE r == <<t[1], j>>
    <2>1. r = <<t[1], j>> /\ r[1] = t[1] /\ r[2] = j
      OBVIOUS
    <2> HIDE DEF r
    <2>2. QED
      BY <2>1
  <1>12. r \in InstructionsOf(d)
    <2>1. <<t[1], j>> \in InstructionsOf(d)
      BY <1>1, <1>2, <1>9, <1>10, DependenciesAre
    <2>2. QED
      BY <1>11, <2>1
  <1>13. StoresCell(d, r, t[2], c)
    BY <1>4, <1>8, <1>11 DEF StoresCell
  <1>14. Feeds(d, r, q)
    BY <1>9, <1>10, <1>11 DEF Feeds
  <1>15. QED
    BY <1>11, <1>12, <1>13, <1>14

\* Who stores what is loaded feeds the one that loads.
LEMMA StoredIsFed ==
  ASSUME NEW d, NEW st, NEW p, Scheduled(d, st, p), NEW q \in InstructionsOf(d),
         NEW e, NEW c, LoadsCell(d, q, e, c), NEW r \in InstructionsOf(d),
         r[1] = d[q[1]].ins[e][1], StoresCell(d, r, d[q[1]].ins[e][2], c)
  PROVE  Feeds(d, r, q)
  <1> DEFINE t == d[q[1]].ins[e]
  <1>1. Shaped(d)
    BY ProgramIs
  <1>2. r[1] \in DOMAIN d /\ IsCompute(d, r[1]) /\ r[2] \in 1 .. InstCount(d, r[1])
    BY <1>1, InstructionIs
  <1>3. DOMAIN d[r[1]].insts = 1 .. InstCount(d, r[1])
    <2>1. \A m \in DOMAIN d : IsCompute(d, m) => DOMAIN d[m].insts = 1 .. InstCount(d, m)
      BY <1>1, GraphShape DEF InstCount
    <2>2. QED
      BY <1>2, <2>1, Zenon
  <1>4. r[2] \in Dependencies(d, q[1], q[2], e)
    BY <1>2, <1>3 DEF Dependencies, StoresCell, LoadsCell
  <1>5. WaitsFor(d, q, e)
    BY <1>2, <1>4 DEF WaitsFor, LoadsCell
  <1>6. QED
    BY <1>4, <1>5 DEF Feeds

\* A mutating instruction does not store what another one of its op loads.
LEMMA MutationApart ==
  ASSUME NEW d, Shaped(d), InstructionsApart(d), NEW q \in InstructionsOf(d),
         NEW r \in InstructionsOf(d), q # r, q[1] = r[1], NEW e, NEW c,
         LoadsCell(d, q, e, c), NEW s, StoresCell(d, r, s, c)
  PROVE  ~Mutates(d, <<r[1], s>>, d[q[1]].ins[e])
  <1> SUFFICES ASSUME Mutates(d, <<r[1], s>>, d[q[1]].ins[e])
               PROVE  FALSE
    OBVIOUS
  <1> DEFINE n == q[1]
  <1>1. /\ q = <<q[1], q[2]>> /\ r = <<r[1], r[2]>> /\ n \in DOMAIN d
        /\ IsCompute(d, n)
        /\ q[2] \in 1 .. InstCount(d, n) /\ r[2] \in 1 .. InstCount(d, r[1])
    BY InstructionIs
  <1>2. DOMAIN d[n].insts = 1 .. InstCount(d, n)
    BY <1>1, Counts, GraphShape
  <1>3. q[2] # r[2]
    BY <1>1
  <1>4. s \in DOMAIN d[n].inplace /\ d[n].ins[d[n].inplace[s]] = d[n].ins[e]
    BY DEF Mutates
  <1>5. d[n].insts[r[2]].writes[s] \cap d[n].insts[q[2]].reads[e] = {}
    BY <1>1, <1>2, <1>3, <1>4 DEF InstructionsApart, StoresCell, LoadsCell
  <1>6. QED
    BY <1>5 DEF StoresCell, LoadsCell

LEMMA LoadIsSafe ==
  ASSUME NEW d, NEW st, NEW p, Scheduled(d, st, p), NEW q \in InstructionsOf(d),
         NEW e, NEW c, LoadsCell(d, q, e, c)
  PROVE  ReadSafe(p, CompletedBefore(p), LoadedAfter(p, CompletedBefore(p)),
                  InstRow(d, q), CellOf(st, d[q[1]].ins[e], c))
  <1> DEFINE t == d[q[1]].ins[e]
             x == CellOf(st, t, c)
             F == CompletedBefore(p)
             k == InstRow(d, q)
  <1>1. Shaped(d) /\ InstructionsApart(d)
    BY DEF Scheduled, Schedulable
  <1>2. q[1] \in DOMAIN d /\ IsCompute(d, q[1]) /\ e \in DOMAIN d[q[1]].ins
    BY <1>1, InstructionIs DEF LoadsCell
  <1>3. t \in TensorsOf(d) /\ t = <<t[1], t[2]>> /\ t[1] < q[1]
    BY <1>1, <1>2, EdgeShape
  <1>4. q[1] \in UsersOf(d, t) /\ q[1] \in ReadersOf(d, t)
    BY <1>2 DEF UsersOf, ReadersOf
  <1> HIDE DEF t
  <1>5. ASSUME NEW j \in WritersOf(p, x)
        PROVE  j \in LoadedAfter(p, F)[k]
    <2>1. PICK r \in InstructionsOf(d) : j = InstRow(d, r) /\ r[1] = t[1] /\ StoresCell(d, r, t[2], c)
      BY <1>3, <1>5, DataWritersAre
    <2>2. Feeds(d, r, q)
      BY <2>1, StoredIsFed DEF t
    <2>3. QED
      BY <2>1, <2>2, FeedersLoaded DEF PrecedesLoad
  <1>6. ASSUME NEW y \in Writers(p, x.cell) \ (WritersOf(p, x) \cup {k})
        PROVE  k \in F[y] \/ (WritersOf(p, x) # {} /\ \A j \in WritersOf(p, x) : y \in F[j])
    <2>1. PICK r \in InstructionsOf(d) : y = InstRow(d, r) /\ StoresTo(d, st, r, x.cell)
      BY <1>6, CellWritersAre
    <2>2. PICK s, a : StoresCell(d, r, s, a) /\ x.cell = CellOf(st, <<r[1], s>>, a).cell
      BY <2>1 DEF StoresTo
    <2>3. /\ y = InstRow(d, r) /\ StoresCell(d, r, s, c)
          /\ st.storage[<<r[1], s>>] = st.storage[t]
      BY <2>1, <2>2, SameCell
    <2> DEFINE u == <<r[1], s>>
    <2>4. /\ u \in TensorsOf(d) /\ u[1] = r[1] /\ u[2] = s /\ r[1] \in UsersOf(d, u)
          /\ st.storage[u] = st.storage[t]
      BY <1>1, <2>3, StoredTensor
    <2>5. q # r
      BY <1>6, <2>3
    <2>6. u # t
      <3>1. SUFFICES ASSUME u = t
                     PROVE  FALSE
        OBVIOUS
      <3>2. r[1] = t[1] /\ s = t[2]
        BY <3>1
      <3>3. y \in WritersOf(p, x)
        BY <1>3, <2>3, <3>2, DataWritersAre
      <3>4. QED
        BY <1>6, <3>3
    <2> HIDE DEF u
    <2>7. (u[1] < t[1] \/ t[1] < u[1]) /\ u[1] # t[1]
      BY <1>3, <2>4, <2>6, SharersApart
    <2>8. CASE u[1] < t[1]
      <3>1. IsCompute(d, t[1])
        BY <1>3, <2>4, <2>6, <2>8, SharersApart
      <3>2. WritersOf(p, x) # {}
        <4>1. PICK b \in InstructionsOf(d) : b[1] = t[1] /\ StoresCell(d, b, t[2], c)
          BY <3>1, LoadedIsStored DEF t
        <4>2. InstRow(d, b) \in WritersOf(p, x)
          BY <1>3, <4>1, DataWritersAre
        <4>3. QED
          BY <4>2
      <3>3. ASSUME NEW j \in WritersOf(p, x)
            PROVE  y \in F[j]
        <4>1. PICK b \in InstructionsOf(d) : j = InstRow(d, b) /\ b[1] = t[1]
          BY <1>3, <3>3, DataWritersAre
        <4>2. r[1] \in UsersOf(d, u) \ {t[1]}
          BY <2>4, <2>7
        <4>3. Precedes(d, p, r, b)
          BY <1>3, <2>4, <2>8, <4>1, <4>2, UsersFirst
        <4>4. QED
          BY <2>3, <4>1, <4>3 DEF Precedes
      <3>4. QED
        BY <3>2, <3>3
    <2>9. CASE t[1] < u[1]
      <3>1. q[1] # u[1]
        <4>1. SUFFICES ASSUME q[1] = u[1]
                       PROVE  FALSE
          OBVIOUS
        <4>2. Mutates(d, u, t)
          <5>1. u[1] \in ReadersOf(d, t)
            BY <1>4, <4>1
          <5>2. QED
            BY <1>3, <2>4, <2>6, <2>9, <5>1, SharersApart
        <4>3. ~Mutates(d, u, t)
          BY <1>1, <2>3, <2>4, <2>5, <4>1, MutationApart DEF u, t
        <4>4. QED
          BY <4>2, <4>3
      <3>2. q[1] \in UsersOf(d, t) \ {u[1]}
        BY <1>4, <3>1
      <3>3. Precedes(d, p, q, r)
        BY <1>3, <2>4, <2>9, <3>2, UsersFirst
      <3>4. QED
        BY <2>3, <3>3 DEF Precedes
    <2>10. QED
      BY <2>7, <2>8, <2>9
  <1> HIDE DEF x, F, k
  <1>7. ReadSafe(p, F, LoadedAfter(p, F), k, x)
    <2>1. WritersOf(p, x) \subseteq LoadedAfter(p, F)[k]
      BY <1>5
    <2>2. QED
      BY <1>6, <2>1, Zenon DEF ReadSafe
  <1>8. QED
    BY <1>7 DEF x, F, k, t

LEMMA StoreIsSafe ==
  ASSUME NEW d, NEW st, NEW p, Scheduled(d, st, p), NEW q \in InstructionsOf(d),
         NEW s, NEW c, StoresCell(d, q, s, c)
  PROVE  WriteSafe(p, CompletedBefore(p), InstRow(d, q), CellOf(st, <<q[1], s>>, c))
  <1> DEFINE x == CellOf(st, <<q[1], s>>, c)
             F == CompletedBefore(p)
             k == InstRow(d, q)
  <1>1. ASSUME NEW y \in Writers(p, x.cell) \ {k}
        PROVE  k \in F[y] \/ y \in F[k]
    <2>1. PICK r \in InstructionsOf(d) : y = InstRow(d, r) /\ StoresTo(d, st, r, x.cell)
      BY <1>1, CellWritersAre
    <2>2. PICK z, b : StoresCell(d, r, z, b) /\ x.cell = CellOf(st, <<r[1], z>>, b).cell
      BY <2>1 DEF StoresTo
    <2>3. /\ y = InstRow(d, r) /\ StoresCell(d, r, z, c)
          /\ st.storage[<<r[1], z>>] = st.storage[<<q[1], s>>]
      BY <2>1, <2>2, SameCell
    <2>4. q # r
      BY <1>1, <2>3
    <2>5. Precedes(d, p, q, r) \/ Precedes(d, p, r, q)
      BY <2>3, <2>4, StoresOrdered
    <2>6. QED
      BY <2>3, <2>5 DEF Precedes
  <1> HIDE DEF x, F, k
  <1>2. WriteSafe(p, F, k, x)
    BY <1>1, Zenon DEF WriteSafe
  <1>3. QED
    BY <1>2 DEF x, F, k

LEMMA ScheduledNoRaces ==
  ASSUME NEW d, NEW st, NEW p, Scheduled(d, st, p)
  PROVE  NoRaces(p)
  <1> DEFINE F == CompletedBefore(p)
             G == LoadedAfter(p, F)
  <1>1. ASSUME NEW k \in RowsOf(p), NEW r \in p.instructions[k].reads
        PROVE  ReadSafe(p, F, G, k, r)
    <2>1. PICK q \in InstructionsOf(d) : k = InstRow(d, q)
      BY <1>1, RowInstruction
    <2>2. PICK e, c : LoadsCell(d, q, e, c) /\ r = CellOf(st, d[q[1]].ins[e], c)
      BY <1>1, <2>1, RowReads
    <2>3. QED
      BY <2>1, <2>2, LoadIsSafe
  <1>2. ASSUME NEW k \in RowsOf(p), NEW w \in p.instructions[k].writes
        PROVE  WriteSafe(p, F, k, w)
    <2>1. PICK q \in InstructionsOf(d) : k = InstRow(d, q)
      BY <1>2, RowInstruction
    <2>2. PICK s, c : StoresCell(d, q, s, c) /\ w = CellOf(st, <<q[1], s>>, c)
      BY <1>2, <2>1, RowWrites
    <2>3. QED
      BY <2>1, <2>2, StoreIsSafe
  <1>3. QED
    BY <1>1, <1>2, Zenon DEF NoRaces

---------------------------------------------------------------------------
(* The caller's tensors and the outputs.                                   *)

\* Cell c is part of tensor t.
PartOf(d, t, c) == \E i \in DOMAIN d[t[1]].insts : c \in d[t[1]].insts[i].writes[t[2]]

\* What a cell of tensor t is to hold.
Held(d, st, t, x) == \E c : PartOf(d, t, c) /\ x = CellOf(st, t, c)

LEMMA HoldingIs ==
  ASSUME NEW d, NEW st, NEW sources, NEW x
  PROVE  x \in Holding(d, st, sources) <=> \E t \in sources : Held(d, st, t, x)
  <1> DEFINE cells(t) == UNION {d[t[1]].insts[i].writes[t[2]] : i \in DOMAIN d[t[1]].insts}
             of(t) == {CellOf(st, t, c) : c \in cells(t)}
  <1>1. Holding(d, st, sources) = UNION {of(t) : t \in sources}
    BY DEF Holding, CellOf
  <1>2. \A t : x \in of(t) <=> Held(d, st, t, x)
    <2>1. \A t, c : c \in cells(t) <=> PartOf(d, t, c)
      BY DEF PartOf
    <2> HIDE DEF cells
    <2>2. QED
      BY <2>1 DEF Held
  <1> HIDE DEF of
  <1>3. QED
    BY <1>1, <1>2

LEMMA InputsHeld ==
  ASSUME NEW d, NEW st, NEW p, Scheduled(d, st, p), NEW x
  PROVE  x \in p.inputs <=>
           \E n \in DOMAIN d : d[n].kind = "input" /\ Held(d, st, <<n, 1>>, x)
  <1> DEFINE S == {<<n, 1>> : n \in {m \in DOMAIN d : d[m].kind = "input"}}
  <1>1. p.inputs = Holding(d, st, S)
    BY DEF Scheduled, Program
  <1>2. x \in p.inputs <=> \E t \in S : Held(d, st, t, x)
    BY <1>1, HoldingIs
  <1>3. QED
    BY <1>2

LEMMA OutputsHeld ==
  ASSUME NEW d, NEW st, NEW p, Scheduled(d, st, p), NEW x
  PROVE  x \in p.outputs <=>
           \E t : /\ \E n \in DOMAIN d : d[n].kind = "output" /\ t \in ToSet(d[n].ins)
                  /\ Held(d, st, t, x)
  <1> DEFINE S == UNION {ToSet(d[n].ins) : n \in {m \in DOMAIN d : d[m].kind = "output"}}
  <1>1. p.outputs = Holding(d, st, S)
    BY DEF Scheduled, Program
  <1>2. x \in p.outputs <=> \E t \in S : Held(d, st, t, x)
    BY <1>1, HoldingIs
  <1>3. \A t : t \in S <=> \E n \in DOMAIN d : d[n].kind = "output" /\ t \in ToSet(d[n].ins)
    OBVIOUS
  <1> HIDE DEF S
  <1>4. QED
    BY <1>2, <1>3

\* A tensor that is returned.
LEMMA ReturnedTensor ==
  ASSUME NEW d, Shaped(d), NEW n \in DOMAIN d, d[n].kind = "output", NEW t \in ToSet(d[n].ins)
  PROVE  /\ t \in TensorsOf(d) /\ t = <<t[1], t[2]>> /\ n \in ReadersOf(d, t)
         /\ t[1] \in DOMAIN d /\ d[t[1]].kind \in {"input", "compute"}
         /\ t[2] \in DOMAIN d[t[1]].outs
  <1>1. PICK e \in DOMAIN d[n].ins : d[n].ins[e] = t
    BY DEF ToSet
  <1>2. n \in ReadersOf(d, t)
    BY <1>1 DEF ReadersOf
  <1>3. QED
    BY <1>1, <1>2, EdgeShape

\* An op stores each cell of its tensors.
LEMMA PartIsStored ==
  ASSUME NEW d, NEW st, NEW p, Scheduled(d, st, p), NEW t \in TensorsOf(d),
         IsCompute(d, t[1]), NEW c, PartOf(d, t, c)
  PROVE  WritersOf(p, CellOf(st, t, c)) # {}
  <1>1. Shaped(d)
    BY ProgramIs
  <1>2. t = <<t[1], t[2]>> /\ t[1] \in DOMAIN d /\ t[2] \in DOMAIN d[t[1]].outs
    BY <1>1, TensorShape
  <1>3. PICK i \in DOMAIN d[t[1]].insts : c \in d[t[1]].insts[i].writes[t[2]]
    BY DEF PartOf
  <1>4. DOMAIN d[t[1]].insts = 1 .. InstCount(d, t[1])
    BY <1>1, <1>2, Counts, GraphShape
  <1> DEFINE q == <<t[1], i>>
  <1>5. q = <<q[1], q[2]>> /\ q[1] = t[1] /\ q[2] = i
    OBVIOUS
  <1> HIDE DEF q
  <1>6. q \in InstructionsOf(d)
    BY <1>1, <1>2, <1>4, <1>5, InstructionIs
  <1>7. StoresCell(d, q, t[2], c)
    BY <1>2, <1>3, <1>5 DEF StoresCell
  <1>8. InstRow(d, q) \in WritersOf(p, CellOf(st, t, c))
    BY <1>2, <1>5, <1>6, <1>7, DataWritersAre
  <1>9. QED
    BY <1>8

LEMMA ScheduledConsistent ==
  ASSUME NEW d, NEW st, NEW p, Scheduled(d, st, p)
  PROVE  Consistent(p)
  <1>1. Shaped(d) /\ InputsFilled(d)
    BY DEF Scheduled, Schedulable
  <1>2. ASSUME NEW k \in RowsOf(p), NEW v \in p.instructions[k].writes,
               NEW w \in p.instructions[k].writes, v.cell = w.cell
        PROVE  v = w
    <2>1. PICK q \in InstructionsOf(d) : k = InstRow(d, q)
      BY <1>2, RowInstruction
    <2>2. PICK s, b : StoresCell(d, q, s, b) /\ v = CellOf(st, <<q[1], s>>, b)
      BY <1>2, <2>1, RowWrites
    <2>3. PICK z, c : StoresCell(d, q, z, c) /\ w = CellOf(st, <<q[1], z>>, c)
      BY <1>2, <2>1, RowWrites
    <2> DEFINE t == <<q[1], s>>
               u == <<q[1], z>>
    <2>4. b = c /\ st.storage[t] = st.storage[u]
      BY <1>2, <2>2, <2>3, SameCell
    <2>5. t \in TensorsOf(d) /\ u \in TensorsOf(d) /\ t[1] = u[1]
      BY <1>1, <2>2, <2>3, StoredTensor
    <2> HIDE DEF t, u
    <2>6. t = u
      BY <2>4, <2>5, SharersApart
    <2>7. QED
      BY <2>2, <2>3, <2>4, <2>6 DEF t, u
  <1>3. ASSUME NEW k \in RowsOf(p), NEW r \in p.instructions[k].reads
        PROVE  WritersOf(p, r) # {} \/ r \in p.inputs
    <2>1. PICK q \in InstructionsOf(d) : k = InstRow(d, q)
      BY <1>3, RowInstruction
    <2>2. PICK e, c : LoadsCell(d, q, e, c) /\ r = CellOf(st, d[q[1]].ins[e], c)
      BY <1>3, <2>1, RowReads
    <2> DEFINE t == d[q[1]].ins[e]
    <2>3. /\ q[1] \in DOMAIN d /\ IsCompute(d, q[1]) /\ q[2] \in 1 .. InstCount(d, q[1])
          /\ e \in DOMAIN d[q[1]].ins
      BY <1>1, <2>2, InstructionIs DEF LoadsCell
    <2>4. /\ t = <<t[1], t[2]>> /\ t[1] \in DOMAIN d /\ t[2] \in DOMAIN d[t[1]].outs
          /\ d[t[1]].kind \in {"input", "compute"}
      BY <1>1, <2>3, EdgeShape
    <2>5. CASE IsCompute(d, t[1])
      <3>1. PICK b \in InstructionsOf(d) : b[1] = t[1] /\ StoresCell(d, b, t[2], c)
        BY <2>2, <2>5, LoadedIsStored
      <3> HIDE DEF t
      <3>2. InstRow(d, b) \in WritersOf(p, CellOf(st, t, c))
        BY <2>4, <3>1, DataWritersAre
      <3>3. QED
        BY <2>2, <3>2 DEF t
    <2>6. CASE d[t[1]].kind = "input"
      <3>1. DOMAIN d[q[1]].insts = 1 .. InstCount(d, q[1])
        BY <1>1, <2>3, Counts, GraphShape
      <3>2. d[q[1]].insts[q[2]].reads[e] \subseteq
              UNION {d[t[1]].insts[j].writes[t[2]] : j \in DOMAIN d[t[1]].insts}
        BY <1>1, <2>3, <2>6, <3>1 DEF InputsFilled
      <3>3. PartOf(d, t, c)
        BY <2>2, <3>2 DEF PartOf, LoadsCell
      <3>4. t[2] = 1
        BY <1>1, <2>4, <2>6, GraphShape
      <3>5. t = <<t[1], 1>>
        BY <2>4, <3>4
      <3> HIDE DEF t
      <3>6. Held(d, st, <<t[1], 1>>, r)
        BY <2>2, <3>3, <3>5 DEF Held, t
      <3>7. QED
        BY <2>4, <2>6, <3>6, InputsHeld
    <2>7. QED
      BY <2>4, <2>5, <2>6 DEF IsCompute
  <1>4. ASSUME NEW out \in p.outputs
        PROVE  WritersOf(p, out) # {} \/ out \in p.inputs
    <2>1. PICK t : /\ \E n \in DOMAIN d : d[n].kind = "output" /\ t \in ToSet(d[n].ins)
                   /\ Held(d, st, t, out)
      BY <1>4, OutputsHeld
    <2>2. /\ t \in TensorsOf(d) /\ t = <<t[1], t[2]>> /\ t[1] \in DOMAIN d
          /\ d[t[1]].kind \in {"input", "compute"} /\ t[2] \in DOMAIN d[t[1]].outs
      BY <1>1, <2>1, ReturnedTensor
    <2>3. PICK c : PartOf(d, t, c) /\ out = CellOf(st, t, c)
      BY <2>1 DEF Held
    <2>4. CASE IsCompute(d, t[1])
      BY <2>2, <2>3, <2>4, PartIsStored
    <2>5. CASE d[t[1]].kind = "input"
      <3>1. t[2] = 1
        BY <1>1, <2>2, <2>5, GraphShape
      <3>2. t = <<t[1], 1>>
        BY <2>2, <3>1
      <3>3. Held(d, st, <<t[1], 1>>, out)
        BY <2>1, <3>2
      <3>4. QED
        BY <2>2, <2>5, <3>3, InputsHeld
    <2>6. QED
      BY <2>2, <2>4, <2>5 DEF IsCompute
  <1>5. ASSUME NEW v \in p.inputs, NEW w \in p.inputs, v.cell = w.cell
        PROVE  v = w
    <2>1. PICK m \in DOMAIN d : d[m].kind = "input" /\ Held(d, st, <<m, 1>>, v)
      BY <1>5, InputsHeld
    <2>2. PICK n \in DOMAIN d : d[n].kind = "input" /\ Held(d, st, <<n, 1>>, w)
      BY <1>5, InputsHeld
    <2>3. PICK b : v = CellOf(st, <<m, 1>>, b)
      BY <2>1 DEF Held
    <2>4. PICK c : w = CellOf(st, <<n, 1>>, c)
      BY <2>2 DEF Held
    <2> DEFINE t == <<m, 1>>
               u == <<n, 1>>
    <2>5. t \in TensorsOf(d) /\ u \in TensorsOf(d) /\ t[1] = m /\ u[1] = n
      BY <1>1, <2>1, <2>2, GraphShape DEF TensorsOf
    <2>6. st.storage[t] = st.storage[u] /\ b = c
      BY <1>5, <2>3, <2>4, SameCell
    <2> HIDE DEF t, u
    <2>7. t = u
      <3>1. SUFFICES ASSUME t # u
                     PROVE  FALSE
        OBVIOUS
      <3>2. IsCompute(d, m) \/ IsCompute(d, n)
        BY <2>5, <2>6, <3>1, SharersApart
      <3>3. QED
        BY <2>1, <2>2, <3>2 DEF IsCompute
    <2>8. QED
      BY <2>3, <2>4, <2>6, <2>7 DEF t, u
  <1>6. QED
    BY <1>2, <1>3, <1>4, <1>5, Zenon DEF Consistent

LEMMA ScheduledOutputsLast ==
  ASSUME NEW d, NEW st, NEW p, Scheduled(d, st, p)
  PROVE  OutputsLast(p)
  <1> DEFINE F == CompletedBefore(p)
  <1>1. Shaped(d) /\ Functionalised(d)
    BY ProgramIs
  <1>2. ASSUME NEW out \in p.outputs, NEW y \in Writers(p, out.cell) \ WritersOf(p, out)
        PROVE  /\ WritersOf(p, out) # {}
               /\ \A j \in WritersOf(p, out) : y \in F[j]
    <2>1. PICK t : /\ \E n \in DOMAIN d : d[n].kind = "output" /\ t \in ToSet(d[n].ins)
                   /\ Held(d, st, t, out)
      BY <1>2, OutputsHeld
    <2>2. PICK n \in DOMAIN d : d[n].kind = "output" /\ t \in ToSet(d[n].ins)
      BY <2>1
    <2>3. t \in TensorsOf(d) /\ t = <<t[1], t[2]>> /\ n \in ReadersOf(d, t)
      BY <1>1, <2>2, ReturnedTensor
    <2>4. PICK c : PartOf(d, t, c) /\ out = CellOf(st, t, c)
      BY <2>1 DEF Held
    <2>5. PICK r \in InstructionsOf(d) : y = InstRow(d, r) /\ StoresTo(d, st, r, out.cell)
      BY <1>2, CellWritersAre
    <2>6. PICK s, b : StoresCell(d, r, s, b) /\ out.cell = CellOf(st, <<r[1], s>>, b).cell
      BY <2>5 DEF StoresTo
    <2> DEFINE u == <<r[1], s>>
    <2>7. b = c /\ st.storage[u] = st.storage[t]
      BY <2>4, <2>6, SameCell
    <2>8. u \in TensorsOf(d) /\ r[1] \in UsersOf(d, u) /\ u[1] = r[1] /\ u[2] = s
      BY <1>1, <2>6, StoredTensor
    <2>9. u # t
      <3>1. SUFFICES ASSUME u = t
                     PROVE  FALSE
        OBVIOUS
      <3>2. r[1] = t[1] /\ s = t[2]
        BY <3>1
      <3>3. StoresCell(d, r, t[2], c)
        BY <2>6, <2>7, <3>2
      <3>4. y \in WritersOf(p, CellOf(st, t, c))
        BY <2>3, <2>5, <3>2, <3>3, DataWritersAre
      <3>5. QED
        BY <1>2, <2>4, <3>4
    <2> HIDE DEF u
    <2>10. (u[1] < t[1] \/ t[1] < u[1]) /\ u[1] # t[1]
      BY <2>3, <2>7, <2>8, <2>9, SharersApart
    <2>11. ~(t[1] < u[1])
      <3>1. SUFFICES ASSUME t[1] < u[1]
                     PROVE  FALSE
        OBVIOUS
      <3>2. ~MayReuse(d, t[1], t[2])
        <4>1. ToSet(OutNodes(d, t[1], t[2])) = ReadersOf(d, t)
          <5>1. ToSet(OutNodes(d, t[1], t[2])) = ReadersOf(d, <<t[1], t[2]>>)
            BY <1>1, OutNodesAre
          <5>2. QED
            BY <2>3, <5>1
        <4>2. QED
          BY <2>2, <2>3, <4>1 DEF MayReuse
      <3>3. PICK z \in TensorsOf(d) : Mutates(d, z, t)
        BY <2>3, <2>7, <2>8, <2>9, <3>1, <3>2, SharersApart
      <3>4. d[n].kind # "output"
        BY <1>1, <2>3, <3>3, MutatedOnce
      <3>5. QED
        BY <2>2, <3>4
    <2>12. u[1] < t[1]
      BY <2>10, <2>11
    <2>13. IsCompute(d, t[1])
      BY <2>3, <2>7, <2>8, <2>9, <2>12, SharersApart
    <2>14. WritersOf(p, out) # {}
      BY <2>3, <2>4, <2>13, PartIsStored
    <2>15. ASSUME NEW j \in WritersOf(p, out)
           PROVE  y \in F[j]
      <3>1. j \in WritersOf(p, CellOf(st, t, c))
        BY <2>4, <2>15
      <3>2. PICK a \in InstructionsOf(d) : j = InstRow(d, a) /\ a[1] = t[1]
        BY <2>3, <3>1, DataWritersAre
      <3>3. r[1] \in UsersOf(d, u) \ {t[1]}
        BY <2>8, <2>10
      <3>4. Precedes(d, p, r, a)
        BY <2>3, <2>7, <2>8, <2>12, <3>2, <3>3, UsersFirst
      <3>5. QED
        BY <2>5, <3>2, <3>4 DEF Precedes
    <2>16. QED
      BY <2>14, <2>15
  <1> HIDE DEF F
  <1>3. QED
    BY <1>2, Zenon DEF OutputsLast, F

\* A cell of the caller's tensors is stored to in place only.
LEMMA InputsKept ==
  ASSUME NEW d, NEW st, NEW p, Scheduled(d, st, p), MutationsReturned(d),
         NEW in \in p.inputs, NEW y \in Writers(p, in.cell)
  PROVE  DOMAIN d[p.instructions[y].node].inplace # {}
  <1>1. Shaped(d) /\ Laid(d, st, p.instructions)
    BY ProgramIs
  <1>2. CallersInv(d, TensorsOf(d), st)
    BY DEF Scheduled, PassInv
  <1>3. PICK n \in DOMAIN d : d[n].kind = "input" /\ Held(d, st, <<n, 1>>, in)
    BY InputsHeld
  <1>4. PICK c : in = CellOf(st, <<n, 1>>, c)
    BY <1>3 DEF Held
  <1>5. PICK r \in InstructionsOf(d) : y = InstRow(d, r) /\ StoresTo(d, st, r, in.cell)
    BY CellWritersAre
  <1>6. PICK s, b : StoresCell(d, r, s, b) /\ in.cell = CellOf(st, <<r[1], s>>, b).cell
    BY <1>5 DEF StoresTo
  <1> DEFINE t == <<n, 1>>
             u == <<r[1], s>>
  <1>7. st.storage[t] = st.storage[u]
    BY <1>4, <1>6, SameCell
  <1>8. u \in TensorsOf(d) /\ u[1] = r[1] /\ u[2] = s /\ r[1] \in DOMAIN d /\ IsCompute(d, r[1])
    BY <1>1, <1>6, StoredTensor
  <1>9. t \in TensorsOf(d) /\ t[1] = n
    BY <1>1, <1>3, GraphShape DEF TensorsOf
  <1> HIDE DEF t, u
  <1>10. s \in CallersSlots(d)[r[1]]
    BY <1>2, <1>3, <1>7, <1>8, <1>9 DEF CallersInv
  <1>11. CallersSlots(d)[r[1]] = SlotsFrom(d, CallersSlots(d), r[1])
    BY <1>1, <1>8, CallersUnfold
  <1>12. s \in DOMAIN d[r[1]].inplace
    BY <1>8, <1>10, <1>11 DEF SlotsFrom, IsCompute
  <1>13. p.instructions[y].node = r[1]
    BY <1>1, <1>5, RowHolds
  <1>14. QED
    BY <1>12, <1>13

---------------------------------------------------------------------------
(* The program computes the graph.                                         *)

\* The rows of p that hold instructions.
FilledRows(p) == {k \in RowsOf(p) : p.instructions[k] # Noop}

LEMMA HeldRows ==
  ASSUME NEW d, NEW st, NEW p, Scheduled(d, st, p)
  PROVE  /\ \A k \in FilledRows(p) : \E q \in InstructionsOf(d) :
              k = InstRow(d, q) /\ InstructionAt(p, k) = q
         /\ \A q \in InstructionsOf(d) :
              /\ InstRow(d, q) \in FilledRows(p) /\ InstructionAt(p, InstRow(d, q)) = q
              /\ p.instructions[InstRow(d, q)].node = q[1]
              /\ p.instructions[InstRow(d, q)].index = q[2]
  <1>1. Shaped(d) /\ Laid(d, st, p.instructions) /\ RowsOf(p) = DOMAIN p.instructions
    BY ProgramIs
  <1>2. ASSUME NEW q \in InstructionsOf(d)
        PROVE  /\ InstRow(d, q) \in FilledRows(p) /\ InstructionAt(p, InstRow(d, q)) = q
               /\ p.instructions[InstRow(d, q)].node = q[1]
               /\ p.instructions[InstRow(d, q)].index = q[2]
    <2>1. InstRow(d, q) \in DOMAIN p.instructions
          /\ p.instructions[InstRow(d, q)].node = q[1]
          /\ p.instructions[InstRow(d, q)].index = q[2]
      BY <1>1, RowHolds
    <2>2. p.instructions[InstRow(d, q)] # Noop
      BY <1>1, <2>1, RowEmpty
    <2>3. q = <<q[1], q[2]>>
      BY <1>1, InstructionIs
    <2>4. InstructionAt(p, InstRow(d, q)) = q
      BY <2>1, <2>3 DEF InstructionAt
    <2>5. QED
      BY <1>1, <2>1, <2>2, <2>4 DEF FilledRows
  <1>3. ASSUME NEW k \in FilledRows(p)
        PROVE  \E q \in InstructionsOf(d) : k = InstRow(d, q) /\ InstructionAt(p, k) = q
    <2>1. k \in DOMAIN p.instructions /\ p.instructions[k] # Noop
      BY <1>1, <1>3 DEF FilledRows
    <2>2. PICK q \in InstructionsOf(d) : k = InstRow(d, q)
      BY <1>1, <2>1, RowEmpty
    <2>3. QED
      BY <1>2, <2>2
  <1>4. QED
    BY <1>2, <1>3

LEMMA ScheduledFollows ==
  ASSUME NEW d, NEW st, NEW p, Scheduled(d, st, p)
  PROVE  FollowsGraph(p, d)
  <1> DEFINE F == CompletedBefore(p)
             rows == {k \in RowsOf(p) : p.instructions[k] # Noop}
  <1>1. Shaped(d) /\ Functionalised(d) /\ InputsFilled(d) /\ PassInv(d, TensorsOf(d), st)
    BY DEF Scheduled, Schedulable
  <1>2. /\ \A k \in rows : \E q \in InstructionsOf(d) :
             k = InstRow(d, q) /\ InstructionAt(p, k) = q
        /\ \A q \in InstructionsOf(d) :
             /\ InstRow(d, q) \in rows /\ InstructionAt(p, InstRow(d, q)) = q
             /\ p.instructions[InstRow(d, q)].node = q[1]
             /\ p.instructions[InstRow(d, q)].index = q[2]
    BY HeldRows DEF FilledRows
  <1> HIDE DEF rows, F
  <1>3. {InstructionAt(p, k) : k \in rows} = InstructionsOf(d)
    BY <1>2
  <1>4. \A j, k \in rows : InstructionAt(p, j) = InstructionAt(p, k) => j = k
    BY <1>2
  <1>5. ASSUME NEW k \in rows, NEW n, n = p.instructions[k].node,
               NEW i, i = p.instructions[k].index, NEW e \in DOMAIN d[n].ins,
               NEW c \in d[n].insts[i].reads[e]
        PROVE  Filled(p, d, F[k] \cap rows, d[n].ins[e], c)
    <2>1. PICK q \in InstructionsOf(d) : k = InstRow(d, q)
      BY <1>2
    <2>2. n = q[1] /\ i = q[2]
      BY <1>2, <1>5, <2>1
    <2>3. /\ q[1] \in DOMAIN d /\ IsCompute(d, q[1]) /\ q[2] \in 1 .. InstCount(d, q[1])
      BY <1>1, InstructionIs
    <2> DEFINE t == d[n].ins[e]
    <2>4. t = <<t[1], t[2]>> /\ d[t[1]].kind \in {"input", "compute"}
      BY <1>1, <2>2, <2>3, EdgeShape
    <2>5. CASE IsCompute(d, t[1])
      <3>1. LoadsCell(d, q, e, c)
        BY <1>5, <2>2 DEF LoadsCell
      <3>2. PICK r \in InstructionsOf(d) :
              r[1] = t[1] /\ StoresCell(d, r, t[2], c) /\ Feeds(d, r, q)
        BY <2>2, <2>5, <3>1, LoadedIsStored
      <3>3. Precedes(d, p, r, q)
        BY <3>2, FeedersPrecede
      <3>4. InstRow(d, r) \in F[k] \cap rows
        BY <1>2, <2>1, <3>3 DEF Precedes, F
      <3>5. /\ p.instructions[InstRow(d, r)].node = t[1]
            /\ c \in d[t[1]].insts[p.instructions[InstRow(d, r)].index].writes[t[2]]
        BY <1>2, <3>2 DEF StoresCell
      <3> HIDE DEF t
      <3>6. Filled(p, d, F[k] \cap rows, t, c)
        BY <3>4, <3>5 DEF Filled
      <3>7. QED
        BY <3>6 DEF t
    <2>6. CASE d[t[1]].kind = "input"
      <3>1. DOMAIN d[q[1]].insts = 1 .. InstCount(d, q[1])
        BY <1>1, <2>3, Counts, GraphShape
      <3>2. d[n].insts[i].reads[e] \subseteq
              UNION {d[t[1]].insts[j].writes[t[2]] : j \in DOMAIN d[t[1]].insts}
        <4>1. n \in DOMAIN d /\ i \in DOMAIN d[n].insts
          BY <2>2, <2>3, <3>1
        <4>2. QED
          BY <1>1, <2>6, <4>1 DEF InputsFilled
      <3> HIDE DEF t
      <3>3. \E j \in DOMAIN d[t[1]].insts : c \in d[t[1]].insts[j].writes[t[2]]
        BY <3>2
      <3>4. Filled(p, d, F[k] \cap rows, t, c)
        BY <2>6, <3>3 DEF Filled
      <3>5. QED
        BY <3>4 DEF t
    <2>7. QED
      BY <2>4, <2>5, <2>6 DEF IsCompute
  <1>6. ASSUME NEW k \in rows, NEW n, n = p.instructions[k].node,
               NEW s \in DOMAIN d[n].inplace, NEW j \in rows,
               p.instructions[j].node \in ReadersOf(d, d[n].ins[d[n].inplace[s]]) \ {n}
        PROVE  j \in F[k]
    <2>1. PICK q \in InstructionsOf(d) : k = InstRow(d, q)
      BY <1>2
    <2>2. PICK r \in InstructionsOf(d) : j = InstRow(d, r)
      BY <1>2
    <2>3. n = q[1] /\ p.instructions[j].node = r[1]
      BY <1>2, <1>6, <2>1, <2>2
    <2>4. q[1] \in DOMAIN d /\ r[1] \in DOMAIN d /\ IsCompute(d, r[1])
      BY <1>1, InstructionIs
    <2> DEFINE t == d[n].ins[d[n].inplace[s]]
               v == <<n, s>>
    <2>5. d[n].inplace[s] \in DOMAIN d[n].ins /\ v \in TensorsOf(d)
      BY <1>1, <2>3, <2>4, InPlaceShape
    <2>6. t \in TensorsOf(d) /\ t[1] < n
      BY <1>1, <2>3, <2>4, <2>5, EdgeShape
    <2>7. v[1] = n /\ Mutates(d, v, t)
      BY DEF Mutates
    <2>8. r[1] \in UsersOf(d, t) \ {n}
      BY <1>6, <2>3, <2>4 DEF UsersOf
    <2> HIDE DEF t, v
    <2>9. st.storage[v] = st.storage[t]
      BY <1>1, <2>5, <2>6, <2>7 DEF PassInv, AliasInv
    <2>10. Precedes(d, p, r, q)
      BY <2>3, <2>5, <2>6, <2>7, <2>8, <2>9, UsersFirst
    <2>11. QED
      BY <2>1, <2>2, <2>10 DEF Precedes, F
  <1>7. ASSUME NEW k \in rows
        PROVE  LET n == p.instructions[k].node
                   i == p.instructions[k].index IN
               /\ \A e \in DOMAIN d[n].ins : \A c \in d[n].insts[i].reads[e] :
                    Filled(p, d, F[k] \cap rows, d[n].ins[e], c)
               /\ \A s \in DOMAIN d[n].inplace : \A j \in rows :
                    p.instructions[j].node \in ReadersOf(d, d[n].ins[d[n].inplace[s]]) \ {n}
                      => j \in F[k]
    <2> DEFINE n == p.instructions[k].node
               i == p.instructions[k].index
    <2>1. \A e \in DOMAIN d[n].ins : \A c \in d[n].insts[i].reads[e] :
            Filled(p, d, F[k] \cap rows, d[n].ins[e], c)
      BY <1>5
    <2>2. \A s \in DOMAIN d[n].inplace : \A j \in rows :
            p.instructions[j].node \in ReadersOf(d, d[n].ins[d[n].inplace[s]]) \ {n}
              => j \in F[k]
      BY <1>6
    <2>3. QED
      BY <2>1, <2>2
  <1>8. QED
    BY <1>3, <1>4, <1>7, Zenon DEF FollowsGraph, F, rows

---------------------------------------------------------------------------
(* The targets.                                                            *)

\* The arrivals at a data barrier.
LEMMA DataTarget ==
  ASSUME NEW d, NEW st, NEW p, Scheduled(d, st, p), WithinLimits(p.instructions),
         NEW b \in AllInputBarriers(d)
  PROVE  Cardinality(b[3]) = Cardinality(ArrivalsAt(p, b))
  <1> DEFINE rows == p.instructions
             R == st.releases
  <1>1. Shaped(d) /\ ReleaseInv(d, st) /\ Laid(d, st, rows) /\ RowsOf(p) = DOMAIN rows
    BY ProgramIs
  <1>2. /\ b[1] = "input" /\ \A k : b # ReuseBarrier(k)
        /\ \E q \in InstructionsOf(d) : \E e : WaitsFor(d, q, e) /\ b = DataBarrier(d, q, e)
    BY <1>1, BarrierKinds
  <1>3. PICK q \in InstructionsOf(d) : \E e : WaitsFor(d, q, e) /\ b = DataBarrier(d, q, e)
    BY <1>2
  <1>4. PICK e : WaitsFor(d, q, e) /\ b = DataBarrier(d, q, e)
    BY <1>3
  <1> DEFINE m == b[2]
             S == b[3]
             T == ArrivalsAt(p, b)
  <1>5. m = d[q[1]].ins[e][1] /\ S = Dependencies(d, q[1], q[2], e)
    BY <1>4 DEF DataBarrier
  <1>6. q[1] \in DOMAIN d
    BY <1>1, InstructionIs
  <1>7. /\ m \in DOMAIN d /\ \A j \in S : <<m, j>> \in InstructionsOf(d)
    BY <1>1, <1>4, <1>5, <1>6, DependenciesAre
  <1>8. S \subseteq 1 .. InstCount(d, m)
    <2>1. ASSUME NEW j \in S
          PROVE  j \in 1 .. InstCount(d, m)
      <3> DEFINE r == <<m, j>>
      <3>1. r \in InstructionsOf(d) /\ r[1] = m /\ r[2] = j
        BY <1>7
      <3> HIDE DEF r, m, S
      <3>2. QED
        BY <1>1, <3>1, InstructionIs
    <2>2. QED
      BY <2>1
  <1>9. IsFiniteSet(S)
    <2>1. InstCount(d, m) \in Nat
      BY <1>1, <1>7, Counts
    <2>2. IsFiniteSet(1 .. InstCount(d, m))
      BY <2>1, IntervalSize
    <2>3. QED
      BY <1>8, <2>2, FS_Subset
  \* Where instruction j of the producer arrives.
  <1> DEFINE At(j, y) == y \in 1 .. MAX_DST_BARRIERS
                         /\ y \in DOMAIN rows[InstRow(d, <<m, j>>)].arrivals
                         /\ rows[InstRow(d, <<m, j>>)].arrivals[y] = b
             f == [j \in S |-> <<InstRow(d, <<m, j>>), CHOOSE y : At(j, y)>>]
  <1>10. ASSUME NEW r \in InstructionsOf(d)
        PROVE  /\ \A y \in DOMAIN rows[InstRow(d, r)].arrivals : y \in 1 .. MAX_DST_BARRIERS
               /\ (\E y \in DOMAIN rows[InstRow(d, r)].arrivals :
                     rows[InstRow(d, r)].arrivals[y] = b) <=> r[1] = m /\ r[2] \in S
               /\ \A x, y \in DOMAIN rows[InstRow(d, r)].arrivals :
                    rows[InstRow(d, r)].arrivals[x] = b /\ rows[InstRow(d, r)].arrivals[y] = b
                      => x = y
    <2> DEFINE arrivals == rows[InstRow(d, r)].arrivals
    <2>1. arrivals = ArrivalsOf(d, st, r) /\ InstRow(d, r) \in DOMAIN rows
      BY <1>1, RowHolds
    <2>2. PICK a, L : ArrivalList(d, st, r, ArrivalsOf(d, st, r), a, L)
      BY <1>1, ArrivalsAre
    <2>3. Len(arrivals) <= MAX_DST_BARRIERS
      BY <2>1 DEF WithinLimits
    <2> HIDE DEF arrivals, m, S, rows
    <2>4. /\ a \in Nat /\ Len(L) \in Nat /\ Len(arrivals) = a + Len(L)
          /\ DOMAIN arrivals = 1 .. a + Len(L)
          /\ \A y \in 1 .. a : arrivals[y] \in DataArrivals(d, r)
          /\ \A x \in DataArrivals(d, r) : \E y \in 1 .. a : arrivals[y] = x
          /\ \A x, y \in 1 .. a : arrivals[x] = arrivals[y] => x = y
          /\ \A y \in 1 .. Len(L) : arrivals[y + a] = ReuseBarrier(L[y][1])
      BY <2>1, <2>2 DEF ArrivalList
    <2>5. MAX_DST_BARRIERS \in Nat
      BY SchedulingAssumption
    <2>6. \A y \in DOMAIN arrivals : y \in 1 .. MAX_DST_BARRIERS
      BY <2>3, <2>4, <2>5
    <2>7. \A y \in DOMAIN arrivals : arrivals[y] = b => y \in 1 .. a
      <3>1. ASSUME NEW y \in DOMAIN arrivals, arrivals[y] = b, y \notin 1 .. a
            PROVE  FALSE
        <4>1. y - a \in 1 .. Len(L) /\ y - a + a = y
          BY <2>4, <3>1
        <4>2. PICK z \in 1 .. Len(L) : z + a = y
          BY <4>1
        <4>3. arrivals[y] = ReuseBarrier(L[z][1])
          BY <2>4, <4>2
        <4>4. QED
          BY <1>2, <3>1, <4>3
      <3>2. QED
        BY <3>1
    <2>8. \A x, y \in DOMAIN arrivals : arrivals[x] = b /\ arrivals[y] = b => x = y
      BY <2>4, <2>7
    <2>9. b \in DataArrivals(d, r) <=> r[1] = m /\ r[2] \in S
      BY DEF DataArrivals, m, S
    <2>10. (\E y \in DOMAIN arrivals : arrivals[y] = b) <=> b \in DataArrivals(d, r)
      <3>1. \A y \in 1 .. a : y \in DOMAIN arrivals
        BY <2>4
      <3>2. QED
        BY <2>4, <2>7, <3>1, SMTT(30)
    <2>11. QED
      BY <2>6, <2>8, <2>9, <2>10 DEF arrivals
  <1>11. \A j \in S : At(j, CHOOSE y : At(j, y))
    <2>1. ASSUME NEW j \in S
          PROVE  \E y : At(j, y)
      <3> DEFINE r == <<m, j>>
      <3>1. r \in InstructionsOf(d) /\ r[1] = m /\ r[2] = j
        BY <1>7
      <3> HIDE DEF r, m, S, rows
      <3>2. PICK y \in DOMAIN rows[InstRow(d, r)].arrivals : rows[InstRow(d, r)].arrivals[y] = b
        BY <1>10, <3>1
      <3>3. y \in 1 .. MAX_DST_BARRIERS
        BY <1>10, <3>1, <3>2
      <3>4. QED
        BY <3>2, <3>3 DEF r
    <2>2. ASSUME NEW j \in S
          PROVE  At(j, CHOOSE y : At(j, y))
      <3> HIDE DEF At
      <3>1. QED
        BY <2>1
    <2>3. QED
      BY <2>2
  <1>12. \A x : x \in T <=>
           /\ x = <<x[1], x[2]>> /\ x[1] \in DOMAIN rows /\ x[2] \in 1 .. MAX_DST_BARRIERS
           /\ x[2] \in DOMAIN rows[x[1]].arrivals /\ rows[x[1]].arrivals[x[2]] = b
    BY <1>1 DEF ArrivalsAt
  <1>13. f \in [S -> T]
    <2>1. ASSUME NEW j \in S
          PROVE  f[j] \in T
      <3> DEFINE y == CHOOSE z : At(j, z)
                 k == InstRow(d, <<m, j>>)
                 g == <<k, y>>
      <3>1. At(j, y)
        BY <1>11
      <3>2. k \in DOMAIN rows
        <4>1. <<m, j>> \in InstructionsOf(d)
          BY <1>7
        <4>2. QED
          BY <1>1, <4>1, RowHolds
      <3>3. f[j] = g /\ g = <<g[1], g[2]>> /\ g[1] = k /\ g[2] = y
        <4> HIDE DEF At
        <4>1. f[j] = g
          OBVIOUS
        <4> HIDE DEF k, y, f
        <4>2. QED
          BY <4>1
      <3>4. /\ y \in 1 .. MAX_DST_BARRIERS /\ y \in DOMAIN rows[k].arrivals
            /\ rows[k].arrivals[y] = b
        BY <3>1
      <3> HIDE DEF f, g, k, y, T, rows, S, m
      <3>5. g \in T
        BY <1>12, <3>2, <3>3, <3>4
      <3>6. QED
        BY <3>3, <3>5
    <2>2. DOMAIN f = S /\ f = [j \in S |-> f[j]]
      <3> HIDE DEF At, rows, T, S, m
      <3>1. QED
        OBVIOUS
    <2> HIDE DEF f, S, T
    <2>3. QED
      BY <2>1, <2>2
  <1>14. ASSUME NEW x \in S, NEW y \in S, f[x] = f[y]
         PROVE  x = y
    <2>1. InstRow(d, <<m, x>>) = InstRow(d, <<m, y>>)
      BY <1>14
    <2>2. <<m, x>> \in InstructionsOf(d) /\ <<m, y>> \in InstructionsOf(d)
      BY <1>7
    <2>3. <<m, x>> = <<m, y>>
      BY <1>1, <2>1, <2>2, RowsOrdered
    <2>4. QED
      BY <2>3
  <1>15. ASSUME NEW t \in T
         PROVE  \E x \in S : f[x] = t
    <2>1. /\ t = <<t[1], t[2]>> /\ t[1] \in DOMAIN rows
          /\ t[2] \in DOMAIN rows[t[1]].arrivals /\ rows[t[1]].arrivals[t[2]] = b
      BY <1>12, <1>15
    <2>2. PICK r \in InstructionsOf(d) : t[1] = InstRow(d, r)
      <3>1. rows[t[1]].arrivals # << >>
        BY <2>1
      <3>2. QED
        BY <1>1, <2>1, <3>1, RowInstruction
    <2>3. r[1] = m /\ r[2] \in S
      <3> HIDE DEF m, S, rows
      <3>1. QED
        BY <1>10, <2>1, <2>2
    <2>4. r = <<m, r[2]>>
      <3>1. r = <<r[1], r[2]>>
        BY <1>1, InstructionIs
      <3>2. QED
        BY <2>3, <3>1
    <2> DEFINE j == r[2]
               y == CHOOSE z : At(j, z)
    <2>5. At(j, y)
      BY <1>11, <2>3
    <2>6. y \in DOMAIN rows[t[1]].arrivals /\ rows[t[1]].arrivals[y] = b
      BY <2>2, <2>4, <2>5
    <2>7. y = t[2]
      <3> HIDE DEF m, S, rows, y
      <3>1. QED
        BY <1>10, <2>1, <2>2, <2>6
    <2>8. f[j] = <<InstRow(d, <<m, j>>), y>>
      BY <2>3
    <2>9. InstRow(d, <<m, j>>) = t[1]
      BY <2>2, <2>4
    <2> HIDE DEF f, y, m, S, rows, T
    <2>10. f[j] = t
      BY <2>1, <2>7, <2>8, <2>9
    <2>11. QED
      BY <2>3, <2>10 DEF j
  <1> HIDE DEF f, S, T
  <1>16. Cardinality(T) = Cardinality(S)
    BY <1>9, <1>13, <1>14, <1>15, SameSize
  <1>17. QED
    BY <1>16 DEF S, T

\* Per entry of release k that names the op of instruction r, the place where
\* r arrives at its barrier.
ArrivalPlaces(d, st, k, r, g) ==
  LET ids == st.releases[k].ids
      arrivals == ArrivalsOf(d, st, r) IN
  /\ \A x \in DOMAIN ids : ids[x] = r[1] =>
       g[x] \in DOMAIN arrivals /\ arrivals[g[x]] = ReuseBarrier(k)
  /\ \A x, y \in DOMAIN ids : ids[x] = r[1] /\ ids[y] = r[1] /\ g[x] = g[y] => x = y
  /\ \A y \in DOMAIN arrivals : arrivals[y] = ReuseBarrier(k) =>
       \E x \in DOMAIN ids : ids[x] = r[1] /\ g[x] = y

LEMMA PlacesExist ==
  ASSUME NEW d, Shaped(d), NEW st, ReleaseInv(d, st), NEW k \in DOMAIN st.releases, NEW r
  PROVE  \E g : ArrivalPlaces(d, st, k, r, g)
  <1> DEFINE ids == st.releases[k].ids
             arrivals == ArrivalsOf(d, st, r)
             b == ReuseBarrier(k)
  <1>1. PICK a, L : ArrivalList(d, st, r, arrivals, a, L)
    BY ArrivalsAre
  <1>2. \A x : x \in Listed(st.releases, r[1]) <=>
              /\ x = <<x[1], x[2]>> /\ x[1] \in DOMAIN st.releases
              /\ x[2] \in DOMAIN st.releases[x[1]].ids
              /\ st.releases[x[1]].ids[x[2]] = r[1]
    BY ListedAre
  <1> HIDE DEF arrivals
  <1>3. /\ a \in Nat /\ Len(L) \in Nat /\ DOMAIN arrivals = 1 .. a + Len(L)
        /\ \A y \in 1 .. a : arrivals[y] \in DataArrivals(d, r)
        /\ \A y \in 1 .. Len(L) :
             L[y] \in Listed(st.releases, r[1]) /\ arrivals[y + a] = ReuseBarrier(L[y][1])
        /\ \A x \in Listed(st.releases, r[1]) : \E y \in 1 .. Len(L) : L[y] = x
        /\ \A x, y \in 1 .. Len(L) : L[x] = L[y] => x = y
    BY <1>1 DEF ArrivalList
  <1> DEFINE At(x, z) == z \in 1 .. Len(L) /\ L[z] = <<k, x>>
             h == [x \in DOMAIN ids |-> CHOOSE z : At(x, z)]
             g == [x \in DOMAIN ids |-> h[x] + a]
  <1>4. ASSUME NEW x \in DOMAIN ids, ids[x] = r[1]
        PROVE  At(x, h[x])
    <2> DEFINE w == <<k, x>>
    <2>1. w = <<w[1], w[2]>> /\ w[1] = k /\ w[2] = x
      OBVIOUS
    <2> HIDE DEF w
    <2>2. w \in Listed(st.releases, r[1])
      BY <1>2, <1>4, <2>1
    <2>3. \E z : At(x, z)
      BY <1>3, <2>2 DEF w
    <2> HIDE DEF At
    <2>4. QED
      BY <2>3
  <1> HIDE DEF h
  <1>5. ASSUME NEW x \in DOMAIN ids, ids[x] = r[1]
        PROVE  g[x] \in DOMAIN arrivals /\ arrivals[g[x]] = b
    <2>1. h[x] \in 1 .. Len(L) /\ L[h[x]] = <<k, x>>
      BY <1>4, <1>5
    <2>2. g[x] = h[x] + a
      OBVIOUS
    <2>3. arrivals[h[x] + a] = ReuseBarrier(L[h[x]][1])
      BY <1>3, <2>1
    <2>4. L[h[x]][1] = k
      BY <2>1
    <2>5. h[x] + a \in 1 .. a + Len(L)
      BY <1>3, <2>1
    <2>6. QED
      BY <1>3, <2>2, <2>3, <2>4, <2>5
  <1>6. ASSUME NEW x \in DOMAIN ids, NEW y \in DOMAIN ids, ids[x] = r[1], ids[y] = r[1],
               g[x] = g[y]
        PROVE  x = y
    <2>1. /\ h[x] \in 1 .. Len(L) /\ L[h[x]] = <<k, x>>
          /\ h[y] \in 1 .. Len(L) /\ L[h[y]] = <<k, y>>
      BY <1>4, <1>6
    <2>2. g[x] = h[x] + a /\ g[y] = h[y] + a
      OBVIOUS
    <2>3. h[x] = h[y]
      <3>1. h[x] + a = h[y] + a
        BY <1>6, <2>2
      <3> HIDE DEF g, h, At
      <3>2. a \in Nat /\ Len(L) \in Nat
        BY <1>3, Zenon
      <3>3. h[x] \in 1 .. Len(L) /\ h[y] \in 1 .. Len(L)
        BY <2>1, Zenon
      <3>4. h[x] \in Nat /\ h[y] \in Nat /\ a \in Nat
        BY <3>2, <3>3
      <3>5. QED
        BY <3>1, <3>4
    <2>4. <<k, x>> = <<k, y>>
      BY <2>1, <2>3
    <2>5. QED
      BY <2>4
  <1>7. ASSUME NEW y \in DOMAIN arrivals, arrivals[y] = b
        PROVE  \E x \in DOMAIN ids : ids[x] = r[1] /\ g[x] = y
    <2>1. y \notin 1 .. a
      <3>1. SUFFICES ASSUME y \in 1 .. a
                     PROVE  FALSE
        OBVIOUS
      <3>2. b \in AllInputBarriers(d)
        BY <1>3, <1>7, <3>1 DEF DataArrivals
      <3>3. QED
        BY <3>2, BarrierKinds
    <2>2. y - a \in 1 .. Len(L) /\ y - a + a = y
      BY <1>3, <2>1
    <2>3. PICK z \in 1 .. Len(L) : z + a = y
      BY <2>2
    <2>4. L[z] \in Listed(st.releases, r[1]) /\ b = ReuseBarrier(L[z][1])
      BY <1>3, <1>7, <2>3
    <2>5. L[z][1] = k
      BY <2>4, ReuseBarrierNamed
    <2> DEFINE w == L[z]
    <2>6. w \in Listed(st.releases, r[1]) /\ w[1] = k
      BY <2>4, <2>5
    <2> HIDE DEF w
    <2>7. w = <<k, w[2]>> /\ w[2] \in DOMAIN ids /\ ids[w[2]] = r[1]
      BY <1>2, <2>6
    <2>8. L[z] = <<k, w[2]>> /\ w[2] \in DOMAIN ids /\ ids[w[2]] = r[1]
      BY <2>7 DEF w
    <2>9. h[w[2]] \in 1 .. Len(L) /\ L[h[w[2]]] = <<k, w[2]>>
      BY <1>4, <2>8
    <2>10. h[w[2]] = z
      <3>1. PICK i : i = h[w[2]]
        OBVIOUS
      <3>2. i \in 1 .. Len(L) /\ L[i] = L[z]
        BY <2>8, <2>9, <3>1
      <3>3. \A l, m \in 1 .. Len(L) : L[l] = L[m] => l = m
        BY <1>3
      <3>4. QED
        BY <3>1, <3>2, <3>3
    <2>11. g[w[2]] = y
      BY <2>3, <2>8, <2>10
    <2>12. QED
      BY <2>8, <2>11
  <1> HIDE DEF g, b, ids
  <1>8. ArrivalPlaces(d, st, k, r, g)
    BY <1>5, <1>6, <1>7, Zenon DEF ArrivalPlaces, arrivals, b, ids
  <1>9. QED
    BY <1>8

\* The arrivals at a release barrier.
LEMMA ReuseTarget ==
  ASSUME NEW d, NEW st, NEW p, Scheduled(d, st, p), WithinLimits(p.instructions),
         NEW k \in DOMAIN st.releases
  PROVE  st.releases[k].count = Cardinality(ArrivalsAt(p, ReuseBarrier(k)))
  <1> DEFINE rows == p.instructions
             ids == st.releases[k].ids
             b == ReuseBarrier(k)
             S == Releasing(d, ids)
             T == ArrivalsAt(p, b)
  <1>1. Shaped(d) /\ ReleaseInv(d, st) /\ Laid(d, st, rows) /\ RowsOf(p) = DOMAIN rows
    BY ProgramIs
  <1>2. /\ ids \in Seq(DOMAIN d) /\ st.releases[k].count = ReleaseTarget(d, ids)
        /\ \A m \in ToSet(ids) : IsCompute(d, m)
    BY <1>1 DEF ReleaseInv
  <1>3. IsFiniteSet(S) /\ st.releases[k].count = Cardinality(S)
    BY <1>1, <1>2, ReleaseTargetIs
  <1>4. \A x \in DOMAIN ids : ids[x] \in DOMAIN d /\ IsCompute(d, ids[x])
    BY <1>2 DEF ToSet
  <1>5. \A z : z \in S <=> /\ z = <<z[1], z[2]>> /\ z[1] \in DOMAIN ids
                           /\ z[2] \in 1 .. InstCount(d, ids[z[1]])
    BY DEF Releasing
  <1> DEFINE Inst(z) == <<ids[z[1]], z[2]>>
  <1>6. ASSUME NEW z \in S
        PROVE  Inst(z) \in InstructionsOf(d)
    <2> DEFINE r == Inst(z)
    <2>1. r = <<r[1], r[2]>> /\ r[1] = ids[z[1]] /\ r[2] = z[2]
      OBVIOUS
    <2>2. z[1] \in DOMAIN ids /\ z[2] \in 1 .. InstCount(d, ids[z[1]])
      BY <1>5
    <2> HIDE DEF r, S, ids
    <2>3. r \in InstructionsOf(d)
      BY <1>1, <1>4, <2>1, <2>2, InstructionIs
    <2>4. QED
      BY <2>3 DEF r
  <1> DEFINE G(r) == CHOOSE g : ArrivalPlaces(d, st, k, r, g)
             f == [z \in S |-> <<InstRow(d, Inst(z)), G(Inst(z))[z[1]]>>]
  <1>7. \A r : ArrivalPlaces(d, st, k, r, G(r))
    BY <1>1, PlacesExist
  <1>8. \A r \in InstructionsOf(d) :
          /\ InstRow(d, r) \in DOMAIN rows /\ rows[InstRow(d, r)].arrivals = ArrivalsOf(d, st, r)
    BY <1>1, RowHolds
  <1> HIDE DEF G
  <1>9. ASSUME NEW r \in InstructionsOf(d)
        PROVE  /\ \A x \in DOMAIN ids : ids[x] = r[1] =>
                    /\ G(r)[x] \in DOMAIN rows[InstRow(d, r)].arrivals
                    /\ G(r)[x] \in 1 .. MAX_DST_BARRIERS
                    /\ rows[InstRow(d, r)].arrivals[G(r)[x]] = b
               /\ \A x, y \in DOMAIN ids :
                    ids[x] = r[1] /\ ids[y] = r[1] /\ G(r)[x] = G(r)[y] => x = y
               /\ \A y \in DOMAIN rows[InstRow(d, r)].arrivals :
                    rows[InstRow(d, r)].arrivals[y] = b =>
                      \E x \in DOMAIN ids : ids[x] = r[1] /\ G(r)[x] = y
    <2> DEFINE arrivals == rows[InstRow(d, r)].arrivals
               g == G(r)
    <2>1. ArrivalPlaces(d, st, k, r, g)
      BY <1>7
    <2>2. arrivals = ArrivalsOf(d, st, r) /\ Len(arrivals) <= MAX_DST_BARRIERS
      BY <1>8 DEF WithinLimits
    <2>3. PICK a, L : ArrivalList(d, st, r, ArrivalsOf(d, st, r), a, L)
      BY <1>1, ArrivalsAre
    <2> HIDE DEF arrivals, g, rows, ids
    <2>4. /\ \A x \in DOMAIN ids : ids[x] = r[1] =>
               g[x] \in DOMAIN arrivals /\ arrivals[g[x]] = b
          /\ \A x, y \in DOMAIN ids : ids[x] = r[1] /\ ids[y] = r[1] /\ g[x] = g[y] => x = y
          /\ \A y \in DOMAIN arrivals : arrivals[y] = b =>
               \E x \in DOMAIN ids : ids[x] = r[1] /\ g[x] = y
      BY <2>1, <2>2, Zenon DEF ArrivalPlaces, ids
    <2>5. DOMAIN arrivals = 1 .. Len(arrivals) /\ Len(arrivals) \in Nat
      BY <2>2, <2>3 DEF ArrivalList
    <2>6. MAX_DST_BARRIERS \in Nat
      BY SchedulingAssumption
    <2>7. \A y \in DOMAIN arrivals : y \in 1 .. MAX_DST_BARRIERS
      BY <2>2, <2>5, <2>6
    <2>8. QED
      BY <2>4, <2>7 DEF arrivals, g
  <1>10. \A x : x \in T <=>
           /\ x = <<x[1], x[2]>> /\ x[1] \in DOMAIN rows /\ x[2] \in 1 .. MAX_DST_BARRIERS
           /\ x[2] \in DOMAIN rows[x[1]].arrivals /\ rows[x[1]].arrivals[x[2]] = b
    BY <1>1 DEF ArrivalsAt
  <1>11. ASSUME NEW z \in S
         PROVE  /\ f[z] = <<InstRow(d, Inst(z)), G(Inst(z))[z[1]]>>
                /\ f[z][1] = InstRow(d, Inst(z)) /\ f[z][2] = G(Inst(z))[z[1]]
                /\ z = <<z[1], z[2]>> /\ z[1] \in DOMAIN ids
                /\ Inst(z)[1] = ids[z[1]] /\ Inst(z)[2] = z[2]
    <2>1. f[z] = <<InstRow(d, Inst(z)), G(Inst(z))[z[1]]>>
      OBVIOUS
    <2> HIDE DEF f, S
    <2>2. QED
      BY <1>5, <2>1
  <1>12. f \in [S -> T]
    <2>1. ASSUME NEW z \in S
          PROVE  f[z] \in T
      <3> DEFINE r == Inst(z)
                 w == f[z]
      <3>1. r \in InstructionsOf(d) /\ r[1] = ids[z[1]] /\ z[1] \in DOMAIN ids
        BY <1>6, <1>11
      <3>2. w = <<w[1], w[2]>> /\ w[1] = InstRow(d, r) /\ w[2] = G(r)[z[1]]
        BY <1>11
      <3> HIDE DEF r, w, S, T, rows, ids, b, f
      <3>3. w \in T
        BY <1>8, <1>9, <1>10, <3>1, <3>2
      <3>4. QED
        BY <3>3 DEF w
    <2>2. DOMAIN f = S /\ f = [z \in S |-> f[z]]
      OBVIOUS
    <2> HIDE DEF f, S, T
    <2>3. QED
      BY <2>1, <2>2
  <1>13. ASSUME NEW y \in S, NEW z \in S, f[y] = f[z]
         PROVE  y = z
    <2> DEFINE q == Inst(y)
               r == Inst(z)
    <2>1. q \in InstructionsOf(d) /\ r \in InstructionsOf(d)
      BY <1>6
    <2>2. InstRow(d, q) = InstRow(d, r) /\ G(q)[y[1]] = G(r)[z[1]]
      <3> HIDE DEF f, S
      <3>1. QED
        BY <1>11, <1>13
    <2>3. q = r
      BY <1>1, <2>1, <2>2, RowsOrdered
    <2>4. /\ y = <<y[1], y[2]>> /\ y[1] \in DOMAIN ids /\ q[1] = ids[y[1]] /\ q[2] = y[2]
          /\ z = <<z[1], z[2]>> /\ z[1] \in DOMAIN ids /\ r[1] = ids[z[1]] /\ r[2] = z[2]
      BY <1>11
    <2> HIDE DEF q, r, S, f, ids, rows
    <2>5. y[1] = z[1]
      BY <1>9, <2>1, <2>2, <2>3, <2>4
    <2>6. y[2] = z[2]
      BY <2>3, <2>4
    <2>7. QED
      BY <2>4, <2>5, <2>6
  <1>14. ASSUME NEW t \in T
         PROVE  \E z \in S : f[z] = t
    <2>1. /\ t = <<t[1], t[2]>> /\ t[1] \in DOMAIN rows
          /\ t[2] \in DOMAIN rows[t[1]].arrivals /\ rows[t[1]].arrivals[t[2]] = b
      BY <1>10, <1>14
    <2>2. PICK r \in InstructionsOf(d) : t[1] = InstRow(d, r)
      <3>1. rows[t[1]].arrivals # << >>
        BY <2>1
      <3>2. QED
        BY <1>1, <2>1, <3>1, RowInstruction
    <2>3. PICK x \in DOMAIN ids : ids[x] = r[1] /\ G(r)[x] = t[2]
      <3> HIDE DEF ids, rows, b
      <3>1. QED
        BY <1>9, <2>1, <2>2
    <2>4. r = <<r[1], r[2]>> /\ r[2] \in 1 .. InstCount(d, r[1])
      BY <1>1, InstructionIs
    <2> DEFINE z == <<x, r[2]>>
    <2>5. z = <<z[1], z[2]>> /\ z[1] = x /\ z[2] = r[2]
      OBVIOUS
    <2> HIDE DEF z
    <2>6. z \in S
      <3> HIDE DEF S, ids
      <3>1. QED
        BY <1>5, <2>3, <2>4, <2>5
    <2>7. Inst(z) = r
      BY <2>3, <2>4, <2>5
    <2>8. f[z] = <<InstRow(d, r), G(r)[x]>>
      <3>1. f[z] = <<InstRow(d, Inst(z)), G(Inst(z))[z[1]]>>
        BY <2>6
      <3> HIDE DEF f
      <3>2. QED
        BY <2>5, <2>7, <3>1
    <2> HIDE DEF f, S
    <2>9. f[z] = t
      BY <2>1, <2>2, <2>3, <2>8
    <2>10. QED
      BY <2>6, <2>9
  <1> HIDE DEF f, S, T
  <1>15. Cardinality(T) = Cardinality(S)
    BY <1>3, <1>12, <1>13, <1>14, SameSize
  <1>16. QED
    BY <1>3, <1>15 DEF T

LEMMA ScheduledTargets ==
  ASSUME NEW d, NEW st, NEW p, Scheduled(d, st, p), WithinLimits(p.instructions)
  PROVE  ExactTargets(p)
  <1> DEFINE R == st.releases
  <1>1. /\ Shaped(d) /\ ReleaseInv(d, st) /\ Laid(d, st, p.instructions)
        /\ \A b : b \in DOMAIN p.target <=>
             \E k \in DOMAIN p.instructions :
               b \in ToSet(p.instructions[k].inputs)
                     \cup ToSet(p.instructions[k].reuses)
                     \cup ToSet(p.instructions[k].arrivals)
        /\ \A b \in DOMAIN p.target : p.target[b] = Target(R, b)
        /\ RowsOf(p) = DOMAIN p.instructions
    BY ProgramIs
  <1>2. ASSUME NEW b \in AllInputBarriers(d)
        PROVE  Target(R, b) = Cardinality(ArrivalsAt(p, b))
    <2>1. b[1] = "input"
      BY <1>1, BarrierKinds
    <2>2. QED
      BY <2>1, DataTarget DEF Target
  <1>3. ASSUME NEW k \in DOMAIN R
        PROVE  Target(R, ReuseBarrier(k)) = Cardinality(ArrivalsAt(p, ReuseBarrier(k)))
    <2>1. Target(R, ReuseBarrier(k)) = R[k].count
      BY DEF Target, ReuseBarrier
    <2>2. QED
      BY <2>1, ReuseTarget
  <1>4. ASSUME NEW b \in DOMAIN p.target
        PROVE  b \in AllInputBarriers(d) \/ \E k \in DOMAIN R : b = ReuseBarrier(k)
    <2>1. PICK k \in DOMAIN p.instructions :
            b \in ToSet(p.instructions[k].inputs) \cup ToSet(p.instructions[k].reuses)
                  \cup ToSet(p.instructions[k].arrivals)
      BY <1>1
    <2>2. p.instructions[k] # Noop
      <3>1. SUFFICES ASSUME p.instructions[k] = Noop
                     PROVE  FALSE
        OBVIOUS
      <3>2. /\ p.instructions[k].inputs = << >> /\ p.instructions[k].reuses = << >>
            /\ p.instructions[k].arrivals = << >>
        BY <1>1, <3>1, RowEmpty
      <3>3. ToSet(<< >>) = {}
        BY DEF ToSet
      <3>4. QED
        BY <2>1, <3>2, <3>3
    <2>3. PICK q \in InstructionsOf(d) : k = InstRow(d, q)
      BY <1>1, <2>2, RowEmpty
    <2>4. /\ p.instructions[k].inputs = InputBarriers(d, q[1], q[2])
          /\ p.instructions[k].reuses = SetToSeq(ReuseBarriers(R, q[1]))
          /\ p.instructions[k].arrivals = ArrivalsOf(d, st, q)
      BY <1>1, <2>3, RowHolds
    <2>5. CASE b \in ToSet(InputBarriers(d, q[1], q[2]))
      BY <1>1, <2>5, AllInputsAre
    <2>6. CASE b \in ToSet(SetToSeq(ReuseBarriers(R, q[1])))
      <3>1. IsSeq(R)
        BY <1>1 DEF ReleaseInv
      <3>2. b \in ReuseBarriers(R, q[1])
        BY <2>6, <3>1, ReusesAre
      <3>3. QED
        BY <3>2 DEF ReuseBarriers
    <2>7. CASE b \in ToSet(ArrivalsOf(d, st, q))
      BY <1>1, <2>7, ArrivesAt DEF DataArrivals
    <2>8. QED
      BY <2>1, <2>4, <2>5, <2>6, <2>7
  <1> HIDE DEF R
  <1>5. QED
    BY <1>1, <1>2, <1>3, <1>4 DEF ExactTargets

====
