------------------------ MODULE InstructionTypesProofs ----------------------
(***************************************************************************)
(* Theorems about InstructionTypes, for every program of one op or two     *)
(* whose regions are boxes (ProgramsAssumption), of any shapes and ranges. *)
(*                                                                         *)
(* The dependencies are exact: MatchBoxes and MatchLinear decide whether   *)
(* two regions share an element by counting in units that divide all       *)
(* sizes.  The unit is computed by Euclid's algorithm (GcdDivides), so on  *)
(* multiples of it the order of bounds is that of the counts (UnitsLess),  *)
(* and two boxes overlap when they do in units (InUnitsOverlap), two       *)
(* intervals when their cells meet (CellsMeet).                            *)
(*                                                                         *)
(* The counts agree: num_instructions is the length of block_indices, by   *)
(* one lemma per type of instruction.  What it takes is that a product of  *)
(* loop bounds counts the loop's rounds (CountersIs), and that a range on  *)
(* multiples of a block has as many blocks as its extent (BlocksOf).       *)
(*                                                                         *)
(* No instruction of an op in place reads what another overwrites: the     *)
(* blocks of o_proj_residual are tiles of different numbers (TilesApart),  *)
(* also where the columns are 36 blocks and a tail (OProjColumnsApart),    *)
(* and of a cache nothing is read as an operand (EmptyApart).              *)
(*                                                                         *)
(* The operators involved are folds; what a fold computes is shown by      *)
(* induction over the subsets it goes through (FoldExists,                 *)
(* FoldSetInduction), written with a set in place of a predicate.          *)
(***************************************************************************)
EXTENDS InstructionTypes, FiniteSetTheorems, TLAPS

\* Induction over the naturals, for a set.
LEMMA NatSet ==
  ASSUME NEW S, 0 \in S, \A n \in Nat : n \in S => n + 1 \in S
  PROVE  Nat \subseteq S
  <1> SUFFICES ASSUME NEW k \in Nat, k \notin S PROVE FALSE
    OBVIOUS
  <1> DEFINE Initial == {1 .. n : n \in {m \in Nat : m \notin S}}
             R == StrictSubsetOrdering(Nat)
  <1>1. IsWellFoundedOn(R, FiniteSubsetsOf(Nat))
    BY FS_StrictSubsetOrderingWellFounded
  <1>2. Initial \subseteq FiniteSubsetsOf(Nat)
    <2>1. ASSUME NEW n \in Nat PROVE IsFiniteSet(1 .. n)
      BY FS_Interval
    <2>2. ASSUME NEW n \in Nat PROVE 1 .. n \in FiniteSubsetsOf(Nat)
      BY <2>1 DEF FiniteSubsetsOf
    <2>3. QED
      BY <2>2
  <1>3. Initial # {}
    OBVIOUS
  <1>4. \E T \in Initial : \A U \in Initial : ~(<<U, T>> \in R)
    <2> HIDE DEF R, Initial
    <2>1. QED
      BY <1>1, <1>2, <1>3, WFMin
  <1>5. PICK n \in Nat : n \notin S /\ \A U \in Initial : ~(<<U, 1 .. n>> \in R)
    BY <1>4
  <1>6. n # 0 /\ n - 1 \in Nat /\ n - 1 \notin S
    BY <1>5
  <1>7. 1 .. n - 1 \in Initial
    BY <1>6
  <1>8. <<1 .. n - 1, 1 .. n>> \in R
    BY <1>6 DEF StrictSubsetOrdering
  <1>9. QED
    BY <1>5, <1>7, <1>8

\* The least and the greatest of some naturals.
LEMMA MinIs ==
  ASSUME NEW S \in SUBSET Nat, S # {}
  PROVE  Min(S) \in S
  <1>1. PICK k \in Nat : k \in S
    OBVIOUS
  <1> DEFINE T == {n \in Nat : \A x \in S : x >= n}
  <1>2. \E x \in S : \A y \in S : x <= y
    <2>1. SUFFICES ASSUME ~ \E x \in S : \A y \in S : x <= y
                   PROVE  FALSE
      OBVIOUS
    <2>2. 0 \in T
      OBVIOUS
    <2>3. ASSUME NEW n \in Nat, n \in T
          PROVE  n + 1 \in T
      <3>1. \A x \in S : x >= n
        BY <2>3
      <3>2. n \notin S
        BY <2>1, <3>1
      <3>3. QED
        BY <3>1, <3>2
    <2> HIDE DEF T
    <2>4. Nat \subseteq T
      BY <2>2, <2>3, NatSet
    <2>5. k + 1 \in T
      BY <2>4
    <2>6. QED
      BY <1>1, <2>5 DEF T
  <1>3. QED
    BY <1>2 DEF Min

\* The least upper bound of a finite set of numbers is in the set.
LEMMA MaxIs ==
  ASSUME NEW S \in SUBSET Nat, IsFiniteSet(S), S # {}
  PROVE  Max(S) \in S /\ \A x \in S : x <= Max(S)
  <1> DEFINE T == {n \in Nat : \A U \in SUBSET S :
                     U # {} /\ Cardinality(U) = n => \E x \in U : \A y \in U : x >= y}
  <1>1. 0 \in T
    <2>1. ASSUME NEW U \in SUBSET S, U # {}
          PROVE  Cardinality(U) # 0
      <3>1. IsFiniteSet(U)
        BY FS_Subset
      <3>2. QED
        BY <2>1, <3>1, FS_EmptySet
    <2>2. QED
      BY <2>1
  <1>2. ASSUME NEW n \in Nat, n \in T
        PROVE  n + 1 \in T
    <2>1. ASSUME NEW U \in SUBSET S, U # {}, Cardinality(U) = n + 1
          PROVE  \E x \in U : \A y \in U : x >= y
      <3>1. PICK z \in U : TRUE
        BY <2>1
      <3>2. IsFiniteSet(U)
        BY FS_Subset
      <3>3. Cardinality(U \ {z}) = n
        <4>1. Cardinality(U \ {z}) = Cardinality(U) - 1
          BY <3>1, <3>2, FS_RemoveElement
        <4>2. QED
          BY <2>1, <4>1
      <3>4. z \in Nat /\ U \ {z} \in SUBSET S
        BY <3>1
      <3>5. CASE U \ {z} = {}
        BY <3>1, <3>4, <3>5
      <3>6. CASE U \ {z} # {}
        <4>1. PICK x \in U \ {z} : \A y \in U \ {z} : x >= y
          BY <1>2, <3>3, <3>4, <3>6
        <4>2. x \in Nat /\ U \subseteq Nat
          BY <4>1
        <4>3. QED
          BY <3>1, <3>4, <4>1, <4>2
      <3>7. QED
        BY <3>5, <3>6
    <2>2. QED
      BY <2>1
  <1>3. Nat \subseteq T
    <2> HIDE DEF T
    <2>1. QED
      BY <1>1, <1>2, NatSet
  <1>4. Cardinality(S) \in Nat
    BY FS_CardinalityType
  <1>5. \E x \in S : \A y \in S : x >= y
    BY <1>3, <1>4
  <1> DEFINE m == Max(S)
  <1>6. m \in S /\ \A y \in S : m >= y
    BY <1>5 DEF Max
  <1> HIDE DEF m
  <1>7. \A x \in S : x <= m
    BY <1>6
  <1>8. QED
    BY <1>6, <1>7 DEF m

\* The same up to a bound.
LEMMA UpTo ==
  ASSUME NEW N \in Nat, NEW S, 0 \in S,
         \A n \in Nat : n < N /\ n \in S => n + 1 \in S
  PROVE  \A n \in 0 .. N : n \in S
  <1> DEFINE T == {n \in Nat : n <= N => n \in S}
  <1>1. 0 \in T
    OBVIOUS
  <1>2. ASSUME NEW n \in Nat, n \in T
        PROVE  n + 1 \in T
    <2>1. n + 1 <= N => n < N /\ n <= N
      OBVIOUS
    <2>2. n + 1 <= N => n + 1 \in S
      BY <1>2, <2>1
    <2>3. QED
      BY <2>2
  <1> HIDE DEF T
  <1>3. Nat \subseteq T
    BY <1>1, <1>2, NatSet
  <1>4. QED
    BY <1>3 DEF T

---------------------------------------------------------------------------
(* Folds.                                                                  *)

\* An element of every set that has one; a fold that takes these first and
\* goes on with `next`; a set of subsets that induction goes through.
Picks(pick, S) == \A s \in SUBSET S : s # {} => pick[s] \in s

Computes(g, S, base, next, pick) ==
  \A s \in SUBSET S :
    g[s] = IF s = {} THEN base ELSE next[<<pick[s], g[s \ {pick[s]}]>>]

Inductive(T, S, pick) ==
  {} \in T /\ \A s \in SUBSET S : s # {} /\ s \ {pick[s]} \in T => s \in T

\* A fold has a value for every subset it meets: `next` is what the fold does
\* with an element, `pick` the element it takes first.
LEMMA FoldExists ==
  ASSUME NEW S, IsFiniteSet(S), NEW B, NEW base \in B,
         NEW next \in [S \X B -> B], NEW pick, Picks(pick, S)
  PROVE  \E g \in [SUBSET S -> B] : Computes(g, S, base, next, pick)
  <1> USE DEF Picks
  <1> DEFINE Holds(g, s) ==
        g[s] = IF s = {} THEN base ELSE next[<<pick[s], g[s \ {pick[s]}]>>]
             T == {n \in Nat : \E g \in [SUBSET S -> B] : \A s \in SUBSET S :
                     Cardinality(s) <= n => Holds(g, s)}
  <1>1. \A s \in SUBSET S : IsFiniteSet(s) /\ Cardinality(s) \in Nat
    BY FS_Subset, FS_CardinalityType
  <1>2. 0 \in T
    <2> DEFINE g == [s \in SUBSET S |-> base]
    <2>1. \A s \in SUBSET S : Cardinality(s) <= 0 => s = {}
      BY <1>1, FS_EmptySet
    <2>2. g \in [SUBSET S -> B] /\ \A s \in SUBSET S : s = {} => Holds(g, s)
      OBVIOUS
    <2>3. QED
      BY <2>1, <2>2
  <1>3. ASSUME NEW n \in Nat, n \in T
        PROVE  n + 1 \in T
    <2>1. PICK h \in [SUBSET S -> B] : \A s \in SUBSET S :
            Cardinality(s) <= n => Holds(h, s)
      BY <1>3
    <2> DEFINE g == [s \in SUBSET S |->
                       IF Cardinality(s) <= n \/ s = {} THEN h[s]
                       ELSE next[<<pick[s], h[s \ {pick[s]}]>>]]
    <2>2. \A s \in SUBSET S : s # {} =>
            /\ pick[s] \in S /\ s \ {pick[s]} \in SUBSET S
            /\ <<pick[s], h[s \ {pick[s]}]>> \in S \X B
      BY <2>1
    <2>3. g \in [SUBSET S -> B]
      BY <2>1, <2>2
    <2>4. ASSUME NEW s \in SUBSET S, Cardinality(s) <= n + 1
          PROVE  Holds(g, s)
      <3>1. CASE s = {}
        <4>1. Cardinality(s) <= n
          BY <1>3, <3>1, FS_EmptySet
        <4>2. QED
          BY <2>1, <3>1, <4>1
      <3>2. CASE s # {}
        <4>1. /\ pick[s] \in s
              /\ Cardinality(s \ {pick[s]}) = Cardinality(s) - 1
          BY <1>1, <3>2, FS_RemoveElement
        <4>2. Cardinality(s \ {pick[s]}) <= n /\ s \ {pick[s]} \in SUBSET S
          BY <1>1, <1>3, <2>4, <4>1
        <4>3. g[s \ {pick[s]}] = h[s \ {pick[s]}]
          BY <4>2
        <4>4. g[s] = next[<<pick[s], h[s \ {pick[s]}]>>]
          BY <2>1, <3>2
        <4>5. QED
          BY <3>2, <4>3, <4>4
      <3>3. QED
        BY <3>1, <3>2
    <2>5. \E f \in [SUBSET S -> B] : \A s \in SUBSET S :
            Cardinality(s) <= n + 1 => Holds(f, s)
      <3> HIDE DEF g, Holds
      <3>1. QED
        BY <2>3, <2>4
    <2>6. QED
      <3> HIDE DEF g, Holds
      <3>1. QED
        BY <2>5
  <1>4. Nat \subseteq T
    <2> HIDE DEF T
    <2>1. QED
      BY <1>2, <1>3, NatSet
  <1>5. Cardinality(S) \in Nat /\ Cardinality(S) \in T
    BY <1>1, <1>4
  <1>6. PICK g \in [SUBSET S -> B] : \A s \in SUBSET S :
          Cardinality(s) <= Cardinality(S) => Holds(g, s)
    BY <1>5
  <1>7. \A s \in SUBSET S : Cardinality(s) <= Cardinality(S)
    BY FS_Subset
  <1>8. QED
    BY <1>6, <1>7 DEF Computes

\* Induction along a fold, for a set of subsets.
LEMMA FoldSetInduction ==
  ASSUME NEW S, IsFiniteSet(S), NEW T, NEW pick,
         Picks(pick, S), Inductive(T, S, pick)
  PROVE  SUBSET S \subseteq T
  <1> USE DEF Picks, Inductive
  <1> DEFINE U == {n \in Nat : \A s \in SUBSET S : Cardinality(s) = n => s \in T}
  <1>1. \A s \in SUBSET S : IsFiniteSet(s) /\ Cardinality(s) \in Nat
    BY FS_Subset, FS_CardinalityType
  <1>2. 0 \in U
    BY <1>1, FS_EmptySet
  <1>3. ASSUME NEW n \in Nat, n \in U, NEW s \in SUBSET S, Cardinality(s) = n + 1
        PROVE  s \in T
    <2>1. s # {}
      <3>1. n + 1 # 0
        OBVIOUS
      <3>2. QED
        BY <1>3, <3>1, FS_EmptySet
    <2>2. pick[s] \in s /\ Cardinality(s \ {pick[s]}) = Cardinality(s) - 1
      BY <1>1, <2>1, FS_RemoveElement
    <2>3. Cardinality(s \ {pick[s]}) = n /\ s \ {pick[s]} \in SUBSET S
      BY <1>3, <2>2
    <2>4. QED
      BY <1>3, <2>1, <2>3
  <1>4. Nat \subseteq U
    <2>1. ASSUME NEW n \in Nat, n \in U
          PROVE  n + 1 \in U
      <3>1. \A s \in SUBSET S : Cardinality(s) = n + 1 => s \in T
        <4> HIDE DEF U
        <4>1. QED
          BY <1>3, <2>1
      <3>2. QED
        BY <3>1
    <2> HIDE DEF U
    <2>2. QED
      BY <1>2, <2>1, NatSet
  <1>5. QED
    BY <1>1, <1>4

\* The number of elements of a shape is the product of its sizes.
LEMMA NumelUnfolds ==
  ASSUME NEW shape \in Seq(Nat)
  PROVE  \E h \in [0 .. Len(shape) -> Nat] :
           /\ h[0] = 1
           /\ \A n \in 1 .. Len(shape) : h[n] = h[n - 1] * shape[n]
           /\ Numel(shape) = h[Len(shape)]
  <1> DEFINE S == DOMAIN shape
             Is(g) == g = [s \in SUBSET S |->
                             IF s = {} THEN 1 ELSE g[s \ {Max(s)}] * shape[Max(s)]]
             iter == CHOOSE g : Is(g)
             next == [p \in S \X Nat |-> p[2] * shape[p[1]]]
             pick == [s \in SUBSET S |-> Max(s)]
             T == {s \in SUBSET S : iter[s] \in Nat}
  <1>1. /\ IsFiniteSet(S) /\ S \subseteq Nat
        /\ \A d \in S : shape[d] \in Nat
    BY FS_Interval
  <1>2. ASSUME NEW s \in SUBSET S, s # {}
        PROVE  Max(s) \in s
    <2>1. IsFiniteSet(s)
      BY <1>1, FS_Subset
    <2>2. s \in SUBSET Nat
      BY <1>1
    <2> HIDE DEF S
    <2>3. QED
      BY <1>2, <2>1, <2>2, MaxIs
  <1>3. next \in [S \X Nat -> Nat] /\ Picks(pick, S)
    BY <1>1, <1>2 DEF Picks
  <1>4. PICK g \in [SUBSET S -> Nat] : Computes(g, S, 1, next, pick)
    <2>1. 1 \in Nat
      OBVIOUS
    <2> HIDE DEF next, pick, S
    <2>2. QED
      BY <1>1, <1>3, <2>1, FoldExists
  <1>5. \A s \in SUBSET S :
          g[s] = IF s = {} THEN 1 ELSE g[s \ {Max(s)}] * shape[Max(s)]
    <2> SUFFICES ASSUME NEW s \in SUBSET S, s # {}
                 PROVE  g[s] = g[s \ {Max(s)}] * shape[Max(s)]
      BY <1>4 DEF Computes
    <2>1. /\ pick[s] = Max(s) /\ Max(s) \in S
          /\ <<Max(s), g[s \ {Max(s)}]>> \in S \X Nat
      BY <1>2, <1>4
    <2>2. g[s] = next[<<Max(s), g[s \ {Max(s)}]>>]
      BY <1>4, <2>1 DEF Computes
    <2>3. QED
      BY <2>1, <2>2
  <1>6. Is(iter)
    <2>1. Is(g)
      <3> HIDE DEF S
      <3>1. QED
        BY <1>4, <1>5
    <2> HIDE DEF Is
    <2>2. QED
      BY <2>1
  <1>7. \A s \in SUBSET S :
          iter[s] = IF s = {} THEN 1 ELSE iter[s \ {Max(s)}] * shape[Max(s)]
    <2> HIDE DEF iter, S
    <2>1. QED
      BY <1>6
  <1>8. Numel(shape) = iter[S]
    BY DEF Numel, FoldLeft, MapThenFoldSet
  <1>9. SUBSET S \subseteq T
    <2>1. {} \in T
      <3> HIDE DEF iter
      <3>1. {} \in SUBSET S /\ iter[{}] = 1
        BY <1>7
      <3>2. QED
        BY <3>1
    <2>2. ASSUME NEW s \in SUBSET S, s # {}, s \ {pick[s]} \in T
          PROVE  s \in T
      <3> HIDE DEF iter
      <3>1. pick[s] = Max(s) /\ Max(s) \in S
        BY <1>2, <2>2
      <3>2. iter[s] = iter[s \ {Max(s)}] * shape[Max(s)]
        BY <1>7, <2>2
      <3>3. QED
        BY <1>1, <2>2, <3>1, <3>2
    <2>3. Inductive(T, S, pick)
      <3> HIDE DEF T, pick, S
      <3>1. QED
        BY <2>1, <2>2 DEF Inductive
    <2> HIDE DEF T, pick, S
    <2>4. QED
      BY <1>1, <1>3, <2>3, FoldSetInduction
  <1> DEFINE N == Len(shape)
             h == [n \in 0 .. N |-> iter[1 .. n]]
  <1> HIDE DEF iter
  <1>10. N \in Nat /\ S = 1 .. N /\ \A s \in SUBSET S : iter[s] \in Nat
    <2>1. \A s \in SUBSET S : iter[s] \in Nat
      BY <1>9
    <2>2. QED
      BY <2>1
  <1>11. \A n \in 0 .. N : 1 .. n \in SUBSET S
    BY <1>10
  <1>12. h \in [0 .. N -> Nat]
    BY <1>10, <1>11
  <1>13. h[0] = 1
    <2>1. 1 .. 0 = {} /\ 0 \in 0 .. N
      BY <1>10
    <2>2. iter[{}] = 1
      BY <1>7
    <2>3. QED
      BY <2>1, <2>2
  <1>14. ASSUME NEW n \in 1 .. N PROVE h[n] = h[n - 1] * shape[n]
    <2>1. n \in 1 .. n /\ 1 .. n \in SUBSET Nat /\ IsFiniteSet(1 .. n) /\ 1 .. n # {}
      <3>1. n \in Nat /\ n >= 1
        BY <1>10
      <3>2. IsFiniteSet(1 .. n)
        BY <3>1, FS_Interval
      <3>3. n \in 1 .. n /\ 1 .. n \in SUBSET Nat
        BY <3>1
      <3>4. QED
        BY <3>2, <3>3
    <2>2. Max(1 .. n) = n
      <3>1. Max(1 .. n) \in 1 .. n /\ n <= Max(1 .. n)
        BY <2>1, MaxIs
      <3>2. QED
        BY <3>1
    <2>3. (1 .. n) \ {n} = 1 .. n - 1 /\ n - 1 \in 0 .. N /\ n \in 0 .. N
      BY <1>10
    <2>4. iter[1 .. n] = iter[(1 .. n) \ {n}] * shape[n]
      <3>1. 1 .. n \in SUBSET S
        BY <1>11, <2>3
      <3>2. QED
        BY <1>7, <2>1, <2>2, <3>1
    <2>5. QED
      BY <2>3, <2>4
  <1>15. Numel(shape) = h[N]
    BY <1>8, <1>10
  <1> HIDE DEF h
  <1>16. QED
    BY <1>12, <1>13, <1>14, <1>15

\* It is a number.
LEMMA NumelNat ==
  ASSUME NEW shape \in Seq(Nat)
  PROVE  Numel(shape) \in Nat
  <1>1. PICK h \in [0 .. Len(shape) -> Nat] : Numel(shape) = h[Len(shape)]
    BY NumelUnfolds
  <1>2. Len(shape) \in 0 .. Len(shape)
    OBVIOUS
  <1>3. QED
    BY <1>1, <1>2

\* FlattenSeq puts one sequence behind the other.
LEMMA FlattenUnfolds ==
  ASSUME NEW S, NEW seqs \in Seq(Seq(S))
  PROVE  \E h \in [0 .. Len(seqs) -> Seq(S)] :
           /\ h[0] = << >>
           /\ \A n \in 1 .. Len(seqs) : h[n] = h[n - 1] \o seqs[n]
           /\ FlattenSeq(seqs) = h[Len(seqs)]
  <1> DEFINE N == Len(seqs)
             Joins(h, m) == /\ h \in [0 .. m -> Seq(S)] /\ h[0] = << >>
                            /\ \A n \in 1 .. m : h[n] = h[n - 1] \o seqs[n]
             Is(g) == g = [n \in 1 .. N |->
                             IF n = 1 THEN seqs[n] ELSE g[n - 1] \o seqs[n]]
             flatten == CHOOSE g : Is(g)
             T == {m \in 0 .. N : \E h : Joins(h, m)}
  <1>1. N \in Nat /\ \A n \in 1 .. N : seqs[n] \in Seq(S)
    OBVIOUS
  <1>2. 0 \in T
    <2>1. Joins([n \in 0 .. 0 |-> << >>], 0)
      OBVIOUS
    <2> HIDE DEF Joins
    <2>2. QED
      BY <1>1, <2>1
  <1>3. ASSUME NEW m \in Nat, m < N, m \in T
        PROVE  m + 1 \in T
    <2>1. PICK h : Joins(h, m)
      BY <1>3
    <2> DEFINE k == [n \in 0 .. m + 1 |-> IF n = m + 1 THEN h[m] \o seqs[n] ELSE h[n]]
    <2>2. h[m] \in Seq(S) /\ seqs[m + 1] \in Seq(S) /\ h[m] \o seqs[m + 1] \in Seq(S)
      BY <1>1, <1>3, <2>1
    <2>3. k \in [0 .. m + 1 -> Seq(S)]
      <3>1. ASSUME NEW n \in 0 .. m + 1
            PROVE  (IF n = m + 1 THEN h[m] \o seqs[n] ELSE h[n]) \in Seq(S)
        <4>1. CASE n = m + 1
          BY <2>2, <4>1
        <4>2. CASE n # m + 1
          <5>1. n \in 0 .. m
            BY <1>3, <4>2
          <5>2. QED
            BY <2>1, <4>2, <5>1
        <4>3. QED
          BY <4>1, <4>2
      <3>2. QED
        BY <3>1
    <2>4. k[0] = << >>
      BY <1>3, <2>1
    <2>5. ASSUME NEW n \in 1 .. m + 1 PROVE k[n] = k[n - 1] \o seqs[n]
      <3>1. CASE n = m + 1
        <4>1. n - 1 = m /\ m \in 0 .. m + 1 /\ m # m + 1 /\ n \in 0 .. m + 1
          BY <3>1
        <4>2. k[n] = h[m] \o seqs[n] /\ k[m] = h[m]
          BY <3>1, <4>1
        <4>3. QED
          BY <4>1, <4>2
      <3>2. CASE n # m + 1
        <4>1. n \in 1 .. m /\ n - 1 \in 0 .. m + 1 /\ n - 1 # m + 1
          BY <3>2
        <4>2. k[n] = h[n] /\ k[n - 1] = h[n - 1]
          BY <3>2, <4>1
        <4>3. QED
          BY <2>1, <4>1, <4>2
      <3>3. QED
        BY <3>1, <3>2
    <2>6. Joins(k, m + 1)
      <3> HIDE DEF k
      <3>1. QED
        BY <2>3, <2>4, <2>5
    <2>7. m + 1 \in 0 .. N
      BY <1>1, <1>3
    <2> HIDE DEF Joins
    <2>8. QED
      BY <2>6, <2>7
  <1>4. PICK h : Joins(h, N)
    <2> HIDE DEF T
    <2> HIDE DEF N
    <2>1. N \in T
      <3>1. \A m \in 0 .. N : m \in T
        BY <1>1, <1>2, <1>3, UpTo
      <3>2. QED
        BY <1>1, <3>1
    <2>2. QED
      BY <2>1 DEF T
  <1>5. CASE N = 0
    <2>1. seqs = << >> /\ FlattenSeq(seqs) = seqs
      BY <1>5 DEF FlattenSeq
    <2>2. QED
      BY <1>4, <1>5, <2>1
  <1>6. CASE N # 0
    <2> DEFINE f == [n \in 1 .. N |-> h[n]]
    <2>1. ASSUME NEW n \in 1 .. N
          PROVE  f[n] = IF n = 1 THEN seqs[n] ELSE f[n - 1] \o seqs[n]
      <3>1. CASE n = 1
        <4>1. h[1] = << >> \o seqs[1] /\ seqs[1] \in Seq(S)
          <5>1. 1 \in 1 .. N /\ 1 - 1 = 0
            BY <3>1
          <5>2. h[1] = h[1 - 1] \o seqs[1] /\ h[0] = << >>
            BY <1>4, <5>1
          <5>3. QED
            BY <1>1, <5>1, <5>2
        <4>2. << >> \o seqs[1] = seqs[1]
          BY <4>1
        <4>3. QED
          BY <3>1, <4>1, <4>2
      <3>2. CASE n # 1
        <4>1. n - 1 \in 1 .. N
          BY <3>2
        <4>2. QED
          BY <1>4, <3>2, <4>1
      <3>3. QED
        BY <3>1, <3>2
    <2>2. Is(f)
      BY <2>1
    <2>3. Is(flatten)
      <3> HIDE DEF Is
      <3>1. QED
        BY <2>2
    <2>4. FlattenSeq(seqs) = flatten[N]
      BY <1>6 DEF FlattenSeq
    <2>5. \A n \in 1 .. N :
            flatten[n] = IF n = 1 THEN seqs[n] ELSE flatten[n - 1] \o seqs[n]
      <3> HIDE DEF flatten
      <3>1. QED
        BY <2>3
    <2> DEFINE E == {n \in 0 .. N : n = 0 \/ flatten[n] = h[n]}
    <2>6. ASSUME NEW n \in Nat, n < N, n \in E
          PROVE  n + 1 \in E
      <3> HIDE DEF flatten
      <3>1. n + 1 \in 1 .. N /\ n \in 0 .. N
        BY <1>1, <2>6
      <3>2. CASE n = 0
        <4>1. f[1] = seqs[1] /\ f[1] = h[1]
          <5>1. 1 \in 1 .. N
            BY <3>1, <3>2
          <5>2. QED
            BY <2>1, <5>1
        <4>2. QED
          BY <2>5, <3>1, <3>2, <4>1
      <3>3. CASE n # 0
        <4>1. PICK i \in 1 .. N : i = n + 1 /\ i # 1 /\ i - 1 = n
          BY <3>1, <3>3
        <4>2. flatten[n + 1] = flatten[n] \o seqs[n + 1]
          <5>1. flatten[i] = IF i = 1 THEN seqs[i] ELSE flatten[i - 1] \o seqs[i]
            BY <2>5
          <5>2. QED
            BY <4>1, <5>1
        <4>3. h[n + 1] = h[n] \o seqs[n + 1]
          <5>1. h[i] = h[i - 1] \o seqs[i]
            BY <1>4
          <5>2. QED
            BY <4>1, <5>1
        <4>4. flatten[n] = h[n] /\ n + 1 \in 0 .. N
          BY <2>6, <3>1, <3>3
        <4>5. QED
          BY <4>2, <4>3, <4>4
      <3>4. QED
        BY <3>2, <3>3
    <2>7. 0 \in E
      BY <1>1
    <2>8. \A n \in 0 .. N : n \in E
      <3> HIDE DEF E
      <3>1. QED
        BY <1>1, <2>6, <2>7, UpTo
    <2>9. flatten[N] = h[N]
      <3>1. N \in 0 .. N
        BY <1>1
      <3> HIDE DEF flatten
      <3>2. QED
        BY <1>6, <2>8, <3>1
    <2> HIDE DEF flatten
    <2>10. QED
      BY <1>4, <2>4, <2>9
  <1>7. QED
    BY <1>5, <1>6

\* Products of naturals; functions on 1 .. n are sequences.
LEMMA Times ==
  ASSUME NEW a \in Nat, NEW b \in Nat
  PROVE  a * b \in Nat
  OBVIOUS

\* A function on 1 .. n is a list of n.
LEMMA ListIs ==
  ASSUME NEW S, NEW n \in Nat, NEW f \in [1 .. n -> S]
  PROVE  f \in Seq(S) /\ Len(f) = n
  OBVIOUS

\* A flattened sequence of sequences is a sequence.
LEMMA FlattenIs ==
  ASSUME NEW S, NEW seqs \in Seq(Seq(S))
  PROVE  FlattenSeq(seqs) \in Seq(S)
  <1>1. PICK h \in [0 .. Len(seqs) -> Seq(S)] : FlattenSeq(seqs) = h[Len(seqs)]
    BY FlattenUnfolds
  <1>2. Len(seqs) \in 0 .. Len(seqs)
    OBVIOUS
  <1>3. QED
    BY <1>1, <1>2

\* The offset of the first element of a box.
FirstBase(outer, box, strides) ==
  FoldLeftDomain(LAMBDA sum, d : sum + box[d][1] * strides[d], 0, outer)

\* It is a number.
LEMMA SumNat ==
  ASSUME NEW n \in Nat, NEW outer, DOMAIN outer = 1 .. n, NEW box, NEW strides,
         \A d \in 1 .. n : box[d][1] \in Nat /\ strides[d] \in Nat
  PROVE  FirstBase(outer, box, strides) \in Nat
  <1> DEFINE ids == [i \in DOMAIN outer |-> i]
             S == DOMAIN ids
             Is(g) == g = [s \in SUBSET S |->
                             IF s = {} THEN 0
                             ELSE g[s \ {Max(s)}] + box[ids[Max(s)]][1] * strides[ids[Max(s)]]]
             iter == CHOOSE g : Is(g)
             next == [p \in S \X Nat |-> p[2] + box[p[1]][1] * strides[p[1]]]
             pick == [s \in SUBSET S |-> Max(s)]
             T == {s \in SUBSET S : iter[s] \in Nat}
  <1>1. /\ IsFiniteSet(S) /\ S \subseteq Nat
        /\ \A d \in S : ids[d] = d /\ box[d][1] * strides[d] \in Nat
    <2>1. IsFiniteSet(S) /\ S \subseteq Nat /\ S = 1 .. n /\ \A d \in S : ids[d] = d
      BY FS_Interval
    <2>2. QED
      BY <2>1, Times
  <1>2. ASSUME NEW s \in SUBSET S, s # {}
        PROVE  Max(s) \in s
    <2>1. IsFiniteSet(s)
      BY <1>1, FS_Subset
    <2>2. s \in SUBSET Nat
      BY <1>1
    <2> HIDE DEF S
    <2>3. QED
      BY <1>2, <2>1, <2>2, MaxIs
  <1>3. next \in [S \X Nat -> Nat] /\ Picks(pick, S)
    <2> HIDE DEF S
    <2>1. Picks(pick, S)
      BY <1>2 DEF Picks
    <2>2. ASSUME NEW d \in S, NEW sum \in Nat
          PROVE  sum + box[d][1] * strides[d] \in Nat
      <3> DEFINE a == box[d][1] * strides[d]
      <3>1. a \in Nat
        BY <1>1
      <3> HIDE DEF a
      <3>2. sum + a \in Nat
        BY <3>1
      <3>3. QED
        BY <3>2 DEF a
    <2>3. next \in [S \X Nat -> Nat]
      BY <2>2
    <2>4. QED
      BY <2>1, <2>3
  <1>4. PICK g \in [SUBSET S -> Nat] : Computes(g, S, 0, next, pick)
    <2>1. 0 \in Nat
      OBVIOUS
    <2> HIDE DEF next, pick, S
    <2>2. QED
      BY <1>1, <1>3, <2>1, FoldExists
  <1>5. \A s \in SUBSET S :
          g[s] = IF s = {} THEN 0
                 ELSE g[s \ {Max(s)}] + box[ids[Max(s)]][1] * strides[ids[Max(s)]]
    <2> SUFFICES ASSUME NEW s \in SUBSET S, s # {}
                 PROVE  g[s] = g[s \ {Max(s)}]
                                 + box[ids[Max(s)]][1] * strides[ids[Max(s)]]
      BY <1>4 DEF Computes
    <2>1. /\ pick[s] = Max(s) /\ Max(s) \in S /\ ids[Max(s)] = Max(s)
          /\ <<Max(s), g[s \ {Max(s)}]>> \in S \X Nat
      BY <1>1, <1>2, <1>4
    <2>2. g[s] = next[<<Max(s), g[s \ {Max(s)}]>>]
      BY <1>4, <2>1 DEF Computes
    <2>3. QED
      BY <2>1, <2>2
  <1>6. Is(iter)
    <2>1. Is(g)
      <3> HIDE DEF S, ids
      <3>1. QED
        BY <1>4, <1>5
    <2> HIDE DEF Is
    <2>2. QED
      BY <2>1
  <1>7. \A s \in SUBSET S :
          iter[s] = IF s = {} THEN 0
                    ELSE iter[s \ {Max(s)}] + box[ids[Max(s)]][1] * strides[ids[Max(s)]]
    <2> HIDE DEF iter, S, ids
    <2>1. QED
      BY <1>6
  <1>8. FirstBase(outer, box, strides) = iter[S]
    BY DEF FirstBase, FoldLeftDomain, FoldLeft, MapThenFoldSet
  <1>9. SUBSET S \subseteq T
    <2>1. {} \in T
      <3> HIDE DEF iter
      <3>1. {} \in SUBSET S /\ iter[{}] = 0
        BY <1>7
      <3>2. QED
        BY <3>1
    <2>2. ASSUME NEW s \in SUBSET S, s # {}, s \ {pick[s]} \in T
          PROVE  s \in T
      <3> HIDE DEF iter, ids
      <3>1. pick[s] = Max(s) /\ Max(s) \in S
        BY <1>2, <2>2
      <3>2. /\ iter[s] = iter[s \ {Max(s)}] + box[ids[Max(s)]][1] * strides[ids[Max(s)]]
            /\ ids[Max(s)] = Max(s)
        BY <1>1, <1>7, <2>2, <3>1
      <3>3. QED
        BY <1>1, <2>2, <3>1, <3>2
    <2>3. Inductive(T, S, pick)
      <3> HIDE DEF T, pick, S
      <3>1. QED
        BY <2>1, <2>2 DEF Inductive
    <2> HIDE DEF T, pick, S
    <2>4. QED
      BY <1>1, <1>3, <2>3, FoldSetInduction
  <1>10. QED
    BY <1>8, <1>9

\* The offsets of the elements of a box.
LEMMA WalkIs ==
  ASSUME NEW n \in Nat, NEW sizes, DOMAIN sizes = 1 .. n, NEW strides, NEW offset \in Nat,
         \A d \in 1 .. n : sizes[d] \in Nat /\ strides[d] \in Nat
  PROVE  Walk(sizes, strides, offset) \in Seq(Nat)
  <1> DEFINE ids == [i \in DOMAIN sizes |-> i]
             S == DOMAIN ids
             B == Seq(Nat)
             Step(found, d) ==
               FlattenSeq([i \in DOMAIN found |->
                             [j \in 1 .. sizes[d] |-> found[i] + (j - 1) * strides[d]]])
             Is(g) == g = [s \in SUBSET S |->
                             IF s = {} THEN <<offset>>
                             ELSE Step(g[s \ {Max(s)}], ids[Max(s)])]
             iter == CHOOSE g : Is(g)
             next == [p \in S \X B |-> Step(p[2], p[1])]
             pick == [s \in SUBSET S |-> Max(s)]
             T == {s \in SUBSET S : iter[s] \in B}
  <1>1. /\ IsFiniteSet(S) /\ S \subseteq Nat /\ S = 1 .. n
        /\ \A d \in S : ids[d] = d
    BY FS_Interval
  <1>2. \A s \in SUBSET S : s # {} => Max(s) \in s
    BY <1>1, FS_Subset, MaxIs
  <1>3. ASSUME NEW d \in S, NEW found \in B
        PROVE  Step(found, d) \in B
    <2>1. sizes[d] \in Nat /\ strides[d] \in Nat
      BY <1>1
    <2>2. ASSUME NEW i \in DOMAIN found
          PROVE  [j \in 1 .. sizes[d] |-> found[i] + (j - 1) * strides[d]] \in Seq(Nat)
      <3>1. found[i] \in Nat
        BY <2>2
      <3>2. \A j \in 1 .. sizes[d] : (j - 1) \in Nat /\ (j - 1) * strides[d] \in Nat
        <4>1. \A j \in 1 .. sizes[d] : (j - 1) \in Nat
          BY <2>1
        <4>2. QED
          BY <2>1, <4>1, Times
      <3>3. \A j \in 1 .. sizes[d] : found[i] + (j - 1) * strides[d] \in Nat
        BY <3>1, <3>2
      <3> DEFINE f == [j \in 1 .. sizes[d] |-> found[i] + (j - 1) * strides[d]]
      <3>4. f \in [1 .. sizes[d] -> Nat]
        BY <3>3
      <3> HIDE DEF f
      <3>5. f \in Seq(Nat)
        BY <2>1, <3>4, ListIs
      <3>6. QED
        BY <3>5 DEF f
    <2>3. [i \in DOMAIN found |->
             [j \in 1 .. sizes[d] |-> found[i] + (j - 1) * strides[d]]] \in Seq(Seq(Nat))
      <3>1. DOMAIN found = 1 .. Len(found) /\ Len(found) \in Nat
        OBVIOUS
      <3>2. QED
        BY <2>2, <3>1
    <2>4. QED
      BY <2>3, FlattenIs
  <1>4. next \in [S \X B -> B] /\ Picks(pick, S)
    <2> HIDE DEF Step
    <2>1. QED
      BY <1>2, <1>3 DEF Picks
  <1>5. PICK g \in [SUBSET S -> B] : Computes(g, S, <<offset>>, next, pick)
    <2>1. <<offset>> \in B
      OBVIOUS
    <2> HIDE DEF next, pick, S, B
    <2>2. QED
      BY <1>1, <1>4, <2>1, FoldExists
  <1>6. \A s \in SUBSET S :
          g[s] = IF s = {} THEN <<offset>> ELSE Step(g[s \ {Max(s)}], ids[Max(s)])
    <2> SUFFICES ASSUME NEW s \in SUBSET S, s # {}
                 PROVE  g[s] = Step(g[s \ {Max(s)}], ids[Max(s)])
      BY <1>5 DEF Computes
    <2> HIDE DEF Step
    <2>1. /\ pick[s] = Max(s) /\ Max(s) \in S /\ ids[Max(s)] = Max(s)
          /\ <<Max(s), g[s \ {Max(s)}]>> \in S \X B
      BY <1>1, <1>2, <1>5
    <2>2. g[s] = next[<<Max(s), g[s \ {Max(s)}]>>]
      BY <1>5, <2>1 DEF Computes
    <2>3. QED
      BY <2>1, <2>2
  <1>7. Is(iter)
    <2>1. Is(g)
      <3> HIDE DEF S, ids, Step, B
      <3>1. QED
        BY <1>5, <1>6
    <2> HIDE DEF Is
    <2>2. QED
      BY <2>1
  <1>8. \A s \in SUBSET S :
          iter[s] = IF s = {} THEN <<offset>> ELSE Step(iter[s \ {Max(s)}], ids[Max(s)])
    <2> HIDE DEF iter, S, ids, Step
    <2>1. QED
      BY <1>7
  <1>9. Walk(sizes, strides, offset) = iter[S]
    BY DEF Walk, FoldLeftDomain, FoldLeft, MapThenFoldSet
  <1>10. SUBSET S \subseteq T
    <2>1. {} \in T
      <3> HIDE DEF iter
      <3>1. {} \in SUBSET S /\ iter[{}] = <<offset>>
        BY <1>8
      <3>2. <<offset>> \in B
        OBVIOUS
      <3>3. QED
        BY <3>1, <3>2
    <2>2. ASSUME NEW s \in SUBSET S, s # {}, s \ {pick[s]} \in T
          PROVE  s \in T
      <3> HIDE DEF iter, ids, Step, B
      <3>1. pick[s] = Max(s) /\ Max(s) \in S
        BY <1>2, <2>2
      <3>2. /\ iter[s] = Step(iter[s \ {Max(s)}], ids[Max(s)])
            /\ ids[Max(s)] = Max(s)
        BY <1>1, <1>8, <2>2, <3>1
      <3>3. QED
        BY <1>3, <2>2, <3>1, <3>2
    <2>3. Inductive(T, S, pick)
      <3> HIDE DEF T, pick, S
      <3>1. QED
        BY <2>1, <2>2 DEF Inductive
    <2> HIDE DEF T, pick, S
    <2>4. QED
      BY <1>1, <1>4, <2>3, FoldSetInduction
  <1>11. QED
    BY <1>9, <1>10

---------------------------------------------------------------------------
(* The greatest common divisor divides.                                    *)

Divides(d, x) == \E k \in Nat : x = d * k

\* Division with remainder, and some algebra the provers need by name.
LEMMA Quotient ==
  ASSUME NEW a \in Nat, NEW b \in Nat, b > 0
  PROVE  /\ a \div b \in Nat /\ a % b \in Nat /\ a % b < b
         /\ a = b * (a \div b) + (a % b)
  OBVIOUS

LEMMA Distribute ==
  ASSUME NEW d \in Int, NEW k \in Int, NEW l \in Int
  PROVE  d * (k + l) = d * k + d * l /\ d * (k - l) = d * k - d * l
  OBVIOUS

LEMMA Associate ==
  ASSUME NEW d \in Int, NEW k \in Int, NEW l \in Int
  PROVE  d * (k * l) = (d * k) * l /\ d * k = k * d
  OBVIOUS

LEMMA PositiveFactor ==
  ASSUME NEW d \in Nat, d > 0, NEW k \in Int, d * k >= 0
  PROVE  k \in Nat
  OBVIOUS

\* What divides two numbers divides the remainder, and the other way round.
LEMMA DividesRest ==
  ASSUME NEW d \in Nat, NEW a \in Nat, NEW b \in Nat, b > 0, Divides(d, b)
  PROVE  Divides(d, a) <=> Divides(d, a % b)
  <1> DEFINE q == a \div b
             r == a % b
  <1>1. q \in Nat /\ r \in Nat /\ a = b * q + r
    BY Quotient
  <1>2. PICK l \in Nat : b = d * l
    BY DEF Divides
  <1> HIDE DEF q, r
  <1>3. b * q = d * (l * q) /\ l * q \in Nat
    BY <1>1, <1>2, Associate, Times
  <1>4. ASSUME Divides(d, a) PROVE Divides(d, r)
    <2>1. PICK k \in Nat : a = d * k
      BY <1>4 DEF Divides
    <2>2. r = d * (k - l * q)
      <3>1. r = d * k - d * (l * q)
        BY <1>1, <1>3, <2>1
      <3>2. QED
        BY <1>3, <3>1, Distribute
    <2>3. d > 0
      <3>1. d = 0 => b = 0
        BY <1>2
      <3>2. QED
        BY <3>1
    <2>4. k - l * q \in Nat
      BY <1>1, <1>3, <2>2, <2>3, PositiveFactor
    <2>5. QED
      BY <2>2, <2>4 DEF Divides
  <1>5. ASSUME Divides(d, r) PROVE Divides(d, a)
    <2>1. PICK k \in Nat : r = d * k
      BY <1>5 DEF Divides
    <2>2. a = d * (l * q + k) /\ l * q + k \in Nat
      BY <1>1, <1>3, <2>1, Distribute
    <2>3. QED
      BY <2>2 DEF Divides
  <1>6. QED
    BY <1>4, <1>5 DEF r

LEMMA DividesThrough ==
  ASSUME NEW d \in Nat, NEW e \in Nat, NEW x \in Nat, Divides(d, e), Divides(e, x)
  PROVE  Divides(d, x)
  <1>1. PICK k \in Nat : e = d * k
    BY DEF Divides
  <1>2. PICK l \in Nat : x = e * l
    BY DEF Divides
  <1>3. x = d * (k * l) /\ k * l \in Nat
    BY <1>1, <1>2, Associate, Times
  <1>4. QED
    BY <1>3 DEF Divides

\* Euclid's algorithm, as Gcd defines it.
IsEuclid(g) ==
  g = [p \in Nat \X Nat |-> IF p[2] = 0 THEN p[1] ELSE g[<<p[2], p[1] % p[2]>>]]
Euclid == CHOOSE g : IsEuclid(g)

\* It has a value for any two numbers.
LEMMA EuclidSteps ==
  \A a, b \in Nat : Euclid[<<a, b>>] = IF b = 0 THEN a ELSE Euclid[<<b, a % b>>]
  <1> DEFINE Common(a, b) == {d \in Nat : Divides(d, a) /\ Divides(d, b)}
             h == [p \in Nat \X Nat |-> IF p[2] = 0 THEN p[1] ELSE Max(Common(p[1], p[2]))]
  <1>1. ASSUME NEW b \in Nat PROVE Divides(b, 0) /\ Divides(b, b)
    <2>1. 0 = b * 0 /\ b = b * 1
      OBVIOUS
    <2>2. QED
      BY <2>1 DEF Divides
  <1>2. ASSUME NEW a \in Nat, NEW b \in Nat, b # 0
        PROVE  Common(a, b) = Common(b, a % b)
    <2>1. b > 0 /\ a % b \in Nat
      BY <1>2, Quotient
    <2>2. QED
      BY <1>2, <2>1, DividesRest
  <1>3. ASSUME NEW b \in Nat, b # 0
        PROVE  Max(Common(b, 0)) = b
    <2>1. b \in Common(b, 0)
      BY <1>1
    <2>2. ASSUME NEW d \in Common(b, 0) PROVE d <= b
      <3>1. PICK k \in Nat : b = d * k
        BY <2>2 DEF Divides
      <3>2. d \in Nat /\ k # 0
        BY <1>3, <3>1
      <3>3. d * (k - 1) \in Nat /\ d * k = d * (k - 1) + d
        <4>1. k - 1 \in Nat
          BY <3>2
        <4>2. d * (k - 1) \in Nat
          BY <3>2, <4>1, Times
        <4>3. QED
          BY <3>2, <4>2, Distribute
      <3>4. QED
        BY <3>1, <3>2, <3>3
    <2> DEFINE m == Max(Common(b, 0))
    <2>3. m \in Common(b, 0) /\ \A d \in Common(b, 0) : m >= d
      <3>1. \E x \in Common(b, 0) : \A d \in Common(b, 0) : x >= d
        BY <2>1, <2>2
      <3> HIDE DEF Common
      <3>2. QED
        BY <3>1 DEF Max
    <2>4. m \in Nat
      BY <2>3
    <2> HIDE DEF m, Common
    <2>5. m = b
      BY <2>1, <2>2, <2>3, <2>4
    <2>6. QED
      BY <2>5 DEF m
  <1>4. ASSUME NEW a \in Nat, NEW b \in Nat
        PROVE  h[<<a, b>>] = IF b = 0 THEN a ELSE h[<<b, a % b>>]
    <2>1. CASE b = 0
      BY <2>1
    <2>2. CASE b # 0
      <3>1. a % b \in Nat
        BY <2>2, Quotient
      <3>2. h[<<a, b>>] = Max(Common(b, a % b))
        <4>1. h[<<a, b>>] = Max(Common(a, b))
          BY <2>2
        <4>2. QED
          BY <1>2, <2>2, <4>1
      <3> HIDE DEF Common
      <3>3. h[<<b, a % b>>] = IF a % b = 0 THEN b ELSE Max(Common(b, a % b))
        BY <3>1
      <3>4. QED
        BY <1>3, <2>2, <3>2, <3>3
    <2>3. QED
      BY <2>1, <2>2
  <1>5. IsEuclid(h)
    <2> HIDE DEF Common
    <2>1. QED
      BY <1>4 DEF IsEuclid
  <1>6. IsEuclid(Euclid)
    BY <1>5 DEF Euclid
  <1>7. QED
    BY <1>6 DEF IsEuclid

\* What it computes divides both.
LEMMA EuclidDivides ==
  \A b, a \in Nat : Euclid[<<a, b>>] \in Nat /\ Divides(Euclid[<<a, b>>], a) /\ Divides(Euclid[<<a, b>>], b)
  <1> DEFINE Good(a, b) ==
        Euclid[<<a, b>>] \in Nat /\ Divides(Euclid[<<a, b>>], a) /\ Divides(Euclid[<<a, b>>], b)
             T == {n \in Nat : \A b \in 0 .. n : \A a \in Nat : Good(a, b)}
  <1>1. ASSUME NEW a \in Nat PROVE Good(a, 0)
    <2>1. Euclid[<<a, 0>>] = a
      BY EuclidSteps
    <2>2. a = a * 1 /\ 0 = a * 0
      OBVIOUS
    <2>3. QED
      BY <2>1, <2>2 DEF Divides
  <1>2. 0 \in T
    BY <1>1
  <1>3. ASSUME NEW n \in Nat, n \in T
        PROVE  n + 1 \in T
    <2>1. ASSUME NEW a \in Nat PROVE Good(a, n + 1)
      <3>1. PICK b \in Nat : b = n + 1 /\ b > 0
        OBVIOUS
      <3>2. a % b \in 0 .. n
        BY <3>1, Quotient
      <3>3. Good(b, a % b)
        BY <1>3, <3>2
      <3>4. Euclid[<<a, b>>] = Euclid[<<b, a % b>>]
        BY <3>1, EuclidSteps
      <3>5. a % b \in Nat
        BY <3>2
      <3>6. Divides(Euclid[<<a, b>>], a)
        BY <3>1, <3>3, <3>4, <3>5, DividesRest
      <3>7. QED
        BY <3>1, <3>3, <3>4, <3>6
    <2>2. \A b \in 0 .. n + 1 : b \in 0 .. n \/ b = n + 1
      OBVIOUS
    <2> HIDE DEF Good
    <2>3. QED
      BY <1>3, <2>1, <2>2
  <1>4. Nat \subseteq T
    <2> HIDE DEF T
    <2>1. QED
      BY <1>2, <1>3, NatSet
  <1>5. \A b \in Nat : b \in 0 .. b
    OBVIOUS
  <1> HIDE DEF Good
  <1>6. \A b, a \in Nat : Good(a, b)
    BY <1>4, <1>5
  <1>7. QED
    BY <1>6 DEF Good

\* The unit of some sizes divides them all.
LEMMA GcdDivides ==
  ASSUME NEW S \in SUBSET Nat, IsFiniteSet(S)
  PROVE  Gcd(S) \in Nat /\ \A x \in S : Divides(Gcd(S), x)
  <1> DEFINE First(s) == CHOOSE x \in s : TRUE
             Is(g) == g = [s \in SUBSET S |->
                             IF s = {} THEN 0
                             ELSE Euclid[<<First(s), g[s \ {First(s)}]>>]]
             iter == CHOOSE g : Is(g)
             next == [p \in S \X Nat |-> Euclid[p]]
             pick == [s \in SUBSET S |-> First(s)]
             T == {s \in SUBSET S : iter[s] \in Nat /\ \A x \in s : Divides(iter[s], x)}
  <1>1. \A s \in SUBSET S : s # {} => First(s) \in s
    OBVIOUS
  <1> HIDE DEF First
  <1>2. \A p \in Nat \X Nat :
          /\ Euclid[p] \in Nat
          /\ Divides(Euclid[p], p[1]) /\ Divides(Euclid[p], p[2])
    <2> SUFFICES ASSUME NEW a \in Nat, NEW b \in Nat
                 PROVE  /\ Euclid[<<a, b>>] \in Nat
                        /\ Divides(Euclid[<<a, b>>], a) /\ Divides(Euclid[<<a, b>>], b)
      OBVIOUS
    <2>1. QED
      BY EuclidDivides
  <1>3. next \in [S \X Nat -> Nat] /\ Picks(pick, S)
    BY <1>1, <1>2 DEF Picks
  <1>4. PICK g \in [SUBSET S -> Nat] : Computes(g, S, 0, next, pick)
    <2>1. 0 \in Nat
      OBVIOUS
    <2> HIDE DEF next, pick
    <2>2. QED
      BY <1>3, <2>1, FoldExists
  <1>5. \A s \in SUBSET S :
          g[s] = IF s = {} THEN 0 ELSE Euclid[<<First(s), g[s \ {First(s)}]>>]
    <2> SUFFICES ASSUME NEW s \in SUBSET S, s # {}
                 PROVE  g[s] = Euclid[<<First(s), g[s \ {First(s)}]>>]
      BY <1>4 DEF Computes
    <2>1. /\ pick[s] = First(s)
          /\ <<First(s), g[s \ {First(s)}]>> \in S \X Nat
      BY <1>1, <1>4
    <2>2. g[s] = next[<<First(s), g[s \ {First(s)}]>>]
      BY <1>4, <2>1 DEF Computes
    <2>3. QED
      BY <2>1, <2>2
  <1>6. Is(iter)
    <2>1. Is(g)
      BY <1>4, <1>5
    <2> HIDE DEF Is
    <2>2. QED
      BY <2>1
  <1>7. \A s \in SUBSET S :
          iter[s] = IF s = {} THEN 0 ELSE Euclid[<<First(s), iter[s \ {First(s)}]>>]
    <2> HIDE DEF iter
    <2>1. QED
      BY <1>6
  <1>8. Gcd(S) = iter[S]
    BY DEF Gcd, FoldSet, MapThenFoldSet, Euclid, IsEuclid, First
  <1>9. SUBSET S \subseteq T
    <2>1. {} \in T
      <3> HIDE DEF iter
      <3>1. {} \in SUBSET S /\ iter[{}] = 0
        BY <1>7
      <3>2. QED
        BY <3>1
    <2>2. ASSUME NEW s \in SUBSET S, s # {}, s \ {pick[s]} \in T
          PROVE  s \in T
      <3> HIDE DEF iter
      <3> DEFINE x == First(s)
                 d == iter[s \ {x}]
      <3>1. pick[s] = x /\ x \in s /\ x \in Nat
        BY <1>1, <2>2
      <3>2. iter[s] = Euclid[<<x, d>>]
        BY <1>7, <2>2
      <3>3. d \in Nat /\ \A y \in s \ {x} : Divides(d, y)
        BY <2>2, <3>1
      <3> HIDE DEF x, d
      <3>4. iter[s] \in Nat /\ Divides(iter[s], x) /\ Divides(iter[s], d)
        BY <3>1, <3>2, <3>3, EuclidDivides
      <3>5. \A y \in s \ {x} : Divides(iter[s], y)
        BY <3>3, <3>4, DividesThrough
      <3>6. QED
        BY <3>1, <3>4, <3>5
    <2>3. Inductive(T, S, pick)
      <3> HIDE DEF T, pick
      <3>1. QED
        BY <2>1, <2>2 DEF Inductive
    <2> HIDE DEF T, pick
    <2>4. QED
      BY <1>3, <2>3, FoldSetInduction
  <1>10. QED
    <2> HIDE DEF iter
    <2>1. S \in T
      BY <1>9
    <2>2. QED
      BY <1>8, <2>1

---------------------------------------------------------------------------
(* Finite sets.                                                            *)

\* The image of a finite set, and the elements of a list.
LEMMA ImageFinite ==
  ASSUME NEW S, IsFiniteSet(S), NEW f, NEW R,
         \A x \in S : f[x] \in R,
         \A y \in R : \E x \in S : y = f[x]
  PROVE  IsFiniteSet(R)
  <1> DEFINE g == [x \in S |-> f[x]]
  <1>1. g \in Surjection(S, R)
    BY DEF Surjection
  <1> HIDE DEF g
  <1>2. QED
    BY <1>1, FS_Surjection

LEMMA ListSet ==
  ASSUME NEW S, NEW s \in Seq(S)
  PROVE  /\ ToSet(s) = {s[i] : i \in 1 .. Len(s)}
         /\ ToSet(s) \subseteq S /\ IsFiniteSet(ToSet(s))
  <1>1. Len(s) \in Nat /\ DOMAIN s = 1 .. Len(s) /\ \A i \in 1 .. Len(s) : s[i] \in S
    OBVIOUS
  <1>2. ToSet(s) = {s[i] : i \in 1 .. Len(s)}
    BY <1>1 DEF ToSet
  <1>3. IsFiniteSet(1 .. Len(s))
    BY <1>1, FS_Interval
  <1>4. ToSet(s) \subseteq S
    BY <1>1, <1>2
  <1> DEFINE R == ToSet(s)
  <1>5. \A i \in 1 .. Len(s) : s[i] \in R
    BY <1>1, <1>2
  <1>6. \A y \in R : \E i \in 1 .. Len(s) : y = s[i]
    BY <1>1, <1>2
  <1>7. IsFiniteSet(R)
    <2> HIDE DEF R
    <2>1. QED
      BY <1>3, <1>5, <1>6, ImageFinite
  <1>8. QED
    BY <1>2, <1>4, <1>7

---------------------------------------------------------------------------
(* Boxes and intervals.                                                    *)

\* The bounds of an interval.
LEMMA IntervalIs ==
  ASSUME NEW x \in Interval
  PROVE  x[1] \in Nat /\ x[2] \in Nat /\ x[1] <= x[2] /\ Size(x) \in Nat
         /\ x[2] = x[1] + Size(x)
  BY DEF Interval, Size

\* The linear intervals of a box are intervals, and finitely many.
LEMMA LinearRangesAre ==
  ASSUME NEW box \in Seq(Interval), NEW shape \in Seq(Nat)
  PROVE  LinearRanges(box, shape) \subseteq Interval /\ IsFiniteSet(LinearRanges(box, shape))
  <1> DEFINE dims    == Len(box)
             ones    == [d \in 1 .. dims - Len(shape) |-> 1]
             sizes   == SubSeq(ones \o shape, 1, dims)
             strides == Strides(sizes)
             Full    == {d \in 1 .. dims + 1 : \A e \in d .. dims : box[e] = <<0, sizes[e]>>}
             full    == Min(Full)
             merged  == full - 1
             outer   == [d \in 1 .. merged - 1 |-> Size(box[d])]
             first   == FirstBase(outer, box, strides)
             bases   == Walk(outer, strides, first)
  <1>1. /\ dims \in Nat /\ DOMAIN box = 1 .. dims
        /\ \A d \in 1 .. dims : box[d] \in Interval
    OBVIOUS
  <1>2. sizes \in Seq(Nat) /\ Len(sizes) = dims
    <2>1. ones \in Seq(Nat) /\ Len(ones) + Len(shape) >= dims
      <3>1. CASE dims - Len(shape) \in Nat
        <4>1. ones \in [1 .. dims - Len(shape) -> Nat]
          OBVIOUS
        <4>2. ones \in Seq(Nat) /\ Len(ones) = dims - Len(shape)
          <5> HIDE DEF ones, dims
          <5>1. QED
            BY <3>1, <4>1, ListIs
        <4> HIDE DEF ones
        <4>3. QED
          BY <1>1, <4>2
      <3>2. CASE dims - Len(shape) \notin Nat
        <4>1. dims - Len(shape) < 1 /\ Len(shape) \in Nat /\ dims <= Len(shape)
          BY <1>1, <3>2
        <4>2. 1 .. dims - Len(shape) = {}
          BY <1>1, <4>1
        <4>3. ones \in [1 .. 0 -> Nat]
          BY <4>2
        <4> HIDE DEF ones, dims
        <4>4. ones \in Seq(Nat) /\ Len(ones) = 0
          BY <4>3, ListIs
        <4>5. QED
          BY <1>1, <4>1, <4>4
      <3>3. QED
        BY <3>1, <3>2
    <2> HIDE DEF ones
    <2>2. ones \o shape \in Seq(Nat) /\ Len(ones \o shape) >= dims
      BY <1>1, <2>1
    <2>3. QED
      BY <1>1, <2>2
  <1> HIDE DEF dims, sizes
  <1>3. \A d \in 1 .. dims : strides[d] \in Nat
    <2>1. DOMAIN sizes = 1 .. dims
      BY <1>1, <1>2
    <2>2. ASSUME NEW d \in 1 .. dims PROVE strides[d] \in Nat
      <3>1. SubSeq(sizes, d + 1, Len(sizes)) \in Seq(Nat)
        BY <1>1, <1>2
      <3>2. strides[d] = Numel(SubSeq(sizes, d + 1, Len(sizes)))
        BY <2>1 DEF Strides
      <3>3. QED
        BY <3>1, <3>2, NumelNat
    <2>3. QED
      BY <2>2
  <1> HIDE DEF strides
  <1>4. full \in 1 .. dims + 1
    <2>1. dims + 1 \in Full
      BY <1>1
    <2>2. Full \subseteq Nat /\ Full # {} /\ Full \subseteq 1 .. dims + 1
      BY <2>1
    <2> HIDE DEF Full
    <2>3. QED
      BY <2>2, MinIs
  <1> HIDE DEF full
  <1>5. LinearRanges(box, shape) =
          IF full = 1 THEN {<<0, Numel(sizes)>>}
          ELSE {<<base + box[merged][1] * strides[merged],
                  base + box[merged][2] * strides[merged]>> : base \in ToSet(bases)}
    BY DEF LinearRanges, FirstBase, dims, sizes, strides, full
  <1>6. CASE full = 1
    <2>1. Numel(sizes) \in Nat
      BY <1>2, NumelNat
    <2>2. <<0, Numel(sizes)>> \in Interval
      BY <2>1 DEF Interval
    <2>3. QED
      BY <1>5, <1>6, <2>2, FS_Singleton
  <1>7. CASE full # 1
    <2>1. merged \in 1 .. dims /\ merged - 1 \in Nat
      BY <1>1, <1>4, <1>7
    <2>2. \A d \in 1 .. merged - 1 : d \in 1 .. dims
      BY <1>1, <2>1
    <2>3. first \in Nat
      <3>1. DOMAIN outer = 1 .. merged - 1
        OBVIOUS
      <3>2. \A d \in 1 .. merged - 1 : box[d][1] \in Nat /\ strides[d] \in Nat
        BY <1>1, <1>3, <2>2, IntervalIs
      <3> HIDE DEF outer, merged
      <3>3. QED
        BY <2>1, <3>1, <3>2, SumNat
    <2>4. bases \in Seq(Nat)
      <3>1. DOMAIN outer = 1 .. merged - 1
        OBVIOUS
      <3>2. \A d \in 1 .. merged - 1 : outer[d] \in Nat /\ strides[d] \in Nat
        BY <1>1, <1>3, <2>2, IntervalIs
      <3> HIDE DEF outer, merged, first
      <3>3. QED
        BY <2>1, <2>3, <3>1, <3>2, WalkIs
    <2> DEFINE Is(base) == <<base + box[merged][1] * strides[merged],
                             base + box[merged][2] * strides[merged]>>
    <2>5. ASSUME NEW base \in Nat PROVE Is(base) \in Interval
      <3>1. /\ box[merged][1] \in Nat /\ box[merged][2] \in Nat /\ strides[merged] \in Nat
            /\ box[merged][1] <= box[merged][2]
        BY <1>1, <1>3, <2>1, IntervalIs
      <3> HIDE DEF merged
      <3> DEFINE lo == box[merged][1]
                 size == box[merged][2] - lo
                 stride == strides[merged]
      <3>2. size \in Nat /\ box[merged][2] = lo + size
        BY <3>1
      <3>3. lo \in Nat /\ stride \in Nat
        BY <3>1
      <3> HIDE DEF lo, size, stride
      <3>4. lo * stride \in Nat /\ size * stride \in Nat
        BY <3>2, <3>3, Times
      <3>5. (lo + size) * stride = lo * stride + size * stride
        BY <3>2, <3>3, Distribute, Associate
      <3>6. Is(base) = <<base + lo * stride, base + (lo + size) * stride>>
        BY <3>2 DEF lo, stride
      <3> DEFINE x == lo * stride
                 y == size * stride
      <3>7. x \in Nat /\ y \in Nat /\ Is(base) = <<base + x, base + (x + y)>>
        BY <3>4, <3>5, <3>6
      <3> HIDE DEF x, y, Is
      <3>8. base + x \in Nat /\ base + (x + y) \in Nat /\ base + x <= base + (x + y)
        BY <3>7
      <3>9. QED
        BY <3>7, <3>8 DEF Interval
    <2>6. ToSet(bases) \subseteq Nat /\ IsFiniteSet(ToSet(bases))
      <3> HIDE DEF bases
      <3>1. QED
        BY <2>4, ListSet
    <2> DEFINE f == [base \in ToSet(bases) |-> Is(base)]
               R == {Is(base) : base \in ToSet(bases)}
    <2>7. R \subseteq Interval
      <3> HIDE DEF Is, bases
      <3>1. QED
        BY <2>5, <2>6
    <2>8. IsFiniteSet(R)
      <3> HIDE DEF Is, bases
      <3>1. /\ \A base \in ToSet(bases) : f[base] \in R
            /\ \A y \in R : \E base \in ToSet(bases) : y = f[base]
        OBVIOUS
      <3> HIDE DEF R, f
      <3>2. QED
        BY <2>6, <3>1, ImageFinite
    <2>9. LinearRanges(box, shape) = R
      BY <1>5, <1>7
    <2>10. QED
      BY <2>7, <2>8, <2>9
  <1>8. QED
    BY <1>6, <1>7

\* A multiple of a unit is its whole units.
LEMMA WholeUnits ==
  ASSUME NEW u \in Nat, u > 0, NEW x \in Nat, Divides(u, x)
  PROVE  x \div u \in Nat /\ x = u * (x \div u)
  <1>1. PICK i \in Nat : x = u * i
    BY DEF Divides
  <1> DEFINE q == x \div u
             r == x % u
  <1>2. q \in Nat /\ r \in Nat /\ r < u /\ x = u * q + r
    BY Quotient
  <1> HIDE DEF q, r
  <1>3. u * (i - q) = u * i - u * q /\ u * i \in Nat /\ u * q \in Nat
    BY <1>1, <1>2, Distribute, Times
  <1>4. u * (i - q) = r
    BY <1>1, <1>2, <1>3
  <1>5. i - q \in Nat
    BY <1>1, <1>2, <1>4, PositiveFactor
  <1>6. i - q < 1
    <2>1. SUFFICES ASSUME i - q >= 1 PROVE FALSE
      BY <1>5
    <2>2. i - q - 1 \in Nat /\ u * ((i - q) - 1) = u * (i - q) - u * 1
      BY <1>5, <2>1, Distribute
    <2>3. u * ((i - q) - 1) \in Nat
      BY <2>2, Times
    <2>4. QED
      BY <1>2, <1>4, <2>2, <2>3
  <1>7. i = q
    BY <1>1, <1>2, <1>5, <1>6
  <1>8. QED
    BY <1>1, <1>2, <1>7 DEF q

\* Positions that are multiples of a unit keep their order when they are
\* counted in units.
LEMMA UnitsLess ==
  ASSUME NEW u \in Nat, u > 0, NEW a \in Nat, NEW b \in Nat, Divides(u, a), Divides(u, b)
  PROVE  /\ a \div u \in Nat /\ b \div u \in Nat
         /\ a \div u < b \div u <=> a < b
  <1> DEFINE i == a \div u
             j == b \div u
  <1>2. i \in Nat /\ j \in Nat /\ a = u * i /\ b = u * j
    BY WholeUnits
  <1> HIDE DEF i, j
  <1>3. i < j => a < b
    <2>1. SUFFICES ASSUME i < j PROVE a < b
      OBVIOUS
    <2>2. j - i - 1 \in Nat /\ u * (j - i) = u * j - u * i /\ u * (j - i - 1) = u * (j - i) - u * 1
      BY <1>2, <2>1, Distribute
    <2>3. u * (j - i - 1) \in Nat
      BY <2>2, Times
    <2>4. QED
      BY <1>2, <2>2, <2>3
  <1>4. a < b => i < j
    <2>1. SUFFICES ASSUME i >= j PROVE a >= b
      BY <1>2
    <2>2. i - j \in Nat /\ u * (i - j) = u * i - u * j
      BY <1>2, <2>1, Distribute
    <2>3. u * (i - j) \in Nat
      BY <2>2, Times
    <2>4. QED
      BY <1>2, <2>2, <2>3
  <1>5. QED
    BY <1>2, <1>3, <1>4 DEF i, j

\* The parts of a concatenation.
LEMMA ConcatIs ==
  ASSUME NEW a \in Seq(Interval), NEW b \in Seq(Interval)
  PROVE  /\ a \o b \in Seq(Interval) /\ Len(a \o b) = Len(a) + Len(b)
         /\ \A d \in 1 .. Len(a) : (a \o b)[d] = a[d]
         /\ \A d \in 1 .. Len(b) : (a \o b)[Len(a) + d] = b[d]
  OBVIOUS

\* A padded box has its own intervals behind those of one element.
LEMMA PadIs ==
  ASSUME NEW r \in Seq(Interval)
  PROVE  \E m \in Nat :
           /\ Pad(r) \in Seq(Interval) /\ Len(Pad(r)) = m + Len(r)
           /\ m = IF Len(r) <= NUM_DIMS THEN NUM_DIMS - Len(r) ELSE 0
           /\ \A d \in 1 .. m : Pad(r)[d] = <<0, 1>>
           /\ \A d \in 1 .. Len(r) : Pad(r)[m + d] = r[d]
  <1> DEFINE front == [d \in 1 .. NUM_DIMS - Len(r) |-> <<0, 1>>]
             m == IF Len(r) <= NUM_DIMS THEN NUM_DIMS - Len(r) ELSE 0
  <1>1. Len(r) \in Nat /\ m \in Nat /\ 1 .. NUM_DIMS - Len(r) = 1 .. m
    BY DEF NUM_DIMS
  <1>2. <<0, 1>> \in Interval
    BY DEF Interval
  <1>3. front \in [1 .. m -> Interval] /\ \A d \in 1 .. m : front[d] = <<0, 1>>
    BY <1>1, <1>2
  <1>4. Pad(r) = front \o r
    BY DEF Pad
  <1> HIDE DEF front
  <1>5. front \in Seq(Interval) /\ Len(front) = m
    <2> HIDE DEF m
    <2>1. QED
      BY <1>1, <1>3, ListIs
  <1>6. m = IF Len(r) <= NUM_DIMS THEN NUM_DIMS - Len(r) ELSE 0
    OBVIOUS
  <1> HIDE DEF m
  <1>8. /\ Pad(r) \in Seq(Interval) /\ Len(Pad(r)) = m + Len(r)
        /\ \A d \in 1 .. m : Pad(r)[d] = front[d]
        /\ \A d \in 1 .. Len(r) : Pad(r)[m + d] = r[d]
    <2> DEFINE c == front \o r
    <2>0. front \in Seq(Interval)
      BY <1>5
    <2>1. /\ c \in Seq(Interval) /\ Len(c) = Len(front) + Len(r)
          /\ \A d \in 1 .. Len(front) : c[d] = front[d]
          /\ \A d \in 1 .. Len(r) : c[Len(front) + d] = r[d]
      BY <2>0, ConcatIs
    <2> HIDE DEF c
    <2>2. Pad(r) = c
      BY <1>4 DEF c
    <2>3. QED
      BY <1>5, <2>1, <2>2
  <1>9. \A d \in 1 .. m : Pad(r)[d] = <<0, 1>>
    BY <1>3, <1>8
  <1> m \in Nat
    BY <1>1
  <1> WITNESS m \in Nat
  <1>10. QED
    BY <1>6, <1>8, <1>9

\* Boxes of the same dimensions share an element when they do in each.
InCommon(x, y) == x[1] < x[2] /\ y[1] < y[2] /\ x[1] < y[2] /\ y[1] < x[2]

\* Boxes of intervals overlap when the intervals do in every dimension.
LEMMA OverlapIs ==
  ASSUME NEW a \in Seq(Interval), NEW b \in Seq(Interval), Len(a) = Len(b)
  PROVE  Overlap(a, b) <=> \A d \in 1 .. Len(a) : InCommon(a[d], b[d])
  <1> DEFINE n == Len(a)
  <1>1. /\ n \in Nat /\ DOMAIN a = 1 .. n /\ DOMAIN b = 1 .. n
        /\ \A d \in 1 .. n : a[d] \in Interval /\ b[d] \in Interval
    OBVIOUS
  <1>2. \A x \in Interval : Size(x) = 0 <=> ~(x[1] < x[2])
    BY IntervalIs DEF Size
  <1>3. /\ IsEmpty(a) <=> \E d \in 1 .. n : ~(a[d][1] < a[d][2])
        /\ IsEmpty(b) <=> \E d \in 1 .. n : ~(b[d][1] < b[d][2])
    BY <1>1, <1>2 DEF IsEmpty
  <1>4. PICK m \in Nat :
          /\ Pad(a) \in Seq(Interval) /\ Len(Pad(a)) = m + n
          /\ m = IF n <= NUM_DIMS THEN NUM_DIMS - n ELSE 0
          /\ \A d \in 1 .. m : Pad(a)[d] = <<0, 1>>
          /\ \A d \in 1 .. n : Pad(a)[m + d] = a[d]
    BY PadIs
  <1>5. /\ Pad(b) \in Seq(Interval) /\ Len(Pad(b)) = m + n
        /\ \A d \in 1 .. m : Pad(b)[d] = <<0, 1>>
        /\ \A d \in 1 .. n : Pad(b)[m + d] = b[d]
    <2>1. PICK k \in Nat :
            /\ Pad(b) \in Seq(Interval) /\ Len(Pad(b)) = k + n
            /\ k = IF n <= NUM_DIMS THEN NUM_DIMS - n ELSE 0
            /\ \A d \in 1 .. k : Pad(b)[d] = <<0, 1>>
            /\ \A d \in 1 .. n : Pad(b)[k + d] = b[d]
      BY PadIs
    <2>2. k = m
      BY <1>4, <2>1
    <2>3. QED
      BY <2>1, <2>2
  <1> DEFINE Crosses(x, y) == x[1] < y[2] /\ y[1] < x[2]
  <1>6. Meets(Pad(a), Pad(b)) <=> \A d \in 1 .. n : Crosses(a[d], b[d])
    <2> DEFINE p == Pad(a)
               q == Pad(b)
    <2>1. DOMAIN p = 1 .. m + n
      BY <1>4
    <2>2. Meets(p, q) <=> \A d \in 1 .. m + n : Crosses(p[d], q[d])
      BY <2>1 DEF Meets
    <2>3. \A d \in 1 .. m : Crosses(p[d], q[d])
      BY <1>4, <1>5
    <2>4. \A d \in 1 .. n : p[m + d] = a[d] /\ q[m + d] = b[d] /\ m + d \in 1 .. m + n
      BY <1>1, <1>4, <1>5
    <2>5. \A d \in 1 .. m + n : d \in 1 .. m \/ (d - m \in 1 .. n /\ d = m + (d - m))
      BY <1>1
    <2> HIDE DEF p, q, n, Crosses
    <2>6. (\A d \in 1 .. m + n : Crosses(p[d], q[d])) => \A d \in 1 .. n : Crosses(a[d], b[d])
      BY <2>4
    <2>7. (\A d \in 1 .. n : Crosses(a[d], b[d])) => \A d \in 1 .. m + n : Crosses(p[d], q[d])
      BY <2>3, <2>4, <2>5
    <2>8. QED
      BY <2>2, <2>6, <2>7 DEF p, q
  <1>7. QED
    BY <1>3, <1>6 DEF Overlap, InCommon

\* A unit for each dimension of a box, and a box that lies on the units.
UnitsFor(n) == [1 .. n -> {u \in Nat : u > 0}]
OnUnit(x, u) == Divides(u, x[1]) /\ Divides(u, x[2])

\* Two boxes that lie on the units share an element when they do in units.
LEMMA InUnitsOverlap ==
  ASSUME NEW a \in Seq(Interval), NEW b \in Seq(Interval), NEW n \in Nat,
         Len(a) = n, Len(b) = n, NEW unit \in UnitsFor(n),
         \A d \in 1 .. n : OnUnit(a[d], unit[d]) /\ OnUnit(b[d], unit[d])
  PROVE  Overlap(InUnits(a, unit), InUnits(b, unit)) <=> Overlap(a, b)
  <1> DEFINE Units(x, u) == <<x[1] \div u, x[2] \div u>>
             In(x) == [d \in 1 .. n |-> Units(x[d], unit[d])]
  <1>1. /\ DOMAIN unit = 1 .. n
        /\ \A d \in 1 .. n : /\ unit[d] \in Nat /\ unit[d] > 0
                             /\ a[d] \in Interval /\ b[d] \in Interval
    BY DEF UnitsFor
  <1>2. ASSUME NEW u \in Nat, u > 0, NEW x \in Interval, NEW y \in Interval,
               OnUnit(x, u), OnUnit(y, u)
        PROVE  /\ Units(x, u) \in Interval
               /\ InCommon(Units(x, u), Units(y, u)) <=> InCommon(x, y)
    <2>1. /\ x[1] \in Nat /\ x[2] \in Nat /\ x[1] <= x[2]
          /\ y[1] \in Nat /\ y[2] \in Nat /\ y[1] <= y[2]
      BY IntervalIs
    <2>2. Divides(u, x[1]) /\ Divides(u, x[2]) /\ Divides(u, y[1]) /\ Divides(u, y[2])
      BY <1>2 DEF OnUnit
    <2>3. /\ x[1] \div u \in Nat /\ x[2] \div u \in Nat
          /\ x[1] \div u < x[2] \div u <=> x[1] < x[2]
          /\ x[2] \div u < x[1] \div u <=> x[2] < x[1]
      BY <1>2, <2>1, <2>2, UnitsLess
    <2>4. y[1] \div u < y[2] \div u <=> y[1] < y[2]
      BY <1>2, <2>1, <2>2, UnitsLess
    <2>5. x[1] \div u < y[2] \div u <=> x[1] < y[2]
      BY <1>2, <2>1, <2>2, UnitsLess
    <2>6. y[1] \div u < x[2] \div u <=> y[1] < x[2]
      BY <1>2, <2>1, <2>2, UnitsLess
    <2> DEFINE x1 == x[1] \div u
               x2 == x[2] \div u
               y1 == y[1] \div u
               y2 == y[2] \div u
    <2>7. x1 <= x2
      BY <2>1, <2>3
    <2> HIDE DEF x1, x2, y1, y2
    <2>8. Units(x, u) = <<x1, x2>> /\ Units(y, u) = <<y1, y2>>
      BY DEF x1, x2, y1, y2
    <2>9. Units(x, u) \in Interval
      BY <2>3, <2>7, <2>8 DEF Interval, x1, x2
    <2>10. InCommon(Units(x, u), Units(y, u)) <=> x1 < x2 /\ y1 < y2 /\ x1 < y2 /\ y1 < x2
      BY <2>8 DEF InCommon
    <2>11. QED
      BY <2>3, <2>4, <2>5, <2>6, <2>9, <2>10 DEF InCommon, x1, x2, y1, y2
  <1> HIDE DEF Units
  <1>3. ASSUME NEW x \in Seq(Interval), Len(x) = n,
               \A d \in 1 .. n : OnUnit(x[d], unit[d])
        PROVE  /\ In(x) \in Seq(Interval) /\ Len(In(x)) = n
               /\ InUnits(x, unit) = Pad(In(x))
    <2>1. \A d \in 1 .. n : Units(x[d], unit[d]) \in Interval
      BY <1>1, <1>2, <1>3
    <2>2. In(x) \in [1 .. n -> Interval]
      BY <2>1
    <2>3. InUnits(x, unit) = Pad(In(x))
      BY <1>1 DEF InUnits, Units
    <2> HIDE DEF In
    <2>4. QED
      BY <2>2, <2>3, ListIs
  <1>4. Overlap(Pad(In(a)), Pad(In(b))) <=> Overlap(In(a), In(b))
    <2> DEFINE p == In(a)
               q == In(b)
    <2>1. p \in Seq(Interval) /\ q \in Seq(Interval) /\ Len(p) = n /\ Len(q) = n
      BY <1>3
    <2> HIDE DEF p, q
    <2>2. PICK m \in Nat :
            /\ Pad(p) \in Seq(Interval) /\ Len(Pad(p)) = m + n
            /\ m = IF n <= NUM_DIMS THEN NUM_DIMS - n ELSE 0
            /\ \A d \in 1 .. m : Pad(p)[d] = <<0, 1>>
            /\ \A d \in 1 .. n : Pad(p)[m + d] = p[d]
      BY ZenonT(40), <2>1, PadIs
    <2>3. PICK k \in Nat :
            /\ Pad(q) \in Seq(Interval) /\ Len(Pad(q)) = k + n
            /\ k = IF n <= NUM_DIMS THEN NUM_DIMS - n ELSE 0
            /\ \A d \in 1 .. k : Pad(q)[d] = <<0, 1>>
            /\ \A d \in 1 .. n : Pad(q)[k + d] = q[d]
      BY ZenonT(40), <2>1, PadIs
    <2>4. k = m
      BY <2>2, <2>3
    <2>5. Overlap(Pad(p), Pad(q)) <=> \A d \in 1 .. m + n : InCommon(Pad(p)[d], Pad(q)[d])
      BY <2>2, <2>3, <2>4, OverlapIs
    <2>6. Overlap(p, q) <=> \A d \in 1 .. n : InCommon(p[d], q[d])
      BY <2>1, OverlapIs
    <2>7. InCommon(<<0, 1>>, <<0, 1>>)
      BY DEF InCommon
    <2>8. \A d \in 1 .. m : InCommon(Pad(p)[d], Pad(q)[d])
      BY <2>2, <2>3, <2>4, <2>7
    <2>9. \A d \in 1 .. n : m + d \in 1 .. m + n
      OBVIOUS
    <2>10. \A d \in 1 .. m + n : d \in 1 .. m \/ (d - m \in 1 .. n /\ d = m + (d - m))
      OBVIOUS
    <2>11. (\A d \in 1 .. m + n : InCommon(Pad(p)[d], Pad(q)[d])) =>
              \A d \in 1 .. n : InCommon(p[d], q[d])
      BY <2>2, <2>3, <2>4, <2>9
    <2>12. (\A d \in 1 .. n : InCommon(p[d], q[d])) =>
              \A d \in 1 .. m + n : InCommon(Pad(p)[d], Pad(q)[d])
      <3>1. SUFFICES ASSUME \A d \in 1 .. n : InCommon(p[d], q[d]), NEW d \in 1 .. m + n
                     PROVE  InCommon(Pad(p)[d], Pad(q)[d])
        OBVIOUS
      <3>2. CASE d \in 1 .. m
        BY <2>8, <3>2
      <3>3. CASE d - m \in 1 .. n
        <4>1. Pad(p)[d] = p[d - m] /\ Pad(q)[d] = q[d - m]
          BY <2>2, <2>3, <2>4, <2>10, <3>3
        <4>2. QED
          BY <3>1, <3>3, <4>1
      <3>4. QED
        BY <2>10, <3>2, <3>3
    <2>13. QED
      BY <2>5, <2>6, <2>11, <2>12 DEF p, q
  <1>5. Overlap(In(a), In(b)) <=> Overlap(a, b)
    <2>1. Overlap(In(a), In(b)) <=> \A d \in 1 .. n : InCommon(In(a)[d], In(b)[d])
      <3>1. In(a) \in Seq(Interval) /\ In(b) \in Seq(Interval) /\ Len(In(a)) = n /\ Len(In(b)) = n
        BY <1>3
      <3> HIDE DEF In
      <3>2. QED
        BY <3>1, OverlapIs
    <2>2. \A d \in 1 .. n : InCommon(In(a)[d], In(b)[d]) <=> InCommon(a[d], b[d])
      <3>1. ASSUME NEW d \in 1 .. n
            PROVE  InCommon(In(a)[d], In(b)[d]) <=> InCommon(a[d], b[d])
        <4>1. In(a)[d] = Units(a[d], unit[d]) /\ In(b)[d] = Units(b[d], unit[d])
          OBVIOUS
        <4>2. QED
          BY <1>1, <1>2, <4>1
      <3>2. QED
        BY <3>1
    <2>3. Overlap(a, b) <=> \A d \in 1 .. n : InCommon(a[d], b[d])
      BY OverlapIs
    <2>4. QED
      BY <2>1, <2>2, <2>3
  <1>6. QED
    BY <1>3, <1>4, <1>5

\* Intervals that lie on the unit have a cell in common when they share an
\* element.
LEMMA CellsMeet ==
  ASSUME NEW A \in SUBSET Interval, NEW B \in SUBSET Interval, NEW u \in Nat, u > 0,
         \A x \in A \cup B : OnUnit(x, u)
  PROVE  Cells(A, u) \cap Cells(B, u) # {} <=> \E a \in A, b \in B : InCommon(a, b)
  <1> DEFINE UnitsIn(x) == (x[1] \div u) .. (x[2] \div u) - 1
  <1>1. /\ \A k : k \in Cells(A, u) <=> \E a \in A : k \in UnitsIn(a)
        /\ \A k : k \in Cells(B, u) <=> \E b \in B : k \in UnitsIn(b)
    BY DEF Cells
  <1>2. ASSUME NEW a \in A, NEW b \in B
        PROVE  (\E k : k \in UnitsIn(a) /\ k \in UnitsIn(b)) <=> InCommon(a, b)
    <2>1. /\ a \in Interval /\ b \in Interval
          /\ a[1] \in Nat /\ a[2] \in Nat /\ b[1] \in Nat /\ b[2] \in Nat
          /\ a[1] <= a[2] /\ b[1] <= b[2]
      BY IntervalIs
    <2>2. Divides(u, a[1]) /\ Divides(u, a[2]) /\ Divides(u, b[1]) /\ Divides(u, b[2])
      BY DEF OnUnit
    <2> DEFINE a1 == a[1] \div u
               a2 == a[2] \div u
               b1 == b[1] \div u
               b2 == b[2] \div u
    <2>3. a1 \in Nat /\ a2 \in Nat /\ (a1 < a2 <=> a[1] < a[2])
      BY <2>1, <2>2, UnitsLess
    <2>4. b1 \in Nat /\ b2 \in Nat /\ (b1 < b2 <=> b[1] < b[2])
      BY <2>1, <2>2, UnitsLess
    <2>5. (a1 < b2 <=> a[1] < b[2]) /\ (b1 < a2 <=> b[1] < a[2])
      BY <2>1, <2>2, UnitsLess
    <2>6. UnitsIn(a) = a1 .. a2 - 1 /\ UnitsIn(b) = b1 .. b2 - 1
      OBVIOUS
    <2> HIDE DEF a1, a2, b1, b2, UnitsIn
    <2>7. (\E k : k \in UnitsIn(a) /\ k \in UnitsIn(b)) <=> a1 < a2 /\ b1 < b2 /\ a1 < b2 /\ b1 < a2
      <3>1. ASSUME NEW k, k \in UnitsIn(a), k \in UnitsIn(b)
            PROVE  a1 < a2 /\ b1 < b2 /\ a1 < b2 /\ b1 < a2
        BY <2>3, <2>4, <2>6, <3>1
      <3>2. ASSUME a1 < a2, b1 < b2, a1 < b2, b1 < a2
            PROVE  \E k : k \in UnitsIn(a) /\ k \in UnitsIn(b)
        <4>1. CASE a1 <= b1
          <5>1. b1 \in UnitsIn(a) /\ b1 \in UnitsIn(b)
            BY <2>3, <2>4, <2>6, <3>2, <4>1
          <5>2. QED
            BY <5>1
        <4>2. CASE b1 < a1
          <5>1. a1 \in UnitsIn(a) /\ a1 \in UnitsIn(b)
            BY <2>3, <2>4, <2>6, <3>2, <4>2
          <5>2. QED
            BY <5>1
        <4>3. QED
          BY <2>3, <2>4, <4>1, <4>2
      <3>3. QED
        BY <3>1, <3>2
    <2>8. QED
      BY <2>3, <2>4, <2>5, <2>7 DEF InCommon
  <1> HIDE DEF UnitsIn
  <1>3. QED
    BY <1>1, <1>2

---------------------------------------------------------------------------
(* The boxes and the intervals of an op's instructions.                    *)

\* They are boxes, and finitely many.
LEMMA BoxesIs ==
  ASSUME NEW lists \in Seq(BoxLists)
  PROVE  /\ Boxes(lists) \subseteq Seq(Interval) /\ IsFiniteSet(Boxes(lists))
         /\ \A i \in DOMAIN lists :
              /\ lists[i] \in BoxLists /\ ToSet(lists[i]) \subseteq Boxes(lists)
              /\ lists[i][1] \in ToSet(lists[i])
  <1> DEFINE D == DOMAIN lists
             f == [i \in D |-> ToSet(lists[i])]
             R == {ToSet(lists[i]) : i \in D}
  <1>1. IsFiniteSet(D)
    <2>1. D = 1 .. Len(lists) /\ Len(lists) \in Nat
      OBVIOUS
    <2>2. QED
      BY <2>1, FS_Interval
  <1>2. ASSUME NEW i \in D
        PROVE  /\ lists[i] \in BoxLists /\ ToSet(lists[i]) \subseteq Seq(Interval)
               /\ IsFiniteSet(ToSet(lists[i])) /\ lists[i][1] \in ToSet(lists[i])
    <2>1. lists[i] \in BoxLists
      OBVIOUS
    <2>2. lists[i] \in Seq(Seq(Interval)) /\ lists[i] # << >>
      BY <2>1 DEF BoxLists
    <2>3. 1 \in 1 .. Len(lists[i])
      BY <2>2
    <2> DEFINE s == lists[i]
    <2> HIDE DEF s
    <2>4. s \in Seq(Seq(Interval))
      BY <2>2 DEF s
    <2>5. /\ ToSet(s) = {s[k] : k \in 1 .. Len(s)}
          /\ ToSet(s) \subseteq Seq(Interval) /\ IsFiniteSet(ToSet(s))
      BY <2>4, ListSet
    <2>6. QED
      BY <2>1, <2>3, <2>5 DEF s
  <1>3. \A i \in D : f[i] \in R
    OBVIOUS
  <1>4. \A T \in R : \E i \in D : T = f[i]
    OBVIOUS
  <1>5. \A T \in R : IsFiniteSet(T) /\ T \subseteq Seq(Interval)
    BY <1>2
  <1>6. Boxes(lists) = UNION R
    BY DEF Boxes
  <1>7. \A i \in D : ToSet(lists[i]) \subseteq UNION R
    OBVIOUS
  <1> HIDE DEF f, R, D
  <1>8. IsFiniteSet(R)
    BY <1>1, <1>3, <1>4, ImageFinite
  <1>9. IsFiniteSet(UNION R)
    BY <1>5, <1>8, FS_UNION
  <1>10. UNION R \subseteq Seq(Interval)
    BY <1>5
  <1>11. QED
    BY <1>2, <1>6, <1>7, <1>9, <1>10 DEF D

\* So are their intervals in linear storage.
LEMMA IntervalsAre ==
  ASSUME NEW boxes \in BoxLists, NEW shape \in Seq(Nat)
  PROVE  Intervals(boxes, shape) \subseteq Interval /\ IsFiniteSet(Intervals(boxes, shape))
  <1> DEFINE D == ToSet(boxes)
             f == [box \in D |-> LinearRanges(box, shape)]
             R == {LinearRanges(box, shape) : box \in D}
  <1>1. D \subseteq Seq(Interval) /\ IsFiniteSet(D)
    <2>1. boxes \in Seq(Seq(Interval))
      BY DEF BoxLists
    <2>2. QED
      BY <2>1, ListSet
  <1>2. \A box \in D : LinearRanges(box, shape) \subseteq Interval
                       /\ IsFiniteSet(LinearRanges(box, shape))
    BY <1>1, LinearRangesAre
  <1>3. \A box \in D : f[box] \in R
    OBVIOUS
  <1>4. \A T \in R : \E box \in D : T = f[box]
    OBVIOUS
  <1>5. \A T \in R : IsFiniteSet(T) /\ T \subseteq Interval
    BY <1>2
  <1>6. Intervals(boxes, shape) = UNION R
    BY DEF Intervals
  <1> HIDE DEF f, R, D
  <1>7. IsFiniteSet(R)
    BY <1>1, <1>3, <1>4, ImageFinite
  <1>8. IsFiniteSet(UNION R)
    BY <1>5, <1>7, FS_UNION
  <1>9. UNION R \subseteq Interval
    BY <1>5
  <1>10. QED
    BY <1>6, <1>8, <1>9

\* What Comparable says of intervals: they lie on their common unit.
LEMMA CommonUnit ==
  ASSUME NEW I \in SUBSET Interval, IsFiniteSet(I), OnUnits(I)
  PROVE  LET u == Gcd({Size(interval) : interval \in I})
         IN  u \in Nat /\ u > 0 /\ \A x \in I : OnUnit(x, u)
  <1> DEFINE sizes == {Size(interval) : interval \in I}
             f == [x \in I |-> Size(x)]
             u == Gcd(sizes)
  <1>1. \A x \in I : Size(x) \in Nat
    BY IntervalIs
  <1>2. sizes \subseteq Nat /\ (\A x \in I : f[x] \in sizes) /\ \A y \in sizes : \E x \in I : y = f[x]
    BY <1>1
  <1>3. \A x \in I : Size(x) \in sizes
    OBVIOUS
  <1>4. u > 0 /\ \A x \in I : x[1] % u = 0
    BY DEF OnUnits
  <1> HIDE DEF f, sizes
  <1>5. IsFiniteSet(sizes)
    BY <1>2, ImageFinite
  <1>6. u \in Nat /\ \A x \in sizes : Divides(u, x)
    BY <1>2, <1>5, GcdDivides
  <1> HIDE DEF u
  <1>7. ASSUME NEW x \in I PROVE OnUnit(x, u)
    <2>1. x[1] \in Nat /\ Size(x) \in Nat /\ x[2] = x[1] + Size(x)
      BY IntervalIs
    <2> DEFINE q == x[1] \div u
    <2>2. q \in Nat /\ x[1] = u * q + (x[1] % u)
      BY <1>4, <1>6, <2>1, Quotient
    <2>3. x[1] % u = 0
      BY <1>4
    <2> HIDE DEF q
    <2>4. x[1] = u * q
      BY <1>6, <2>2, <2>3, Times
    <2>5. PICK k \in Nat : Size(x) = u * k
      BY <1>3, <1>6 DEF Divides
    <2>6. x[2] = u * (q + k)
      BY <1>6, <2>1, <2>2, <2>4, <2>5, Distribute
    <2>7. q + k \in Nat
      BY <2>2
    <2>8. QED
      BY <2>2, <2>4, <2>6, <2>7 DEF OnUnit, Divides
  <1>8. QED
    BY <1>4, <1>6, <1>7 DEF u, sizes

---------------------------------------------------------------------------
(* The matching of regions.                                                *)

\* Which instructions write an element an instruction reads.
BoxReaders(produced, consumed) ==
  [c \in DOMAIN consumed |->
     {p \in DOMAIN produced : ShareElement(ToSet(produced[p]), ToSet(consumed[c]))}]

\* Whatever boxes two ops name in the same shape: when they lie on the common
\* units and all that is read is written, an instruction of the second is given
\* exactly the instructions of the first that write an element it reads
\* (scheduler.py:201).
THEOREM MatchBoxesExact ==
  ASSUME NEW produced \in Seq(BoxLists), NEW consumed \in Seq(BoxLists),
         BoxesOnUnits(Boxes(produced) \cup Boxes(consumed)),
         MatchBoxes(produced, consumed) # Unmatched
  PROVE  MatchBoxes(produced, consumed) = BoxReaders(produced, consumed)
  <1> DEFINE all  == Boxes(produced) \cup Boxes(consumed)
             n    == Len(produced[1][1])
             unit == UnitSizes(produced, consumed, n)
             made == [p \in DOMAIN produced |-> {InUnits(b, unit) : b \in ToSet(produced[p])}]
             used == [c \in DOMAIN consumed |-> {InUnits(b, unit) : b \in ToSet(consumed[c])}]
  <1>1. produced # << >>
    BY DEF MatchBoxes
  <1>2. MatchBoxes(produced, consumed) =
          [c \in DOMAIN consumed |->
             {p \in DOMAIN made : \E a \in made[p] : \E b \in used[c] : Overlap(a, b)}]
    BY DEF MatchBoxes
  <1>3. all \subseteq Seq(Interval) /\ IsFiniteSet(all)
    BY BoxesIs, FS_Union
  <1>4. produced[1][1] \in all /\ n \in Nat
    <2>1. 1 \in DOMAIN produced
      BY <1>1
    <2>2. produced[1][1] \in all
      BY <2>1, BoxesIs
    <2>3. QED
      BY <1>3, <2>2
  <1>5. \A a \in all : a \in Seq(Interval) /\ Len(a) = n /\ DOMAIN a = 1 .. n
    BY <1>3, <1>4 DEF BoxesOnUnits
  <1>6. ASSUME NEW d \in 1 .. n
        PROVE  unit[d] \in Nat /\ unit[d] > 0 /\ \A a \in all : OnUnit(a[d], unit[d])
    <2> DEFINE I == {b[d] : b \in all}
               f == [b \in all |-> b[d]]
               g == Gcd({Size(interval) : interval \in I})
    <2>1. I \subseteq Interval
      BY <1>5
    <2>2. (\A b \in all : f[b] \in I) /\ \A y \in I : \E b \in all : y = f[b]
      OBVIOUS
    <2>3. \A a \in all : a[d] \in I
      OBVIOUS
    <2>4. OnUnits(I)
      BY <1>4, <1>5 DEF BoxesOnUnits
    <2>5. {Size(box[d]) : box \in all} = {Size(interval) : interval \in I}
      OBVIOUS
    <2>6. unit[d] = Gcd({Size(box[d]) : box \in all})
      BY DEF UnitSizes
    <2>7. unit[d] = g
      BY <2>5, <2>6
    <2> HIDE DEF f, I, unit, all
    <2>8. IsFiniteSet(I)
      BY <1>3, <2>2, ImageFinite
    <2>9. g \in Nat /\ g > 0 /\ \A x \in I : OnUnit(x, g)
      BY <2>1, <2>4, <2>8, CommonUnit
    <2>10. QED
      BY <2>3, <2>7, <2>9
  <1>7. unit \in UnitsFor(n)
    <2>1. unit = [d \in 1 .. n |-> unit[d]]
      BY DEF UnitSizes
    <2> HIDE DEF unit, n
    <2>2. QED
      BY <1>6, <2>1 DEF UnitsFor
  <1> DEFINE Found(c, p) == \E a \in made[p] : \E b \in used[c] : Overlap(a, b)
  <1>8. ASSUME NEW c \in DOMAIN consumed, NEW p \in DOMAIN produced
        PROVE  Found(c, p) <=> ShareElement(ToSet(produced[p]), ToSet(consumed[c]))
    <2> DEFINE A == ToSet(produced[p])
               B == ToSet(consumed[c])
    <2>1. A \subseteq all /\ B \subseteq all
      BY BoxesIs
    <2>2. made[p] = {InUnits(b, unit) : b \in A} /\ used[c] = {InUnits(b, unit) : b \in B}
      OBVIOUS
    <2> HIDE DEF A, B, all, made, used, unit, n
    <2>3. \A a \in A, b \in B : Overlap(InUnits(a, unit), InUnits(b, unit)) <=> Overlap(a, b)
      <3>1. ASSUME NEW a \in A, NEW b \in B
            PROVE  Overlap(InUnits(a, unit), InUnits(b, unit)) <=> Overlap(a, b)
        <4>1. /\ a \in Seq(Interval) /\ Len(a) = n /\ b \in Seq(Interval) /\ Len(b) = n
              /\ \A d \in 1 .. n : OnUnit(a[d], unit[d]) /\ OnUnit(b[d], unit[d])
          BY <1>5, <1>6, <2>1
        <4>2. QED
          BY <1>4, <1>7, <4>1, InUnitsOverlap
      <3>2. QED
        BY <3>1
    <2>4. Found(c, p) <=> \E a \in A : \E b \in B : Overlap(InUnits(a, unit), InUnits(b, unit))
      BY <2>2
    <2>5. QED
      BY <2>3, <2>4 DEF ShareElement, A, B
  <1>9. DOMAIN made = DOMAIN produced
    OBVIOUS
  <1> HIDE DEF made, used
  <1>10. QED
    BY <1>2, <1>8, <1>9 DEF BoxReaders

\* The same in linear storage.
LinearReaders(produced, consumed, from, to) ==
  [c \in DOMAIN consumed |->
     {p \in DOMAIN produced : ShareElement(Lines(produced[p], from), Lines(consumed[c], to))}]

\* Through a view the same of the intervals of linear storage the boxes cover.
THEOREM MatchLinearExact ==
  ASSUME NEW produced \in Seq(BoxLists), NEW consumed \in Seq(BoxLists),
         NEW from \in Seq(Nat), NEW to \in Seq(Nat),
         OnUnits(AllIntervals(produced, from) \cup AllIntervals(consumed, to)),
         MatchLinear(produced, consumed, from, to) # Unmatched
  PROVE  MatchLinear(produced, consumed, from, to) =
           LinearReaders(produced, consumed, from, to)
  <1> DEFINE made == [p \in DOMAIN produced |-> Intervals(produced[p], from)]
             used == [c \in DOMAIN consumed |-> Intervals(consumed[c], to)]
             all  == AllIntervals(produced, from) \cup AllIntervals(consumed, to)
             unit == Gcd({Size(interval) : interval \in all})
             madeCells == [p \in DOMAIN made |-> Cells(made[p], unit)]
             usedCells == [c \in DOMAIN used |-> Cells(used[c], unit)]
             Found(c, p) == madeCells[p] \cap usedCells[c] # {}
  <1>1. MatchLinear(produced, consumed, from, to) =
          [c \in DOMAIN consumed |-> {p \in DOMAIN produced : Found(c, p)}]
    <2>1. MatchLinear(produced, consumed, from, to) =
            [c \in DOMAIN consumed |-> {p \in DOMAIN made : madeCells[p] \cap usedCells[c] # {}}]
      BY DEF MatchLinear
    <2>2. DOMAIN made = DOMAIN produced
      OBVIOUS
    <2> HIDE DEF made, madeCells, usedCells
    <2>3. QED
      BY <2>1, <2>2
  <1>2. ASSUME NEW lists \in Seq(BoxLists), NEW shape \in Seq(Nat)
        PROVE  AllIntervals(lists, shape) \subseteq Interval /\ IsFiniteSet(AllIntervals(lists, shape))
    <2> DEFINE D == DOMAIN lists
               f == [i \in D |-> Intervals(lists[i], shape)]
               R == {Intervals(lists[i], shape) : i \in D}
    <2>1. IsFiniteSet(D)
      <3>1. D = 1 .. Len(lists) /\ Len(lists) \in Nat
        OBVIOUS
      <3> HIDE DEF D
      <3>2. QED
        BY <3>1, FS_Interval
    <2>2. \A i \in D : Intervals(lists[i], shape) \subseteq Interval
                       /\ IsFiniteSet(Intervals(lists[i], shape))
      BY IntervalsAre
    <2>3. (\A i \in D : f[i] \in R) /\ \A T \in R : \E i \in D : T = f[i]
      OBVIOUS
    <2>4. \A T \in R : IsFiniteSet(T) /\ T \subseteq Interval
      BY <2>2
    <2>5. AllIntervals(lists, shape) = UNION R
      BY DEF AllIntervals
    <2> HIDE DEF D, f, R
    <2>6. IsFiniteSet(R)
      BY <2>1, <2>3, ImageFinite
    <2>7. IsFiniteSet(UNION R)
      BY <2>4, <2>6, FS_UNION
    <2>8. UNION R \subseteq Interval
      BY <2>4
    <2>9. QED
      BY <2>5, <2>7, <2>8
  <1>5. all \subseteq Interval /\ IsFiniteSet(all) /\ OnUnits(all)
    BY <1>2, FS_Union
  <1>6. unit \in Nat /\ unit > 0 /\ \A x \in all : OnUnit(x, unit)
    <2> HIDE DEF all
    <2>1. QED
      BY <1>5, CommonUnit
  <1>7. ASSUME NEW c \in DOMAIN consumed, NEW p \in DOMAIN produced
        PROVE  Found(c, p) <=> ShareElement(Lines(produced[p], from), Lines(consumed[c], to))
    <2> DEFINE A == Intervals(produced[p], from)
               B == Intervals(consumed[c], to)
    <2>1. A \subseteq all /\ B \subseteq all
      BY DEF AllIntervals
    <2>2. madeCells[p] = Cells(A, unit) /\ usedCells[c] = Cells(B, unit)
      OBVIOUS
    <2>3. ShareElement(Lines(produced[p], from), Lines(consumed[c], to))
             <=> \E a \in A, b \in B : Overlap(<<a>>, <<b>>)
      BY DEF ShareElement, Lines
    <2>9. Found(c, p) <=> Cells(A, unit) \cap Cells(B, unit) # {}
      BY <2>2
    <2> HIDE DEF A, B, all, madeCells, usedCells, unit, Found
    <2>4. A \in SUBSET Interval /\ B \in SUBSET Interval /\ \A x \in A \cup B : OnUnit(x, unit)
      BY <1>5, <1>6, <2>1
    <2>5. Found(c, p) <=> \E a \in A, b \in B : InCommon(a, b)
      <3>1. unit \in Nat /\ unit > 0
        BY <1>6
      <3>2. Cells(A, unit) \cap Cells(B, unit) # {} <=> \E a \in A, b \in B : InCommon(a, b)
        BY <2>4, <3>1, CellsMeet
      <3>3. QED
        BY <2>9, <3>2
    <2>6. ASSUME NEW a \in A, NEW b \in B
          PROVE  Overlap(<<a>>, <<b>>) <=> InCommon(a, b)
      <3>1. /\ <<a>> \in Seq(Interval) /\ <<b>> \in Seq(Interval)
            /\ Len(<<a>>) = 1 /\ Len(<<b>>) = 1 /\ <<a>>[1] = a /\ <<b>>[1] = b
        BY <2>4
      <3>2. Overlap(<<a>>, <<b>>) <=> \A d \in 1 .. 1 : InCommon(<<a>>[d], <<b>>[d])
        BY <3>1, OverlapIs
      <3>3. QED
        BY <3>1, <3>2
    <2>7. QED
      BY <2>3, <2>5, <2>6 DEF A, B
  <1> HIDE DEF Found
  <1>8. QED
    BY <1>1, <1>7 DEF LinearReaders

---------------------------------------------------------------------------
(* The machine.                                                            *)

\* The ops listed so far, what is known of each, and what the status says.
Program ==
  \E program \in PROGRAMS : ops = program.ops /\ edge = program.edge

HasOperands(op) == Len(op.src) >= Len(Specs(op).src)

Listing(k) ==
  /\ k \in 0 .. Len(ops)
  /\ entries = [n \in 1 .. k |-> Blocks(ops[n])]
  /\ regions = [n \in 1 .. k |-> RegionsOf(ops[n])]
  /\ \A n \in 1 .. k : HasOperands(ops[n])

Matching(k) ==
  \/ sources = << >>
  \/ k = Len(ops) /\ edge # << >> /\ sources = Matched /\ Matched # Unmatched

Validating ==
  /\ checked \in 0 .. Len(ops)
  /\ \A n \in 1 .. checked : entries[n] = << >> \/ Valid(ops[n])

StatusSays(k) ==
  /\ status \in {"listing", "matching", "validating", "accepted", "rejected"}
  /\ status = "listing" => k < Len(ops) /\ sources = << >> /\ checked = 0
  /\ status = "matching" => k = Len(ops) /\ edge # << >> /\ sources = << >> /\ checked = 0
  /\ status = "validating" => k = Len(ops) /\ checked < Len(ops)
  /\ status = "accepted" => k = Len(ops) /\ checked = Len(ops)

IInv == Program /\ \E k \in Nat : Listing(k) /\ Matching(k) /\ Validating /\ StatusSays(k)

\* What a program is known to be.
LEMMA ProgramIs ==
  ASSUME Program
  PROVE  /\ Len(ops) \in 1 .. 2 /\ DOMAIN ops = 1 .. Len(ops)
         /\ \A n \in 1 .. Len(ops) :
              IsOp(ops[n]) /\ (HasOperands(ops[n]) => RegionsOf(ops[n]) \in Seq(BoxesOf(ops[n])))
         /\ edge # << >> =>
              Len(ops) = 2 /\ edge[1] \in DOMAIN ops[1].dst /\ edge[2] \in DOMAIN ops[2].src
  <1>1. PICK program \in PROGRAMS : ops = program.ops /\ edge = program.edge
    BY DEF Program
  <1>2. IsProgram(program)
    BY ProgramsAssumption
  <1>3. DOMAIN ops \in {{1}, {1, 2}} /\ DOMAIN ops = 1 .. Len(ops)
    BY <1>1, <1>2 DEF IsProgram
  <1>4. Len(ops) \in 1 .. 2
    <2>1. Len(ops) \in Int
      OBVIOUS
    <2>2. QED
      BY <1>3
  <1>5. QED
    BY <1>1, <1>2, <1>3, <1>4 DEF IsProgram, HasOperands

\* A list made by a rule grows by a rule's next element.
LEMMA Grows ==
  ASSUME NEW N \in Nat, NEW F, NEW k \in 0 .. N - 1
  PROVE  Append([n \in 1 .. k |-> F[n]], F[k + 1]) = [n \in 1 .. k + 1 |-> F[n]]
  <1> DEFINE S == {F[n] : n \in 1 .. N}
             s == [n \in 1 .. k |-> F[n]]
  <1>1. s \in [1 .. k -> S] /\ F[k + 1] \in S
    OBVIOUS
  <1>2. s \in Seq(S) /\ Len(s) = k
    <2> HIDE DEF s, S
    <2>1. QED
      BY <1>1, ListIs
  <1>3. \A n \in 1 .. k : s[n] = F[n]
    OBVIOUS
  <1> HIDE DEF s, S
  <1>4. Append(s, F[k + 1]) = [n \in 1 .. k + 1 |-> F[n]]
    BY <1>1, <1>2, <1>3
  <1>5. QED
    BY <1>4 DEF s

\* Nothing else disturbs what is listed and matched.
LEMMA ListingStays ==
  ASSUME NEW k \in Nat, Listing(k), Matching(k),
         UNCHANGED <<ops, edge, entries, regions, sources>>
  PROVE  Listing(k)' /\ Matching(k)'
  <1>1. Matched' = Matched
    BY DEF Matched, Produced, Consumed, From, To
  <1>2. Listing(k)'
    BY DEF Listing
  <1>3. Matching(k)'
    BY <1>1 DEF Matching
  <1>4. QED
    BY <1>2, <1>3

\* The phases keep to the listing, and the listing to the program.
THEOREM IInvHolds == Spec => []IInv
  <1>1. ASSUME Init PROVE IInv
    <2>1. Program
      BY <1>1 DEF Init, Program
    <2>2. Len(ops) \in 1 .. 2
      BY <2>1, ProgramIs
    <2>3. Listing(0)
      BY <1>1, <2>2 DEF Init, Listing
    <2>4. Matching(0) /\ Validating /\ StatusSays(0)
      <3>1. sources = << >> /\ checked = 0 /\ status = "listing"
        BY <1>1 DEF Init
      <3>2. Matching(0) /\ StatusSays(0)
        BY <2>2, <3>1 DEF Matching, StatusSays
      <3>3. Validating
        BY <2>2, <3>1 DEF Validating
      <3>4. QED
        BY <3>2, <3>3
    <2>5. QED
      BY <2>1, <2>3, <2>4 DEF IInv
  <1>2. ASSUME IInv, [Next]_vars PROVE IInv'
    <2>1. PICK k \in Nat : Listing(k) /\ Matching(k) /\ Validating /\ StatusSays(k)
      BY <1>2 DEF IInv
    <2>2. Program /\ Program'
      BY <1>2 DEF IInv, Program, Next, vars, ListInstructions, MissOperand, MatchEdge,
                  ValidateOp, Raise
    <2>3. /\ Len(ops) \in 1 .. 2 /\ k \in 0 .. Len(ops)
          /\ entries = [n \in 1 .. k |-> Blocks(ops[n])] /\ Len(entries) = k
      <3>1. Len(ops) \in 1 .. 2
        BY <2>2, ProgramIs
      <3>2. k \in 0 .. Len(ops) /\ entries = [n \in 1 .. k |-> Blocks(ops[n])]
        BY <2>1 DEF Listing
      <3>3. Len(entries) = k
        BY <2>1, <3>2
      <3>4. QED
        BY <3>1, <3>2, <3>3
    <2>4. CASE ListInstructions
      <3>1. /\ k < Len(ops) /\ sources = << >> /\ checked = 0 /\ HasOperands(ops[k + 1])
            /\ entries' = Append(entries, Blocks(ops[k + 1]))
            /\ regions' = Append(regions, RegionsOf(ops[k + 1]))
            /\ status' = IF k + 1 < Len(ops) THEN "listing"
                         ELSE IF edge = << >> THEN "validating" ELSE "matching"
            /\ ops' = ops /\ edge' = edge /\ sources' = sources /\ checked' = checked
        BY <2>1, <2>3, <2>4 DEF ListInstructions, StatusSays, Listed, HasOperands
      <3>2. entries' = [n \in 1 .. k + 1 |-> Blocks(ops[n])]
        <4> DEFINE F == [n \in 1 .. Len(ops) |-> Blocks(ops[n])]
        <4>1. /\ entries = [n \in 1 .. k |-> F[n]] /\ Blocks(ops[k + 1]) = F[k + 1]
              /\ [n \in 1 .. k + 1 |-> F[n]] = [n \in 1 .. k + 1 |-> Blocks(ops[n])]
          BY <2>3, <3>1
        <4>2. Len(ops) \in Nat /\ k \in 0 .. Len(ops) - 1
          BY <2>3, <3>1
        <4> HIDE DEF F
        <4>3. Append([n \in 1 .. k |-> F[n]], F[k + 1]) = [n \in 1 .. k + 1 |-> F[n]]
          BY <4>2, Grows
        <4>4. QED
          BY <3>1, <4>1, <4>3
      <3>3. regions' = [n \in 1 .. k + 1 |-> RegionsOf(ops[n])]
        <4> DEFINE F == [n \in 1 .. Len(ops) |-> RegionsOf(ops[n])]
        <4>0. regions = [n \in 1 .. k |-> RegionsOf(ops[n])]
          BY <2>1 DEF Listing
        <4>1. /\ regions = [n \in 1 .. k |-> F[n]] /\ RegionsOf(ops[k + 1]) = F[k + 1]
              /\ [n \in 1 .. k + 1 |-> F[n]] = [n \in 1 .. k + 1 |-> RegionsOf(ops[n])]
          BY <2>3, <3>1, <4>0
        <4>2. Len(ops) \in Nat /\ k \in 0 .. Len(ops) - 1
          BY <2>3, <3>1
        <4> HIDE DEF F
        <4>3. Append([n \in 1 .. k |-> F[n]], F[k + 1]) = [n \in 1 .. k + 1 |-> F[n]]
          BY <4>2, Grows
        <4>4. QED
          BY <3>1, <4>1, <4>3
      <3>4. \A n \in 1 .. k + 1 : HasOperands(ops[n])
        <4>1. \A n \in 1 .. k : HasOperands(ops[n])
          BY <2>1 DEF Listing
        <4>2. QED
          BY <2>1, <3>1, <4>1
      <3>5. Listing(k + 1)'
        BY <2>3, <3>1, <3>2, <3>3, <3>4 DEF Listing, HasOperands
      <3>6. Matching(k + 1)' /\ Validating' /\ StatusSays(k + 1)'
        BY <2>3, <3>1 DEF Matching, Validating, StatusSays
      <3>7. k + 1 \in Nat
        BY <2>1
      <3>8. QED
        BY <2>2, <3>5, <3>6, <3>7 DEF IInv
    <2>5. CASE MissOperand
      <3>1. Listing(k)' /\ Matching(k)' /\ Validating'
        <4>1. UNCHANGED <<ops, edge, entries, regions, sources, checked>>
          BY <2>5 DEF MissOperand, Raise
        <4>2. Listing(k)' /\ Matching(k)'
          BY <2>1, <4>1, ListingStays
        <4>3. Validating'
          BY <2>1, <4>1 DEF Validating
        <4>4. QED
          BY <4>2, <4>3
      <3>2. StatusSays(k)'
        BY <2>5 DEF MissOperand, Raise, StatusSays
      <3>3. QED
        BY <2>1, <2>2, <3>1, <3>2 DEF IInv
    <2>6. CASE MatchEdge
      <3>1. status = "matching" /\ k = Len(ops) /\ edge # << >> /\ sources = << >> /\ checked = 0
        BY <2>1, <2>6 DEF MatchEdge, StatusSays
      <3>2. CASE Matched = Unmatched
        <4>1. Raise
          BY <2>6, <3>2 DEF MatchEdge
        <4>2. Listing(k)' /\ Matching(k)' /\ Validating'
          BY <2>1, <3>1, <4>1 DEF Raise, Listing, HasOperands, Matching, Validating
        <4>3. StatusSays(k)'
          BY <4>1 DEF Raise, StatusSays
        <4>4. QED
          BY <2>1, <2>2, <4>2, <4>3 DEF IInv
      <3>3. CASE Matched # Unmatched
        <4>1. /\ sources' = Matched /\ status' = "validating"
              /\ UNCHANGED <<ops, edge, entries, regions, checked>>
          BY <2>6, <3>3 DEF MatchEdge
        <4>2. Matched' = Matched
          BY <4>1 DEF Matched, Produced, Consumed, From, To
        <4>3. Listing(k)' /\ Matching(k)' /\ Validating'
          BY <2>1, <3>1, <3>3, <4>1, <4>2 DEF Listing, HasOperands, Matching, Validating
        <4>4. StatusSays(k)'
          BY <2>3, <3>1, <4>1 DEF StatusSays
        <4>5. QED
          BY <2>1, <2>2, <4>3, <4>4 DEF IInv
      <3>4. QED
        BY <3>2, <3>3
    <2>7. CASE ValidateOp
      <3>1. k = Len(ops) /\ checked < Len(ops) /\ checked \in 0 .. Len(ops)
        BY <2>1, <2>7 DEF ValidateOp, StatusSays, Validating
      <3>2. CASE entries[checked + 1] = << >> \/ Valid(ops[checked + 1])
        <4>1. /\ checked' = checked + 1
              /\ status' = IF checked + 1 = Len(ops) THEN "accepted" ELSE "validating"
              /\ UNCHANGED <<ops, edge, entries, regions, sources>>
          BY <2>7, <3>2 DEF ValidateOp
        <4>2. Listing(k)' /\ Matching(k)'
          BY <2>1, <4>1, ListingStays
        <4>3. Validating'
          <5>1. \A n \in 1 .. checked : entries[n] = << >> \/ Valid(ops[n])
            BY <2>1 DEF Validating
          <5>2. \A n \in 1 .. checked + 1 : entries[n] = << >> \/ Valid(ops[n])
            BY <3>1, <3>2, <5>1
          <5>3. checked + 1 \in 0 .. Len(ops)
            BY <2>3, <3>1
          <5>4. QED
            BY <4>1, <5>2, <5>3 DEF Validating
        <4>4. StatusSays(k)'
          <5> DEFINE N == Len(ops)
          <5>0. N \in 1 .. 2 /\ checked \in 0 .. N /\ checked < N
            BY <2>3, <3>1
          <5> HIDE DEF N
          <5>1. checked + 1 # N => checked + 1 < N
            BY <5>0
          <5>2. QED
            BY <3>1, <4>1, <5>1 DEF StatusSays, N
        <4>5. QED
          BY <2>1, <2>2, <4>2, <4>3, <4>4 DEF IInv
      <3>3. CASE ~(entries[checked + 1] = << >> \/ Valid(ops[checked + 1]))
        <4>1. Raise
          BY <2>7, <3>3 DEF ValidateOp
        <4>2. Listing(k)' /\ Matching(k)' /\ Validating'
          <5>1. UNCHANGED <<ops, edge, entries, regions, sources, checked>>
            BY <4>1 DEF Raise
          <5>2. Listing(k)' /\ Matching(k)'
            BY <2>1, <5>1, ListingStays
          <5>3. Validating'
            BY <2>1, <5>1 DEF Validating
          <5>4. QED
            BY <5>2, <5>3
        <4>3. StatusSays(k)'
          BY <4>1 DEF Raise, StatusSays
        <4>4. QED
          BY <2>1, <2>2, <4>2, <4>3 DEF IInv
      <3>4. QED
        BY <3>2, <3>3
    <2>8. CASE UNCHANGED vars
      <3>1. Listing(k)' /\ Matching(k)'
        BY <2>1, <2>8, ListingStays DEF vars
      <3>2. Validating' /\ StatusSays(k)'
        BY <2>1, <2>8 DEF vars, Validating, StatusSays
      <3>3. QED
        BY <2>1, <2>2, <3>1, <3>2 DEF IInv
    <2>9. QED
      BY <1>2, <2>4, <2>5, <2>6, <2>7, <2>8 DEF Next
  <1>3. QED
    BY <1>1, <1>2, PTL DEF Spec

---------------------------------------------------------------------------
(* The counts of instructions.                                             *)

\* A list made by a rule has as many elements as the rule says.
LEMMA LenIs ==
  ASSUME NEW n \in Nat, NEW f, f = [i \in 1 .. n |-> f[i]]
  PROVE  Len(f) = n /\ DOMAIN f = 1 .. n
  <1> DEFINE S == {f[i] : i \in 1 .. n}
  <1>1. \A i \in 1 .. n : f[i] \in S
    OBVIOUS
  <1> HIDE DEF S
  <1>2. f \in [1 .. n -> S]
    BY <1>1
  <1>3. QED
    BY <1>2, ListIs

\* The number of elements of a shape of two, three and four dimensions.
LEMMA Numel2 ==
  ASSUME NEW a \in Nat, NEW b \in Nat
  PROVE  Numel(<<a, b>>) = a * b
  <1> DEFINE s == <<a, b>>
  <1>1. s \in Seq(Nat) /\ Len(s) = 2 /\ s[1] = a /\ s[2] = b
    OBVIOUS
  <1> HIDE DEF s
  <1>2. PICK h \in [0 .. 2 -> Nat] :
          /\ h[0] = 1 /\ \A n \in 1 .. 2 : h[n] = h[n - 1] * s[n]
          /\ Numel(s) = h[2]
    BY <1>1, NumelUnfolds
  <1>3. h[1] = h[0] * s[1] /\ h[2] = h[1] * s[2]
    <2>1. 1 \in 1 .. 2 /\ 2 \in 1 .. 2 /\ 1 - 1 = 0 /\ 2 - 1 = 1
      OBVIOUS
    <2>2. QED
      BY <1>2, <2>1
  <1>4. QED
    BY <1>1, <1>2, <1>3 DEF s

LEMMA Numel3 ==
  ASSUME NEW a \in Nat, NEW b \in Nat, NEW c \in Nat
  PROVE  Numel(<<a, b, c>>) = a * b * c
  <1> DEFINE s == <<a, b, c>>
  <1>1. s \in Seq(Nat) /\ Len(s) = 3 /\ s[1] = a /\ s[2] = b /\ s[3] = c
    OBVIOUS
  <1> HIDE DEF s
  <1>2. PICK h \in [0 .. 3 -> Nat] :
          /\ h[0] = 1 /\ \A n \in 1 .. 3 : h[n] = h[n - 1] * s[n]
          /\ Numel(s) = h[3]
    BY <1>1, NumelUnfolds
  <1>3. h[1] = h[0] * s[1] /\ h[2] = h[1] * s[2] /\ h[3] = h[2] * s[3]
    <2>1. /\ 1 \in 1 .. 3 /\ 2 \in 1 .. 3 /\ 3 \in 1 .. 3
          /\ 1 - 1 = 0 /\ 2 - 1 = 1 /\ 3 - 1 = 2
      OBVIOUS
    <2>2. QED
      BY <1>2, <2>1
  <1>4. h[1] = a
    BY <1>1, <1>2, <1>3
  <1>5. QED
    BY <1>1, <1>2, <1>3, <1>4 DEF s

LEMMA Numel4 ==
  ASSUME NEW s \in Seq(Nat), Len(s) = 4
  PROVE  Numel(s) = s[1] * s[2] * s[3] * s[4]
  <1>1. PICK h \in [0 .. 4 -> Nat] :
          /\ h[0] = 1 /\ \A n \in 1 .. 4 : h[n] = h[n - 1] * s[n]
          /\ Numel(s) = h[4]
    BY NumelUnfolds
  <1>2. h[1] = h[0] * s[1] /\ h[2] = h[1] * s[2] /\ h[3] = h[2] * s[3] /\ h[4] = h[3] * s[4]
    <2>1. /\ 1 \in 1 .. 4 /\ 2 \in 1 .. 4 /\ 3 \in 1 .. 4 /\ 4 \in 1 .. 4
          /\ 1 - 1 = 0 /\ 2 - 1 = 1 /\ 3 - 1 = 2 /\ 4 - 1 = 3
      OBVIOUS
    <2>2. QED
      BY <1>1, <2>1
  <1>3. h[1] = s[1]
    <2>1. s[1] \in Nat
      OBVIOUS
    <2>2. QED
      BY <1>1, <1>2, <2>1
  <1>4. QED
    BY <1>1, <1>2, <1>3

\* A loop nest is run as often as the product of its bounds says.
LEMMA CountersIs ==
  ASSUME NEW bounds \in Seq(Nat)
  PROVE  DOMAIN Counters(bounds) = 1 .. Numel(bounds) /\ Numel(bounds) \in Nat
  BY NumelNat DEF Counters

\* Rows of one length, one behind the other; and each element twice.
LEMMA FlattenRows ==
  ASSUME NEW S, NEW seqs \in Seq(Seq(S)), NEW k \in Nat,
         \A i \in DOMAIN seqs : Len(seqs[i]) = k
  PROVE  FlattenSeq(seqs) \in Seq(S) /\ Len(FlattenSeq(seqs)) = Len(seqs) * k
  <1>1. PICK h \in [0 .. Len(seqs) -> Seq(S)] :
          /\ h[0] = << >>
          /\ \A n \in 1 .. Len(seqs) : h[n] = h[n - 1] \o seqs[n]
          /\ FlattenSeq(seqs) = h[Len(seqs)]
    BY FlattenUnfolds
  <1> DEFINE N == Len(seqs)
             T == {n \in 0 .. N : Len(h[n]) = n * k}
  <1>2. N \in Nat /\ \A n \in 1 .. N : seqs[n] \in Seq(S) /\ Len(seqs[n]) = k
    OBVIOUS
  <1>3. 0 \in T
    BY <1>1, <1>2
  <1>4. ASSUME NEW n \in Nat, n < N, n \in T
        PROVE  n + 1 \in T
    <2>1. n + 1 \in 1 .. N /\ n \in 0 .. N /\ (n + 1) - 1 = n /\ n + 1 \in 0 .. N
      BY <1>2, <1>4
    <2>2. h[n + 1] = h[n] \o seqs[n + 1]
      BY <1>1, <2>1
    <2>3. h[n] \in Seq(S) /\ seqs[n + 1] \in Seq(S)
      BY <1>1, <1>2, <2>1
    <2>4. Len(h[n + 1]) = Len(h[n]) + k
      <3>1. Len(h[n] \o seqs[n + 1]) = Len(h[n]) + Len(seqs[n + 1])
        BY <2>3
      <3>2. Len(seqs[n + 1]) = k
        BY <1>2, <2>1
      <3>3. QED
        BY <2>2, <3>1, <3>2
    <2>5. (n + 1) * k = n * k + k
      OBVIOUS
    <2>6. QED
      BY <1>4, <2>1, <2>4, <2>5
  <1> HIDE DEF T
  <1>5. \A n \in 0 .. N : n \in T
    BY <1>2, <1>3, <1>4, UpTo
  <1>6. N \in T /\ N \in 0 .. N
    BY <1>2, <1>5
  <1>7. QED
    BY <1>1, <1>6 DEF T

LEMMA TwiceIs ==
  ASSUME NEW S, NEW s \in Seq(S)
  PROVE  Len(Twice(s)) = Len(s) * 2
  <1> DEFINE pairs == [i \in DOMAIN s |-> <<s[i], s[i]>>]
  <1>1. \A i \in DOMAIN s : <<s[i], s[i]>> \in Seq(S) /\ Len(<<s[i], s[i]>>) = 2
    OBVIOUS
  <1>2. pairs \in [1 .. Len(s) -> Seq(S)] /\ Len(s) \in Nat
    BY <1>1
  <1>3. pairs \in Seq(Seq(S)) /\ Len(pairs) = Len(s)
    BY <1>2, ListIs
  <1>4. \A i \in DOMAIN pairs : Len(pairs[i]) = 2
    BY <1>1
  <1> HIDE DEF pairs
  <1>5. Len(FlattenSeq(pairs)) = Len(s) * 2
    BY <1>3, <1>4, FlattenRows
  <1>6. QED
    BY <1>5 DEF Twice, pairs

\* The same for a list made by a rule.
LEMMA TwiceOf ==
  ASSUME NEW n \in Nat, NEW f, f = [i \in 1 .. n |-> f[i]]
  PROVE  Len(Twice(f)) = n * 2
  <1> DEFINE S == {f[i] : i \in 1 .. n}
  <1>1. \A i \in 1 .. n : f[i] \in S
    OBVIOUS
  <1> HIDE DEF S
  <1>2. f \in [1 .. n -> S]
    BY <1>1
  <1>3. f \in Seq(S) /\ Len(f) = n
    BY <1>2, ListIs
  <1>4. QED
    BY <1>3, TwiceIs

\* A tensor's dimensions from the back: where its range starts and ends.
LEMMA TensorIs ==
  ASSUME NEW t \in Tensors, NEW k \in 1 .. 4
  PROVE  /\ Start(t, k) \in Nat /\ Stop(t, k) \in Nat /\ Extent(t, k) \in Nat
         /\ Extent(t, k) > 0 /\ Stop(t, k) = Start(t, k) + Extent(t, k)
         /\ Of(t, k) = t.range[5 - k] /\ Of(t, k)[1] = Start(t, k) /\ Of(t, k)[2] = Stop(t, k)
  <1> DEFINE r == t.range
             d == 5 - k
  <1>1. d \in 1 .. 4 /\ NUM_DIMS + 1 - k = d
    BY DEF NUM_DIMS
  <1>2. r \in [1 .. 4 -> {x \in Interval : x[1] < x[2]}]
    BY DEF Tensors, NUM_DIMS
  <1>3. Of(t, k) = r[d]
    BY <1>1 DEF Of
  <1> HIDE DEF r
  <1>4. r[d] \in Interval /\ r[d][1] < r[d][2]
    BY <1>1, <1>2
  <1>5. Start(t, k) = r[d][1] /\ Stop(t, k) = r[d][2] /\ Extent(t, k) = r[d][2] - r[d][1]
    BY <1>3 DEF Start, Stop, Extent, Size
  <1>6. r[d][1] \in Nat /\ r[d][2] \in Nat
    BY <1>4 DEF Interval
  <1> DEFINE x == r[d][1]
             y == r[d][2]
  <1> HIDE DEF x, y
  <1>7. x \in Nat /\ y \in Nat /\ x < y
    BY <1>4, <1>6 DEF x, y
  <1>8. Start(t, k) = x /\ Stop(t, k) = y /\ Extent(t, k) = y - x /\ Of(t, k)[1] = x /\ Of(t, k)[2] = y
    BY <1>3, <1>5 DEF x, y
  <1>9. y - x \in Nat /\ y - x > 0 /\ y = x + (y - x)
    BY <1>7
  <1>10. Of(t, k) = t.range[5 - k]
    BY <1>3 DEF r
  <1> HIDE DEF d
  <1>11. QED
    BY <1>7, <1>8, <1>9, <1>10

\* What torch sees of a tensor ends with its last extents.
LEMMA SeenIs ==
  ASSUME NEW t \in Tensors, Len(t.shape) \in 1 .. 4
  PROVE  Last(Seen(t)) = Extent(t, 1)
  <1> DEFINE e == Effective(t)
             n == Len(t.shape)
             s == SubSeq(e, 4 - n + 1, 4)
  <1>1. t.range \in [1 .. 4 -> {x \in Interval : x[1] < x[2]}] /\ n \in 1 .. 4
    BY DEF Tensors, NUM_DIMS
  <1>2. e = [d \in 1 .. 4 |-> Size(t.range[d])]
    BY <1>1 DEF Effective, EffectiveShape
  <1>3. \A d \in 1 .. 4 : e[d] \in Nat
    <2>1. \A d \in 1 .. 4 : t.range[d] \in Interval
      BY <1>1
    <2>2. \A d \in 1 .. 4 : Size(t.range[d]) \in Nat
      BY <2>1, IntervalIs
    <2>3. QED
      BY <1>2, <2>2
  <1>4. e \in [1 .. 4 -> Nat]
    <2>1. e = [d \in 1 .. 4 |-> e[d]]
      <3> HIDE DEF e
      <3>1. QED
        BY <1>2
    <2> HIDE DEF e
    <2>2. QED
      BY <1>3, <2>1
  <1> HIDE DEF e
  <1>5. e \in Seq(Nat) /\ Len(e) = 4
    BY <1>4, ListIs
  <1>6. Seen(t) = s
    <2> HIDE DEF n
    <2>1. Seen(t) = SubSeq(Effective(t), 4 - Len(t.shape) + 1, 4)
      BY ZenonT(40) DEF Seen, NUM_DIMS
    <2>2. QED
      BY <2>1 DEF e, n
  <1>7. Extent(t, 1) = e[4]
    BY <1>2 DEF Extent, Of, NUM_DIMS
  <1> HIDE DEF n
  <1>8. Len(s) = n /\ s[n] = e[4]
    BY <1>1, <1>5
  <1>9. Last(s) = e[4]
    BY <1>8 DEF Last
  <1> HIDE DEF s
  <1>10. QED
    BY <1>6, <1>7, <1>9

\* Whole blocks: of a number, and of a range that is as long as some of them.
LEMMA DivNat ==
  ASSUME NEW a \in Nat, NEW b \in Nat, b > 0
  PROVE  a \div b \in Nat /\ CeilDiv(a, b) \in Nat
  <1>1. a + b - 1 \in Nat
    OBVIOUS
  <1>2. a \div b \in Nat /\ (a + b - 1) \div b \in Nat
    BY <1>1, Quotient
  <1>3. QED
    BY <1>2 DEF CeilDiv

\* Division has one quotient.
LEMMA QuotientsNot ==
  ASSUME NEW u \in Nat, u > 0, NEW a \in Nat, NEW b \in Nat, NEW r \in Nat, NEW s \in Nat,
         r < u, s < u, u * a + r = u * b + s
  PROVE  ~(a < b)
  <1> SUFFICES ASSUME a < b PROVE FALSE
    OBVIOUS
  <1>1. b - a - 1 \in Nat /\ u * (b - a) = u * b - u * a /\ u * (b - a - 1) = u * (b - a) - u * 1
    BY Distribute
  <1>2. u * (b - a - 1) \in Nat
    BY <1>1, Times
  <1> DEFINE ua == u * a
             ub == u * b
             uc == u * (b - a - 1)
  <1>3. ua \in Nat /\ ub \in Nat /\ uc \in Nat /\ uc = ub - ua - u /\ ua + r = ub + s
    BY <1>1, <1>2, Times
  <1> HIDE DEF ua, ub, uc
  <1>4. QED
    BY <1>3

LEMMA SameQuotient ==
  ASSUME NEW u \in Nat, u > 0, NEW a \in Nat, NEW b \in Nat, NEW r \in Nat, NEW s \in Nat,
         r < u, s < u, u * a + r = u * b + s
  PROVE  a = b
  <1>1. ~(a < b)
    BY QuotientsNot
  <1>2. ~(b < a)
    BY QuotientsNot
  <1>3. QED
    BY <1>1, <1>2

LEMMA BlocksOf ==
  ASSUME NEW start \in Nat, NEW extent \in Nat, NEW block \in Nat, block > 0,
         extent % block = 0
  PROVE  /\ ((start + extent) \div block) - (start \div block) = extent \div block
         /\ extent \div block \in Nat
         /\ CeilDiv(extent, block) = extent \div block
  <1> DEFINE s == start \div block
             t == start % block
             e == extent \div block
             w == (start + extent) \div block
             v == (start + extent) % block
             c == (extent + block - 1) \div block
             r == (extent + block - 1) % block
  <1>1. /\ s \in Nat /\ e \in Nat /\ t \in Nat /\ t < block
        /\ start = block * s + t /\ extent = block * e
    <2>1. s \in Nat /\ t \in Nat /\ t < block /\ start = block * s + t
      BY Quotient
    <2>2. e \in Nat /\ extent = block * e + (extent % block)
      BY Quotient
    <2> HIDE DEF s, e, t
    <2>3. block * s \in Nat /\ block * e \in Nat
      BY <2>1, <2>2, Times
    <2>4. QED
      BY <2>1, <2>2, <2>3
  <1>2. w \in Nat /\ v \in Nat /\ v < block /\ start + extent = block * w + v
    BY Quotient
  <1>3. c \in Nat /\ r \in Nat /\ r < block /\ extent + block - 1 = block * c + r
    <2>1. extent + block - 1 \in Nat
      OBVIOUS
    <2>2. QED
      BY <2>1, Quotient
  <1> HIDE DEF s, t, e, w, v, c, r
  <1>4. w = s + e
    <2>1. s + e \in Nat /\ block * (s + e) = block * s + block * e
      BY <1>1, Distribute
    <2>2. block * (s + e) + t = block * w + v
      BY <1>1, <1>2, <2>1
    <2>3. s + e = w
      BY <1>1, <1>2, <2>1, <2>2, SameQuotient
    <2>4. QED
      BY <2>3
  <1>5. c = e
    <2>1. block * c + r = block * e + (block - 1) /\ block - 1 \in Nat /\ block - 1 < block
      BY <1>1, <1>3
    <2>2. QED
      BY <1>1, <1>3, <2>1, SameQuotient
  <1>6. QED
    BY <1>1, <1>4, <1>5 DEF s, e, w, c, CeilDiv

\* Tiles: the general types of itypes/.
LEMMA TilesCounted ==
  ASSUME NEW op, op.dst \in Seq(Tensors), Len(op.dst) = 1,
         NEW cols \in Nat, cols > 0, NEW per \in Nat, per > 0
  PROVE  TileNum(op, cols, per) = Len(TileBlocks(op, cols, per))
  <1> DEFINE to     == op.dst[1]
             grid   == TileGrid(op, cols)
             bounds == [grid EXCEPT ![4] = CeilDiv(@, per)]
             at     == Counters(bounds)
             blocks == TileBlocks(op, cols, per)
             a == Extent(to, 4)
             b == Extent(to, 3)
             c == Extent(to, 2) \div TILE_ROWS
             d == Extent(to, 1) \div cols
             e == CeilDiv(d, per)
  <1>1. /\ Extent(to, 4) \in Nat /\ Extent(to, 3) \in Nat
        /\ Extent(to, 2) \in Nat /\ Extent(to, 1) \in Nat
    BY TensorIs
  <1>2. grid = <<a, b, c, d>>
    <2>1. /\ Size(to.range[1]) = Extent(to, 4) /\ Size(to.range[2]) = Extent(to, 3)
          /\ Size(to.range[3]) = Extent(to, 2) /\ Size(to.range[4]) = Extent(to, 1)
      BY DEF Extent, Of, NUM_DIMS
    <2> HIDE DEF to
    <2>2. grid = <<Size(to.range[1]), Size(to.range[2]), Size(to.range[3]) \div TILE_ROWS,
                   Size(to.range[4]) \div cols>>
      BY DEF TileGrid, to
    <2>3. QED
      BY <2>1, <2>2
  <1>3. a \in Nat /\ b \in Nat /\ c \in Nat /\ d \in Nat /\ e \in Nat
    <2>1. c \in Nat
      <3> HIDE DEF to
      <3>1. TILE_ROWS \in Nat /\ TILE_ROWS > 0
        BY DEF TILE_ROWS
      <3>2. QED
        BY <1>1, <3>1, DivNat
    <2>2. d \in Nat
      BY <1>1, DivNat
    <2> HIDE DEF d
    <2>3. e \in Nat
      BY <2>2, DivNat
    <2>4. QED
      BY <1>1, <2>1, <2>2, <2>3 DEF d
  <1>4. TileNum(op, cols, per) = a * b * c * e
    <2>1. TileNum(op, cols, per) = grid[1] * grid[2] * grid[3] * CeilDiv(grid[4], per)
      BY DEF TileNum
    <2> HIDE DEF grid, a, b, c, d
    <2>2. QED
      BY <1>2, <2>1
  <1>5. bounds = <<a, b, c, e>>
    <2> HIDE DEF grid, a, b, c, d
    <2>1. QED
      BY <1>2
  <1>6. blocks = [i \in DOMAIN at |-> blocks[i]]
    BY DEF TileBlocks
  <1> HIDE DEF a, b, c, d, e, bounds, blocks, at
  <1>7. bounds \in Seq(Nat) /\ Len(bounds) = 4 /\ bounds[1] = a /\ bounds[2] = b
        /\ bounds[3] = c /\ bounds[4] = e
    BY <1>3, <1>5
  <1>8. Numel(bounds) = a * b * c * e /\ Numel(bounds) \in Nat
    BY <1>7, Numel4, NumelNat
  <1>9. DOMAIN at = 1 .. Numel(bounds)
    BY <1>7, CountersIs DEF at
  <1>10. Len(blocks) = Numel(bounds)
    BY <1>6, <1>8, <1>9, LenIs
  <1>11. QED
    BY <1>4, <1>8, <1>10 DEF blocks

LEMMA ColsPositive ==
  ASSUME NEW bytes \in 1 .. 8
  PROVE  TileCols(bytes) \in Nat /\ TileCols(bytes) > 0
  <1>1. bytes \in {1, 2, 3, 4, 5, 6, 7, 8}
    OBVIOUS
  <1>2. QED
    BY <1>1 DEF TileCols, PAGE_BYTES, TILE_ROWS

LEMMA CopyCounted ==
  ASSUME NEW op, op.type = "copy", IsOp(op), Valid(op)
  PROVE  Num(op) = Len(Blocks(op))
  <1>1. Num(op) = CopyNum(op) /\ Blocks(op) = CopyBlocks(op) /\ Specs(op) = CopySpecs(op)
    BY DEF Num, Blocks, Specs
  <1>2. op.dst \in Seq(Tensors) /\ Len(op.dst) = 1
    BY <1>1 DEF IsOp, Valid, SpecsMet, CopySpecs
  <1> DEFINE B == {op.args.from, op.args.to}
  <1>3. op.args.from \in 1 .. 8 /\ op.args.to \in 1 .. 8
    BY DEF IsOp
  <1>4. IsFiniteSet(B)
    <2>1. IsFiniteSet({op.args.from})
      BY FS_Singleton
    <2>2. IsFiniteSet({op.args.from} \cup {op.args.to})
      BY <2>1, FS_AddElement
    <2>3. B = {op.args.from} \cup {op.args.to}
      OBVIOUS
    <2>4. QED
      BY <2>2, <2>3
  <1>5. Max(B) \in B
    BY <1>3, <1>4, MaxIs
  <1>6. CopyCols(op) \in Nat /\ CopyCols(op) > 0
    BY <1>3, <1>5, ColsPositive DEF CopyCols
  <1>7. QED
    BY <1>1, <1>2, <1>6, TilesCounted DEF CopyNum, CopyBlocks, MAX_TILES

LEMMA UnaryCounted ==
  ASSUME NEW op, op.type = "elementwise_unary", IsOp(op), Valid(op)
  PROVE  Num(op) = Len(Blocks(op))
  <1>1. Num(op) = UnaryNum(op) /\ Blocks(op) = UnaryBlocks(op) /\ Specs(op) = UnarySpecs(op)
    BY DEF Num, Blocks, Specs
  <1>2. op.dst \in Seq(Tensors) /\ Len(op.dst) = 1
    BY <1>1 DEF IsOp, Valid, SpecsMet, UnarySpecs
  <1>3. UnaryCols(op) \in Nat /\ UnaryCols(op) > 0
    BY ColsPositive DEF UnaryCols, IsOp
  <1>4. QED
    BY <1>1, <1>2, <1>3, TilesCounted DEF UnaryNum, UnaryBlocks, MAX_TILES

LEMMA BinaryCounted ==
  ASSUME NEW op, op.type = "elementwise_binary", IsOp(op), Valid(op)
  PROVE  Num(op) = Len(Blocks(op))
  <1>1. Num(op) = BinaryNum(op) /\ Blocks(op) = BinaryBlocks(op) /\ Specs(op) = BinarySpecs(op)
    BY DEF Num, Blocks, Specs
  <1>2. op.dst \in Seq(Tensors) /\ Len(op.dst) = 1
    BY <1>1 DEF IsOp, Valid, SpecsMet, BinarySpecs
  <1>3. BinaryCols(op) \in Nat /\ BinaryCols(op) > 0
    BY ColsPositive DEF BinaryCols, IsOp
  <1>4. BinaryTiles \in Nat /\ BinaryTiles > 0
    <2>1. PAGES \div 2 = 3 /\ {PAGES \div 2, MAX_TILES} \in SUBSET Nat
      BY DEF PAGES, MAX_TILES
    <2>2. BinaryTiles \in {3, 2}
      BY <2>1, MinIs DEF BinaryTiles, MAX_TILES
    <2>3. QED
      BY <2>2
  <1>5. QED
    BY <1>1, <1>2, <1>3, <1>4, TilesCounted DEF BinaryNum, BinaryBlocks

LEMMA RmsnormCounted ==
  ASSUME NEW op, op.type = "rmsnorm", IsOp(op), Valid(op)
  PROVE  Num(op) = Len(Blocks(op))
  <1> DEFINE x      == op.src[1]
             rows   == RowsPerInst(op)
             a      == Extent(x, 4)
             b      == Extent(x, 3)
             c      == CeilDiv(Extent(x, 2), rows)
             at     == Counters(<<a, b, c>>)
             blocks == RmsnormBlocks(op)
  <1>1. Num(op) = RmsnormNum(op) /\ Blocks(op) = blocks /\ Specs(op) = RmsnormSpecs(op)
        /\ Checks(op) = RmsnormOk(op)
    BY DEF Num, Blocks, Specs, Checks
  <1>2. x \in Tensors
    BY <1>1 DEF IsOp, Valid, SpecsMet, RmsnormSpecs
  <1>3. Extent(x, 4) \in Nat /\ Extent(x, 3) \in Nat /\ Extent(x, 2) \in Nat
        /\ Extent(x, 1) \in Nat /\ Extent(x, 1) > 0
    BY <1>2, TensorIs
  <1>4. rows \in Nat /\ rows > 0
    <2> DEFINE w == Extent(x, 1)
               n == CeilDiv(w * 2, 128)
    <2>1. RowBytes(Dim(x, 1)) <= PAGE_BYTES /\ Covers(x, 1)
      BY <1>1 DEF Valid, RmsnormOk
    <2>2. w = Dim(x, 1)
      <3>1. Start(x, 1) = 0 /\ Stop(x, 1) = Dim(x, 1) /\ Stop(x, 1) = Start(x, 1) + w
        BY <1>2, <2>1, TensorIs DEF Covers, Start, Stop
      <3>2. QED
        BY <1>3, <3>1
    <2>3. RowBytes(w) <= 32768
      BY <2>1, <2>2 DEF PAGE_BYTES
    <2> HIDE DEF w
    <2>4. w \in Nat /\ w > 0
      BY <1>3 DEF w
    <2>5. n \in Nat /\ n > 0 /\ RowBytes(w) = n * 128
      <3>1. w * 2 + 128 - 1 \in Nat /\ w * 2 + 128 - 1 >= 128
        BY <2>4
      <3>2. (w * 2 + 128 - 1) \div 128 \in Nat /\ (w * 2 + 128 - 1) \div 128 > 0
        BY <3>1
      <3>3. QED
        BY <3>2 DEF CeilDiv, RowBytes
    <2>6. rows = PAGE_BYTES \div RowBytes(w)
      BY DEF RowsPerInst, w
    <2> HIDE DEF n, rows
    <2>7. n \in 1 .. 256 /\ rows = 32768 \div (n * 128)
      BY <2>3, <2>5, <2>6 DEF PAGE_BYTES
    <2> DEFINE m == n * 128
               r == 32768 % m
    <2>8. m \in Nat /\ m > 0 /\ m <= 32768
      BY <2>7
    <2>9. rows \in Nat /\ r \in Nat /\ r < m /\ 32768 = m * rows + r
      BY <2>7, <2>8, Quotient
    <2> HIDE DEF m, r
    <2>10. rows # 0
      BY <2>8, <2>9
    <2>11. QED
      BY <2>9, <2>10
  <1>5. a \in Nat /\ b \in Nat /\ c \in Nat
    BY <1>3, <1>4, DivNat
  <1>6. RmsnormNum(op) = a * b * c
    BY DEF RmsnormNum
  <1>7. blocks = [i \in DOMAIN at |-> blocks[i]]
    BY DEF RmsnormBlocks
  <1> HIDE DEF a, b, c, blocks
  <1>8. Numel(<<a, b, c>>) = a * b * c /\ <<a, b, c>> \in Seq(Nat)
    BY <1>5, Numel3
  <1>9. DOMAIN at = 1 .. a * b * c /\ a * b * c \in Nat
    BY <1>8, CountersIs
  <1> HIDE DEF at
  <1>10. Len(blocks) = a * b * c
    BY <1>7, <1>9, LenIs
  <1>11. QED
    BY <1>1, <1>6, <1>10

LEMMA ReduceCounted ==
  ASSUME NEW op, op.type = "reduce", IsOp(op), Valid(op)
  PROVE  Num(op) = Len(Blocks(op))
  <1> DEFINE x      == op.src[1]
             a      == Extent(x, 4)
             b      == Extent(x, 3)
             c      == CeilDiv(Extent(x, 2), TILE_ROWS)
             at     == Counters(<<a, b, c>>)
             blocks == ReduceBlocks(op)
  <1>1. Num(op) = ReduceNum(op) /\ Blocks(op) = blocks /\ Specs(op) = ReduceSpecs(op)
    BY DEF Num, Blocks, Specs
  <1>2. x \in Tensors
    BY <1>1 DEF IsOp, Valid, SpecsMet, ReduceSpecs
  <1>3. a \in Nat /\ b \in Nat /\ c \in Nat
    <2>1. a \in Nat /\ b \in Nat /\ Extent(x, 2) \in Nat
      BY <1>2, TensorIs
    <2>2. TILE_ROWS \in Nat /\ TILE_ROWS > 0
      BY DEF TILE_ROWS
    <2> HIDE DEF x
    <2>3. QED
      BY <2>1, <2>2, DivNat
  <1>4. ReduceNum(op) = a * b * c
    BY DEF ReduceNum
  <1>5. blocks = [i \in DOMAIN at |-> blocks[i]]
    BY DEF ReduceBlocks
  <1> HIDE DEF a, b, c, blocks
  <1>6. Numel(<<a, b, c>>) = a * b * c /\ <<a, b, c>> \in Seq(Nat)
    BY <1>3, Numel3
  <1>7. DOMAIN at = 1 .. a * b * c /\ a * b * c \in Nat
    BY <1>6, CountersIs
  <1> HIDE DEF at
  <1>8. Len(blocks) = a * b * c
    BY <1>5, <1>7, LenIs
  <1>9. QED
    BY <1>1, <1>4, <1>8

\* Matrices, whose instructions are issued to a pair of CTAs.
LEMMA GemmCounted ==
  ASSUME NEW op, op.type = "gemm", IsOp(op), Valid(op)
  PROVE  Num(op) = Len(Blocks(op))
  <1> DEFINE d      == op.dst[1]
             p      == Extent(d, 4)
             q      == Extent(d, 3)
             m      == Extent(d, 2) \div TILE_M
             n      == Extent(d, 1) \div TILE_N
             batch  == Counters(<<p, q>>)
             tiles  == SwizzledTiles(m, n)
             a      == op.src[1]
             b      == op.src[2]
             Lead(tensor, at) == <<Start(tensor, 4) + at[1], Start(tensor, 3) + at[2]>>
             Index(at, tile) ==
               Lead(a, at) \o <<(Start(a, IF op.args.ta THEN 1 ELSE 2) \div TILE_M) + tile[1]>>
               \o Lead(b, at) \o <<(Start(b, IF op.args.tb THEN 2 ELSE 1) \div TILE_N) + tile[2]>>
               \o Lead(d, at) \o <<(Start(d, 2) \div TILE_M) + tile[1],
                                   (Start(d, 1) \div TILE_N) + tile[2]>>
             Row(i) == [j \in DOMAIN tiles |-> Index(batch[i], tiles[j])]
             rows   == [i \in DOMAIN batch |-> Row(i)]
             All    == {Index(batch[i], tiles[j]) : i \in DOMAIN batch, j \in DOMAIN tiles}
  <1>1. Num(op) = GemmNum(op) /\ Blocks(op) = GemmBlocks(op) /\ Specs(op) = GemmSpecs(op)
    BY DEF Num, Blocks, Specs
  <1>2. d \in Tensors
    BY <1>1 DEF IsOp, Valid, SpecsMet, GemmSpecs
  <1>3. p \in Nat /\ q \in Nat /\ m \in Nat /\ n \in Nat
    <2>1. p \in Nat /\ q \in Nat /\ Extent(d, 2) \in Nat /\ Extent(d, 1) \in Nat
      BY <1>2, TensorIs
    <2>2. TILE_M \in Nat /\ TILE_M > 0 /\ TILE_N \in Nat /\ TILE_N > 0
      BY DEF TILE_M, TILE_N
    <2> HIDE DEF d
    <2>3. QED
      BY <2>1, <2>2, DivNat
  <1>4. GemmNum(op) = p * q * m * n * 2
    BY DEF GemmNum
  <1>5. GemmBlocks(op) = Twice(FlattenSeq(rows))
    BY DEF GemmBlocks
  <1> HIDE DEF p, q, m, n
  <1>6. DOMAIN tiles = 1 .. m * n /\ m * n \in Nat
    <2>1. m * n \in Nat
      BY <1>3, Times
    <2>2. QED
      BY <2>1 DEF SwizzledTiles
  <1>7. DOMAIN batch = 1 .. p * q /\ p * q \in Nat
    <2>1. Numel(<<p, q>>) = p * q /\ <<p, q>> \in Seq(Nat) /\ p * q \in Nat
      BY <1>3, Numel2, Times
    <2>2. QED
      BY <2>1, CountersIs
  <1> HIDE DEF tiles, batch, Index
  <1>8. \A i \in DOMAIN batch, j \in DOMAIN tiles : Index(batch[i], tiles[j]) \in All
    OBVIOUS
  <1> HIDE DEF All
  <1>9. ASSUME NEW i \in DOMAIN batch
        PROVE  Row(i) \in Seq(All) /\ Len(Row(i)) = m * n
    <2>1. Row(i) \in [1 .. m * n -> All]
      BY <1>6, <1>8
    <2> HIDE DEF Row
    <2>2. QED
      BY <1>6, <2>1, ListIs
  <1> HIDE DEF Row
  <1>10. rows \in Seq(Seq(All)) /\ Len(rows) = p * q /\ \A i \in DOMAIN rows : Len(rows[i]) = m * n
    <2>1. rows \in [1 .. p * q -> Seq(All)]
      BY <1>7, <1>9
    <2>2. \A i \in DOMAIN rows : Len(rows[i]) = m * n
      BY <1>9
    <2> HIDE DEF rows
    <2>3. QED
      BY <1>7, <2>1, <2>2, ListIs
  <1> HIDE DEF rows
  <1>11. FlattenSeq(rows) \in Seq(All) /\ Len(FlattenSeq(rows)) = (p * q) * (m * n)
    BY <1>6, <1>10, FlattenRows
  <1>12. Len(Twice(FlattenSeq(rows))) = (p * q) * (m * n) * 2
    BY <1>11, TwiceIs
  <1>13. p * q * m * n = (p * q) * (m * n)
    BY <1>3, <1>7, Associate
  <1>14. QED
    BY <1>1, <1>4, <1>5, <1>12, <1>13

LEMMA AttentionCounted ==
  ASSUME NEW op, op.type = "attention", IsOp(op), Valid(op)
  PROVE  Num(op) = Len(Blocks(op))
  <1> DEFINE x     == op.src[1]
             p     == Extent(x, 4)
             q     == Extent(x, 2)
             m     == Extent(x, 3) \div SEQ_BLOCK
             at    == IF op.args.causal THEN CausalOrder(x) ELSE PlainOrder(x)
             Group(tensor, i) == <<Start(tensor, 4) + at[i][1], Start(tensor, 2) + at[i][2]>>
             Block(tensor, i) ==
               <<Start(tensor, 4) + at[i][1], (Start(tensor, 3) \div SEQ_BLOCK) + at[i][3],
                 Start(tensor, 2) + at[i][2]>>
             list  == [i \in DOMAIN at |->
                         Block(x, i) \o Group(op.src[2], i) \o Group(op.src[3], i)
                           \o Block(op.dst[1], i)]
  <1>1. Num(op) = AttentionNum(op) /\ Blocks(op) = AttentionBlocks(op)
        /\ Specs(op) = AttentionSpecs(op)
    BY DEF Num, Blocks, Specs
  <1>2. x \in Tensors
    BY <1>1 DEF IsOp, Valid, SpecsMet, AttentionSpecs
  <1>3. p \in Nat /\ q \in Nat /\ m \in Nat
    <2>1. p \in Nat /\ q \in Nat /\ Extent(x, 3) \in Nat
      BY <1>2, TensorIs
    <2>2. SEQ_BLOCK \in Nat /\ SEQ_BLOCK > 0
      BY DEF SEQ_BLOCK
    <2> HIDE DEF x
    <2>3. QED
      BY <2>1, <2>2, DivNat
  <1>4. AttentionNum(op) = p * q * m * 2
    BY DEF AttentionNum
  <1>5. AttentionBlocks(op) = Twice(list)
    BY DEF AttentionBlocks
  <1>6. DOMAIN CausalOrder(x) = 1 .. q * p * m
    BY DEF CausalOrder
  <1>7. PlainOrder(x) = Counters(<<p, q, m>>)
    BY DEF PlainOrder
  <1> HIDE DEF p, q, m, x
  <1>8. DOMAIN PlainOrder(x) = 1 .. p * q * m /\ p * q * m \in Nat
    <2>1. Numel(<<p, q, m>>) = p * q * m /\ <<p, q, m>> \in Seq(Nat)
      BY <1>3, Numel3
    <2>2. QED
      BY <1>7, <2>1, CountersIs
  <1>9. q * p = p * q
    BY <1>3, Associate
  <1>10. DOMAIN at = 1 .. p * q * m
    BY <1>6, <1>8, <1>9
  <1> HIDE DEF at
  <1>11. list = [i \in 1 .. p * q * m |-> list[i]]
    BY <1>10
  <1> HIDE DEF list
  <1>12. Len(Twice(list)) = p * q * m * 2
    BY <1>8, <1>11, TwiceOf
  <1>13. QED
    BY <1>1, <1>4, <1>5, <1>12

LEMMA IncrementCounted ==
  ASSUME NEW op, op.type = "pos_id_increment"
  PROVE  Num(op) = Len(Blocks(op))
  <1>1. Num(op) = IncrementNum(op) /\ Blocks(op) = IncrementBlocks(op)
    BY DEF Num, Blocks
  <1>2. QED
    BY <1>1 DEF IncrementNum, IncrementBlocks

\* A dimension that validate found on multiples of a granularity.
LEMMA AlignedIs ==
  ASSUME NEW t \in Tensors, NEW gran \in Seq(Nat), Aligned(t, gran), NEW k \in 1 .. 4,
         k <= Len(gran), gran[Len(gran) + 1 - k] > 0
  PROVE  LET u == gran[Len(gran) + 1 - k] IN
         /\ (Stop(t, k) \div u) - (Start(t, k) \div u) = Extent(t, k) \div u
         /\ Extent(t, k) \div u \in Nat /\ CeilDiv(Extent(t, k), u) = Extent(t, k) \div u
  <1> DEFINE d == Len(gran) + 1 - k
             u == gran[d]
  <1>1. d \in DOMAIN gran /\ Len(gran) + 1 - d = k
    OBVIOUS
  <1>2. u \in Nat
    BY <1>1
  <1>3. Start(t, k) % u = 0 /\ Extent(t, k) % u = 0
    <2> HIDE DEF d
    <2>1. QED
      BY <1>1 DEF Aligned
  <1>4. Start(t, k) \in Nat /\ Extent(t, k) \in Nat /\ Stop(t, k) = Start(t, k) + Extent(t, k)
    BY TensorIs
  <1> HIDE DEF u
  <1>5. u > 0
    BY DEF u
  <1> DEFINE a == Start(t, k)
             e == Extent(t, k)
             b == Stop(t, k)
  <1> HIDE DEF a, e, b
  <1>6. a \in Nat /\ e \in Nat /\ b = a + e /\ a % u = 0 /\ e % u = 0
    BY <1>3, <1>4 DEF a, e, b
  <1>7. /\ (b \div u) - (a \div u) = e \div u
        /\ e \div u \in Nat /\ CeilDiv(e, u) = e \div u
    BY ZenonT(40), <1>2, <1>5, <1>6, BlocksOf
  <1>8. QED
    BY <1>7 DEF u, a, e, b

\* The matrix types of llama70b.
LEMMA MatmulsCounted ==
  ASSUME NEW op, op.dst \in Seq(Tensors), Len(op.dst) = 1, NEW layer,
         NEW nb \in Nat, nb > 0, Aligned(op.dst[1], <<M_INST, nb>>)
  PROVE  MatmulNum(op, nb) = Len(MatmulBlocks(op, layer, nb))
  <1> DEFINE out   == op.dst[1]
             gran  == <<M_INST, nb>>
             a     == Extent(out, 2) \div M_INST
             b     == Extent(out, 1) \div nb
             m0    == Start(out, 2) \div M_INST
             n0    == Start(out, 1) \div nb
             c     == (Stop(out, 2) \div M_INST) - m0
             d     == (Stop(out, 1) \div nb) - n0
             at    == Counters(<<c, d>>)
             list  == [i \in DOMAIN at |-> <<layer, m0 + at[i][1], n0 + at[i][2]>>]
  <1>1. MatmulNum(op, nb) = 2 * a * b
    BY DEF MatmulNum
  <1>2. MatmulBlocks(op, layer, nb) = Twice(list)
    BY DEF MatmulBlocks
  <1>3. gran \in Seq(Nat) /\ Len(gran) = 2 /\ gran[1] = M_INST /\ gran[2] = nb /\ M_INST > 0
    BY DEF M_INST
  <1>4. out \in Tensors /\ Aligned(out, gran)
    OBVIOUS
  <1> HIDE DEF gran, out
  <1>5. c = a /\ a \in Nat
    <2>1. 2 \in 1 .. 4 /\ 2 <= Len(gran) /\ Len(gran) + 1 - 2 = 1
      BY <1>3
    <2>2. QED
      BY <1>3, <1>4, <2>1, AlignedIs
  <1>6. d = b /\ b \in Nat
    <2>1. 1 \in 1 .. 4 /\ 1 <= Len(gran) /\ Len(gran) + 1 - 1 = 2
      BY <1>3
    <2>2. QED
      BY <1>3, <1>4, <2>1, AlignedIs
  <1> HIDE DEF a, b, c, d
  <1>7. DOMAIN at = 1 .. a * b /\ a * b \in Nat
    <2>1. Numel(<<c, d>>) = a * b /\ <<c, d>> \in Seq(Nat) /\ a * b \in Nat
      BY <1>5, <1>6, Numel2, Times
    <2>2. QED
      BY <2>1, CountersIs
  <1> HIDE DEF at
  <1>8. list = [i \in 1 .. a * b |-> list[i]]
    BY <1>7
  <1> HIDE DEF list
  <1>9. Len(Twice(list)) = (a * b) * 2
    BY <1>7, <1>8, TwiceOf
  <1>10. 2 * a * b = (a * b) * 2
    BY <1>5, <1>6, <1>7, Associate
  <1>11. QED
    BY <1>1, <1>2, <1>9, <1>10

LEMMA GateCounted ==
  ASSUME NEW op, op.type = "gate_silu", IsOp(op), Valid(op)
  PROVE  Num(op) = Len(Blocks(op))
  <1>1. Num(op) = GateNum(op) /\ Blocks(op) = GateBlocks(op) /\ Specs(op) = GateSpecs(op)
    BY DEF Num, Blocks, Specs
  <1>2. op.dst \in Seq(Tensors) /\ Len(op.dst) = 1 /\ Aligned(op.dst[1], <<M_INST, GateNb(op)>>)
    <2>1. /\ op.dst \in Seq(Tensors) /\ Len(op.dst) = 1
          /\ Specs(op).dst[1] = <<M_INST, GateNb(op)>>
      BY <1>1 DEF IsOp, Valid, SpecsMet, GateSpecs
    <2>2. Aligned(op.dst[1], Specs(op).dst[1])
      BY <2>1 DEF Valid, SpecsMet
    <2>3. QED
      BY <2>1, <2>2
  <1>3. GateNb(op) \in Nat /\ GateNb(op) > 0
    BY DEF GateNb
  <1>4. QED
    BY <1>1, <1>2, <1>3, MatmulsCounted DEF GateNum, GateBlocks

LEMMA UpCounted ==
  ASSUME NEW op, op.type = "up_matmul", IsOp(op), Valid(op)
  PROVE  Num(op) = Len(Blocks(op))
  <1>1. Num(op) = UpNum(op) /\ Blocks(op) = UpBlocks(op) /\ Specs(op) = UpSpecs(op)
    BY DEF Num, Blocks, Specs
  <1>2. op.dst \in Seq(Tensors) /\ Len(op.dst) = 1 /\ Aligned(op.dst[1], <<M_INST, UpNb(op)>>)
    <2>1. /\ op.dst \in Seq(Tensors) /\ Len(op.dst) = 1
          /\ Specs(op).dst[1] = <<M_INST, UpNb(op)>>
      BY <1>1 DEF IsOp, Valid, SpecsMet, UpSpecs
    <2>2. Aligned(op.dst[1], Specs(op).dst[1])
      BY <2>1 DEF Valid, SpecsMet
    <2>3. QED
      BY <2>1, <2>2
  <1>3. UpNb(op) \in Nat /\ UpNb(op) > 0
    BY DEF UpNb
  <1>4. QED
    BY <1>1, <1>2, <1>3, MatmulsCounted DEF UpNum, UpBlocks

LEMMA LmHeadCounted ==
  ASSUME NEW op, op.type = "lm_head", IsOp(op), Valid(op)
  PROVE  Num(op) = Len(Blocks(op))
  <1>1. Num(op) = LmHeadNum(op) /\ Blocks(op) = LmHeadBlocks(op) /\ Specs(op) = LmHeadSpecs(op)
    BY DEF Num, Blocks, Specs
  <1>2. op.dst \in Seq(Tensors) /\ Len(op.dst) = 1 /\ Aligned(op.dst[1], <<M_INST, LM_NB>>)
    <2>1. /\ op.dst \in Seq(Tensors) /\ Len(op.dst) = 1
          /\ Specs(op).dst[1] = <<M_INST, LM_NB>>
      BY <1>1 DEF IsOp, Valid, SpecsMet, LmHeadSpecs
    <2>2. Aligned(op.dst[1], Specs(op).dst[1])
      BY <2>1 DEF Valid, SpecsMet
    <2>3. QED
      BY <2>1, <2>2
  <1>3. LM_NB \in Nat /\ LM_NB > 0
    BY DEF LM_NB
  <1>4. QED
    BY <1>1, <1>2, <1>3, MatmulsCounted DEF LmHeadNum, LmHeadBlocks

LEMMA OProjCounted ==
  ASSUME NEW op, op.type \in {"o_proj_residual", "o_proj_residual_half_tmem"}
  PROVE  Num(op) = Len(Blocks(op))
  <1>1. CASE op.type = "o_proj_residual"
    BY <1>1 DEF Num, Blocks, OProjNum
  <1>2. CASE op.type = "o_proj_residual_half_tmem"
    BY <1>2 DEF Num, Blocks, HalfTmemNum
  <1>3. QED
    BY <1>1, <1>2

LEMMA QkvCounted ==
  ASSUME NEW op, op.type = "qkv_rope_append", IsOp(op), Valid(op)
  PROVE  Num(op) = Len(Blocks(op))
  <1> DEFINE out   == op.dst[1]
             gran  == <<M_INST, CHUNK_COLS>>
             layer == Start(op.src[2], 3)
             pages == layer * LayerPages(op)
             a     == Extent(out, 2) \div M_INST
             b     == QKV_DIM \div QkvNb(op)
             m0    == Start(out, 2) \div M_INST
             c     == (Stop(out, 2) \div M_INST) - m0
             at    == Counters(<<c, b>>)
             list  == [i \in DOMAIN at |-> <<layer, pages, m0 + at[i][1], at[i][2]>>]
  <1>1. Num(op) = QkvNum(op) /\ Blocks(op) = QkvBlocks(op) /\ Specs(op) = QkvSpecs(op)
    BY DEF Num, Blocks, Specs
  <1>2. out \in Tensors /\ Aligned(out, gran)
    <2>1. op.dst \in Seq(Tensors) /\ Len(op.dst) = 3 /\ Specs(op).dst[1] = gran
      BY <1>1 DEF IsOp, Valid, SpecsMet, QkvSpecs
    <2>2. Aligned(out, Specs(op).dst[1])
      BY <2>1 DEF Valid, SpecsMet
    <2>3. QED
      BY <2>1, <2>2
  <1>3. QkvNum(op) = 2 * a * b /\ QkvBlocks(op) = Twice(list)
    BY DEF QkvNum, QkvBlocks
  <1>4. gran \in Seq(Nat) /\ Len(gran) = 2 /\ gran[1] = M_INST /\ M_INST > 0
    BY DEF M_INST, CHUNK_COLS
  <1> HIDE DEF gran, out
  <1>5. c = a /\ a \in Nat
    <2>1. 2 \in 1 .. 4 /\ 2 <= Len(gran) /\ Len(gran) + 1 - 2 = 1
      BY <1>4
    <2>2. QED
      BY <1>2, <1>4, <2>1, AlignedIs
  <1>6. b \in Nat
    <2>1. QKV_DIM = 10240 /\ QkvNb(op) \in {160, 256}
      BY DEF QKV_DIM, Q_DIM, KV_DIM, QkvNb
    <2>2. QED
      BY <2>1
  <1> HIDE DEF a, b, c
  <1>7. DOMAIN at = 1 .. a * b /\ a * b \in Nat
    <2>1. Numel(<<c, b>>) = a * b /\ <<c, b>> \in Seq(Nat) /\ a * b \in Nat
      BY <1>5, <1>6, Numel2, Times
    <2>2. QED
      BY <2>1, CountersIs
  <1> HIDE DEF at
  <1>8. list = [i \in 1 .. a * b |-> list[i]]
    BY <1>7
  <1> HIDE DEF list
  <1>9. Len(Twice(list)) = (a * b) * 2
    BY <1>7, <1>8, TwiceOf
  <1>10. 2 * a * b = (a * b) * 2
    BY <1>5, <1>6, <1>7, Associate
  <1>11. QED
    BY <1>1, <1>3, <1>9, <1>10

LEMMA DecodeCounted ==
  ASSUME NEW op, op.type = "attention_decode", IsOp(op), Valid(op)
  PROVE  Num(op) = Len(Blocks(op))
  <1> DEFINE n == Extent(op.dst[1], 2)
             blocks == DecodeBlocks(op)
  <1>1. Num(op) = DecodeNum(op) /\ Blocks(op) = blocks /\ Specs(op) = DecodeSpecs(op)
    BY DEF Num, Blocks, Specs
  <1>2. op.dst[1] \in Tensors
    BY <1>1 DEF IsOp, Valid, SpecsMet, DecodeSpecs
  <1>3. n \in Nat
    BY <1>2, TensorIs
  <1>4. blocks = [i \in 1 .. n |-> blocks[i]] /\ DecodeNum(op) = n
    BY DEF DecodeBlocks, DecodeNum
  <1> HIDE DEF blocks, n
  <1>5. QED
    BY <1>1, <1>3, <1>4, LenIs

LEMMA RmsCounted ==
  ASSUME NEW op, op.type = "rms", IsOp(op), Valid(op)
  PROVE  Num(op) = Len(Blocks(op))
  <1> DEFINE x == op.src[1]
             rows == Extent(x, 2)
             n == RmsInsts(rows)
             blocks == RmsBlocks(op)
  <1>1. Num(op) = RmsNum(op) /\ Blocks(op) = blocks /\ Specs(op) = RmsSpecs(op)
    BY DEF Num, Blocks, Specs
  <1>2. x \in Tensors
    BY <1>1 DEF IsOp, Valid, SpecsMet, RmsSpecs
  <1>3. rows \in Nat
    BY <1>2, TensorIs
  <1>4. n \in Nat
    <2> DEFINE most == MAX_ROWS * SM_COUNT
    <2>1. SM_COUNT \in Nat /\ SM_COUNT > 0 /\ MAX_ROWS = 12
      BY ProgramsAssumption DEF MAX_ROWS, PAGES
    <2>2. most \in Nat /\ most > 0
      BY <2>1
    <2> HIDE DEF most, rows
    <2>3. CeilDiv(rows, most) \in Nat
      BY <1>3, <2>2, DivNat
    <2>4. SM_COUNT * CeilDiv(rows, most) \in Nat
      BY <2>1, <2>3, Times
    <2>5. QED
      BY <1>3, <2>4 DEF RmsInsts, most
  <1>5. blocks = [i \in 1 .. n |-> blocks[i]] /\ RmsNum(op) = n
    BY DEF RmsBlocks, RmsNum
  <1> HIDE DEF blocks, n
  <1>6. QED
    BY <1>1, <1>4, <1>5, LenIs

\* The types of llama1b.
LEMMA SharesOf ==
  ASSUME NEW a \in Nat, NEW b \in Nat
  PROVE  Min({a, b}) \in Nat /\ Max({a, b}) \in {a, b}
  <1>1. {a, b} \in SUBSET Nat /\ {a, b} # {}
    OBVIOUS
  <1>2. IsFiniteSet({a, b})
    <2>1. IsFiniteSet({a})
      BY FS_Singleton
    <2>2. IsFiniteSet({a} \cup {b})
      BY <2>1, FS_AddElement
    <2>3. {a, b} = {a} \cup {b}
      OBVIOUS
    <2>4. QED
      BY <2>2, <2>3
  <1>3. QED
    BY <1>1, <1>2, MinIs, MaxIs

LEMMA MatVecCounted ==
  ASSUME NEW op, op.type = "mat_vec_adds", IsOp(op), Valid(op)
  PROVE  Num(op) = Len(Blocks(op))
  <1> DEFINE out    == op.dst[1]
             x      == op.src[2]
             w      == MatVecN(op)
             chunks == MatVecChunks(op)
             n      == Extent(out, 1) \div BLOCK
             m      == (Stop(out, 1) \div BLOCK) - (Start(out, 1) \div BLOCK)
             per    == MatVecPerChunk(op, n)
             at     == Counters(<<chunks, MatVecPerChunk(op, m)>>)
             blocks == MatVecBlocks(op)
  <1>1. Num(op) = MatVecNum(op) /\ Blocks(op) = blocks /\ Specs(op) = MatVecSpecs(op)
        /\ Checks(op) = MatVecOk(op)
    BY DEF Num, Blocks, Specs, Checks
  <1>2. /\ op.src \in Seq(Tensors) /\ Len(op.src) = 3 /\ op.dst \in Seq(Tensors) /\ Len(op.dst) = 1
        /\ Specs(op).dst[1] = <<BLOCK>> /\ Specs(op).src[1] = <<BLOCK>>
    BY <1>1 DEF IsOp, Valid, SpecsMet, MatVecSpecs
  <1>3. /\ op.src[1] \in Tensors /\ x \in Tensors /\ out \in Tensors
        /\ Aligned(out, <<BLOCK>>) /\ Aligned(op.src[1], <<BLOCK>>)
    <2>1. Aligned(out, Specs(op).dst[1]) /\ Aligned(op.src[1], Specs(op).src[1])
      BY <1>2 DEF Valid, SpecsMet
    <2>2. QED
      BY <1>2, <2>1
  <1>4. m = n /\ n \in Nat
    <2> DEFINE gran == <<BLOCK>>
    <2>1. /\ gran \in Seq(Nat) /\ Len(gran) = 1 /\ gran[1] = BLOCK /\ BLOCK > 0
          /\ 1 \in 1 .. 4 /\ 1 <= Len(gran) /\ Len(gran) + 1 - 1 = 1
      BY DEF BLOCK
    <2>2. out \in Tensors /\ Aligned(out, gran)
      BY <1>3
    <2> HIDE DEF gran, out
    <2>3. QED
      BY <2>1, <2>2, AlignedIs
  <1>5. chunks \in Nat /\ chunks > 0
    <2> DEFINE e == Extent(x, 1)
               r == e % w
    <2>1. Len(op.src[1].shape) \in 1 .. 4
      <3> DEFINE y == op.src[1]
                 gran == <<BLOCK>>
      <3>1. Len(gran) = 1 /\ Aligned(y, gran) /\ y \in Tensors
        BY <1>3
      <3> HIDE DEF y, gran
      <3>2. Len(gran) <= Len(y.shape) /\ Len(y.shape) <= NUM_DIMS
        BY <3>1, Zenon DEF Aligned
      <3>3. Len(y.shape) \in Nat
        BY <3>1 DEF Tensors
      <3> DEFINE l == Len(y.shape)
      <3> HIDE DEF l
      <3>4. l \in Nat /\ 1 <= l /\ l <= 4
        <4>1. 1 <= l
          BY <3>1, <3>2 DEF l
        <4>2. QED
          BY <3>2, <3>3, <4>1 DEF NUM_DIMS, l
      <3>5. l \in 1 .. 4
        BY <3>4
      <3>6. QED
        BY <3>5 DEF l, y
    <2>2. w \in Nat /\ w > 0
      BY <1>3, <2>1, SeenIs, TensorIs DEF MatVecN
    <2>3. e \in Nat /\ e > 0
      BY <1>3, TensorIs
    <2>4. r = 0
      BY <1>1 DEF Valid, MatVecOk
    <2>5. chunks = e \div w
      BY DEF MatVecChunks
    <2> HIDE DEF e, r, w, chunks
    <2>6. chunks \in Nat /\ e = w * chunks + r
      BY <2>2, <2>3, <2>5, Quotient DEF r
    <2>7. chunks # 0
      BY <2>2, <2>3, <2>4, <2>6
    <2>8. QED
      BY <2>6, <2>7
  <1>6. per \in Nat
    <2> DEFINE s == SM_COUNT \div chunks
    <2>1. s \in Nat
      BY <1>5, ProgramsAssumption, Quotient
    <2> HIDE DEF s, n
    <2>2. Max({s, 1}) \in Nat
      BY <2>1, SharesOf
    <2>3. per = Min({Max({s, 1}), n})
      BY DEF MatVecPerChunk, s
    <2>4. QED
      BY <1>4, <2>2, <2>3, SharesOf
  <1>7. MatVecNum(op) = per * chunks
    BY DEF MatVecNum
  <1>8. blocks = [i \in DOMAIN at |-> blocks[i]]
    <2>1. Of(out, 1)[1] = Start(out, 1) /\ Of(out, 1)[2] = Stop(out, 1)
      BY DEF Start, Stop
    <2>2. QED
      BY <2>1 DEF MatVecBlocks
  <1> HIDE DEF per, chunks, n, m, blocks
  <1>9. DOMAIN at = 1 .. chunks * per /\ chunks * per \in Nat
    <2>1. MatVecPerChunk(op, m) = per
      BY <1>4 DEF per
    <2>2. /\ Numel(<<chunks, per>>) = chunks * per /\ <<chunks, per>> \in Seq(Nat)
          /\ chunks * per \in Nat
      BY <1>5, <1>6, Numel2, Times
    <2>3. QED
      BY <2>1, <2>2, CountersIs
  <1> HIDE DEF at
  <1>10. Len(blocks) = chunks * per
    BY <1>8, <1>9, LenIs
  <1>11. QED
    BY <1>1, <1>5, <1>6, <1>7, <1>10, Associate

LEMMA PartialCounted ==
  ASSUME NEW op, op.type \in {"attention_partial", "attention_partial_multi"}, IsOp(op), Valid(op)
  PROVE  Num(op) = Len(Blocks(op))
  <1> DEFINE n == Extent(op.src[2], 2)
             blocks == PartialBlocks(op)
  <1>1. Num(op) = n /\ Blocks(op) = blocks
    <2>1. CASE op.type = "attention_partial"
      BY <2>1 DEF Num, Blocks, PartialNum
    <2>2. CASE op.type = "attention_partial_multi"
      BY <2>2 DEF Num, Blocks, MultiNum, MultiBlocks
    <2>3. QED
      BY <2>1, <2>2
  <1>2. Len(Specs(op).src) = 5
    <2>1. CASE op.type = "attention_partial"
      BY <2>1 DEF Specs, PartialSpecs
    <2>2. CASE op.type = "attention_partial_multi"
      <3>1. Specs(op) = MultiSpecs(op)
        BY <2>2 DEF Specs
      <3>2. MultiSpecs(op).src = PartialSpecs(op).src
        BY DEF MultiSpecs, PartialSpecs
      <3>3. QED
        BY <3>1, <3>2 DEF PartialSpecs
    <2>3. QED
      BY <2>1, <2>2
  <1>3. op.src[2] \in Tensors
    BY <1>2 DEF IsOp, Valid, SpecsMet
  <1>4. n \in Nat
    BY <1>3, TensorIs
  <1>5. blocks = [i \in 1 .. n |-> blocks[i]]
    BY DEF PartialBlocks
  <1> HIDE DEF blocks, n
  <1>6. QED
    BY <1>1, <1>4, <1>5, LenIs

LEMMA ReductionCounted ==
  ASSUME NEW op, op.type = "attention_reduction", IsOp(op), Valid(op)
  PROVE  Num(op) = Len(Blocks(op))
  <1> DEFINE lse    == op.src[1]
             gran   == <<GQA, BLOCK>>
             n      == Extent(lse, 2) \div GQA
             m      == CeilDiv(Extent(lse, 2), GQA)
             blocks == ReductionBlocks(op)
  <1>1. Num(op) = ReductionNum(op) /\ Blocks(op) = blocks /\ Specs(op) = ReductionSpecs(op)
    BY DEF Num, Blocks, Specs
  <1>2. lse \in Tensors /\ Aligned(lse, gran)
    <2>1. op.src \in Seq(Tensors) /\ Len(op.src) = 2 /\ Specs(op).src[1] = gran
      BY <1>1 DEF IsOp, Valid, SpecsMet, ReductionSpecs
    <2>2. Aligned(lse, Specs(op).src[1])
      BY <2>1 DEF Valid, SpecsMet
    <2>3. QED
      BY <2>1, <2>2
  <1>3. m = n /\ n \in Nat
    <2>1. /\ gran \in Seq(Nat) /\ Len(gran) = 2 /\ gran[1] = GQA /\ GQA > 0
          /\ 2 \in 1 .. 4 /\ 2 <= Len(gran) /\ Len(gran) + 1 - 2 = 1
      BY DEF GQA, BLOCK
    <2> HIDE DEF gran, lse
    <2>2. QED
      BY <1>2, <2>1, AlignedIs
  <1>4. ReductionNum(op) = n /\ blocks = [i \in 1 .. m |-> blocks[i]]
    BY DEF ReductionNum, ReductionBlocks
  <1> HIDE DEF blocks, n, m
  <1>5. QED
    BY <1>1, <1>3, <1>4, LenIs

LEMMA AppendCounted ==
  ASSUME NEW op, op.type = "rms_qkv_rope_append"
  PROVE  Num(op) = Len(Blocks(op))
  <1> DEFINE blocks == AppendBlocks(op)
  <1>1. Num(op) = SM_COUNT /\ Blocks(op) = blocks
    BY DEF Num, Blocks, AppendNum
  <1>2. blocks = [i \in 1 .. SM_COUNT |-> blocks[i]] /\ SM_COUNT \in Nat
    BY ProgramsAssumption DEF AppendBlocks
  <1> HIDE DEF blocks
  <1>3. QED
    BY <1>1, <1>2, LenIs

LEMMA UpgateCounted ==
  ASSUME NEW op, op.type = "rms_upgate_silu", IsOp(op), Valid(op)
  PROVE  Num(op) = Len(Blocks(op))
  <1> DEFINE n == UpgateNum(op)
             e == Extent(op.dst[1], 1)
             blocks == UpgateBlocks(op)
  <1>1. Num(op) = n /\ Blocks(op) = blocks /\ Specs(op) = UpgateSpecs(op)
    BY DEF Num, Blocks, Specs
  <1>2. op.dst[1] \in Tensors
    BY <1>1 DEF IsOp, Valid, SpecsMet, UpgateSpecs
  <1>3. n \in Nat
    <2>1. e \in Nat
      BY <1>2, TensorIs
    <2> HIDE DEF e
    <2>2. e \div BLOCK \in Nat /\ SM_COUNT \in Nat
      BY <2>1, ProgramsAssumption, DivNat DEF BLOCK
    <2>3. QED
      BY <2>2, SharesOf DEF UpgateNum, e
  <1>4. blocks = [i \in 1 .. n |-> blocks[i]]
    BY DEF UpgateBlocks
  <1> HIDE DEF blocks, n
  <1>5. QED
    BY <1>1, <1>3, <1>4, LenIs

LEMMA LogitsCounted ==
  ASSUME NEW op, op.type = "rms_lm_head", IsOp(op), Valid(op)
  PROVE  Num(op) = Len(Blocks(op))
  <1> DEFINE out    == op.dst[1]
             gran   == <<16>>
             e      == Extent(out, 1) \div BLOCK
             m      == (Stop(out, 1) \div BLOCK) - (Start(out, 1) \div BLOCK)
             n      == Min({SM_COUNT, m})
             blocks == LogitsBlocks(op)
  <1>1. Num(op) = LogitsNum(op) /\ Blocks(op) = blocks /\ Specs(op) = LogitsSpecs(op)
    BY DEF Num, Blocks, Specs
  <1>2. out \in Tensors /\ Aligned(out, gran)
    <2>1. op.dst \in Seq(Tensors) /\ Len(op.dst) = 1 /\ Specs(op).dst[1] = gran
      BY <1>1 DEF IsOp, Valid, SpecsMet, LogitsSpecs
    <2>2. Aligned(out, Specs(op).dst[1])
      BY <2>1 DEF Valid, SpecsMet
    <2>3. QED
      BY <2>1, <2>2
  <1>3. m = e /\ e \in Nat
    <2>1. /\ gran \in Seq(Nat) /\ Len(gran) = 1 /\ gran[1] = BLOCK /\ BLOCK > 0
          /\ 1 \in 1 .. 4 /\ 1 <= Len(gran) /\ Len(gran) + 1 - 1 = 1
      BY DEF BLOCK
    <2> HIDE DEF gran, out
    <2>2. QED
      BY <1>2, <2>1, AlignedIs
  <1>4. LogitsNum(op) = Min({SM_COUNT, e})
    BY DEF LogitsNum
  <1>5. blocks = [i \in 1 .. n |-> blocks[i]]
    <2>1. Of(out, 1)[1] = Start(out, 1) /\ Of(out, 1)[2] = Stop(out, 1)
      BY DEF Start, Stop
    <2>2. QED
      BY <2>1 DEF LogitsBlocks
  <1> HIDE DEF blocks, m, e
  <1>6. n \in Nat
    BY <1>3, ProgramsAssumption, SharesOf
  <1> HIDE DEF n
  <1>7. Len(blocks) = n
    BY <1>5, <1>6, LenIs
  <1>8. QED
    BY <1>1, <1>3, <1>4, <1>7 DEF n

---------------------------------------------------------------------------
\* num_instructions is the length of block_indices, for any valid op.
LEMMA Counted ==
  ASSUME NEW op, IsOp(op), Valid(op)
  PROVE  Num(op) = Len(Blocks(op))
  <1>1. op.type \in TYPES
    BY DEF IsOp
  <1>2. CASE op.type \in {"copy", "elementwise_unary", "elementwise_binary", "rmsnorm", "reduce",
                          "gemm", "attention", "pos_id_increment"}
    BY <1>2, CopyCounted, UnaryCounted, BinaryCounted, RmsnormCounted, ReduceCounted,
       GemmCounted, AttentionCounted, IncrementCounted
  <1>3. CASE op.type \in {"gate_silu", "up_matmul", "lm_head", "o_proj_residual",
                          "o_proj_residual_half_tmem", "qkv_rope_append", "attention_decode", "rms"}
    BY <1>3, GateCounted, UpCounted, LmHeadCounted, OProjCounted, QkvCounted, DecodeCounted,
       RmsCounted
  <1>4. CASE op.type \in {"mat_vec_adds", "attention_partial", "attention_partial_multi",
                          "attention_reduction", "rms_qkv_rope_append", "rms_upgate_silu",
                          "rms_lm_head"}
    BY <1>4, MatVecCounted, PartialCounted, ReductionCounted, AppendCounted, UpgateCounted,
       LogitsCounted
  <1>5. QED
    BY <1>1, <1>2, <1>3, <1>4 DEF TYPES

\* The dependencies are one set of producers per consumer.
LEMMA MatchedIs ==
  ASSUME Matched # Unmatched
  PROVE  /\ DOMAIN Matched = DOMAIN Consumed
         /\ \A c \in DOMAIN Matched : Matched[c] \subseteq DOMAIN Produced
  <1>1. CASE From = To
    <2> DEFINE F == MatchBoxes(Produced, Consumed)
    <2>1. F # Unmatched /\ Matched = F
      BY <1>1 DEF Matched
    <2>2. DOMAIN F = DOMAIN Consumed /\ \A c \in DOMAIN F : F[c] \subseteq DOMAIN Produced
      BY <2>1 DEF MatchBoxes
    <2>3. QED
      BY <2>1, <2>2
  <1>2. CASE From # To
    <2> DEFINE F == MatchLinear(Produced, Consumed, From, To)
    <2>1. F # Unmatched /\ Matched = F
      BY <1>2 DEF Matched
    <2>2. DOMAIN F = DOMAIN Consumed /\ \A c \in DOMAIN F : F[c] \subseteq DOMAIN Produced
      BY <2>1 DEF MatchLinear
    <2>3. QED
      BY <2>1, <2>2
  <1>3. QED
    BY <1>1, <1>2

\* The regions of a program's two ops, when both are listed.
LEMMA ListedIs ==
  ASSUME Program, Len(ops) = 2, edge # << >>, Listing(2)
  PROVE  /\ Produced \in Seq(BoxLists) /\ Consumed \in Seq(BoxLists)
         /\ DOMAIN Produced = DOMAIN entries[1] /\ DOMAIN Consumed = DOMAIN entries[2]
         /\ From \in Seq(Nat) /\ To \in Seq(Nat)
  <1>1. /\ \A n \in 1 .. 2 : IsOp(ops[n]) /\ (HasOperands(ops[n]) => RegionsOf(ops[n]) \in Seq(BoxesOf(ops[n])))
        /\ edge[1] \in DOMAIN ops[1].dst /\ edge[2] \in DOMAIN ops[2].src
    BY ProgramIs
  <1>2. /\ entries = [n \in 1 .. 2 |-> Blocks(ops[n])] /\ regions = [n \in 1 .. 2 |-> RegionsOf(ops[n])]
        /\ \A n \in 1 .. 2 : HasOperands(ops[n])
    BY DEF Listing
  <1>3. ASSUME NEW n \in 1 .. 2
        PROVE  /\ entries[n] = Blocks(ops[n]) /\ regions[n] = RegionsOf(ops[n])
               /\ regions[n] \in Seq(BoxesOf(ops[n])) /\ DOMAIN regions[n] = DOMAIN entries[n]
    <2>1. entries[n] = Blocks(ops[n]) /\ regions[n] = RegionsOf(ops[n]) /\ HasOperands(ops[n])
      BY <1>2
    <2>2. regions[n] \in Seq(BoxesOf(ops[n]))
      BY <1>1, <2>1
    <2>3. DOMAIN RegionsOf(ops[n]) = DOMAIN Blocks(ops[n])
      BY DEF RegionsOf
    <2>4. QED
      BY <2>1, <2>2, <2>3
  <1>4. Produced \in Seq(BoxLists) /\ DOMAIN Produced = DOMAIN entries[1]
    <2> DEFINE r == regions[1]
               e == edge[1]
    <2>1. r \in Seq(BoxesOf(ops[1])) /\ DOMAIN r = DOMAIN entries[1]
      BY <1>3
    <2>2. e \in DOMAIN ops[1].dst /\ ops[1].dst \in Seq(Tensors)
      BY <1>1 DEF IsOp
    <2> HIDE DEF r, e
    <2>3. Produced = [p \in DOMAIN r |-> r[p].dst[e]]
      BY DEF Produced, r, e
    <2>4. ASSUME NEW p \in DOMAIN r PROVE r[p].dst[e] \in BoxLists
      <3>1. r[p] \in BoxesOf(ops[1])
        BY <2>1
      <3>2. r[p].dst \in Seq(BoxLists) /\ Len(r[p].dst) = Len(ops[1].dst)
        BY <3>1 DEF BoxesOf
      <3>3. e \in 1 .. Len(r[p].dst)
        BY <2>2, <3>2
      <3>4. QED
        BY <3>2, <3>3
    <2>5. Len(r) \in Nat /\ DOMAIN r = 1 .. Len(r)
      BY <2>1
    <2>6. Produced \in [1 .. Len(r) -> BoxLists]
      BY <2>3, <2>4, <2>5
    <2>7. QED
      BY <2>1, <2>3, <2>5, <2>6, ListIs
  <1>5. Consumed \in Seq(BoxLists) /\ DOMAIN Consumed = DOMAIN entries[2]
    <2> DEFINE r == regions[2]
               e == edge[2]
    <2>1. r \in Seq(BoxesOf(ops[2])) /\ DOMAIN r = DOMAIN entries[2]
      BY <1>3
    <2>2. e \in DOMAIN ops[2].src /\ ops[2].src \in Seq(Tensors)
      BY <1>1 DEF IsOp
    <2> HIDE DEF r, e
    <2>3. Consumed = [c \in DOMAIN r |-> r[c].src[e]]
      BY DEF Consumed, r, e
    <2>4. ASSUME NEW p \in DOMAIN r PROVE r[p].src[e] \in BoxLists
      <3>1. r[p] \in BoxesOf(ops[2])
        BY <2>1
      <3>2. r[p].src \in Seq(BoxLists) /\ Len(r[p].src) = Len(ops[2].src)
        BY <3>1 DEF BoxesOf
      <3>3. e \in 1 .. Len(r[p].src)
        BY <2>2, <3>2
      <3>4. QED
        BY <3>2, <3>3
    <2>5. Len(r) \in Nat /\ DOMAIN r = 1 .. Len(r)
      BY <2>1
    <2>6. Consumed \in [1 .. Len(r) -> BoxLists]
      BY <2>3, <2>4, <2>5
    <2>7. QED
      BY <2>1, <2>3, <2>5, <2>6, ListIs
  <1>6. From \in Seq(Nat) /\ To \in Seq(Nat)
    <2>1. ASSUME NEW op, IsOp(op)
          PROVE  /\ \A t \in DOMAIN op.src : op.src[t].shape \in Seq(Nat)
                 /\ \A t \in DOMAIN op.dst : op.dst[t].shape \in Seq(Nat)
      <3>1. \A x \in Tensors : x.shape \in Seq(Nat)
        <4>1. \A x \in Tensors : x.shape \in Seq(Nat \ {0})
          BY DEF Tensors
        <4>2. Seq(Nat \ {0}) \subseteq Seq(Nat)
          OBVIOUS
        <4>3. QED
          BY <4>1, <4>2
      <3>2. op.src \in Seq(Tensors) /\ op.dst \in Seq(Tensors)
        BY <2>1 DEF IsOp
      <3>3. QED
        BY <3>1, <3>2
    <2>2. QED
      BY <1>1, <2>1 DEF From, To
  <1>7. QED
    BY <1>4, <1>5, <1>6

\* The invariant gives the types, and that the dependencies are exact.
LEMMA TypesKept == ASSUME IInv PROVE TypeOK
  <1>1. PICK k \in Nat : Listing(k) /\ Matching(k) /\ Validating /\ StatusSays(k)
    BY DEF IInv
  <1>2. Program
    BY DEF IInv
  <1>3. /\ Len(ops) \in 1 .. 2 /\ k \in 0 .. Len(ops)
        /\ entries = [n \in 1 .. k |-> Blocks(ops[n])] /\ regions = [n \in 1 .. k |-> RegionsOf(ops[n])]
        /\ \A n \in 1 .. k : HasOperands(ops[n])
    BY <1>1, <1>2, ProgramIs DEF Listing
  <1>4. Len(entries) = k /\ Len(regions) = k /\ DOMAIN regions = 1 .. k
    BY <1>1, <1>3
  <1>5. ASSUME NEW n \in DOMAIN regions
        PROVE  /\ DOMAIN regions[n] = DOMAIN entries[n]
               /\ \A i \in DOMAIN regions[n] :
                    /\ DOMAIN regions[n][i].src = DOMAIN ops[n].src
                    /\ DOMAIN regions[n][i].dst = DOMAIN ops[n].dst
    <2>1. /\ n \in 1 .. Len(ops) /\ regions[n] = RegionsOf(ops[n]) /\ entries[n] = Blocks(ops[n])
          /\ HasOperands(ops[n])
      BY <1>3, <1>4
    <2>2. DOMAIN RegionsOf(ops[n]) = DOMAIN Blocks(ops[n])
      BY DEF RegionsOf
    <2>3. IsOp(ops[n]) /\ RegionsOf(ops[n]) \in Seq(BoxesOf(ops[n]))
      BY <1>2, <2>1, ProgramIs
    <2>4. \A i \in DOMAIN RegionsOf(ops[n]) : RegionsOf(ops[n])[i] \in BoxesOf(ops[n])
      BY <2>3
    <2>5. ASSUME NEW at \in BoxesOf(ops[n])
          PROVE  DOMAIN at.src = DOMAIN ops[n].src /\ DOMAIN at.dst = DOMAIN ops[n].dst
      <3>1. /\ at.src \in Seq(BoxLists) /\ at.dst \in Seq(BoxLists)
            /\ Len(at.src) = Len(ops[n].src) /\ Len(at.dst) = Len(ops[n].dst)
        BY DEF BoxesOf
      <3>2. ops[n].src \in Seq(Tensors) /\ ops[n].dst \in Seq(Tensors)
        BY <2>3 DEF IsOp
      <3>3. QED
        BY <3>1, <3>2
    <2>6. QED
      BY <2>1, <2>2, <2>4, <2>5
  <1>6. ASSUME sources # << >>
        PROVE  /\ DOMAIN sources = DOMAIN entries[2]
               /\ \A c \in DOMAIN sources : sources[c] \subseteq DOMAIN entries[1]
    <2>1. k = Len(ops) /\ edge # << >> /\ sources = Matched /\ Matched # Unmatched
      BY <1>1, <1>6 DEF Matching
    <2>2. Len(ops) = 2
      BY <1>2, <2>1, ProgramIs
    <2>3. DOMAIN Produced = DOMAIN entries[1] /\ DOMAIN Consumed = DOMAIN entries[2]
      BY <1>1, <1>2, <2>1, <2>2, ListedIs
    <2>4. QED
      BY <2>1, <2>3, MatchedIs
  <1>7. checked \in 0 .. Len(ops) /\ (checked > 0 => status # "listing")
    BY <1>1 DEF Validating, StatusSays
  <1>8. status \in {"listing", "matching", "validating", "accepted", "rejected"}
    BY <1>1 DEF StatusSays
  <1>9. Len(regions) = Len(entries) /\ Len(entries) <= Len(ops)
    BY <1>3, <1>4
  <1>10. QED
    BY <1>5, <1>6, <1>7, <1>8, <1>9 DEF TypeOK

\* The invariant gives the exact dependencies.
LEMMA DependenciesKept == ASSUME IInv PROVE DependenciesExact
  <1>1. PICK k \in Nat : Listing(k) /\ Matching(k) /\ Validating /\ StatusSays(k)
    BY DEF IInv
  <1>2. Program
    BY DEF IInv
  <1>3. SUFFICES ASSUME sources # << >>, Comparable, NEW c \in DOMAIN sources
                 PROVE  sources[c] = {p \in DOMAIN entries[1] : Reads(c, p)}
    BY DEF DependenciesExact
  <1>4. k = Len(ops) /\ edge # << >> /\ sources = Matched /\ Matched # Unmatched
    BY <1>1, <1>3 DEF Matching
  <1>5. Len(ops) = 2
    BY <1>2, <1>4, ProgramIs
  <1>6. /\ Produced \in Seq(BoxLists) /\ Consumed \in Seq(BoxLists)
        /\ DOMAIN Produced = DOMAIN entries[1] /\ DOMAIN Consumed = DOMAIN entries[2]
        /\ From \in Seq(Nat) /\ To \in Seq(Nat)
    BY <1>1, <1>2, <1>4, <1>5, ListedIs
  <1>7. CASE From = To
    <2>1. BoxesOnUnits(Boxes(Produced) \cup Boxes(Consumed))
      BY <1>3, <1>7 DEF Comparable
    <2>2. Matched = MatchBoxes(Produced, Consumed)
      BY <1>7 DEF Matched
    <2>3. Matched = BoxReaders(Produced, Consumed)
      BY <1>4, <1>6, <2>1, <2>2, MatchBoxesExact
    <2>4. \A p : Reads(c, p) <=> ShareElement(ToSet(Produced[p]), ToSet(Consumed[c]))
      BY <1>7 DEF Reads
    <2>5. QED
      BY <1>3, <1>4, <1>6, <2>3, <2>4 DEF BoxReaders
  <1>8. CASE From # To
    <2>1. OnUnits(AllIntervals(Produced, From) \cup AllIntervals(Consumed, To))
      BY <1>3, <1>8 DEF Comparable
    <2>2. Matched = MatchLinear(Produced, Consumed, From, To)
      BY <1>8 DEF Matched
    <2>3. Matched = LinearReaders(Produced, Consumed, From, To)
      BY <1>4, <1>6, <2>1, <2>2, MatchLinearExact
    <2>4. \A p : Reads(c, p) <=> ShareElement(Lines(Produced[p], From), Lines(Consumed[c], To))
      BY <1>8 DEF Reads
    <2>5. QED
      BY <1>3, <1>4, <1>6, <2>3, <2>4 DEF LinearReaders
  <1>9. QED
    BY <1>7, <1>8

\* Entries, regions and dependencies are there for every op and instruction as
\* far as the status says (scheduler.py:258).
THEOREM TypesHold == Spec => []TypeOK
  BY IInvHolds, TypesKept, PTL

\* Of any two ops, an accepted instruction waits for exactly the instructions
\* that write an element it reads (scheduler.py:201).
THEOREM DependenciesHold == Spec => []DependenciesExact
  BY IInvHolds, DependenciesKept, PTL

\* The instructions an accepted op lists are as many as num_instructions says
\* (scheduler.py:264, 400).
LEMMA CountsKept == ASSUME IInv PROVE CountsAgree
  <1>1. PICK k \in Nat : Listing(k) /\ Matching(k) /\ Validating /\ StatusSays(k)
    BY DEF IInv
  <1>2. Program
    BY DEF IInv
  <1> SUFFICES ASSUME NEW n \in Compiled PROVE Num(ops[n]) = Len(entries[n])
    BY DEF CountsAgree
  <1>3. status = "accepted" /\ n \in DOMAIN ops /\ entries[n] # << >>
    BY DEF Compiled
  <1>4. k = Len(ops) /\ checked = Len(ops)
    BY <1>1, <1>3 DEF StatusSays
  <1>5. n \in 1 .. Len(ops) /\ IsOp(ops[n])
    BY <1>2, <1>3, ProgramIs
  <1>6. Valid(ops[n])
    BY <1>1, <1>3, <1>4, <1>5 DEF Validating
  <1>7. entries[n] = Blocks(ops[n])
    BY <1>1, <1>4, <1>5 DEF Listing
  <1>8. QED
    BY <1>5, <1>6, <1>7, Counted

\* For every op of any of the 23 types, of any shapes and on any number of SMs,
\* the scheduler sizes barriers and counts targets by as many instructions as
\* it emits (scheduler.py:264, 400).
THEOREM CountsHold == Spec => []CountsAgree
  BY IInvHolds, CountsKept, PTL

---------------------------------------------------------------------------
(* Ops that work in place.                                                 *)

\* The loop counters of two loops stay below their bounds.
LEMMA Counters2 ==
  ASSUME NEW a \in Nat, NEW b \in Nat, NEW i \in 1 .. a * b
  PROVE  LET at == Counters(<<a, b>>)[i] IN at[1] \in 0 .. a - 1 /\ at[2] \in 0 .. b - 1
  <1> DEFINE bounds  == <<a, b>>
             strides == Strides(bounds)
             at      == Counters(bounds)[i]
             k       == (i - 1) \div b
             l       == (i - 1) \div 1
  <1>1. Numel(bounds) = a * b /\ a * b \in Nat
    BY Numel2, Times
  <1>2. a > 0 /\ b > 0
    <2>1. a = 0 => a * b = 0
      OBVIOUS
    <2>2. b = 0 => a * b = 0
      OBVIOUS
    <2>3. a * b > 0
      BY <1>1
    <2>4. QED
      BY <2>1, <2>2, <2>3
  <1>3. bounds \in Seq(Nat) /\ DOMAIN bounds = {1, 2} /\ Len(bounds) = 2 /\ bounds[1] = a /\ bounds[2] = b
    <2>1. bounds \in Seq(Nat) /\ Len(bounds) = 2 /\ bounds[1] = a /\ bounds[2] = b
      OBVIOUS
    <2>2. DOMAIN bounds = 1 .. 2 /\ 1 .. 2 = {1, 2}
      OBVIOUS
    <2>3. QED
      BY <2>1, <2>2
  <1>3a. strides[1] = b /\ strides[2] = 1
    <2> DEFINE s == SubSeq(bounds, 2, 2)
               e == SubSeq(bounds, 3, 2)
    <2>1. strides[1] = Numel(s) /\ strides[2] = Numel(e)
      <3> HIDE DEF bounds
      <3>1. strides = [d \in {1, 2} |-> Numel(SubSeq(bounds, d + 1, 2))]
        BY <1>3 DEF Strides
      <3> HIDE DEF strides
      <3>2. strides[1] = Numel(SubSeq(bounds, 1 + 1, 2)) /\ strides[2] = Numel(SubSeq(bounds, 2 + 1, 2))
        BY <3>1
      <3>3. 1 + 1 = 2 /\ 2 + 1 = 3
        OBVIOUS
      <3>4. QED
        BY <3>2, <3>3
    <2> HIDE DEF bounds
    <2>2. s \in Seq(Nat) /\ Len(s) = 1 /\ s[1] = b
      BY <1>3
    <2>3. e \in Seq(Nat) /\ Len(e) = 0
      BY <1>3
    <2> HIDE DEF s, e, strides
    <2>4. Numel(s) = b
      <3>1. PICK h \in [0 .. 1 -> Nat] :
              /\ h[0] = 1 /\ \A n \in 1 .. 1 : h[n] = h[n - 1] * s[n]
              /\ Numel(s) = h[1]
        BY <2>2, NumelUnfolds
      <3>2. h[1] = h[0] * s[1]
        <4>1. 1 \in 1 .. 1 /\ 1 - 1 = 0
          OBVIOUS
        <4>2. QED
          BY <3>1, <4>1
      <3>3. QED
        BY <2>2, <3>1, <3>2
    <2>5. Numel(e) = 1
      <3>1. PICK h \in [0 .. 0 -> Nat] : h[0] = 1 /\ Numel(e) = h[0]
        BY <2>3, NumelUnfolds
      <3>2. QED
        BY <3>1
    <2>6. QED
      BY <2>1, <2>4, <2>5
  <1>4. at[1] = k % a /\ at[2] = l % b
    <2>1. at = [d \in DOMAIN bounds |-> ((i - 1) \div strides[d]) % bounds[d]]
      BY <1>1 DEF Counters
    <2> HIDE DEF bounds, strides, at
    <2>2. QED
      BY <1>3, <1>3a, <2>1
  <1>5. k \in Nat /\ l \in Nat
    <2>1. i - 1 \in Nat
      BY <1>1
    <2>2. QED
      BY <1>2, <2>1, Quotient
  <1> HIDE DEF at, k, l
  <1>6. k % a \in 0 .. a - 1 /\ l % b \in 0 .. b - 1
    <2>1. k % a \in Nat /\ k % a < a /\ l % b \in Nat /\ l % b < b
      BY <1>2, <1>5, Quotient
    <2> DEFINE x == k % a
               y == l % b
    <2> HIDE DEF x, y
    <2>2. x \in 0 .. a - 1 /\ y \in 0 .. b - 1
      BY <2>1 DEF x, y
    <2>3. QED
      BY <2>2 DEF x, y
  <1>7. QED
    BY <1>4, <1>6 DEF at

\* What is issued to both CTAs is what the list holds.
LEMMA TwiceHolds ==
  ASSUME NEW S, NEW s \in Seq(S)
  PROVE  Twice(s) \in Seq(S)
  <1> DEFINE pairs == [i \in DOMAIN s |-> <<s[i], s[i]>>]
  <1>1. \A i \in DOMAIN s : <<s[i], s[i]>> \in Seq(S)
    OBVIOUS
  <1>2. pairs \in [1 .. Len(s) -> Seq(S)] /\ Len(s) \in Nat
    BY <1>1
  <1>3. pairs \in Seq(Seq(S))
    BY <1>2, ListIs
  <1> HIDE DEF pairs
  <1>4. FlattenSeq(pairs) \in Seq(S)
    BY <1>3, FlattenIs
  <1>5. QED
    BY <1>4 DEF Twice, pairs

\* Different tiles of one size have nothing in common.
LEMMA TilesApart ==
  ASSUME NEW i \in Nat, NEW j \in Nat, NEW size \in Nat, size > 0
  PROVE  /\ Tile(i, size) \in Interval
         /\ i # j => ~InCommon(Tile(i, size), Tile(j, size))
  <1> DEFINE a == i * size
             b == j * size
             c == (i + 1) * size
             d == (j + 1) * size
  <1>1. a \in Nat /\ b \in Nat /\ c = a + size /\ d = b + size
    <2>1. c = size * i + size * 1 /\ d = size * j + size * 1 /\ a = size * i /\ b = size * j
      BY Distribute, Associate
    <2>2. size * i \in Nat /\ size * j \in Nat
      BY Times
    <2>3. QED
      BY <2>1, <2>2
  <1>2. ASSUME NEW k \in Nat, NEW l \in Nat, k < l
        PROVE  (k + 1) * size <= l * size
    <2>1. l - k - 1 \in Nat /\ size * (l - k - 1) = size * l - size * (k + 1)
      BY <1>2, Distribute
    <2>2. size * (l - k - 1) \in Nat
      BY <2>1, Times
    <2>3. size * l = l * size /\ size * (k + 1) = (k + 1) * size
      BY Associate
    <2>4. l * size \in Nat /\ (k + 1) * size \in Nat
      BY Times
    <2>5. QED
      BY <2>1, <2>2, <2>3, <2>4
  <1>3. (i < j => c <= b) /\ (j < i => d <= a)
    BY <1>2
  <1>4. Tile(i, size) = <<a, c>> /\ Tile(j, size) = <<b, d>>
    BY DEF Tile
  <1> HIDE DEF a, b, c, d
  <1>5. <<a, c>> \in Interval
    BY <1>1 DEF Interval
  <1>6. i # j => ~InCommon(<<a, c>>, <<b, d>>)
    BY <1>1, <1>3 DEF InCommon
  <1>7. QED
    BY <1>4, <1>5, <1>6

\* An empty box shares nothing.
LEMMA EmptyApart ==
  ASSUME NEW a
  PROVE  ~Overlap(a, EmptyBox(4))
  <1> DEFINE e == EmptyBox(4)
  <1>1. 1 \in DOMAIN e /\ e[1] = <<0, 0>>
    BY DEF EmptyBox
  <1>2. Size(e[1]) = 0
    BY <1>1 DEF Size
  <1> HIDE DEF e
  <1>3. IsEmpty(e)
    BY <1>1, <1>2 DEF IsEmpty
  <1>4. QED
    BY <1>3 DEF Overlap, e

\* The instructions of an op write nothing another reads of what they work on.
ApartIn(op) ==
  \A i, j \in DOMAIN Blocks(op) : \A pair \in Inplace(op) :
    Blocks(op)[i] # Blocks(op)[j] =>
      \A a \in ToSet(Regions(op, Blocks(op)[i]).dst[pair[1]]) :
        \A b \in ToSet(Regions(op, Blocks(op)[j]).src[pair[2]]) : ~Overlap(a, b)

\* The one element of a list of one.
LEMMA OnlyIs == ASSUME NEW x PROVE ToSet(<<x>>) = {x}
  BY DEF ToSet

\* One instruction is never two.
LEMMA IncrementApart ==
  ASSUME NEW op, op.type = "pos_id_increment"
  PROVE  ApartIn(op)
  <1>1. Blocks(op) = <<<<0>>>>
    BY DEF Blocks, IncrementBlocks
  <1>2. \A i \in DOMAIN Blocks(op) : Blocks(op)[i] = <<0>>
    BY <1>1
  <1>3. QED
    BY <1>2 DEF ApartIn

\* Nothing is read of the caches that are appended to.
LEMMA QkvApart ==
  ASSUME NEW op, op.type = "qkv_rope_append"
  PROVE  ApartIn(op)
  <1> SUFFICES ASSUME NEW pair \in Inplace(op), NEW index,
                      NEW a, NEW b \in ToSet(Regions(op, index).src[pair[2]])
               PROVE  ~Overlap(a, b)
    BY DEF ApartIn
  <1>1. pair[2] \in {7, 8}
    BY DEF Inplace, QkvInplace
  <1>2. Regions(op, index).src = QkvRegions(op, index).src
    BY DEF Regions
  <1>3. QkvRegions(op, index).src[7] = <<EmptyBox(4)>> /\ QkvRegions(op, index).src[8] = <<EmptyBox(4)>>
    BY DEF QkvRegions
  <1>4. b \in ToSet(<<EmptyBox(4)>>)
    BY <1>1, <1>2, <1>3
  <1>5. b = EmptyBox(4)
    BY <1>4, OnlyIs
  <1>6. QED
    BY <1>5, EmptyApart

\* The same of the queries, keys and values of one token.
LEMMA AppendApart ==
  ASSUME NEW op, op.type = "rms_qkv_rope_append"
  PROVE  ApartIn(op)
  <1> SUFFICES ASSUME NEW pair \in Inplace(op), NEW index,
                      NEW a, NEW b \in ToSet(Regions(op, index).src[pair[2]])
               PROVE  ~Overlap(a, b)
    BY DEF ApartIn
  <1>1. pair[2] \in {6, 7}
    BY DEF Inplace, AppendInplace
  <1>2. Regions(op, index).src = AppendRegions(op, index).src
    BY DEF Regions
  <1>3. AppendRegions(op, index).src[6] = <<EmptyBox(4)>> /\ AppendRegions(op, index).src[7] = <<EmptyBox(4)>>
    BY DEF AppendRegions
  <1>4. b \in ToSet(<<EmptyBox(4)>>)
    BY <1>1, <1>2, <1>3
  <1>5. b = EmptyBox(4)
    BY <1>4, OnlyIs
  <1>6. QED
    BY <1>5, EmptyApart

---------------------------------------------------------------------------
\* o_proj_residual: the columns its instructions have, whole blocks, or 36 of
\* 224 and a tail of 128 which is number 63 of its size.
OProjHas(op) == IF OProjMixed(op) THEN (0 .. 35) \cup {63} ELSE Nat

OProjTypes == {"o_proj_residual", "o_proj_residual_half_tmem"}

\* Both variants have the code of o_proj_residual.
LEMMA OProjIs ==
  ASSUME NEW op, op.type \in OProjTypes
  PROVE  /\ Blocks(op) = OProjBlocks(op) /\ Specs(op) = OProjSpecs(op)
         /\ Inplace(op) = {<<1, 1>>}
         /\ \A index : Regions(op, index) = OProjRegions(op, index)
         /\ OProjRows(op) \in Nat /\ OProjRows(op) > 0
  <1>1. CASE op.type = "o_proj_residual"
    BY <1>1 DEF Blocks, Specs, Inplace, Regions, OProjInplace, OProjRows, M_INST
  <1>2. CASE op.type = "o_proj_residual_half_tmem"
    <2>1. Blocks(op) = OProjBlocks(op) /\ Specs(op) = OProjSpecs(op)
      BY <1>2 DEF Blocks, Specs, HalfTmemBlocks, HalfTmemSpecs
    <2>2. Inplace(op) = {<<1, 1>>}
      BY <1>2 DEF Inplace, HalfTmemInplace, OProjInplace
    <2>3. \A index : Regions(op, index) = OProjRegions(op, index)
      BY <1>2 DEF Regions, HalfTmemRegions
    <2>4. OProjRows(op) \in Nat /\ OProjRows(op) > 0
      BY <1>2 DEF OProjRows, M_INST
    <2>5. QED
      BY <2>1, <2>2, <2>3, <2>4
  <1>3. QED
    BY <1>1, <1>2 DEF OProjTypes

\* The residual and the result are of one width, 8192 when the blocks differ.
LEMMA OProjWide ==
  ASSUME NEW op, op.type \in OProjTypes, IsOp(op), Valid(op), Plain(op)
  PROVE  /\ op.dst[1] \in Tensors
         /\ Aligned(op.dst[1], <<OProjRows(op), CHUNK_COLS>>)
         /\ OProjMixed(op) => Dim(op.dst[1], 1) = 8192
  <1> DEFINE x == op.src[1]
             out == op.dst[1]
             rows == OProjRows(op)
  <1>1. op.src \in Seq(Tensors) /\ op.dst \in Seq(Tensors)
    BY DEF IsOp
  <1>2. Specs(op) = OProjSpecs(op)
    BY OProjIs
  <1>3. /\ OProjSpecs(op).src = <<<<rows, CHUNK_COLS>>, <<rows, K_BLOCK>>, <<1, CHUNK_COLS, K_BLOCK>>>>
        /\ OProjSpecs(op).dst = <<<<rows, CHUNK_COLS>>>>
    BY DEF OProjSpecs
  <1>4. SpecsMet(op)
    BY DEF Valid
  <1>5. Len(op.src) = 3 /\ Len(op.dst) = 1
    BY <1>2, <1>3, <1>4 DEF SpecsMet
  <1>6. x \in Tensors /\ out \in Tensors
    BY <1>1, <1>5
  <1>7. /\ Aligned(x, <<rows, CHUNK_COLS>>) /\ Aligned(out, <<rows, CHUNK_COLS>>)
    <2>1. /\ \A t \in DOMAIN op.src : Aligned(op.src[t], Specs(op).src[t])
          /\ \A t \in DOMAIN op.dst : Aligned(op.dst[t], Specs(op).dst[t])
      BY <1>4 DEF SpecsMet
    <2>2. 1 \in DOMAIN op.src /\ 1 \in DOMAIN op.dst
      BY <1>1, <1>5
    <2>3. QED
      BY <1>2, <1>3, <2>1, <2>2
  <1>8. Len(x.shape) >= 2 /\ Len(x.shape) <= 4
    BY <1>7 DEF Aligned, NUM_DIMS
  <1>9. ASSUME OProjMixed(op) PROVE Dim(out, 1) = 8192
    <2>1. x.shape \in Seq(Nat \ {0}) /\ Len(x.shape) \in 1 .. 4
      <3>1. x.shape \in Seq(Nat \ {0})
        BY <1>6 DEF Tensors
      <3> DEFINE s == x.shape
      <3>2. s \in Seq(Nat \ {0}) /\ Len(s) >= 2 /\ Len(s) <= 4
        BY <1>8, <3>1
      <3> HIDE DEF s
      <3>2a. Len(s) \in Nat
        BY <3>2
      <3> DEFINE n == Len(s)
      <3>2b. n \in Nat /\ n >= 2 /\ n <= 4
        BY <3>2, <3>2a
      <3> HIDE DEF n
      <3>3a. n \in 1 .. 4
        BY <3>2b
      <3>3. Len(s) \in 1 .. 4
        BY <3>3a DEF n
      <3>4. QED
        BY <3>1, <3>3 DEF s
    <2>2. Extent(x, 1) = 8192
      <3>1. Last(Seen(x)) = 8192
        BY <1>9 DEF OProjMixed
      <3> HIDE DEF x
      <3>2. Last(Seen(x)) = Extent(x, 1)
        BY <1>6, <2>1, SeenIs
      <3>3. QED
        BY <3>1, <3>2
    <2>3. Of(x, 1) = <<0, Dim(x, 1)>>
      <3>1. op.type \notin General /\ Layered(op.type) = {3}
        BY DEF OProjTypes, General, Layered
      <3>2. 1 \in DOMAIN op.src /\ 1 \in 1 .. Len(x.shape)
        <4> DEFINE s == op.src
                   n == Len(x.shape)
        <4>1. s \in Seq(Tensors) /\ Len(s) = 3 /\ n \in 1 .. 4
          BY <1>1, <1>5, <2>1
        <4> HIDE DEF s, n
        <4>2. 1 \in DOMAIN s /\ 1 \in 1 .. n
          BY <4>1
        <4>3. QED
          BY <4>2 DEF s, n
      <3>3. \A t \in DOMAIN op.src : \A k \in 1 .. Len(op.src[t].shape) :
              Covers(op.src[t], k) \/ (t \in Layered(op.type) /\ k = Len(op.src[t].shape))
        BY <3>1 DEF Plain
      <3>3a. Covers(x, 1) \/ 1 \in Layered(op.type)
        BY <3>2, <3>3
      <3>3b. Covers(x, 1)
        BY <3>1, <3>3a
      <3>4. QED
        BY <3>3b DEF Covers
    <2>4. Dim(x, 1) = Dim(x, 1) - 0 /\ Dim(x, 1) \in Nat
      <3> DEFINE s == x.shape
                 n == Len(s)
      <3>1. s \in Seq(Nat) /\ n \in 1 .. 4 /\ DOMAIN s = 1 .. n
        BY <2>1
      <3> HIDE DEF s, n
      <3>2. n + 1 - 1 = n /\ n \in 1 .. n
        BY <3>1
      <3>3. s[n] \in Nat
        BY <3>1, <3>2
      <3>4. Dim(x, 1) = s[n]
        BY <3>2 DEF Dim, s, n
      <3>5. QED
        BY <3>3, <3>4
    <2>5. Extent(x, 1) = Dim(x, 1) - 0
      BY <2>3 DEF Extent, Size
    <2>6. out.shape = x.shape
      <3>1. <<1, 1>> \in Inplace(op)
        BY OProjIs
      <3>2. 1 \in DOMAIN op.dst /\ 1 \in DOMAIN op.src
        BY <1>1, <1>5
      <3>3. QED
        BY <3>1, <3>2 DEF IsOp
    <2>7. QED
      BY <2>2, <2>4, <2>5, <2>6 DEF Dim
  <1>10. QED
    BY <1>6, <1>7, <1>8, <1>9

\* So the tail is 128 columns wide.
LEMMA OProjDims ==
  ASSUME NEW op, op.type \in OProjTypes, IsOp(op), Valid(op), Plain(op), OProjMixed(op)
  PROVE  Dim(op.dst[1], 1) = 8192
  <1>1. /\ op.dst[1] \in Tensors
        /\ Aligned(op.dst[1], <<OProjRows(op), CHUNK_COLS>>)
        /\ OProjMixed(op) => Dim(op.dst[1], 1) = 8192
    BY OProjWide
  <1>2. QED
    BY <1>1

\* The columns block_indices goes through.
LEMMA OProjCols ==
  ASSUME NEW op, op.type \in OProjTypes, IsOp(op), Valid(op), Plain(op)
  PROVE  OProjColumns(op) \in Seq(Nat \X OProjHas(op))
  <1> DEFINE out    == op.dst[1]
             nb     == OProjNb(op)
             main   == Dim(out, 1) \div nb
             tail   == Dim(out, 1) - main * nb
             In(n, width) == Start(out, 1) <= n * width /\ (n + 1) * width <= Stop(out, 1)
             S      == Nat \X OProjHas(op)
             blocks == [n \in 1 .. main |-> IF In(n - 1, nb) THEN <<<<nb, n - 1>>>> ELSE << >>]
             last   == IF tail > 0 /\ In((main * nb) \div tail, tail)
                       THEN <<<<tail, (main * nb) \div tail>>>> ELSE << >>
             count  == (Stop(out, 1) \div nb) - (Start(out, 1) \div nb)
             whole  == [n \in 1 .. count |-> <<nb, (Start(out, 1) \div nb) + n - 1>>]
  <1>1. OProjColumns(op) = IF OProjMixed(op) THEN FlattenSeq(blocks) \o last ELSE whole
    BY DEF OProjColumns
  <1>2. out \in Tensors /\ Aligned(out, <<OProjRows(op), CHUNK_COLS>>)
    BY OProjWide
  <1>3. CASE OProjMixed(op)
    <2>1. nb = 224 /\ OProjHas(op) = (0 .. 35) \cup {63}
      BY <1>3 DEF OProjNb, MIXED_NB, OProjHas
    <2>2. Dim(out, 1) = 8192
      BY <1>3, OProjDims
    <2>3. main = 36 /\ tail = 128 /\ (main * nb) \div tail = 63
      BY <2>1, <2>2
    <2>4. blocks \in [1 .. 36 -> Seq(S)]
      <3>1. ASSUME NEW n \in 1 .. 36
            PROVE  (IF In(n - 1, nb) THEN <<<<nb, n - 1>>>> ELSE << >>) \in Seq(S)
        <4> DEFINE c == <<nb, n - 1>>
        <4>1. c \in S
          BY <2>1
        <4> HIDE DEF c, S
        <4>2. <<c>> \in Seq(S) /\ << >> \in Seq(S)
          BY <4>1
        <4>3. QED
          BY <4>2 DEF c
      <3> HIDE DEF S, In
      <3>2. QED
        BY <2>3, <3>1
    <2>5. last \in Seq(S)
      <3> DEFINE c == <<tail, (main * nb) \div tail>>
      <3>1. c \in S
        BY <2>1, <2>3
      <3> HIDE DEF c, S
      <3>2. <<c>> \in Seq(S) /\ << >> \in Seq(S)
        BY <3>1
      <3>3. QED
        BY <3>2 DEF c
    <2> HIDE DEF blocks, last, S
    <2>6. blocks \in Seq(Seq(S))
      BY <2>4, ListIs
    <2>7. FlattenSeq(blocks) \in Seq(S)
      BY <2>6, FlattenIs
    <2>8. FlattenSeq(blocks) \o last \in Seq(S)
      BY <2>5, <2>7
    <2>9. QED
      BY <1>1, <1>3, <2>8 DEF S
  <1>4. CASE ~OProjMixed(op)
    <2>1. nb = 256 /\ OProjHas(op) = Nat
      BY <1>4 DEF OProjNb, OProjHas
    <2>2. Start(out, 1) \in Nat /\ Stop(out, 1) \in Nat /\ Stop(out, 1) >= Start(out, 1)
      <3> HIDE DEF out
      <3>1. 1 \in 1 .. 4
        OBVIOUS
      <3>2. QED
        BY <1>2, <3>1, TensorIs
    <2> DEFINE s == Start(out, 1)
               e == Stop(out, 1)
    <2>3. s \div 256 \in Nat /\ e \div 256 \in Nat /\ s \div 256 <= e \div 256
      <3> HIDE DEF s, e
      <3>1. s \in Nat /\ e \in Nat /\ s <= e
        BY <2>2 DEF s, e
      <3>2. QED
        BY <3>1
    <2>4. count \in Nat /\ count = (e \div 256) - (s \div 256)
      <3>1. count = (e \div 256) - (s \div 256)
        BY <2>1
      <3> DEFINE x == s \div 256
                 y == e \div 256
      <3> HIDE DEF x, y, count
      <3>2. count = y - x /\ x \in Nat /\ y \in Nat /\ x <= y
        BY <2>3, <3>1 DEF x, y
      <3>3. QED
        BY <3>2 DEF x, y
    <2>5. \A n \in 1 .. count : <<nb, (s \div nb) + n - 1>> \in S
      <3> TAKE n \in 1 .. count
      <3> DEFINE x == s \div nb
      <3>1. x \in Nat /\ nb \in Nat
        BY <2>1, <2>3
      <3> HIDE DEF x, count, nb
      <3>2. x + n - 1 \in Nat
        BY <2>4, <3>1
      <3>3. QED
        BY <2>1, <3>1, <3>2 DEF x
    <2> HIDE DEF S, count
    <2>6. whole \in [1 .. count -> S]
      BY <2>5
    <2> HIDE DEF whole
    <2>7. whole \in Seq(S)
      BY <2>4, <2>6, ListIs
    <2>8. QED
      BY <1>1, <1>4, <2>7 DEF S
  <1>5. QED
    BY <1>3, <1>4

\* A layer, a row block and one of those columns.
LEMMA OProjLists ==
  ASSUME NEW op, op.type \in OProjTypes, IsOp(op), Valid(op), Plain(op)
  PROVE  Blocks(op) \in Seq({Start(op.src[3], 3)} \X Nat \X OProjHas(op))
  <1> DEFINE out  == op.dst[1]
             rows == OProjRows(op)
             m0   == Start(out, 2) \div rows
             cols == OProjColumns(op)
             c    == (Stop(out, 2) \div rows) - m0
             at   == Counters(<<c, Len(cols)>>)
             layer == Start(op.src[3], 3)
             list == [i \in DOMAIN at |-> <<layer, m0 + at[i][1], cols[at[i][2] + 1][2]>>]
             S    == {layer} \X Nat \X OProjHas(op)
             gran == <<rows, CHUNK_COLS>>
  <1>1. Blocks(op) = Twice(list)
    BY OProjIs DEF OProjBlocks
  <1>2. cols \in Seq(Nat \X OProjHas(op))
    BY OProjCols
  <1>3. rows \in Nat /\ rows > 0
    BY OProjIs
  <1>4. out \in Tensors /\ Aligned(out, gran)
    BY OProjWide
  <1>5. gran \in Seq(Nat) /\ Len(gran) = 2 /\ gran[1] = rows
    BY <1>3 DEF CHUNK_COLS
  <1> HIDE DEF gran, out, rows, cols
  <1>6. c \in Nat /\ m0 \in Nat
    <2>1. 2 \in 1 .. 4 /\ 2 <= Len(gran) /\ Len(gran) + 1 - 2 = 1
      BY <1>5
    <2>2. c = Extent(out, 2) \div rows /\ Extent(out, 2) \div rows \in Nat
      BY <1>3, <1>4, <1>5, <2>1, AlignedIs
    <2>3. Start(out, 2) \in Nat
      BY <1>4, <2>1, TensorIs
    <2>4. QED
      BY <1>3, <2>2, <2>3, Quotient
  <1>7. Len(cols) \in Nat
    BY <1>2
  <1> DEFINE b == Len(cols)
  <1> HIDE DEF c, m0, b
  <1>8. DOMAIN at = 1 .. c * b /\ c * b \in Nat
    <2>1. b \in Nat
      BY <1>7 DEF b
    <2>2. Numel(<<c, b>>) = c * b /\ <<c, b>> \in Seq(Nat) /\ c * b \in Nat
      BY <1>6, <2>1, Numel2, Times
    <2>3. QED
      BY <2>2, CountersIs DEF b
  <1>9. ASSUME NEW i \in 1 .. c * b
        PROVE  <<layer, m0 + at[i][1], cols[at[i][2] + 1][2]>> \in S
    <2>1. b \in Nat
      BY <1>7 DEF b
    <2>2. at[i][1] \in 0 .. c - 1 /\ at[i][2] \in 0 .. b - 1
      BY <1>6, <2>1, Counters2 DEF b
    <2> DEFINE x == at[i][1]
               y == at[i][2]
    <2> HIDE DEF x, y, at
    <2>3. x \in 0 .. c - 1 /\ y + 1 \in 1 .. b
      BY <2>1, <2>2 DEF x, y
    <2>4. m0 + x \in Nat
      BY <1>6, <2>3
    <2>5. cols[y + 1] \in Nat \X OProjHas(op)
      BY <1>2, <2>3 DEF b
    <2>6. cols[y + 1][2] \in OProjHas(op)
      BY <2>5
    <2>7. QED
      BY <2>4, <2>6 DEF x, y
  <1> HIDE DEF at, S
  <1>10. list \in [1 .. c * b -> S]
    BY <1>8, <1>9
  <1> HIDE DEF list
  <1>11. list \in Seq(S)
    BY <1>8, <1>10, ListIs
  <1>12. Twice(list) \in Seq(S)
    BY <1>11, TwiceHolds
  <1>13. QED
    BY <1>1, <1>12 DEF S

\* Different instructions have different rows or different columns.
OProjWidthOf(op, n) == IF OProjMixed(op) /\ n = 63 THEN 128 ELSE OProjNb(op)

LEMMA OProjColumnsApart ==
  ASSUME NEW op, NEW i \in OProjHas(op), NEW j \in OProjHas(op)
  PROVE  LET a == Tile(i, OProjWidthOf(op, i))
             b == Tile(j, OProjWidthOf(op, j))
         IN a \in Interval /\ b \in Interval /\ (i # j => ~InCommon(a, b))
  <1>1. CASE OProjMixed(op)
    <2>1. \A n \in OProjHas(op) : OProjWidthOf(op, n) = IF n = 63 THEN 128 ELSE 224
      BY <1>1 DEF OProjWidthOf, OProjNb, MIXED_NB
    <2>2. \A n \in OProjHas(op) : n \in (0 .. 35) \cup {63}
      BY <1>1 DEF OProjHas
    <2>3. QED
      BY <2>1, <2>2 DEF Tile, Interval, InCommon
  <1>2. CASE ~OProjMixed(op)
    <2>1. OProjWidthOf(op, i) = 256 /\ OProjWidthOf(op, j) = 256
      BY <1>2 DEF OProjWidthOf, OProjNb
    <2>2. i \in Nat /\ j \in Nat
      BY <1>2 DEF OProjHas
    <2>3. QED
      BY <2>1, <2>2, TilesApart
  <1>3. QED
    BY <1>1, <1>2

\* Both regions are the one box of those rows and columns.
LEMMA OProjBoxes ==
  ASSUME NEW op, op.type \in OProjTypes, IsOp(op), Valid(op), Plain(op),
         NEW index \in {Start(op.src[3], 3)} \X Nat \X OProjHas(op)
  PROVE  LET box == <<Tile(index[2], OProjRows(op)), Tile(index[3], OProjWidthOf(op, index[3]))>>
         IN Regions(op, index).src[1] = <<box>> /\ Regions(op, index).dst[1] = <<box>>
  <1> DEFINE out  == op.dst[1]
             nb   == OProjNb(op)
             main == Dim(out, 1) \div nb
             tail == Dim(out, 1) - main * nb
             box  == <<Tile(index[2], OProjRows(op)), Tile(index[3], OProjWidth(op, index))>>
  <1>1. Regions(op, index) = OProjRegions(op, index)
    BY OProjIs
  <1>2. OProjRegions(op, index).src[1] = <<box>> /\ OProjRegions(op, index).dst[1] = <<box>>
    BY DEF OProjRegions
  <1>3. OProjWidth(op, index) = OProjWidthOf(op, index[3])
    <2>1. OProjWidth(op, index) =
            IF OProjMixed(op) /\ tail > 0 /\ index[3] = (main * nb) \div tail THEN 128 ELSE nb
      BY DEF OProjWidth, TAIL_NB
    <2>2. CASE OProjMixed(op)
      <3>1. Dim(out, 1) = 8192 /\ nb = 224
        <4>1. Dim(out, 1) = 8192
          BY <2>2, OProjDims
        <4>2. QED
          BY <2>2, <4>1 DEF OProjNb, MIXED_NB
      <3>2. main = 36 /\ tail = 128 /\ (main * nb) \div tail = 63
        BY <3>1
      <3>3. QED
        BY <2>1, <2>2, <3>2 DEF OProjWidthOf
    <2>3. CASE ~OProjMixed(op)
      BY <2>1, <2>3 DEF OProjWidthOf
    <2>4. QED
      BY <2>2, <2>3
  <1>4. QED
    BY <1>1, <1>2, <1>3

\* No two boxes meet.
LEMMA OProjApart ==
  ASSUME NEW op, op.type \in OProjTypes, IsOp(op), Valid(op), Plain(op)
  PROVE  ApartIn(op)
  <1> DEFINE S == {Start(op.src[3], 3)} \X Nat \X OProjHas(op)
             BoxOf(index) ==
               <<Tile(index[2], OProjRows(op)), Tile(index[3], OProjWidthOf(op, index[3]))>>
  <1>1. \A i \in DOMAIN Blocks(op) : Blocks(op)[i] \in S
    <2>1. Blocks(op) \in Seq(S)
      BY OProjLists
    <2> HIDE DEF S
    <2>2. QED
      BY <2>1
  <1>2. Inplace(op) = {<<1, 1>>} /\ OProjRows(op) \in Nat /\ OProjRows(op) > 0
    BY OProjIs
  <1> SUFFICES ASSUME NEW i \in DOMAIN Blocks(op), NEW j \in DOMAIN Blocks(op),
                      NEW pair \in Inplace(op), Blocks(op)[i] # Blocks(op)[j],
                      NEW a \in ToSet(Regions(op, Blocks(op)[i]).dst[pair[1]]),
                      NEW b \in ToSet(Regions(op, Blocks(op)[j]).src[pair[2]])
               PROVE  ~Overlap(a, b)
    BY DEF ApartIn
  <1> DEFINE x == Blocks(op)[i]
             y == Blocks(op)[j]
  <1>3. x \in S /\ y \in S /\ x # y
    BY <1>1
  <1>4. pair[1] = 1 /\ pair[2] = 1
    BY <1>2
  <1>5. a \in ToSet(Regions(op, x).dst[1]) /\ b \in ToSet(Regions(op, y).src[1])
    BY <1>4
  <1> HIDE DEF x, y
  <1>6. Regions(op, x).dst[1] = <<BoxOf(x)>> /\ Regions(op, y).src[1] = <<BoxOf(y)>>
    BY <1>3, OProjBoxes
  <1>7. a = BoxOf(x) /\ b = BoxOf(y)
    BY <1>5, <1>6, OnlyIs
  <1>8. x[2] # y[2] \/ x[3] # y[3]
    <2>1. x = <<x[1], x[2], x[3]>> /\ y = <<y[1], y[2], y[3]>> /\ x[1] = y[1]
      BY <1>3
    <2>2. QED
      BY <1>3, <2>1
  <1>9. x[2] \in Nat /\ y[2] \in Nat /\ x[3] \in OProjHas(op) /\ y[3] \in OProjHas(op)
    BY <1>3
  <1> DEFINE r == Tile(x[2], OProjRows(op))
             s == Tile(y[2], OProjRows(op))
             c == Tile(x[3], OProjWidthOf(op, x[3]))
             e == Tile(y[3], OProjWidthOf(op, y[3]))
  <1>10. r \in Interval /\ s \in Interval /\ (x[2] # y[2] => ~InCommon(r, s))
    BY <1>2, <1>9, TilesApart
  <1>11. c \in Interval /\ e \in Interval /\ (x[3] # y[3] => ~InCommon(c, e))
    BY <1>9, OProjColumnsApart
  <1>12. BoxOf(x) = <<r, c>> /\ BoxOf(y) = <<s, e>>
    OBVIOUS
  <1> HIDE DEF r, s, c, e, BoxOf
  <1>13. <<r, c>> \in Seq(Interval) /\ <<s, e>> \in Seq(Interval) /\ Len(<<r, c>>) = 2 /\ Len(<<s, e>>) = 2
    BY <1>10, <1>11
  <1>14. Overlap(<<r, c>>, <<s, e>>) =>
           \A d \in 1 .. 2 : InCommon(<<r, c>>[d], <<s, e>>[d])
    <2> DEFINE p == <<r, c>>
               q == <<s, e>>
    <2> HIDE DEF p, q
    <2>1. p \in Seq(Interval) /\ q \in Seq(Interval) /\ Len(p) = 2 /\ Len(q) = 2
      BY <1>13 DEF p, q
    <2>2. Overlap(p, q) => \A d \in 1 .. 2 : InCommon(p[d], q[d])
      BY <2>1, OverlapIs
    <2>3. QED
      BY <2>2 DEF p, q
  <1>15. 1 \in 1 .. 2 /\ 2 \in 1 .. 2 /\ <<r, c>>[1] = r /\ <<r, c>>[2] = c /\ <<s, e>>[1] = s /\ <<s, e>>[2] = e
    OBVIOUS
  <1>16. Overlap(<<r, c>>, <<s, e>>) => InCommon(r, s) /\ InCommon(c, e)
    BY <1>14, <1>15
  <1>17. QED
    BY <1>7, <1>8, <1>10, <1>11, <1>12, <1>16

\* What the properties say of an accepted program's ops.
LEMMA InPlaceKept == ASSUME IInv PROVE InPlaceApart
  <1>1. PICK k \in Nat : Listing(k) /\ Matching(k) /\ Validating /\ StatusSays(k)
    BY DEF IInv
  <1>2. Program
    BY DEF IInv
  <1> SUFFICES ASSUME NEW n \in Planned, NEW pair \in Inplace(ops[n]), ops[n].type # "mat_vec_adds",
                      NEW d \in Distinct(n), NEW e \in Distinct(n), d[1] # e[1],
                      NEW a \in ToSet(d[2].dst[pair[1]]), NEW b \in ToSet(e[2].src[pair[2]])
               PROVE  ~Overlap(a, b)
    BY DEF InPlaceApart
  <1> DEFINE op == ops[n]
  <1>3. status = "accepted" /\ n \in DOMAIN ops /\ entries[n] # << >> /\ Plain(op)
    BY DEF Planned, Compiled
  <1>4. k = Len(ops) /\ checked = Len(ops)
    BY <1>1, <1>3 DEF StatusSays
  <1>5. n \in 1 .. Len(ops) /\ IsOp(op)
    BY <1>2, <1>3, ProgramIs
  <1>6. Valid(op)
    BY <1>1, <1>3, <1>4, <1>5 DEF Validating
  <1>7. entries[n] = Blocks(op) /\ regions[n] = RegionsOf(op)
    BY <1>1, <1>4, <1>5 DEF Listing
  <1> HIDE DEF op
  <1>8. ASSUME NEW f \in Distinct(n)
        PROVE  \E i \in DOMAIN Blocks(op) : f[1] = Blocks(op)[i] /\ f[2] = Regions(op, Blocks(op)[i])
    <2>1. PICK i \in DOMAIN entries[n] : f = <<entries[n][i], regions[n][i]>>
      BY DEF Distinct
    <2>2. RegionsOf(op)[i] = Regions(op, Blocks(op)[i])
      BY <1>7, <2>1 DEF RegionsOf
    <2>3. QED
      BY <1>7, <2>1, <2>2
  <1>9. ApartIn(op)
    <2>1. \/ op.type = "pos_id_increment" \/ op.type \in OProjTypes
          \/ op.type = "qkv_rope_append" \/ op.type = "rms_qkv_rope_append"
      <3>1. pair \in Inplace(op) /\ op.type # "mat_vec_adds"
        BY DEF op
      <3>2. QED
        BY <3>1 DEF Inplace, OProjTypes
    <2>2. QED
      BY <1>3, <1>5, <1>6, <2>1, IncrementApart, OProjApart, QkvApart, AppendApart
  <1>10. PICK i \in DOMAIN Blocks(op) : d[1] = Blocks(op)[i] /\ d[2] = Regions(op, Blocks(op)[i])
    BY <1>8
  <1>11. PICK j \in DOMAIN Blocks(op) : e[1] = Blocks(op)[j] /\ e[2] = Regions(op, Blocks(op)[j])
    BY <1>8
  <1>12. pair \in Inplace(op)
    BY DEF op
  <1>13. QED
    BY <1>9, <1>10, <1>11, <1>12 DEF ApartIn

\* In every accepted program, of ops of any shapes and on any number of SMs,
\* no instruction of an op that works in place reads what another instruction
\* of the op overwrites (o_proj_residual.py:175-207, qkv_rope_append.py).
THEOREM InPlaceHolds == Spec => []InPlaceApart
  BY IInvHolds, InPlaceKept, PTL

====
