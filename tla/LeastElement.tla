---------------------------- MODULE LeastElement ----------------------------
(***************************************************************************)
(* Induction over numbers and finite sets in a form the provers can use:   *)
(* where there is a counterexample there is a least one.  The library's    *)
(* induction theorems take an operator for a parameter; these take a set.  *)
(***************************************************************************)
EXTENDS Integers, FiniteSetTheorems, WellFoundedInduction, TLAPS

\* Of some numbers, one is the least.
LEMMA Least ==
    ASSUME NEW T \in SUBSET Nat, T # {}
    PROVE  \E n \in T : \A m \in T : n <= m
  <1> DEFINE R == OpToRel(<, Nat)
  <1>1. IsWellFoundedOn(R, Nat)
    BY NatLessThanWellFounded
  <1>2. \A m, n \in Nat : m < n => <<m, n>> \in R
    BY DEF OpToRel
  <1> HIDE DEF R
  <1>3. PICK n \in T : \A m \in T : <<m, n>> \notin R
    BY <1>1, WFMin
  <1>4. ASSUME NEW m \in T
        PROVE  n <= m
    <2>1. m \in Nat /\ n \in Nat /\ ~(m < n)
      BY <1>2, <1>3
    <2> QED BY <2>1
  <1> QED BY <1>4

\* Of some numbers that are bounded, one is the greatest.
LEMMA Greatest ==
    ASSUME NEW b \in Nat, NEW T \in SUBSET (0 .. b), T # {}
    PROVE  \E n \in T : \A m \in T : m <= n
  <1> DEFINE U == {u \in Nat : \E t \in T : u = b - t}
  <1>1. U \in SUBSET Nat /\ U # {}
    <2>1. PICK t \in T : TRUE
      OBVIOUS
    <2>2. b - t \in U
      BY <2>1
    <2> QED BY <2>2
  <1>2. PICK u \in U : \A w \in U : u <= w
    <2> HIDE DEF U
    <2> QED BY <1>1, Least
  <1>3. PICK n \in T : u = b - n
    BY <1>2
  <1>4. ASSUME NEW m \in T
        PROVE  m <= n
    <2>1. b - m \in U
      OBVIOUS
    <2> QED BY <1>2, <1>3, <2>1
  <1> QED BY <1>4

\* What holds of 0, and of a number's successor where it holds of the number,
\* holds of them all.
LEMMA AllNumbers ==
    ASSUME NEW T \in SUBSET Nat, 0 \in T, \A n \in T : n + 1 \in T
    PROVE  T = Nat
  <1> SUFFICES ASSUME T # Nat
               PROVE  FALSE
    OBVIOUS
  <1>1. PICK n \in Nat \ T : \A m \in Nat \ T : n <= m
    BY Least
  <1>2. n - 1 \in T
    BY <1>1
  <1> QED BY <1>1, <1>2

\* What holds of nothing, and of a part and one more where it holds of the
\* part, holds of the whole of a finite set.
LEMMA AllOfFinite ==
    ASSUME NEW S, IsFiniteSet(S),
           NEW F \in SUBSET SUBSET S, {} \in F,
           \A T \in F : \A x \in S \ T : T \cup {x} \in F
    PROVE  S \in F
  <1> DEFINE N == {n \in Nat : \E T \in F : IsFiniteSet(T) /\ Cardinality(T) = n}
             k == Cardinality(S)
  <1>1. k \in Nat /\ \A T \in SUBSET S : /\ IsFiniteSet(T)
                                         /\ Cardinality(T) \in Nat
                                         /\ Cardinality(T) <= k
                                         /\ Cardinality(T) = k => T = S
    BY FS_Subset, FS_CardinalityType
  <1>2. N \in SUBSET (0 .. k) /\ N # {}
    <2>1. 0 \in N
      BY FS_EmptySet
    <2> QED BY <1>1, <2>1
  <1>3. PICK n \in N : \A m \in N : m <= n
    <2> HIDE DEF N, k
    <2> QED BY <1>1, <1>2, Greatest
  <1>4. PICK T \in F : IsFiniteSet(T) /\ Cardinality(T) = n
    BY <1>3
  <1>5. S \subseteq T
    <2> SUFFICES ASSUME NEW x \in S, x \notin T
                 PROVE  FALSE
      OBVIOUS
    <2>1. T \cup {x} \in F
      BY <1>4
    <2>2. IsFiniteSet(T \cup {x}) /\ Cardinality(T \cup {x}) = n + 1
      BY <1>4, FS_AddElement
    <2>3. n + 1 \in N
      BY <2>1, <2>2, <1>2
    <2> QED BY <1>2, <1>3, <2>3
  <1>6. T = S
    BY <1>4, <1>5
  <1> QED BY <1>4, <1>6

-----------------------------------------------------------------------------
\* A finite set has a last element in any order that leaves no two of its
\* elements unrelated.
LEMMA LastInOrder ==
    ASSUME NEW S, IsFiniteSet(S), S # {}, NEW R,
           \A x, y \in S : <<x, y>> \in R \/ <<y, x>> \in R,
           \A x, y, z \in S : <<x, y>> \in R /\ <<y, z>> \in R => <<x, z>> \in R
    PROVE  \E x \in S : \A y \in S : <<y, x>> \in R
  <1> DEFINE F == {T \in SUBSET S : T = {} \/ \E x \in T : \A y \in T : <<y, x>> \in R}
  <1>1. F \in SUBSET SUBSET S /\ {} \in F
    OBVIOUS
  <1>2. ASSUME NEW T \in F, NEW z \in S \ T
        PROVE  T \cup {z} \in F
    <2>1. CASE T = {}
      <3>1. T \cup {z} = {z} /\ <<z, z>> \in R
        BY <2>1
      <3> QED BY <3>1
    <2>2. CASE T # {}
      <3>1. PICK x \in T : \A y \in T : <<y, x>> \in R
        BY <2>2
      <3>2. T \subseteq S /\ x \in S /\ T \cup {z} \in SUBSET S
        OBVIOUS
      <3>3. CASE <<z, x>> \in R
        BY <3>1, <3>2, <3>3
      <3>4. CASE <<x, z>> \in R
        <4>1. \A y \in T \cup {z} : <<y, z>> \in R
          BY <3>1, <3>2, <3>4
        <4> QED BY <3>2, <4>1
      <3> QED BY <3>2, <3>3, <3>4
    <2> QED BY <2>1, <2>2
  <1>3. S \in F
    <2> HIDE DEF F
    <2> QED BY <1>1, <1>2, AllOfFinite
  <1> QED BY <1>3

\* A finite sequence can be sorted: its indices can be put in any such order.
LEMMA Sortable ==
    ASSUME NEW n \in Nat, NEW R,
           \A x, y \in 1 .. n : <<x, y>> \in R \/ <<y, x>> \in R,
           \A x, y, z \in 1 .. n : <<x, y>> \in R /\ <<y, z>> \in R => <<x, z>> \in R
    PROVE  \E p \in [1 .. n -> 1 .. n] :
              \A i, j \in 1 .. n : i < j => p[i] # p[j] /\ <<p[i], p[j]>> \in R
  <1> DEFINE InOrder(m, q) ==
                \A i, j \in 1 .. m : i < j => q[i] # q[j] /\ <<q[i], q[j]>> \in R
             G == {m \in Nat : \A T \in SUBSET (1 .. n) : Cardinality(T) = m =>
                                  \E q \in [1 .. m -> T] : InOrder(m, q)}
  <1>0. \A T \in SUBSET (1 .. n) : IsFiniteSet(T)
    <2>1. IsFiniteSet(1 .. n)
      BY FS_Interval
    <2> QED BY <2>1, FS_Subset
  <1>1. 0 \in G
    <2> SUFFICES ASSUME NEW T \in SUBSET (1 .. n)
                 PROVE  \E q \in [1 .. 0 -> T] : InOrder(0, q)
      OBVIOUS
    <2>1. [i \in 1 .. 0 |-> 0] \in [1 .. 0 -> T] /\ InOrder(0, [i \in 1 .. 0 |-> 0])
      OBVIOUS
    <2> QED BY <2>1
  <1>2. ASSUME NEW m \in G
        PROVE  m + 1 \in G
    <2> SUFFICES ASSUME NEW T \in SUBSET (1 .. n), Cardinality(T) = m + 1
                 PROVE  \E q \in [1 .. m + 1 -> T] : InOrder(m + 1, q)
      OBVIOUS
    <2>1. m \in Nat /\ IsFiniteSet(T) /\ T # {}
      BY <1>0, FS_EmptySet
    <2>2. PICK x \in T : \A y \in T : <<y, x>> \in R
      BY <2>1, LastInOrder
    <2>3. Cardinality(T \ {x}) = m /\ T \ {x} \in SUBSET (1 .. n)
      BY <2>1, FS_RemoveElement, SMTT(30)
    <2>4. PICK q \in [1 .. m -> T \ {x}] : InOrder(m, q)
      BY <2>3
    <2> DEFINE r == [i \in 1 .. m + 1 |-> IF i = m + 1 THEN x ELSE q[i]]
    <2>5. r \in [1 .. m + 1 -> T]
      BY <2>1, <2>4
    <2>6. ASSUME NEW i \in 1 .. m + 1, NEW j \in 1 .. m + 1, i < j
          PROVE  r[i] # r[j] /\ <<r[i], r[j]>> \in R
      <3>1. i \in 1 .. m /\ r[i] = q[i] /\ q[i] \in T /\ q[i] # x
        BY <2>1, <2>4, <2>6
      <3>2. CASE j = m + 1
        BY <2>2, <3>1, <3>2
      <3>3. CASE j # m + 1
        <4>1. j \in 1 .. m /\ r[j] = q[j]
          BY <2>1, <3>3
        <4> QED BY <2>4, <2>6, <3>1, <4>1
      <3> QED BY <3>2, <3>3
    <2> QED BY <2>5, <2>6
  <1>3. G = Nat
    <2>1. G \in SUBSET Nat
      OBVIOUS
    <2> HIDE DEF G
    <2> QED BY <1>1, <1>2, <2>1, AllNumbers
  <1>4. Cardinality(1 .. n) = n
    BY FS_Interval
  <1>5. n \in G
    BY <1>3
  <1>6. \E q \in [1 .. n -> 1 .. n] : InOrder(n, q)
    <2>1. \A T \in SUBSET (1 .. n) : Cardinality(T) = n =>
             \E q \in [1 .. n -> T] : InOrder(n, q)
      BY <1>5
    <2>2. 1 .. n \in SUBSET (1 .. n)
      OBVIOUS
    <2> HIDE DEF InOrder
    <2> QED BY <1>4, <2>1, <2>2
  <1> QED BY <1>6

\* Without repetition as many as there are in a set are all there are.
LEMMA ListsAll ==
    ASSUME NEW S, IsFiniteSet(S), NEW n \in Nat, n = Cardinality(S), NEW f \in [1 .. n -> S],
           \A i, j \in 1 .. n : i # j => f[i] # f[j]
    PROVE  \A x \in S : \E i \in 1 .. n : x = f[i]
  <1> DEFINE D == 1 .. n
  <1>1. Cardinality(D) = Cardinality(S)
    BY FS_Interval
  <1>2. f \in Injection(D, S)
    BY DEF Injection, IsInjective
  <1>3. f \in Surjection(D, S)
    BY <1>1, <1>2, FS_Injection
  <1> QED BY <1>3 DEF Surjection

=============================================================================
