---------------------------- MODULE LibraryProofs ----------------------------
(***************************************************************************)
(* Facts about the two libraries every contract uses: what the conversions  *)
(* of PreciseUnitMath bound, for every precise unit, and what the array     *)
(* operations of AddressArrayUtils preserve when an array holds nothing     *)
(* twice.  And facts about the sums the specifications are written with.    *)
(***************************************************************************)
EXTENDS PreciseUnitMath, AddressArrayUtils, FiniteSets, Functions, FiniteSetTheorems,
        WellFoundedInduction, TLAPS

-----------------------------------------------------------------------------
(* Floor division *)

\* The floor division as a pair of bounds.
LEMMA FloorBounds ==
    ASSUME NEW a \in Int, NEW b \in Nat \ {0}
    PROVE  /\ a \div b \in Int
           /\ b * (a \div b) <= a
           /\ a < b * (a \div b) + b
  OBVIOUS

\* The floor division keeps the sign.
LEMMA FloorSign ==
    ASSUME NEW a \in Int, NEW b \in Nat \ {0}
    PROVE  /\ a >= 0 => a \div b >= 0
           /\ a = 0 => a \div b = 0
           /\ a < 0 => a \div b < 0
  OBVIOUS

\* An integer below the exact quotient is below the floor.
LEMMA FloorIsGreatest ==
    ASSUME NEW a \in Int, NEW b \in Nat \ {0}, NEW q \in Int, b * q <= a
    PROVE  q <= a \div b
  OBVIOUS

\* PreciseUnitMath.divDown rounds toward minus infinity, also below zero, where
\* Solidity's division does not.
THEOREM DivDownIsFloor ==
    ASSUME NEW a \in Int, NEW b \in Nat \ {0}
    PROVE  divDown(a, b) = a \div b
<1>1. CASE a >= 0
  BY <1>1 DEF divDown, truncDiv
<1>2. CASE a < 0 /\ a % b = 0
  <2>1. a = b * (a \div b)
    BY <1>2
  <2>2. (-a) \div b = -(a \div b)
    BY <2>1
  <2> QED  BY <1>2, <2>2 DEF divDown, truncDiv
<1>3. CASE a < 0 /\ a % b # 0
  <2>1. a > b * (a \div b)
    BY <1>3
  <2>2. (-a) \div b = -(a \div b) - 1
    BY <2>1, FloorBounds
  <2> QED  BY <1>3, <2>2 DEF divDown, truncDiv
<1> QED  BY <1>1, <1>2, <1>3

-----------------------------------------------------------------------------
(* The conversions between real and virtual units *)

LEMMA ConservativeMul ==
    ASSUME NEW a \in Int, NEW b \in Int
    PROVE  /\ conservativePreciseMul(a, b) = (a * b) \div PreciseUnit
           /\ conservativePreciseMul(a, b) \in Int
  BY DivDownIsFloor, PreciseUnitAssumption DEF conservativePreciseMul

LEMMA ConservativeDiv ==
    ASSUME NEW a \in Int, NEW b \in Nat \ {0}
    PROVE  /\ conservativePreciseDiv(a, b) = (a * PreciseUnit) \div b
           /\ conservativePreciseDiv(a, b) \in Int
<1>1. a * PreciseUnit \in Int
  BY PreciseUnitAssumption
<1> QED  BY <1>1, DivDownIsFloor DEF conservativePreciseDiv

\* A unit that is not negative is stored as one that is not negative and reads
\* back as no more than it was.
LEMMA StoredAndReadBack ==
    ASSUME NEW m \in Nat \ {0}, NEW real \in Nat
    PROVE  /\ conservativePreciseDiv(real, m) \in Nat
           /\ conservativePreciseMul(conservativePreciseDiv(real, m), m) \in Nat
           /\ conservativePreciseMul(conservativePreciseDiv(real, m), m) <= real
<1> DEFINE v == conservativePreciseDiv(real, m)
<1>1. v = (real * PreciseUnit) \div m /\ v \in Int
  BY ConservativeDiv
<1>2. real * PreciseUnit \in Nat
  BY PreciseUnitAssumption
<1>3. v \in Nat /\ m * v <= real * PreciseUnit
  BY <1>1, <1>2, FloorBounds, FloorSign
<1> HIDE DEF v
<1> DEFINE w == (v * m) \div PreciseUnit
<1>4. v * m \in Nat /\ v * m <= real * PreciseUnit
  BY <1>3
<1>5. w \in Nat /\ PreciseUnit * w <= v * m
  BY <1>4, FloorBounds, FloorSign, PreciseUnitAssumption
<1>6. conservativePreciseMul(v, m) = w
  BY <1>3, ConservativeMul
<1> HIDE DEF w
<1>7. PreciseUnit * w <= PreciseUnit * real
  BY <1>2, <1>4, <1>5, PreciseUnitAssumption
<1>8. w <= real
  BY <1>5, <1>7, PreciseUnitAssumption
<1> QED  BY <1>3, <1>5, <1>6, <1>8 DEF v

-----------------------------------------------------------------------------
(* Arrays *)

LEMMA DomainIsRange ==
    ASSUME NEW S, NEW A \in Seq(S)
    PROVE  /\ Len(A) \in Nat
           /\ DOMAIN A = 1 .. Len(A)
           /\ \A i \in 1 .. Len(A) : A[i] \in S
  OBVIOUS

\* Without duplicates the first index of an element is its only one.
LEMMA IndexOfElement ==
    ASSUME NEW S, NEW A \in Seq(S), ~hasDuplicate(A), NEW a, contains(A, a)
    PROVE  indexOf(A, a) \in 1 .. Len(A) /\ A[indexOf(A, a)] = a
<1> DEFINE Least(i) == A[i] = a /\ \A j \in DOMAIN A : A[j] = a => i <= j
<1>1. PICK i \in DOMAIN A : A[i] = a
  BY DEF contains
<1>2. Least(i)
  BY <1>1, DomainIsRange DEF hasDuplicate
<1>3. indexOf(A, a) \in DOMAIN A /\ Least(indexOf(A, a))
  BY <1>1, <1>2 DEF indexOf
<1> QED  BY <1>3, DomainIsRange

\* push of an address that is not in the array (addComponent,
\* addExternalPositionModule, initializeModule).
LEMMA AppendNew ==
    ASSUME NEW S, NEW A \in Seq(S), ~hasDuplicate(A), NEW a \in S, ~contains(A, a)
    PROVE  /\ Append(A, a) \in Seq(S)
           /\ ~hasDuplicate(Append(A, a))
           /\ \A x : contains(Append(A, a), x) <=> contains(A, x) \/ x = a
<1> DEFINE B == Append(A, a)
<1>1. /\ B \in Seq(S) /\ Len(B) = Len(A) + 1
      /\ DOMAIN B = 1 .. Len(A) + 1
      /\ \A i \in 1 .. Len(A) : B[i] = A[i]
      /\ B[Len(A) + 1] = a
  OBVIOUS
<1>2. DOMAIN A = 1 .. Len(A) /\ Len(A) \in Nat
  BY DomainIsRange
<1> HIDE DEF B
<1>3. ~hasDuplicate(B)
  BY <1>1, <1>2 DEF hasDuplicate, contains
<1>4. ASSUME NEW x PROVE contains(B, x) <=> contains(A, x) \/ x = a
  BY <1>1, <1>2 DEF contains
<1> QED  BY <1>1, <1>3, <1>4 DEF B

\* removeStorage puts the last address in the place of the removed one.
LEMMA RemoveStorage ==
    ASSUME NEW S, NEW A \in Seq(S), ~hasDuplicate(A), NEW a, contains(A, a)
    PROVE  /\ removeStorage(A, a) \in Seq(S)
           /\ Len(removeStorage(A, a)) = Len(A) - 1
           /\ ~hasDuplicate(removeStorage(A, a))
           /\ \A x : contains(removeStorage(A, a), x) <=> contains(A, x) /\ x # a
<1> DEFINE n == Len(A)
           k == indexOf(A, a)
           B == removeStorage(A, a)
<1>1. /\ n \in Nat /\ DOMAIN A = 1 .. n
      /\ \A i \in 1 .. n : A[i] \in S
      /\ k \in 1 .. n /\ A[k] = a
  BY DomainIsRange, IndexOfElement
<1>2. B = [i \in 1 .. n - 1 |-> IF i = k THEN A[n] ELSE A[i]]
  BY DEF removeStorage
<1> HIDE DEF n, k, B
<1>3. /\ B \in Seq(S) /\ Len(B) = n - 1 /\ DOMAIN B = 1 .. n - 1
      /\ \A i \in 1 .. n - 1 : B[i] = IF i = k THEN A[n] ELSE A[i]
  BY <1>1, <1>2
<1>4. \A i, j \in 1 .. n : i # j => A[i] # A[j]
  BY <1>1 DEF hasDuplicate
<1>5. ~hasDuplicate(B)
  BY <1>1, <1>3, <1>4 DEF hasDuplicate
<1>6. ASSUME NEW x PROVE contains(B, x) <=> contains(A, x) /\ x # a
  <2>1. ASSUME contains(B, x) PROVE contains(A, x) /\ x # a
    BY <2>1, <1>1, <1>3, <1>4 DEF contains
  <2>2. ASSUME contains(A, x), x # a PROVE contains(B, x)
    <3>1. PICK i \in 1 .. n : A[i] = x
      BY <2>2, <1>1 DEF contains
    <3>2. i # k
      BY <3>1, <2>2, <1>1
    <3>3. CASE i = n
      BY <3>1, <3>2, <3>3, <1>1, <1>3 DEF contains
    <3>4. CASE i # n
      BY <3>1, <3>2, <3>4, <1>1, <1>3 DEF contains
    <3> QED  BY <3>3, <3>4
  <2> QED  BY <2>1, <2>2
<1> QED  BY <1>3, <1>5, <1>6 DEF B, n

\* remove, on memory arrays, keeps the order.
LEMMA RemoveMemory ==
    ASSUME NEW S, NEW A \in Seq(S), ~hasDuplicate(A), NEW a, contains(A, a)
    PROVE  /\ remove(A, a) \in Seq(S)
           /\ ~hasDuplicate(remove(A, a))
           /\ \A x : contains(remove(A, a), x) <=> contains(A, x) /\ x # a
<1> DEFINE n == Len(A)
           k == indexOf(A, a)
           B == remove(A, a)
<1>1. /\ n \in Nat /\ DOMAIN A = 1 .. n
      /\ \A i \in 1 .. n : A[i] \in S
      /\ k \in 1 .. n /\ A[k] = a
  BY DomainIsRange, IndexOfElement
<1>2. B = [i \in 1 .. n - 1 |-> IF i < k THEN A[i] ELSE A[i + 1]]
  BY DEF remove
<1> HIDE DEF n, k, B
<1>3. /\ B \in Seq(S) /\ Len(B) = n - 1 /\ DOMAIN B = 1 .. n - 1
      /\ \A i \in 1 .. n - 1 : B[i] = IF i < k THEN A[i] ELSE A[i + 1]
  BY <1>1, <1>2
<1>4. \A i, j \in 1 .. n : i # j => A[i] # A[j]
  BY <1>1 DEF hasDuplicate
<1>5. ~hasDuplicate(B)
  BY <1>1, <1>3, <1>4 DEF hasDuplicate
<1>6. ASSUME NEW x PROVE contains(B, x) <=> contains(A, x) /\ x # a
  <2>1. ASSUME contains(B, x) PROVE contains(A, x) /\ x # a
    <3>1. PICK i \in 1 .. n - 1 : B[i] = x
      BY <2>1, <1>3 DEF contains
    <3>2. \E j \in 1 .. n : j # k /\ A[j] = x
      <4>1. CASE i < k
        BY <3>1, <4>1, <1>1, <1>3
      <4>2. CASE ~(i < k)
        <5>1. i + 1 \in 1 .. n /\ i + 1 # k
          BY <4>2, <1>1
        <5> QED  BY <3>1, <4>2, <5>1, <1>3
      <4> QED  BY <4>1, <4>2
    <3> QED  BY <3>2, <1>1, <1>4 DEF contains
  <2>2. ASSUME contains(A, x), x # a PROVE contains(B, x)
    <3>1. PICK i \in 1 .. n : A[i] = x
      BY <2>2, <1>1 DEF contains
    <3>2. i # k
      BY <3>1, <2>2, <1>1
    <3>3. CASE i < k
      BY <3>1, <3>3, <1>1, <1>3 DEF contains
    <3>4. CASE i > k
      <4>1. i - 1 \in 1 .. n - 1 /\ ~(i - 1 < k) /\ i - 1 + 1 = i
        BY <3>4, <1>1
      <4> QED  BY <3>1, <4>1, <1>3 DEF contains
    <3> QED  BY <3>2, <3>3, <3>4, <1>1
  <2> QED  BY <2>1, <2>2
<1> QED  BY <1>3, <1>5, <1>6 DEF B

-----------------------------------------------------------------------------
(* Sums over a finite set: SumFunctionOnSet of the community modules takes  *)
(* the elements out in an order of its choice.                              *)

\* Induction over the subsets of a finite set, one element at a time.
LEMMA SubsetInduction ==
    ASSUME NEW S, IsFiniteSet(S), NEW Q,
           \A T \in SUBSET S : (\A x \in T : T \ {x} \in Q) => T \in Q
    PROVE  \A T \in SUBSET S : T \in Q
<1> DEFINE B == {T \in SUBSET S : T \notin Q}
<1> SUFFICES ASSUME B # {} PROVE FALSE
  OBVIOUS
<1>1. IsWellFoundedOn(StrictSubsetOrdering(S), SUBSET S)
  <2>1. FiniteSubsetsOf(S) = SUBSET S
    BY FS_FiniteSubsetsOfFinite
  <2>2. IsWellFoundedOn(StrictSubsetOrdering(S), FiniteSubsetsOf(S))
    BY FS_StrictSubsetOrderingWellFounded
  <2> QED  BY <2>1, <2>2
<1>2. PICK T \in B : \A U \in B : ~(<<U, T>> \in StrictSubsetOrdering(S))
  BY <1>1, WFMin
<1>3. ASSUME NEW x \in T PROVE T \ {x} \in Q
  <2>1. <<T \ {x}, T>> \in StrictSubsetOrdering(S)
    BY DEF StrictSubsetOrdering
  <2> QED  BY <1>2, <2>1
<1> QED  BY <1>2, <1>3

Chosen(s) == CHOOSE x \in s : TRUE

\* The recursion behind SumFunctionOnSet.
Sums(f, S, sum) ==
    sum = [s \in SUBSET S |-> IF s = {} THEN 0 ELSE f[Chosen(s)] + sum[s \ {Chosen(s)}]]

LEMMA SumIsSums ==
    ASSUME NEW f, NEW S
    PROVE  SumFunctionOnSet(f, S) = (CHOOSE sum : Sums(f, S, sum))[S]
BY DEF SumFunctionOnSet, FoldFunctionOnSet, MapThenFoldSet, Sums, Chosen

LEMMA ChosenInSet ==
    ASSUME NEW S, S # {}
    PROVE  Chosen(S) \in S
BY DEF Chosen

\* It has one solution,
LEMMA SumsUnique ==
    ASSUME NEW f, NEW S, NEW T, IsFiniteSet(S), NEW g, NEW h, Sums(f, S, g), Sums(f, T, h)
    PROVE  \A U \in SUBSET (S \intersect T) : g[U] = h[U]
<1> DEFINE Q == {U \in SUBSET (S \intersect T) : g[U] = h[U]}
<1>1. IsFiniteSet(S \intersect T)
  BY FS_Subset
<1>2. ASSUME NEW U \in SUBSET (S \intersect T), \A x \in U : U \ {x} \in Q
      PROVE  U \in Q
  <2>1. CASE U = {}
    BY <2>1 DEF Sums
  <2>2. CASE U # {}
    <3>1. Chosen(U) \in U
      BY <2>2, ChosenInSet
    <3>2. g[U] = f[Chosen(U)] + g[U \ {Chosen(U)}] /\ h[U] = f[Chosen(U)] + h[U \ {Chosen(U)}]
      BY <2>2 DEF Sums
    <3> QED  BY <1>2, <3>1, <3>2
  <2> QED  BY <2>1, <2>2
<1> HIDE DEF Q
<1>3. \A U \in SUBSET (S \intersect T) : U \in Q
  BY <1>1, <1>2, SubsetInduction
<1> QED  BY <1>3 DEF Q

\* and a solution on every finite set.
LEMMA SumsExist ==
    ASSUME NEW f, NEW S, IsFiniteSet(S)
    PROVE  \E g : Sums(f, S, g)
<1> DEFINE Q == {T \in SUBSET S : \E g : Sums(f, T, g)}
<1>1. ASSUME NEW T \in SUBSET S, \A x \in T : T \ {x} \in Q
      PROVE  T \in Q
  <2> DEFINE at(U) == CHOOSE v : \E g : Sums(f, U, g) /\ v = g[U]
             sum == [U \in SUBSET T |->
                       IF U = {} THEN 0 ELSE f[Chosen(U)] + at(U \ {Chosen(U)})]
  <2>1. ASSUME NEW x \in T, NEW g, Sums(f, T \ {x}, g), NEW U \in SUBSET (T \ {x})
        PROVE  at(U) = g[U]
    <3> DEFINE h == [V \in SUBSET U |-> g[V]]
    <3>1. Sums(f, U, h)
      <4>1. \A V \in SUBSET U : V # {} => V \ {Chosen(V)} \in SUBSET U
        OBVIOUS
      <4>2. \A V \in SUBSET U : g[V] = IF V = {} THEN 0 ELSE f[Chosen(V)] + g[V \ {Chosen(V)}]
        BY <2>1 DEF Sums
      <4>3. \A V \in SUBSET U : h[V] = IF V = {} THEN 0 ELSE f[Chosen(V)] + h[V \ {Chosen(V)}]
        BY <4>1, <4>2
      <4> HIDE DEF h
      <4>4. h = [V \in SUBSET U |-> h[V]]
        BY DEF h
      <4> QED  BY <4>3, <4>4 DEF Sums
    <3>2. h[U] = g[U]
      OBVIOUS
    <3>3. \A k : Sums(f, U, k) => k[U] = h[U]
      <4>1. IsFiniteSet(U)
        BY FS_Subset
      <4> HIDE DEF h
      <4> QED  BY <3>1, <4>1, SumsUnique
    <3> HIDE DEF h
    <3>4. \E v : \E k : Sums(f, U, k) /\ v = k[U]
      BY <3>1
    <3>5. \E k : Sums(f, U, k) /\ at(U) = k[U]
      BY <3>4
    <3> QED  BY <3>2, <3>3, <3>5
  <2>2. ASSUME NEW U \in SUBSET T, U # T
        PROVE  at(U) = IF U = {} THEN 0 ELSE f[Chosen(U)] + at(U \ {Chosen(U)})
    <3>1. PICK x \in T : x \notin U
      BY <2>2
    <3>2. PICK g : Sums(f, T \ {x}, g)
      BY <1>1
    <3>3. U \in SUBSET (T \ {x}) /\ U \ {Chosen(U)} \in SUBSET (T \ {x})
      BY <3>1
    <3>4. at(U) = g[U] /\ at(U \ {Chosen(U)}) = g[U \ {Chosen(U)}]
      <4>1. \A V \in SUBSET (T \ {x}) : at(V) = g[V]
        BY <2>1, <3>1, <3>2
      <4> HIDE DEF at
      <4> QED  BY <3>3, <4>1
    <3>5. g[U] = IF U = {} THEN 0 ELSE f[Chosen(U)] + g[U \ {Chosen(U)}]
      BY <3>2, <3>3 DEF Sums
    <3> HIDE DEF at
    <3> QED  BY <3>4, <3>5
  <2> HIDE DEF at
  <2>3. ASSUME NEW U \in SUBSET T, U # {}
        PROVE  at(U \ {Chosen(U)}) = sum[U \ {Chosen(U)}]
    <3>1. Chosen(U) \in U
      BY <2>3, ChosenInSet
    <3> QED  BY <2>2, <3>1
  <2>4. Sums(f, T, sum)
    BY <2>3 DEF Sums
  <2> QED  BY <2>4
<1> HIDE DEF Q
<1>2. \A T \in SUBSET S : (\A x \in T : T \ {x} \in Q) => T \in Q
  BY <1>1
<1>3. \A T \in SUBSET S : T \in Q
  BY <1>2, SubsetInduction
<1> QED  BY <1>3 DEF Q

\* What the sum of the community modules satisfies.
LEMMA SumUnfold ==
    ASSUME NEW f, NEW S, IsFiniteSet(S)
    PROVE  SumFunctionOnSet(f, S) =
             IF S = {} THEN 0 ELSE f[Chosen(S)] + SumFunctionOnSet(f, S \ {Chosen(S)})
<1> DEFINE g == CHOOSE sum : Sums(f, S, sum)
           T == S \ {Chosen(S)}
           h == CHOOSE sum : Sums(f, T, sum)
<1>1. IsFiniteSet(T)
  BY FS_Subset
<1>2. Sums(f, S, g) /\ Sums(f, T, h)
  BY <1>1, SumsExist
<1>3. SumFunctionOnSet(f, S) = g[S] /\ SumFunctionOnSet(f, T) = h[T]
  BY SumIsSums
<1>4. T \in SUBSET (S \intersect T)
  OBVIOUS
<1>5. g[S] = IF S = {} THEN 0 ELSE f[Chosen(S)] + g[T]
  <2> HIDE DEF g, h
  <2> QED  BY <1>2 DEF Sums
<1> HIDE DEF g, h, T
<1>6. g[T] = h[T]
  BY <1>2, <1>4, SumsUnique
<1> QED  BY <1>3, <1>5, <1>6 DEF T

LEMMA SumEmpty ==
    ASSUME NEW f
    PROVE  SumFunctionOnSet(f, {}) = 0
BY SumUnfold, FS_EmptySet

LEMMA SumType ==
    ASSUME NEW S, IsFiniteSet(S), NEW f, \A x \in S : f[x] \in Int
    PROVE  \A T \in SUBSET S :
             /\ SumFunctionOnSet(f, T) \in Int
             /\ (\A x \in T : f[x] >= 0) => SumFunctionOnSet(f, T) >= 0
<1> DEFINE Good(T) == /\ SumFunctionOnSet(f, T) \in Int
                      /\ (\A x \in T : f[x] >= 0) => SumFunctionOnSet(f, T) >= 0
           Q == {T \in SUBSET S : Good(T)}
<1>1. ASSUME NEW T \in SUBSET S, \A x \in T : T \ {x} \in Q
      PROVE  T \in Q
  <2>1. IsFiniteSet(T)
    BY FS_Subset
  <2>2. CASE T = {}
    BY <2>2, SumEmpty
  <2>3. CASE T # {}
    <3>1. Chosen(T) \in T
      BY <2>3, ChosenInSet
    <3>2. Good(T \ {Chosen(T)})
      BY <1>1, <3>1
    <3>3. SumFunctionOnSet(f, T) = f[Chosen(T)] + SumFunctionOnSet(f, T \ {Chosen(T)})
      BY <2>1, <2>3, SumUnfold
    <3> QED  BY <3>1, <3>2, <3>3
  <2> QED  BY <2>2, <2>3
<1> HIDE DEF Q
<1>2. \A T \in SUBSET S : T \in Q
  BY <1>1, SubsetInduction
<1> QED  BY <1>2 DEF Q

\* Any element may be taken out first.
LEMMA SumTakeOut ==
    ASSUME NEW S, IsFiniteSet(S), NEW f, \A x \in S : f[x] \in Int
    PROVE  \A T \in SUBSET S : \A x \in T :
             SumFunctionOnSet(f, T) = f[x] + SumFunctionOnSet(f, T \ {x})
<1> DEFINE sum(T) == SumFunctionOnSet(f, T)
           Q == {T \in SUBSET S : \A x \in T : sum(T) = f[x] + sum(T \ {x})}
<1>1. ASSUME NEW T \in SUBSET S, \A x \in T : T \ {x} \in Q
      PROVE  T \in Q
  <2> SUFFICES ASSUME NEW x \in T
               PROVE  sum(T) = f[x] + sum(T \ {x})
    OBVIOUS
  <2>1. IsFiniteSet(T) /\ IsFiniteSet(T \ {x})
    BY FS_Subset
  <2> DEFINE p == Chosen(T)
  <2>2. p \in T
    BY ChosenInSet
  <2>3. sum(T) = f[p] + sum(T \ {p})
    BY <2>1, SumUnfold
  <2>4. CASE p = x
    BY <2>3, <2>4
  <2>5. CASE p # x
    <3>1. sum(T \ {p}) = f[x] + sum((T \ {p}) \ {x})
      BY <1>1, <2>2, <2>5
    <3>2. sum(T \ {x}) = f[p] + sum((T \ {x}) \ {p})
      BY <1>1, <2>2, <2>5
    <3>3. (T \ {p}) \ {x} = (T \ {x}) \ {p}
      OBVIOUS
    <3>4. f[x] \in Int /\ f[p] \in Int /\ sum((T \ {p}) \ {x}) \in Int
      <4>1. (T \ {p}) \ {x} \in SUBSET S
        OBVIOUS
      <4> HIDE DEF p
      <4> QED  BY <2>2, <4>1, SumType
    <3> DEFINE rest == sum((T \ {p}) \ {x})
    <3>5. sum(T) = f[p] + (f[x] + rest) /\ sum(T \ {x}) = f[p] + rest
      BY <2>3, <3>1, <3>2, <3>3
    <3>6. f[x] \in Int /\ f[p] \in Int /\ rest \in Int
      BY <3>4
    <3> HIDE DEF sum, p, rest
    <3> QED  BY <3>5, <3>6
  <2> QED  BY <2>4, <2>5
<1> HIDE DEF Q
<1>2. \A T \in SUBSET S : T \in Q
  BY <1>1, SubsetInduction
<1> QED  BY <1>2 DEF Q

\* A sum grows with its summands,
LEMMA SumMonotone ==
    ASSUME NEW S, IsFiniteSet(S), NEW f, NEW g,
           \A x \in S : f[x] \in Int /\ g[x] \in Int /\ f[x] <= g[x]
    PROVE  \A T \in SUBSET S : SumFunctionOnSet(f, T) <= SumFunctionOnSet(g, T)
<1> DEFINE Q == {T \in SUBSET S : SumFunctionOnSet(f, T) <= SumFunctionOnSet(g, T)}
<1>1. ASSUME NEW T \in SUBSET S, \A x \in T : T \ {x} \in Q
      PROVE  T \in Q
  <2>1. CASE T = {}
    BY <2>1, SumEmpty
  <2>2. CASE T # {}
    <3>1. PICK x \in T : TRUE
      BY <2>2
    <3>2. /\ SumFunctionOnSet(f, T) = f[x] + SumFunctionOnSet(f, T \ {x})
          /\ SumFunctionOnSet(g, T) = g[x] + SumFunctionOnSet(g, T \ {x})
      BY SumTakeOut
    <3>3. /\ SumFunctionOnSet(f, T \ {x}) \in Int /\ SumFunctionOnSet(g, T \ {x}) \in Int
          /\ SumFunctionOnSet(f, T \ {x}) <= SumFunctionOnSet(g, T \ {x})
      BY <1>1, SumType
    <3>4. f[x] \in Int /\ g[x] \in Int /\ f[x] <= g[x]
      OBVIOUS
    <3> QED  BY <3>2, <3>3, <3>4
  <2> QED  BY <2>1, <2>2
<1> HIDE DEF Q
<1>2. \A T \in SUBSET S : T \in Q
  BY <1>1, SubsetInduction
<1> QED  BY <1>2 DEF Q

\* depends on nothing else,
LEMMA SumSame ==
    ASSUME NEW S, IsFiniteSet(S), NEW f, NEW g, \A x \in S : f[x] \in Int /\ f[x] = g[x]
    PROVE  SumFunctionOnSet(f, S) = SumFunctionOnSet(g, S)
<1>1. SumFunctionOnSet(f, S) <= SumFunctionOnSet(g, S)
  BY SumMonotone
<1>2. SumFunctionOnSet(g, S) <= SumFunctionOnSet(f, S)
  BY SumMonotone
<1>3. SumFunctionOnSet(f, S) \in Int /\ SumFunctionOnSet(g, S) \in Int
  BY SumType
<1> QED  BY <1>1, <1>2, <1>3

\* changes as one summand does,
LEMMA SumChangesBy ==
    ASSUME NEW S, IsFiniteSet(S), NEW f, NEW g, NEW x \in S,
           \A y \in S : f[y] \in Int /\ g[y] \in Int,
           \A y \in S \ {x} : f[y] = g[y]
    PROVE  SumFunctionOnSet(g, S) = SumFunctionOnSet(f, S) + g[x] - f[x]
<1> DEFINE T == S \ {x}
<1>1. /\ SumFunctionOnSet(f, S) = f[x] + SumFunctionOnSet(f, T)
      /\ SumFunctionOnSet(g, S) = g[x] + SumFunctionOnSet(g, T)
  BY SumTakeOut
<1>2. SumFunctionOnSet(f, T) = SumFunctionOnSet(g, T)
  <2>1. IsFiniteSet(T) /\ \A y \in T : f[y] \in Int /\ f[y] = g[y]
    BY FS_Subset
  <2> HIDE DEF T
  <2> QED  BY <2>1, SumSame
<1>3. SumFunctionOnSet(f, T) \in Int /\ f[x] \in Int /\ g[x] \in Int
  BY SumType
<1> QED  BY <1>1, <1>2, <1>3

\* and is additive.
LEMMA SumOfSums ==
    ASSUME NEW S, IsFiniteSet(S), NEW f, NEW g, NEW h,
           \A x \in S : f[x] \in Int /\ g[x] \in Int /\ h[x] = f[x] + g[x]
    PROVE  \A T \in SUBSET S :
             SumFunctionOnSet(h, T) = SumFunctionOnSet(f, T) + SumFunctionOnSet(g, T)
<1> DEFINE Q == {T \in SUBSET S :
                   SumFunctionOnSet(h, T) = SumFunctionOnSet(f, T) + SumFunctionOnSet(g, T)}
<1>1. ASSUME NEW T \in SUBSET S, \A x \in T : T \ {x} \in Q
      PROVE  T \in Q
  <2>1. CASE T = {}
    BY <2>1, SumEmpty
  <2>2. CASE T # {}
    <3>1. PICK x \in T : TRUE
      BY <2>2
    <3>2. f[x] \in Int /\ g[x] \in Int /\ h[x] = f[x] + g[x]
      OBVIOUS
    <3>3. \A y \in S : h[y] \in Int
      OBVIOUS
    <3>4. /\ SumFunctionOnSet(f, T) = f[x] + SumFunctionOnSet(f, T \ {x})
          /\ SumFunctionOnSet(g, T) = g[x] + SumFunctionOnSet(g, T \ {x})
          /\ SumFunctionOnSet(h, T) = h[x] + SumFunctionOnSet(h, T \ {x})
      BY <3>3, SumTakeOut
    <3>5. /\ SumFunctionOnSet(f, T \ {x}) \in Int /\ SumFunctionOnSet(g, T \ {x}) \in Int
          /\ SumFunctionOnSet(h, T \ {x})
               = SumFunctionOnSet(f, T \ {x}) + SumFunctionOnSet(g, T \ {x})
      BY <1>1, SumType
    <3> QED  BY <3>2, <3>4, <3>5
  <2> QED  BY <2>1, <2>2
<1> HIDE DEF Q
<1>2. \A T \in SUBSET S : T \in Q
  BY <1>1, SubsetInduction
<1> QED  BY <1>2 DEF Q

\* A bound on every summand that is linear in two others bounds the sum.
LEMMA SumLinearBound ==
    ASSUME NEW S, IsFiniteSet(S), NEW f, NEW g, NEW h,
           NEW a \in Int, NEW b \in Int, NEW c \in Int, NEW d \in Int,
           \A x \in S : /\ f[x] \in Int /\ g[x] \in Int /\ h[x] \in Int
                        /\ a * f[x] <= b * g[x] + c * h[x] + d
    PROVE  \A T \in SUBSET S :
             a * SumFunctionOnSet(f, T)
               <= b * SumFunctionOnSet(g, T) + c * SumFunctionOnSet(h, T) + d * Cardinality(T)
<1> DEFINE F(T) == SumFunctionOnSet(f, T)
           G(T) == SumFunctionOnSet(g, T)
           H(T) == SumFunctionOnSet(h, T)
           Q == {T \in SUBSET S : a * F(T) <= b * G(T) + c * H(T) + d * Cardinality(T)}
<1>1. ASSUME NEW T \in SUBSET S, \A x \in T : T \ {x} \in Q
      PROVE  T \in Q
  <2>1. CASE T = {}
    <3>1. F(T) = 0 /\ G(T) = 0 /\ H(T) = 0 /\ Cardinality(T) = 0
      BY <2>1, SumEmpty, FS_EmptySet
    <3> QED  BY <3>1
  <2>2. CASE T # {}
    <3>1. PICK x \in T : TRUE
      BY <2>2
    <3> DEFINE U == T \ {x}
    <3>2. F(T) = f[x] + F(U) /\ G(T) = g[x] + G(U) /\ H(T) = h[x] + H(U)
      BY SumTakeOut
    <3>3. F(U) \in Int /\ G(U) \in Int /\ H(U) \in Int
      BY SumType
    <3>4. Cardinality(T) = Cardinality(U) + 1 /\ Cardinality(U) \in Nat
      <4>1. IsFiniteSet(T) /\ IsFiniteSet(U)
        BY FS_Subset
      <4> QED  BY <4>1, FS_RemoveElement, FS_CardinalityType
    <3>5. /\ f[x] \in Int /\ g[x] \in Int /\ h[x] \in Int
          /\ a * f[x] <= b * g[x] + c * h[x] + d
      OBVIOUS
    <3>6. a * F(U) <= b * G(U) + c * H(U) + d * Cardinality(U)
      BY <1>1
    <3> DEFINE n == Cardinality(U)
    <3>7. n \in Nat /\ Cardinality(T) = n + 1 /\ a * F(U) <= b * G(U) + c * H(U) + d * n
      BY <3>4, <3>6
    <3> HIDE DEF F, G, H, U, n
    <3>8. /\ a * (f[x] + F(U)) = a * f[x] + a * F(U) /\ b * (g[x] + G(U)) = b * g[x] + b * G(U)
          /\ c * (h[x] + H(U)) = c * h[x] + c * H(U) /\ d * (n + 1) = d * n + d
      BY <3>3, <3>5, <3>7
    <3>9. /\ a * f[x] \in Int /\ a * F(U) \in Int /\ b * g[x] \in Int /\ b * G(U) \in Int
          /\ c * h[x] \in Int /\ c * H(U) \in Int /\ d * n \in Int
      BY <3>3, <3>5, <3>7
    <3>10. a * F(T) <= b * G(T) + c * H(T) + d * Cardinality(T)
      BY <3>2, <3>5, <3>7, <3>8, <3>9
    <3> QED  BY <3>10
  <2> QED  BY <2>1, <2>2
<1> HIDE DEF Q
<1>2. \A T \in SUBSET S : T \in Q
  BY <1>1, SubsetInduction
<1> QED  BY <1>2 DEF Q

\* The sum over a set is that over a part of it and that over the rest.
LEMMA SumSplit ==
    ASSUME NEW S, IsFiniteSet(S), NEW f, \A x \in S : f[x] \in Int
    PROVE  \A T \in SUBSET S :
             SumFunctionOnSet(f, S) = SumFunctionOnSet(f, T) + SumFunctionOnSet(f, S \ T)
<1> DEFINE sum(T) == SumFunctionOnSet(f, T)
           Q == {T \in SUBSET S : sum(S) = sum(T) + sum(S \ T)}
<1>1. ASSUME NEW T \in SUBSET S, \A x \in T : T \ {x} \in Q
      PROVE  T \in Q
  <2>1. CASE T = {}
    <3>1. sum(T) = 0 /\ S \ T = S
      BY <2>1, SumEmpty
    <3>2. sum(S) \in Int
      BY SumType
    <3>3. sum(S \ T) = sum(S)
      BY <3>1
    <3> HIDE DEF sum
    <3>4. sum(S) = sum(T) + sum(S \ T)
      BY <3>1, <3>2, <3>3
    <3> QED  BY <3>4
  <2>2. CASE T # {}
    <3>1. PICK x \in T : TRUE
      BY <2>2
    <3> DEFINE U == T \ {x}
    <3>2. sum(S) = sum(U) + sum(S \ U)
      BY <1>1
    <3>3. sum(T) = f[x] + sum(U)
      BY SumTakeOut
    <3>4. sum(S \ U) = f[x] + sum(S \ T)
      <4>1. x \in S \ U /\ S \ U \in SUBSET S /\ (S \ U) \ {x} = S \ T
        OBVIOUS
      <4>2. sum(S \ U) = f[x] + sum((S \ U) \ {x})
        BY <4>1, SumTakeOut
      <4> QED  BY <4>1, <4>2
    <3>5. f[x] \in Int /\ sum(U) \in Int /\ sum(S \ T) \in Int
      <4>1. U \in SUBSET S /\ S \ T \in SUBSET S
        OBVIOUS
      <4> QED  BY <4>1, SumType
    <3> HIDE DEF sum, U
    <3>6. sum(S) = sum(T) + sum(S \ T)
      BY <3>2, <3>3, <3>4, <3>5
    <3> QED  BY <3>6
  <2> QED  BY <2>1, <2>2
<1> HIDE DEF Q
<1>2. \A T \in SUBSET S : T \in Q
  BY <1>1, SubsetInduction
<1> QED  BY <1>2 DEF Q

\* Zeros do not count.
LEMMA SumZero ==
    ASSUME NEW S, IsFiniteSet(S), NEW f, \A x \in S : f[x] = 0
    PROVE  SumFunctionOnSet(f, S) = 0
<1>1. \A x \in S : f[x] \in Int /\ f[x] = f[x] + f[x]
  OBVIOUS
<1> DEFINE sum == SumFunctionOnSet(f, S)
<1>2. sum = sum + sum
  BY <1>1, SumOfSums
<1>3. sum \in Int
  BY <1>1, SumType
<1> HIDE DEF sum
<1>4. sum = 0
  BY <1>2, <1>3
<1> QED  BY <1>4 DEF sum

LEMMA SumNonZero ==
    ASSUME NEW S, IsFiniteSet(S), NEW f, \A x \in S : f[x] \in Int,
           NEW T \in SUBSET S, \A x \in S \ T : f[x] = 0
    PROVE  SumFunctionOnSet(f, S) = SumFunctionOnSet(f, T)
<1>1. SumFunctionOnSet(f, S \ T) = 0
  BY SumZero, FS_Subset
<1>2. SumFunctionOnSet(f, T) \in Int
  BY SumType
<1> QED  BY <1>1, <1>2, SumSplit

LEMMA SumTakesOne ==
    ASSUME NEW S, IsFiniteSet(S), NEW f, \A x \in S : f[x] \in Int,
           NEW T \in SUBSET S, NEW x \in T
    PROVE  SumFunctionOnSet(f, T) = f[x] + SumFunctionOnSet(f, T \ {x})
BY SumTakeOut

LEMMA SumAdds ==
    ASSUME NEW S, IsFiniteSet(S), NEW f, NEW g, NEW h,
           \A x \in S : f[x] \in Int /\ g[x] \in Int /\ h[x] = f[x] + g[x]
    PROVE  SumFunctionOnSet(h, S) = SumFunctionOnSet(f, S) + SumFunctionOnSet(g, S)
BY SumOfSums

\* The sum over the rows of a table is that over its columns.
LEMMA SumExchange ==
    ASSUME NEW S, NEW R, IsFiniteSet(S), IsFiniteSet(R),
           NEW table, \A x \in S, y \in R : table[x][y] \in Int,
           NEW rows, \A x \in S : rows[x] = SumFunctionOnSet(table[x], R),
           NEW flipped, \A x \in S, y \in R : flipped[y][x] = table[x][y],
           NEW columns, \A y \in R : columns[y] = SumFunctionOnSet(flipped[y], S)
    PROVE  SumFunctionOnSet(rows, S) = SumFunctionOnSet(columns, R)
<1> DEFINE column(y) == flipped[y]
           upTo(T)   == [y \in R |-> SumFunctionOnSet(column(y), T)]
           Q == {T \in SUBSET S : SumFunctionOnSet(rows, T) = SumFunctionOnSet(upTo(T), R)}
<1>1. \A x \in S : rows[x] \in Int
  BY SumType
<1>2. \A y \in R : \A T \in SUBSET S : SumFunctionOnSet(column(y), T) \in Int
  <2> SUFFICES ASSUME NEW y \in R PROVE \A T \in SUBSET S : SumFunctionOnSet(column(y), T) \in Int
    OBVIOUS
  <2>1. \A x \in S : column(y)[x] \in Int
    OBVIOUS
  <2> HIDE DEF column
  <2> QED  BY <2>1, SumType
<1>3. ASSUME NEW T \in SUBSET S, \A x \in T : T \ {x} \in Q
      PROVE  T \in Q
  <2>1. CASE T = {}
    <3>1. \A y \in R : upTo(T)[y] = 0
      BY <2>1, SumEmpty
    <3> HIDE DEF upTo
    <3>2. SumFunctionOnSet(upTo(T), R) = 0
      BY <3>1, SumZero
    <3> QED  BY <2>1, <3>2, SumEmpty
  <2>2. CASE T # {}
    <3>1. PICK x \in T : TRUE
      BY <2>2
    <3> DEFINE U == T \ {x}
    <3>2. SumFunctionOnSet(rows, T) = rows[x] + SumFunctionOnSet(rows, U)
      BY <1>1, SumTakeOut
    <3>3. SumFunctionOnSet(rows, U) = SumFunctionOnSet(upTo(U), R)
      BY <1>3
    <3>4. \A y \in R : /\ table[x][y] \in Int /\ upTo(U)[y] \in Int
                       /\ upTo(T)[y] = table[x][y] + upTo(U)[y]
      <4> SUFFICES ASSUME NEW y \in R
                   PROVE  /\ table[x][y] \in Int /\ upTo(U)[y] \in Int
                          /\ upTo(T)[y] = table[x][y] + upTo(U)[y]
        OBVIOUS
      <4>1. /\ column(y)[x] = table[x][y] /\ \A z \in S : column(y)[z] \in Int
            /\ upTo(T)[y] = SumFunctionOnSet(column(y), T)
            /\ upTo(U)[y] = SumFunctionOnSet(column(y), U)
        OBVIOUS
      <4>2. SumFunctionOnSet(column(y), U) \in Int
        BY <1>2
      <4> HIDE DEF column, upTo
      <4>3. SumFunctionOnSet(column(y), T) = column(y)[x] + SumFunctionOnSet(column(y), U)
        <5> DEFINE c == column(y)
        <5>1. \A z \in S : c[z] \in Int
          BY <4>1
        <5> HIDE DEF c
        <5>2. SumFunctionOnSet(c, T) = c[x] + SumFunctionOnSet(c, T \ {x})
          BY <5>1, SumTakesOne, SMTT(30)
        <5> QED  BY <5>2 DEF c, U
      <4> QED  BY <4>1, <4>2, <4>3
    <3> HIDE DEF upTo, U
    <3>5. SumFunctionOnSet(upTo(T), R)
            = SumFunctionOnSet(table[x], R) + SumFunctionOnSet(upTo(U), R)
      <4> DEFINE f == table[x]
                 g == upTo(U)
                 h == upTo(T)
      <4>1. \A y \in R : f[y] \in Int /\ g[y] \in Int /\ h[y] = f[y] + g[y]
        BY <3>4
      <4> HIDE DEF f, g, h
      <4>2. SumFunctionOnSet(h, R) = SumFunctionOnSet(f, R) + SumFunctionOnSet(g, R)
        BY <4>1, SumAdds
      <4> QED  BY <4>2 DEF f, g, h
    <3>6. SumFunctionOnSet(rows, T) = SumFunctionOnSet(upTo(T), R)
      BY <3>2, <3>3, <3>5
    <3> QED  BY <3>6
  <2> QED  BY <2>1, <2>2
<1> HIDE DEF Q
<1>4. \A T \in SUBSET S : T \in Q
  BY <1>3, SubsetInduction
<1>5. \A y \in R : upTo(S)[y] \in Int /\ upTo(S)[y] = columns[y]
  BY <1>2
<1>6. SumFunctionOnSet(rows, S) = SumFunctionOnSet(upTo(S), R)
  BY <1>4 DEF Q
<1> HIDE DEF upTo
<1> QED  BY <1>5, <1>6, SumSame
=============================================================================
