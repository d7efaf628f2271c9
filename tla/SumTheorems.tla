---------------------------- MODULE SumTheorems ----------------------------
(***************************************************************************)
(* What MapThenSumSet of the community modules computes, for the proofs of  *)
(* the modules that count with it.  The operator is a function on the       *)
(* subsets of its set, defined by recursion: each nonempty one is worth     *)
(* what CHOOSE picks in it and the rest.  That such a function exists, that *)
(* it is the only one and that the order of the picks does not matter is    *)
(* shown by a smallest counterexample, which finite sets have.              *)
(***************************************************************************)
EXTENDS Integers, FiniteSetsExt, FiniteSetTheorems, TLAPS

Total(f, S) == MapThenSumSet(LAMBDA x : f[x], S)

Pick(T) == CHOOSE x \in T : TRUE

(* h gives the sums of f over the subsets of S. *)
IsTable(f, S, h) ==
  h = [T \in SUBSET S |->
         IF T = {} THEN 0 ELSE f[Pick(T)] + h[T \ {Pick(T)}]]

-----------------------------------------------------------------------------
(* A set of subsets of a finite set has a member none of whose proper       *)
(* subsets is in it.                                                        *)
LEMMA SmallestSubset ==
  ASSUME NEW S, IsFiniteSet(S), NEW Bad \in SUBSET SUBSET S, Bad # {}
  PROVE  \E T \in Bad : \A U \in SUBSET T : U # T => U \notin Bad
<1> DEFINE R == StrictSubsetOrdering(S)
<1>1. IsWellFoundedOn(R, SUBSET S)
  BY FS_StrictSubsetOrderingWellFounded, FS_FiniteSubsetsOfFinite
<1>2. \E T \in Bad : \A U \in Bad : ~(<<U, T>> \in R)
  <2> HIDE DEF R
  <2> QED
    BY <1>1, WFMin
<1>3. \A T \in Bad : \A U \in Bad : (U \subseteq T /\ U # T) => <<U, T>> \in R
  BY DEF StrictSubsetOrdering
<1> QED
  BY <1>2, <1>3

(* A set of natural numbers that is not empty has a least one. *)
LEMMA LeastNatural ==
  ASSUME NEW N \in SUBSET Nat, N # {}
  PROVE  \E m \in N : \A n \in N : m <= n
<1>1. PICK m \in N : \A n \in N : ~(<<n, m>> \in OpToRel(<, Nat))
  BY NatLessThanWellFounded, WFMin
<1>2. \A n \in N : ~(n < m)
  BY <1>1 DEF OpToRel
<1> QED
  BY <1>2

LEMMA PickIsIn == \A T : T # {} => Pick(T) \in T
BY DEF Pick

LEMMA TableEntries ==
  ASSUME NEW f, NEW S, NEW h, IsTable(f, S, h)
  PROVE  /\ h[{}] = 0
         /\ \A T \in SUBSET S : T # {} => h[T] = f[Pick(T)] + h[T \ {Pick(T)}]
BY DEF IsTable

LEMMA TableStep ==
  ASSUME NEW f, NEW S, NEW h, IsTable(f, S, h), NEW T \in SUBSET S, T # {}
  PROVE  Pick(T) \in T /\ h[T] = f[Pick(T)] + h[T \ {Pick(T)}]
BY TableEntries, PickIsIn

(* Two tables agree on what is in both. *)
LEMMA TablesAgree ==
  ASSUME NEW S, IsFiniteSet(S), NEW R, NEW f, NEW g, NEW h, NEW k,
         IsTable(f, S, h), IsTable(g, R, k),
         \A x \in S \cap R : f[x] = g[x]
  PROVE  \A T \in SUBSET (S \cap R) : h[T] = k[T]
<1> DEFINE Bad == {T \in SUBSET (S \cap R) : h[T] # k[T]}
<1> SUFFICES ASSUME Bad # {} PROVE FALSE
  OBVIOUS
<1>1. PICK T \in Bad : \A U \in SUBSET T : U # T => U \notin Bad
  <2>1. Bad \in SUBSET SUBSET S
    OBVIOUS
  <2> HIDE DEF Bad
  <2> QED
    BY <2>1, SmallestSubset
<1>2. T # {}
  BY TableEntries
<1>3. /\ h[T] = f[Pick(T)] + h[T \ {Pick(T)}]
      /\ k[T] = g[Pick(T)] + k[T \ {Pick(T)}]
  <2>1. \A U \in SUBSET S : U # {} => h[U] = f[Pick(U)] + h[U \ {Pick(U)}]
    BY Zenon DEF IsTable
  <2>2. \A U \in SUBSET R : U # {} => k[U] = g[Pick(U)] + k[U \ {Pick(U)}]
    BY Zenon DEF IsTable
  <2> QED
    BY <1>2, <2>1, <2>2
<1>4. Pick(T) \in T
  BY <1>2, PickIsIn
<1>5. h[T \ {Pick(T)}] = k[T \ {Pick(T)}]
  BY <1>1, <1>4
<1> QED
  BY <1>3, <1>4, <1>5

LEMMA TableExists ==
  ASSUME NEW S, IsFiniteSet(S), NEW f
  PROVE  \E h : IsTable(f, S, h)
<1> DEFINE Bad == {T \in SUBSET S : ~ \E h : IsTable(f, T, h)}
<1> SUFFICES ASSUME Bad # {} PROVE FALSE
  OBVIOUS
<1>1. PICK T \in Bad : \A U \in SUBSET T : U # T => U \notin Bad
  <2>1. Bad \in SUBSET SUBSET S
    OBVIOUS
  <2> HIDE DEF Bad
  <2> QED
    BY <2>1, SmallestSubset
<1> DEFINE table(U) == CHOOSE h : IsTable(f, U, h)
<1>2. \A U \in SUBSET T : U # T => IsTable(f, U, table(U))
  <2>1. \A U \in SUBSET T : U # T => \E h : IsTable(f, U, h)
    BY <1>1
  <2> QED
    BY <2>1, Zenon
<1>3. \A U \in SUBSET T : IsFiniteSet(U)
  BY FS_Subset
<1> HIDE DEF table
<1>4. T # {}
  <2>1. IsTable(f, {}, [U \in {{}} |-> 0])
    BY DEF IsTable
  <2> QED
    BY <1>1, <2>1
<1>5. Pick(T) \in T
  BY <1>4, PickIsIn
<1> DEFINE h == [U \in SUBSET T |->
                   IF U = T THEN f[Pick(T)] + table(T \ {Pick(T)})[T \ {Pick(T)}]
                   ELSE table(U)[U]]
<1>6. ASSUME NEW U \in SUBSET T, U # T, U # {}
      PROVE  h[U] = f[Pick(U)] + h[U \ {Pick(U)}]
  <2> DEFINE V == U \ {Pick(U)}
  <2>1. V \in SUBSET U /\ V \in SUBSET T /\ V # T
    BY <1>6
  <2>2. h[U] = table(U)[U] /\ h[V] = table(V)[V]
    BY <1>6, <2>1
  <2>3. IsTable(f, U, table(U)) /\ IsTable(f, V, table(V)) /\ IsFiniteSet(U)
    BY <1>2, <1>3, <1>6, <2>1
  <2>4. table(U)[U] = f[Pick(U)] + table(U)[V]
    BY <1>6, <2>3, TableEntries
  <2>5. table(U)[V] = table(V)[V]
    <3> HIDE DEF V
    <3>1. V \in SUBSET (U \cap V)
      BY <2>1
    <3> QED
      BY <2>3, <3>1, TablesAgree
  <2> QED
    BY <2>2, <2>4, <2>5
<1>7. h[T] = f[Pick(T)] + h[T \ {Pick(T)}]
  BY <1>5
<1>8. h[{}] = 0
  <2>1. IsTable(f, {}, table({}))
    BY <1>2, <1>4
  <2> QED
    BY <1>4, <2>1, TableEntries
<1>9. IsTable(f, T, h)
  <2>1. h = [U \in SUBSET T |-> h[U]]
    OBVIOUS
  <2>2. \A U \in SUBSET T : h[U] = IF U = {} THEN 0
                                   ELSE f[Pick(U)] + h[U \ {Pick(U)}]
    <3> HIDE DEF h
    <3> QED
      BY <1>6, <1>7, <1>8
  <2> HIDE DEF h
  <2> QED
    BY <2>1, <2>2 DEF IsTable
<1> QED
  BY <1>1, <1>9

LEMMA TableType ==
  ASSUME NEW S, IsFiniteSet(S), NEW f, NEW h, IsTable(f, S, h),
         \A x \in S : f[x] \in Nat
  PROVE  \A T \in SUBSET S : h[T] \in Nat
<1> DEFINE Bad == {T \in SUBSET S : h[T] \notin Nat}
<1> SUFFICES ASSUME Bad # {} PROVE FALSE
  OBVIOUS
<1>1. PICK T \in Bad : \A U \in SUBSET T : U # T => U \notin Bad
  <2>1. Bad \in SUBSET SUBSET S
    OBVIOUS
  <2> HIDE DEF Bad
  <2> QED
    BY <2>1, SmallestSubset
<1>2. T # {}
  BY TableEntries
<1>3. Pick(T) \in T /\ h[T] = f[Pick(T)] + h[T \ {Pick(T)}]
  BY <1>2, PickIsIn, TableEntries
<1>4. h[T \ {Pick(T)}] \in Nat
  BY <1>1, <1>3
<1> QED
  BY <1>3, <1>4

LEMMA TableInt ==
  ASSUME NEW S, IsFiniteSet(S), NEW f, NEW h, IsTable(f, S, h),
         \A x \in S : f[x] \in Int
  PROVE  \A T \in SUBSET S : h[T] \in Int
<1> DEFINE Bad == {T \in SUBSET S : h[T] \notin Int}
<1> SUFFICES ASSUME Bad # {} PROVE FALSE
  OBVIOUS
<1>1. PICK T \in Bad : \A U \in SUBSET T : U # T => U \notin Bad
  <2>1. Bad \in SUBSET SUBSET S
    OBVIOUS
  <2> HIDE DEF Bad
  <2> QED
    BY <2>1, SmallestSubset
<1>2. T # {}
  <2>1. h[{}] \in Int
    BY TableEntries
  <2>2. h[T] \notin Int
    OBVIOUS
  <2> QED
    BY <2>1, <2>2
<1>3. Pick(T) \in T /\ h[T] = f[Pick(T)] + h[T \ {Pick(T)}]
  BY <1>2, PickIsIn, TableEntries
<1>4. h[T \ {Pick(T)}] \in Int
  BY <1>1, <1>3
<1> QED
  BY <1>3, <1>4

(* Whichever element is taken out first. *)
LEMMA TableRemove ==
  ASSUME NEW S, IsFiniteSet(S), NEW f, NEW h, IsTable(f, S, h),
         \A x \in S : f[x] \in Int
  PROVE  \A T \in SUBSET S : \A y \in T : h[T] = f[y] + h[T \ {y}]
<1> DEFINE Bad == {T \in SUBSET S : \E y \in T : h[T] # f[y] + h[T \ {y}]}
<1> SUFFICES ASSUME Bad # {} PROVE FALSE
  OBVIOUS
<1>1. PICK T \in Bad : \A U \in SUBSET T : U # T => U \notin Bad
  <2>1. Bad \in SUBSET SUBSET S
    OBVIOUS
  <2> HIDE DEF Bad
  <2> QED
    BY <2>1, SmallestSubset
<1>2. PICK y \in T : h[T] # f[y] + h[T \ {y}]
  OBVIOUS
<1> DEFINE x == Pick(T)
<1>3. x \in T /\ h[T] = f[x] + h[T \ {x}]
  <2>1. T # {} /\ T \in SUBSET S
    OBVIOUS
  <2> HIDE DEF Bad
  <2>2. Pick(T) \in T /\ h[T] = f[Pick(T)] + h[T \ {Pick(T)}]
    BY <2>1, TableStep
  <2> QED
    BY <2>2
<1> HIDE DEF x
<1>4. x # y
  BY <1>2, <1>3
<1>5. h[T \ {x}] = f[y] + h[(T \ {x}) \ {y}]
  BY <1>1, <1>3, <1>4
<1>6. h[T \ {y}] = f[x] + h[(T \ {y}) \ {x}]
  BY <1>1, <1>3, <1>4
<1>7. (T \ {x}) \ {y} = (T \ {y}) \ {x} /\ (T \ {x}) \ {y} \in SUBSET S
  OBVIOUS
<1>8. h[(T \ {x}) \ {y}] \in Int /\ f[x] \in Int /\ f[y] \in Int
  BY <1>3, <1>7, TableInt
<1>9. \A n, i, j \in Int : i + (j + n) = j + (i + n)
  OBVIOUS
<1>10. h[T] = f[x] + (f[y] + h[(T \ {x}) \ {y}])
  BY <1>3, <1>5, Zenon
<1>11. f[y] + h[T \ {y}] = f[y] + (f[x] + h[(T \ {x}) \ {y}])
  BY <1>6, <1>7, Zenon
<1>12. f[x] + (f[y] + h[(T \ {x}) \ {y}]) = f[y] + (f[x] + h[(T \ {x}) \ {y}])
  BY <1>8, <1>9, Zenon
<1> QED
  BY <1>2, <1>10, <1>11, <1>12, Zenon

-----------------------------------------------------------------------------
(* The community module's operator is the last entry of such a table. *)
LEMMA TotalIsInTable ==
  ASSUME NEW S, IsFiniteSet(S), NEW f
  PROVE  \E h : IsTable(f, S, h) /\ Total(f, S) = h[S]
<1> DEFINE iter == CHOOSE h : IsTable(f, S, h)
<1>1. Total(f, S) = iter[S]
  BY Zenon DEF Total, MapThenSumSet, MapThenFoldSet, IsTable, Pick
<1>2. IsTable(f, S, iter)
  BY TableExists, Zenon
<1> QED
  BY <1>1, <1>2

(* The sum over no element is zero. *)
THEOREM TotalOfNone == \A f : Total(f, {}) = 0
BY TotalIsInTable, TableEntries, FS_EmptySet

(* A sum of natural numbers is one. *)
THEOREM TotalType ==
  ASSUME NEW S, IsFiniteSet(S), NEW f, \A x \in S : f[x] \in Nat
  PROVE  Total(f, S) \in Nat
<1>1. PICK h : IsTable(f, S, h) /\ Total(f, S) = h[S]
  BY TotalIsInTable
<1> QED
  BY <1>1, TableType

(* Sums of the same numbers are the same. *)
THEOREM TotalsAgree ==
  ASSUME NEW S, IsFiniteSet(S), NEW f, NEW g, \A x \in S : f[x] = g[x]
  PROVE  Total(f, S) = Total(g, S)
<1>1. PICK h : IsTable(f, S, h) /\ Total(f, S) = h[S]
  BY TotalIsInTable
<1>2. PICK k : IsTable(g, S, k) /\ Total(g, S) = k[S]
  BY TotalIsInTable
<1>3. \A T \in SUBSET (S \cap S) : h[T] = k[T]
  BY <1>1, <1>2, TablesAgree
<1> QED
  BY <1>1, <1>2, <1>3

(* A sum is any one of its numbers and the sum of the others. *)
THEOREM TotalRemove ==
  ASSUME NEW S, IsFiniteSet(S), NEW f, NEW y \in S, \A x \in S : f[x] \in Int
  PROVE  Total(f, S) = f[y] + Total(f, S \ {y})
<1> DEFINE R == S \ {y}
<1>1. IsFiniteSet(R) /\ R \in SUBSET S
  BY FS_Subset
<1>2. PICK h : IsTable(f, S, h) /\ Total(f, S) = h[S]
  BY TotalIsInTable
<1>3. PICK k : IsTable(f, R, k) /\ Total(f, R) = k[R]
  BY <1>1, TotalIsInTable
<1>4. h[S] = f[y] + h[R]
  BY <1>2, TableRemove
<1>5. h[R] = k[R]
  <2>1. R \in SUBSET (S \cap R)
    BY <1>1
  <2> HIDE DEF R
  <2> QED
    BY <1>2, <1>3, <2>1, TablesAgree
<1> QED
  BY <1>2, <1>3, <1>4, <1>5

-----------------------------------------------------------------------------
(* Sums over the first numbers of a table. *)

LEMMA TotalOfFirst ==
  ASSUME NEW n \in Nat, NEW f, \A t \in 0..n : f[t] \in Nat
  PROVE  /\ Total(f, 0..n) \in Nat
         /\ n = 0 => Total(f, 0..n) = f[0]
         /\ n > 0 => Total(f, 0..n) = Total(f, 0..(n - 1)) + f[n]
<1>1. IsFiniteSet(0..n)
  BY FS_Interval
<1>2. /\ Total(f, 0..n) \in Nat /\ Total(f, (0..n) \ {n}) \in Nat
      /\ Total(f, 0..n) = f[n] + Total(f, (0..n) \ {n})
  <2>1. IsFiniteSet((0..n) \ {n})
    BY <1>1, FS_Subset
  <2>2. n \in 0..n
    OBVIOUS
  <2> QED
    BY <1>1, <2>1, <2>2, TotalType, TotalRemove
<1>3. n > 0 => (0..n) \ {n} = 0..(n - 1)
  OBVIOUS
<1>4. CASE n = 0
  <2>1. (0..n) \ {n} = {}
    BY <1>4
  <2> QED
    BY <1>2, <1>4, <2>1, TotalOfNone
<1>5. CASE n > 0
  <2>1. /\ Total(f, 0..n) = f[n] + Total(f, 0..(n - 1))
        /\ Total(f, 0..(n - 1)) \in Nat /\ f[n] \in Nat
    <3>1. f[n] \in Nat
      OBVIOUS
    <3> QED
      BY <1>2, <1>3, <1>5, <3>1, Zenon
  <2> QED
    BY <1>2, <1>5, <2>1
<1> QED
  BY <1>4, <1>5

LEMMA TotalGrows ==
  ASSUME NEW m \in Nat, NEW f, \A t \in 0..m : f[t] \in Nat, NEW k \in 0..m
  PROVE  Total(f, 0..k) <= Total(f, 0..m)
<1> DEFINE Bad == {n \in k..m : ~(Total(f, 0..k) <= Total(f, 0..n))}
<1> SUFFICES ASSUME Bad # {} PROVE FALSE
  OBVIOUS
<1>1. PICK n \in Bad : \A l \in Bad : n <= l
  <2>1. Bad \in SUBSET Nat
    OBVIOUS
  <2> HIDE DEF Bad
  <2> QED
    BY <2>1, LeastNatural
<1>2. n \in k..m /\ ~(Total(f, 0..k) <= Total(f, 0..n))
  OBVIOUS
<1>3. Total(f, 0..k) \in Nat /\ n # k
  BY <1>2, TotalOfFirst
<1>4. n - 1 \in k..m /\ n - 1 \notin Bad /\ n \in Nat /\ n > 0
  BY <1>1, <1>2, <1>3
<1>5. Total(f, 0..k) <= Total(f, 0..(n - 1))
  BY <1>4
<1> HIDE DEF Bad
<1>6. /\ Total(f, 0..n) = Total(f, 0..(n - 1)) + f[n]
      /\ Total(f, 0..(n - 1)) \in Nat /\ f[n] \in Nat
  BY <1>2, <1>4, TotalOfFirst
<1> QED
  BY <1>2, <1>3, <1>5, <1>6

(* In g the numbers of f are one place up. *)
MovedUp(f, g, m) == g[0] = 0 /\ \A t \in 1..m : g[t] = f[t - 1]

LEMMA TotalOfMovedUp ==
  ASSUME NEW m \in Nat, NEW f, NEW g, \A t \in 0..m : f[t] \in Nat,
         MovedUp(f, g, m)
  PROVE  \A k \in 1..m : Total(g, 0..k) = Total(f, 0..(k - 1))
<1> USE DEF MovedUp
<1> DEFINE Bad == {k \in 1..m : Total(g, 0..k) # Total(f, 0..(k - 1))}
<1> SUFFICES ASSUME Bad # {} PROVE FALSE
  OBVIOUS
<1>1. PICK k \in Bad : \A l \in Bad : k <= l
  <2>1. Bad \in SUBSET Nat
    OBVIOUS
  <2> HIDE DEF Bad
  <2> QED
    BY <2>1, LeastNatural
<1>2. k \in 1..m /\ Total(g, 0..k) # Total(f, 0..(k - 1))
  OBVIOUS
<1>3. \A t \in 0..m : g[t] \in Nat
  <2> HIDE DEF Bad
  <2> SUFFICES ASSUME NEW t \in 0..m PROVE g[t] \in Nat
    OBVIOUS
  <2>1. CASE t = 0
    BY <2>1
  <2>2. CASE t > 0
    <3>1. t \in 1..m /\ t - 1 \in 0..m
      BY <2>2
    <3> QED
      BY <3>1
  <2> QED
    BY <2>1, <2>2
<1>4. Total(g, 0..k) = Total(g, 0..(k - 1)) + f[k - 1]
  BY <1>2, <1>3, TotalOfFirst
<1>5. CASE k = 1
  <2>1. 0 \in Nat /\ f[0] \in Nat /\ g[0] \in Nat
    BY <1>3
  <2>2. Total(f, 0..0) = f[0] /\ Total(g, 0..0) = g[0]
    <3>1. /\ \A t \in 0..0 : f[t] \in Nat
          /\ \A t \in 0..0 : g[t] \in Nat
      BY <2>1
    <3>2. ASSUME NEW h, \A t \in 0..0 : h[t] \in Nat
          PROVE  Total(h, 0..0) = h[0]
      BY <3>2, TotalOfFirst
    <3> QED
      BY <3>1, <3>2
  <2> HIDE DEF Bad
  <2> QED
    BY <1>2, <1>4, <1>5, <2>1, <2>2
<1>6. CASE k # 1
  <2>1. k - 1 \in 1..m /\ k - 1 \notin Bad
    BY <1>1, <1>2, <1>6
  <2>2. Total(g, 0..(k - 1)) = Total(f, 0..((k - 1) - 1))
    BY <2>1
  <2> HIDE DEF Bad
  <2>3. Total(f, 0..(k - 1)) = Total(f, 0..((k - 1) - 1)) + f[k - 1]
    BY <1>2, <1>6, TotalOfFirst
  <2> QED
    BY <1>2, <1>4, <2>2, <2>3
<1> QED
  BY <1>5, <1>6
=============================================================================
