--------------------------- MODULE KnowledgeProofs ---------------------------
(***************************************************************************)
(* Proofs about the knowledge seeds, in three parts.  What a merge keeps of *)
(* a document and of the entries put into it (Merged): it is a fold over    *)
(* the entries in their order, and it is shown one entry after the other by *)
(* a smallest counterexample.  What a handler's writes are to the documents *)
(* it started from (Batch), with which every version of a document is in    *)
(* good order, whoever writes it (AllFine).  And how the rows, the chained  *)
(* writes and the cache of a process alone follow each other (Sound), which *)
(* is why the registry never runs ahead of the documents.                   *)
(***************************************************************************)
EXTENDS Knowledge, SumTheorems, SequenceTheorems

-----------------------------------------------------------------------------
(* The first index, and the last one, at which a sequence has what is       *)
(* looked for.                                                              *)
LEMMA MinIsLeast ==
  ASSUME NEW n \in Nat, NEW T \in SUBSET (1..n), T # {}
  PROVE  Min(T) \in T /\ \A i \in T : Min(T) <= i
<1>1. \E m \in T : \A i \in T : m <= i
  BY LeastNatural
<1> QED
  BY <1>1 DEF Min

LEMMA MaxIsLast ==
  ASSUME NEW n \in Nat, NEW T \in SUBSET (1..n), T # {}
  PROVE  Max(T) \in T /\ \A i \in T : Max(T) >= i
<1> DEFINE N == {n - i : i \in T}
<1>1. PICK m \in N : \A k \in N : m <= k
  <2>1. \A i \in T : n - i \in Nat
    OBVIOUS
  <2>2. N \in SUBSET Nat /\ N # {}
    BY <2>1
  <2> HIDE DEF N
  <2> QED
    BY <2>2, LeastNatural
<1>2. PICK j \in T : m = n - j
  OBVIOUS
<1>3. \A i \in T : i \in Int /\ n - j <= n - i
  BY <1>1, <1>2
<1>4. \A i \in T : j >= i
  BY <1>3
<1> QED
  BY <1>4 DEF Max

LEMMA SmallestOfInterval ==
  ASSUME NEW n \in Nat, NEW Bad \in SUBSET SUBSET (1..n), Bad # {}
  PROVE  \E T \in Bad : \A U \in SUBSET T : U # T => U \notin Bad
<1>1. IsFiniteSet(1..n)
  BY FS_Interval
<1>2. \A B \in SUBSET SUBSET (1..n) :
        B # {} => \E T \in B : \A U \in SUBSET T : U # T => U \notin B
  BY <1>1, SmallestSubset, Zenon
<1> QED
  BY <1>2

(* upsertSource either puts an entry over the one of its id or appends it.  *)
LEMMA PutCases ==
  ASSUME NEW S, NEW items \in Seq(S), NEW e
  PROVE  \/ /\ \A i \in 1..Len(items) : items[i].key # e.key
            /\ Put(items, e) = Append(items, e)
         \/ \E i \in 1..Len(items) : /\ items[i].key = e.key
                                     /\ Put(items, e) = [items EXCEPT ![i] = e]
<1> DEFINE T == {i \in 1..Len(items) : items[i].key = e.key}
           same == IF T # {} THEN Min(T) ELSE 0
<1>1. Put(items, e) = IF same = 0 THEN Append(items, e) ELSE [items EXCEPT ![same] = e]
  BY Zenon DEF Put, SelectInSeq
<1>2. Len(items) \in Nat
  OBVIOUS
<1>3. CASE T = {}
  <2>1. \A i \in 1..Len(items) : items[i].key # e.key
    BY <1>3
  <2> QED
    BY <1>1, <1>3, <2>1
<1>4. CASE T # {}
  <2>1. same \in T
    BY <1>2, <1>4, MinIsLeast
  <2>2. same \in 1..Len(items) /\ items[same].key = e.key
    BY <2>1
  <2> HIDE DEF same
  <2>3. Put(items, e) = [items EXCEPT ![same] = e]
    BY <1>1, <2>2
  <2> QED
    BY <2>2, <2>3
<1> QED
  BY <1>3, <1>4

NoneTwice(items) ==
  \A i, j \in 1..Len(items) : items[i].key = items[j].key => i = j

Holds(items, e) == \E i \in 1..Len(items) : items[i] = e
Has(items, key) == \E i \in 1..Len(items) : items[i].key = key

LEMMA HasIsKeys ==
  ASSUME NEW S, NEW items \in Seq(S)
  PROVE  \A key : Has(items, key) <=> key \in Keys(items)
BY DEF Has, Keys, ToSet

LEMMA HoldsIsToSet ==
  ASSUME NEW S, NEW items \in Seq(S)
  PROVE  \A e : Holds(items, e) <=> e \in ToSet(items)
BY DEF Holds, ToSet

LEMMA PutKeeps ==
  ASSUME NEW S, NEW items \in Seq(S), NEW e \in S
  PROVE  LET r == Put(items, e) IN
         /\ r \in Seq(S) /\ Holds(r, e)
         /\ \A x : Holds(r, x) => Holds(items, x) \/ x = e
         /\ \A x : Holds(items, x) /\ x.key # e.key => Holds(r, x)
         /\ NoneTwice(items) => NoneTwice(r)
<1> DEFINE r == Put(items, e)
<1>1. CASE /\ \A i \in 1..Len(items) : items[i].key # e.key
           /\ r = Append(items, e)
  <2>1. r \in Seq(S) /\ Len(r) = Len(items) + 1 /\ r[Len(items) + 1] = e
        /\ \A i \in 1..Len(items) : r[i] = items[i]
    BY <1>1, AppendProperties
  <2> HIDE DEF r
  <2>2. Len(items) \in Nat
    OBVIOUS
  <2>3. NoneTwice(items) => NoneTwice(r)
    BY <1>1, <2>1, <2>2 DEF NoneTwice
  <2> QED
    BY <2>1, <2>2, <2>3 DEF Holds, r
<1>2. ASSUME NEW i \in 1..Len(items), items[i].key = e.key, r = [items EXCEPT ![i] = e]
      PROVE  /\ r \in Seq(S) /\ Holds(r, e)
             /\ \A x : Holds(r, x) => Holds(items, x) \/ x = e
             /\ \A x : Holds(items, x) /\ x.key # e.key => Holds(r, x)
             /\ NoneTwice(items) => NoneTwice(r)
  <2>1. r \in Seq(S) /\ Len(r) = Len(items)
        /\ \A j \in 1..Len(items) : r[j] = IF j = i THEN e ELSE items[j]
    BY <1>2, ExceptSeq
  <2> HIDE DEF r
  <2>2. NoneTwice(items) => NoneTwice(r)
    BY <1>2, <2>1 DEF NoneTwice
  <2> QED
    BY <1>2, <2>1, <2>2 DEF Holds
<1> QED
  BY <1>1, <1>2, PutCases

-----------------------------------------------------------------------------
(* One step of a merge, and the table of the community module's fold: for a *)
(* set of indexes what the entries at them, in order, make of the document. *)
PutUnless(map, e, overwrite) ==
  IF overwrite \/ e.key \notin Keys(map) THEN Put(map, e) ELSE map

IsMerge(items, incoming, overwrite, D, h) ==
  h = [T \in SUBSET D |->
         IF T = {} THEN items
         ELSE PutUnless(h[T \ {Max(T)}], incoming[Max(T)], overwrite)]

LEMMA MergeEntries ==
  ASSUME NEW items, NEW incoming, NEW overwrite, NEW D, NEW h,
         IsMerge(items, incoming, overwrite, D, h)
  PROVE  /\ h[{}] = items
         /\ \A T \in SUBSET D : T # {} =>
              h[T] = PutUnless(h[T \ {Max(T)}], incoming[Max(T)], overwrite)
<1>1. \A T \in SUBSET D :
        h[T] = IF T = {} THEN items
               ELSE PutUnless(h[T \ {Max(T)}], incoming[Max(T)], overwrite)
  BY Zenon DEF IsMerge
<1> QED
  BY <1>1

LEMMA MergesAgree ==
  ASSUME NEW n \in Nat, NEW D \in SUBSET (1..n), NEW E \in SUBSET D,
         NEW items, NEW incoming, NEW overwrite, NEW h, NEW k,
         IsMerge(items, incoming, overwrite, D, h),
         IsMerge(items, incoming, overwrite, E, k)
  PROVE  \A T \in SUBSET E : h[T] = k[T]
<1> DEFINE Bad == {T \in SUBSET E : h[T] # k[T]}
<1> SUFFICES ASSUME Bad # {} PROVE FALSE
  OBVIOUS
<1>1. PICK T \in Bad : \A U \in SUBSET T : U # T => U \notin Bad
  <2>1. Bad \in SUBSET SUBSET (1..n)
    OBVIOUS
  <2> HIDE DEF Bad
  <2> QED
    BY <2>1, SmallestOfInterval
<1>2. T # {}
  <2>1. h[{}] = items /\ k[{}] = items
    BY MergeEntries
  <2> QED
    BY <2>1
<1>3. T \in SUBSET (1..n) /\ T \in SUBSET D /\ T \in SUBSET E
  OBVIOUS
<1>4. Max(T) \in T
  BY <1>2, <1>3, MaxIsLast
<1>5. h[T] = PutUnless(h[T \ {Max(T)}], incoming[Max(T)], overwrite)
  <2>1. \A U \in SUBSET D : U # {} =>
          h[U] = PutUnless(h[U \ {Max(U)}], incoming[Max(U)], overwrite)
    BY Zenon DEF IsMerge
  <2> QED
    BY <1>2, <1>3, <2>1, Zenon
<1>6. k[T] = PutUnless(k[T \ {Max(T)}], incoming[Max(T)], overwrite)
  <2>1. \A U \in SUBSET E : U # {} =>
          k[U] = PutUnless(k[U \ {Max(U)}], incoming[Max(U)], overwrite)
    BY Zenon DEF IsMerge
  <2> QED
    BY <1>2, <1>3, <2>1, Zenon
<1>7. h[T \ {Max(T)}] = k[T \ {Max(T)}]
  BY <1>1, <1>4
<1> QED
  BY <1>5, <1>6, <1>7

LEMMA MergeExists ==
  ASSUME NEW n \in Nat, NEW items, NEW incoming, NEW overwrite
  PROVE  \E h : IsMerge(items, incoming, overwrite, 1..n, h)
<1> DEFINE Bad == {T \in SUBSET (1..n) : ~ \E h : IsMerge(items, incoming, overwrite, T, h)}
<1> SUFFICES ASSUME Bad # {} PROVE FALSE
  OBVIOUS
<1>1. PICK T \in Bad : \A U \in SUBSET T : U # T => U \notin Bad
  <2>1. Bad \in SUBSET SUBSET (1..n)
    OBVIOUS
  <2> HIDE DEF Bad
  <2> QED
    BY <2>1, SmallestOfInterval
<1> DEFINE table(U) == CHOOSE h : IsMerge(items, incoming, overwrite, U, h)
<1>2. \A U \in SUBSET T : U # T => IsMerge(items, incoming, overwrite, U, table(U))
  <2>1. \A U \in SUBSET T : U # T => \E h : IsMerge(items, incoming, overwrite, U, h)
    BY <1>1
  <2> QED
    BY <2>1, Zenon
<1> HIDE DEF table
<1>3. T # {}
  <2>1. IsMerge(items, incoming, overwrite, {}, [U \in {{}} |-> items])
    BY DEF IsMerge
  <2> QED
    BY <1>1, <2>1
<1> DEFINE m == Max(T)
<1>4. m \in T /\ T \in SUBSET (1..n)
  BY <1>3, MaxIsLast
<1> HIDE DEF m
<1> DEFINE h == [U \in SUBSET T |->
                   IF U = T
                   THEN PutUnless(table(T \ {m})[T \ {m}], incoming[m], overwrite)
                   ELSE table(U)[U]]
<1>5. ASSUME NEW U \in SUBSET T, U # T, U # {}
      PROVE  h[U] = PutUnless(h[U \ {Max(U)}], incoming[Max(U)], overwrite)
  <2> DEFINE V == U \ {Max(U)}
  <2>1. V \in SUBSET U /\ V \in SUBSET T /\ V # T
    BY <1>5
  <2>2. h[U] = table(U)[U] /\ h[V] = table(V)[V]
    BY <1>5, <2>1
  <2>3. /\ IsMerge(items, incoming, overwrite, U, table(U))
        /\ IsMerge(items, incoming, overwrite, V, table(V))
    BY <1>2, <1>5, <2>1
  <2>4. table(U)[U] = PutUnless(table(U)[V], incoming[Max(U)], overwrite)
    BY <1>5, <2>3, MergeEntries
  <2>5. table(U)[V] = table(V)[V]
    <3> HIDE DEF V
    <3>1. V \in SUBSET V /\ U \in SUBSET (1..n)
      BY <1>4
    <3> QED
      BY <2>1, <2>3, <3>1, MergesAgree
  <2> QED
    BY <2>2, <2>4, <2>5
<1>6. h[T] = PutUnless(h[T \ {m}], incoming[m], overwrite)
  BY <1>4
<1>7. h[{}] = items
  <2>1. IsMerge(items, incoming, overwrite, {}, table({}))
    BY <1>2, <1>3
  <2> QED
    BY <1>3, <2>1, MergeEntries
<1>8. IsMerge(items, incoming, overwrite, T, h)
  <2>1. h = [U \in SUBSET T |-> h[U]]
    OBVIOUS
  <2>2. \A U \in SUBSET T :
          h[U] = IF U = {} THEN items
                 ELSE PutUnless(h[U \ {Max(U)}], incoming[Max(U)], overwrite)
    <3> HIDE DEF h
    <3> QED
      BY <1>5, <1>6, <1>7 DEF m
  <2> HIDE DEF h
  <2> QED
    BY <2>1, <2>2 DEF IsMerge
<1> QED
  BY <1>1, <1>8

(* What the first i entries make of the document, for each i. *)
LEMMA PutAllSteps ==
  ASSUME NEW S, NEW items, NEW incoming \in Seq(S), NEW overwrite
  PROVE  \E g : /\ g[0] = items /\ g[Len(incoming)] = PutAll(items, incoming, overwrite)
                /\ \A i \in 1..Len(incoming) :
                     g[i] = PutUnless(g[i - 1], incoming[i], overwrite)
<1> DEFINE n == Len(incoming)
           iter == CHOOSE h : IsMerge(items, incoming, overwrite, 1..n, h)
<1>1. n \in Nat /\ DOMAIN incoming = 1..n
  OBVIOUS
<1>2. PutAll(items, incoming, overwrite) = iter[1..n]
  <2>1. PutAll(items, incoming, overwrite)
          = (CHOOSE h : IsMerge(items, incoming, overwrite, DOMAIN incoming, h))[DOMAIN incoming]
    BY Zenon DEF PutAll, FoldLeft, MapThenFoldSet, IsMerge, PutUnless
  <2> QED
    BY <1>1, <2>1, Zenon
<1>3. IsMerge(items, incoming, overwrite, 1..n, iter)
  BY <1>1, MergeExists, Zenon
<1> HIDE DEF n, iter
<1> DEFINE g == [i \in 0..n |-> iter[1..i]]
<1>4. g[0] = items
  <2>1. 1..0 = {} /\ 0 \in 0..n
    BY <1>1
  <2>2. iter[{}] = items
    BY <1>3, MergeEntries
  <2> QED
    BY <2>1, <2>2
<1>5. ASSUME NEW i \in 1..n PROVE g[i] = PutUnless(g[i - 1], incoming[i], overwrite)
  <2> DEFINE T == 1..i
  <2>1. T \in SUBSET (1..n) /\ T # {} /\ i \in T
    BY <1>1
  <2>2. Max(T) = i
    <3>1. Max(T) \in T /\ Max(T) >= i
      BY <1>1, <2>1, MaxIsLast
    <3> QED
      BY <1>1, <3>1
  <2>3. T \ {i} = 1..(i - 1)
    BY <1>1
  <2>4. iter[T] = PutUnless(iter[T \ {i}], incoming[i], overwrite)
    <3> HIDE DEF T
    <3>1. \A U \in SUBSET (1..n) : U # {} =>
            iter[U] = PutUnless(iter[U \ {Max(U)}], incoming[Max(U)], overwrite)
      BY <1>3, Zenon DEF IsMerge
    <3>2. iter[T] = PutUnless(iter[T \ {Max(T)}], incoming[Max(T)], overwrite)
      BY <2>1, <3>1, Zenon
    <3> QED
      BY <2>2, <3>2
  <2>5. g[i] = iter[T] /\ g[i - 1] = iter[1..(i - 1)]
    BY <1>1
  <2> QED
    BY <2>3, <2>4, <2>5
<1>6. g[n] = iter[1..n]
  BY <1>1
<1> HIDE DEF g
<1>7. \A i \in 1..n : g[i] = PutUnless(g[i - 1], incoming[i], overwrite)
  BY <1>5
<1> QED
  BY <1>2, <1>4, <1>6, <1>7 DEF n

-----------------------------------------------------------------------------
(* What the first i incoming entries make of a document: what is in it was  *)
(* there or came, each id that was there or came is in it, an entry is gone *)
(* only where one of its id may be put over it, and then the last of those  *)
(* is there.                                                                *)
Merged(items, incoming, overwrite, i, r) ==
  /\ \A x : Holds(r, x) => Holds(items, x) \/ \E j \in 1..i : incoming[j] = x
  /\ \A x : Holds(items, x) =>
       Holds(r, x) \/ (overwrite /\ \E j \in 1..i : incoming[j].key = x.key)
  /\ overwrite => \A j \in 1..i :
       \E k \in j..i : incoming[k].key = incoming[j].key /\ Holds(r, incoming[k])
  /\ \A j \in 1..i : Has(r, incoming[j].key)
  /\ NoneTwice(items) => NoneTwice(r)

LEMMA HoldsHas == \A r, x : Holds(r, x) => Has(r, x.key)
BY DEF Holds, Has

LEMMA HasHolds ==
  \A r, key : Has(r, key) => \E x : Holds(r, x) /\ x.key = key
BY DEF Holds, Has

LEMMA PutKeepsKeys ==
  ASSUME NEW S, NEW r \in Seq(S), NEW e \in S
  PROVE  \A key : Has(r, key) \/ key = e.key => Has(Put(r, e), key)
<1> DEFINE q == Put(r, e)
<1>1. /\ Holds(q, e)
      /\ \A x : Holds(r, x) /\ x.key # e.key => Holds(q, x)
  BY PutKeeps
<1> HIDE DEF q
<1>2. Has(q, e.key)
  BY <1>1, HoldsHas
<1>3. ASSUME NEW key, Has(r, key), key # e.key PROVE Has(q, key)
  <2>1. PICK x : Holds(r, x) /\ x.key = key
    BY <1>3, HasHolds
  <2>2. Holds(q, x)
    BY <1>1, <1>3, <2>1
  <2> QED
    BY <2>1, <2>2, HoldsHas
<1> QED
  BY <1>2, <1>3 DEF q

LEMMA MergedStep ==
  ASSUME NEW S, NEW items, NEW incoming \in Seq(S), NEW overwrite \in BOOLEAN,
         NEW i \in 1..Len(incoming), NEW r \in Seq(S),
         Merged(items, incoming, overwrite, i - 1, r)
  PROVE  LET q == PutUnless(r, incoming[i], overwrite) IN
         q \in Seq(S) /\ Merged(items, incoming, overwrite, i, q)
<1> DEFINE e == incoming[i]
           q == PutUnless(r, e, overwrite)
<1>1. /\ i \in Nat /\ i >= 1 /\ e \in S
      /\ \A j : j \in 1..i <=> j \in 1..(i - 1) \/ j = i
      /\ \A j \in 1..i : \A k : k \in j..(i - 1) => k \in j..i
      /\ \A j \in 1..i : i \in j..i
  BY ElementOfSeq
<1>2. /\ \A x : Holds(r, x) => Holds(items, x) \/ \E j \in 1..(i - 1) : incoming[j] = x
      /\ \A x : Holds(items, x) =>
           Holds(r, x) \/ (overwrite /\ \E j \in 1..(i - 1) : incoming[j].key = x.key)
      /\ overwrite => \A j \in 1..(i - 1) :
           \E k \in j..(i - 1) : incoming[k].key = incoming[j].key /\ Holds(r, incoming[k])
      /\ \A j \in 1..(i - 1) : Has(r, incoming[j].key)
      /\ NoneTwice(items) => NoneTwice(r)
  BY DEF Merged
<1>3. CASE overwrite \/ ~Has(r, e.key)
  <2>1. q = Put(r, e)
    BY <1>3, HasIsKeys DEF PutUnless
  <2> HIDE DEF q
  <2>2. /\ q \in Seq(S) /\ Holds(q, e)
        /\ \A x : Holds(q, x) => Holds(r, x) \/ x = e
        /\ \A x : Holds(r, x) /\ x.key # e.key => Holds(q, x)
        /\ NoneTwice(r) => NoneTwice(q)
    BY <1>1, <2>1, PutKeeps
  <2>3. \A key : Has(r, key) \/ key = e.key => Has(q, key)
    BY <1>1, <2>1, PutKeepsKeys
  <2>4. \A x : Holds(q, x) => Holds(items, x) \/ \E j \in 1..i : incoming[j] = x
    BY <1>1, <1>2, <2>2
  <2>5. ASSUME NEW x, Holds(items, x)
        PROVE  Holds(q, x) \/ (overwrite /\ \E j \in 1..i : incoming[j].key = x.key)
    <3>1. CASE Holds(r, x)
      BY <1>1, <1>3, <2>2, <3>1, HoldsHas
    <3>2. CASE ~Holds(r, x)
      BY <1>1, <1>2, <2>5, <3>2
    <3> QED
      BY <3>1, <3>2
  <2>6. ASSUME overwrite, NEW j \in 1..i
        PROVE  \E k \in j..i : incoming[k].key = incoming[j].key /\ Holds(q, incoming[k])
    <3>1. CASE j = i
      BY <1>1, <2>2, <3>1
    <3>2. CASE j # i
      <4>1. j \in 1..(i - 1)
        BY <1>1, <3>2
      <4>2. PICK k \in j..(i - 1) : incoming[k].key = incoming[j].key /\ Holds(r, incoming[k])
        BY <1>2, <2>6, <4>1
      <4>3. k \in j..i
        BY <1>1, <4>2
      <4>4. CASE incoming[k].key = e.key
        BY <1>1, <2>2, <4>2, <4>4
      <4>5. CASE incoming[k].key # e.key
        BY <2>2, <4>2, <4>3, <4>5
      <4> QED
        BY <4>4, <4>5
    <3> QED
      BY <3>1, <3>2
  <2>7. \A j \in 1..i : Has(q, incoming[j].key)
    BY <1>1, <1>2, <2>3
  <2>8. NoneTwice(items) => NoneTwice(q)
    BY <1>2, <2>2
  <2>9. Merged(items, incoming, overwrite, i, q)
    BY <2>4, <2>5, <2>6, <2>7, <2>8 DEF Merged
  <2> QED
    BY <2>2, <2>9 DEF q
<1>4. CASE ~overwrite /\ Has(r, e.key)
  <2>1. q = r
    BY <1>4, HasIsKeys DEF PutUnless
  <2> HIDE DEF q
  <2>2. /\ \A x : Holds(r, x) => Holds(items, x) \/ \E j \in 1..i : incoming[j] = x
        /\ \A x : Holds(items, x) => Holds(r, x)
        /\ \A j \in 1..i : Has(r, incoming[j].key)
    BY <1>1, <1>2, <1>4
  <2>3. Merged(items, incoming, overwrite, i, r)
    BY <1>2, <1>4, <2>2 DEF Merged
  <2> QED
    BY <2>1, <2>3 DEF q
<1> QED
  BY <1>3, <1>4

LEMMA PutAllMerged ==
  ASSUME NEW S, NEW items \in Seq(S), NEW incoming \in Seq(S), NEW overwrite \in BOOLEAN
  PROVE  /\ PutAll(items, incoming, overwrite) \in Seq(S)
         /\ Merged(items, incoming, overwrite, Len(incoming),
                   PutAll(items, incoming, overwrite))
<1> DEFINE n == Len(incoming)
           Good(r, i) == r \in Seq(S) /\ Merged(items, incoming, overwrite, i, r)
<1>1. PICK g : /\ g[0] = items /\ g[n] = PutAll(items, incoming, overwrite)
               /\ \A i \in 1..n : g[i] = PutUnless(g[i - 1], incoming[i], overwrite)
  BY PutAllSteps
<1>2. n \in Nat
  OBVIOUS
<1> HIDE DEF n
<1>3. Good(g[0], 0)
  <2>1. \A j : j \notin 1..0
    OBVIOUS
  <2>2. Merged(items, incoming, overwrite, 0, items)
    BY <2>1 DEF Merged
  <2> QED
    BY <1>1, <2>2
<1>4. ASSUME NEW i \in 1..n, Good(g[i - 1], i - 1) PROVE Good(g[i], i)
  BY <1>1, <1>4, MergedStep DEF n
<1> HIDE DEF Good
<1> DEFINE Bad == {i \in 0..n : ~Good(g[i], i)}
<1>5. Bad = {}
  <2> SUFFICES ASSUME Bad # {} PROVE FALSE
    OBVIOUS
  <2>1. Bad \in SUBSET Nat
    BY <1>2
  <2>2. PICK m \in Bad : \A k \in Bad : m <= k
    <3> HIDE DEF Bad
    <3> QED
      BY <2>1, LeastNatural
  <2>3. m \in 1..n /\ m - 1 \in 0..n /\ m - 1 \notin Bad
    BY <1>2, <1>3, <2>2
  <2> QED
    BY <1>4, <2>2, <2>3
<1>6. Good(g[n], n)
  BY <1>2, <1>5
<1> QED
  BY <1>1, <1>6 DEF Good, n

-----------------------------------------------------------------------------
(* The documents.  A verified seed has its AI's knowledge only, so that the *)
(* entries of one id are of one AI if no two AIs' seeds share an id.        *)
KnownAs(e) ==
  \E s \in Seeds : /\ Verified(s) /\ e.ai = s.ai
                   /\ \E x \in ToSet(s["knowledge_documents"]) : x.key = e.key

(* An entry of the registry is of a verified seed, and of its AI.           *)
Recorded(r) == r.call \in Calls /\ Verified(r.call.seed) /\ r.ai = r.call.seed.ai

Proper(d, e) ==
  /\ d = "knowledge_documents" => KnownAs(e)
  /\ d = "ai_knowledge_registry" => Recorded(e)

IdsAreApart ==
  \A s, t \in Seeds : Verified(s) /\ Verified(t) =>
    \A x \in ToSet(s["knowledge_documents"]), y \in ToSet(t["knowledge_documents"]) :
      x.key = y.key => s.ai = t.ai

Listed  == Given \cup UNION {ToSet(s[list]) : s \in Seeds, list \in Lists}
Ids     == {e.key : e \in Listed} \cup {note.key : note \in Notes}
             \cup {<<"mem", n>> : n \in 1..MaxTurns} \cup {s.ai : s \in Seeds}
Ais     == {e.ai : e \in Listed} \cup {note.ai : note \in Notes} \cup {s.ai : s \in Seeds}
Entry   == [key : Ids, ai : Ais, by : Nat]
             \cup [key : Ids, ai : Ais, by : Nat, call : Calls]
Items   == Seq(Entry)
Link    == [doc : Documents, items : Items]

(* A document as of turn t: of two entries with one id the later is not of  *)
(* an earlier turn, and only the memory layers have such.                   *)
Fine(d, items, t) ==
  /\ \A i \in 1..Len(items) : items[i].by \in 1..t
  /\ \A i, j \in 1..Len(items) :
       items[i].key = items[j].key /\ i < j => items[i].by <= items[j].by
  /\ d \notin {"verified_sources", "semantic_memory_manifest"} => NoneTwice(items)
  /\ \A i \in 1..Len(items) : Proper(d, items[i])

(* What is in document a is in b under its id, as it was or in a later      *)
(* version, a piece of knowledge as its AI's.                               *)
Follows(d, x, y) ==
  /\ y.key = x.key /\ x.by <= y.by
  /\ d = "knowledge_documents" /\ IdsAreApart => y.ai = x.ai

Extends(d, a, b) == \A x \in ToSet(a) : \E y \in ToSet(b) : Follows(d, x, y)

(* The document has what the registry's entry says was seeded. *)
Backs(items, r, d) ==
  \A e \in ToSet(r.call.seed[d]) :
    \E x \in ToSet(items) : x.key = e.key /\ (r.call.overwrite => x.by >= r.by)

-----------------------------------------------------------------------------
(* What a merge is to the documents: it goes on from them.                  *)
LEMMA EntryFields == \A e \in Entry : e.by \in Nat /\ e.key \in Ids /\ e.ai \in Ais
BY DEF Entry

LEMMA InItems ==
  ASSUME NEW items \in Items
  PROVE  /\ \A x : x \in ToSet(items) <=> Holds(items, x)
         /\ \A x \in ToSet(items) : x \in Entry /\ x.by \in Nat
         /\ \A i \in 1..Len(items) : items[i] \in ToSet(items) /\ items[i] \in Entry
         /\ Len(items) \in Nat
<1>1. items \in Seq(Entry)
  BY DEF Items
<1>2. \A i \in 1..Len(items) : items[i] \in Entry
  BY <1>1, ElementOfSeq
<1>3. \A x : x \in ToSet(items) <=> Holds(items, x)
  BY <1>1, HoldsIsToSet
<1>4. \A i \in 1..Len(items) : Holds(items, items[i])
  BY DEF Holds
<1>5. \A x : Holds(items, x) => x \in Entry
  BY <1>2 DEF Holds
<1> QED
  BY <1>1, <1>2, <1>3, <1>4, <1>5, EntryFields

LEMMA KnownAgree ==
  ASSUME IdsAreApart, NEW x, NEW y, KnownAs(x), KnownAs(y), x.key = y.key
  PROVE  x.ai = y.ai
BY DEF IdsAreApart, KnownAs

LEMMA ExtendsItself ==
  ASSUME NEW d, NEW items \in Items
  PROVE  Extends(d, items, items)
BY InItems DEF Extends, Follows

LEMMA ExtendsOn ==
  ASSUME NEW d, NEW a \in Items, NEW b \in Items, NEW c \in Items,
         Extends(d, a, b), Extends(d, b, c)
  PROVE  Extends(d, a, c)
<1> SUFFICES ASSUME NEW x \in ToSet(a) PROVE \E z \in ToSet(c) : Follows(d, x, z)
  BY DEF Extends
<1>1. PICK y \in ToSet(b) : Follows(d, x, y)
  BY DEF Extends
<1>2. PICK z \in ToSet(c) : Follows(d, y, z)
  BY DEF Extends
<1>3. x.by \in Nat /\ y.by \in Nat /\ z.by \in Nat
  BY InItems
<1>4. Follows(d, x, z)
  BY <1>1, <1>2, <1>3 DEF Follows
<1> QED
  BY <1>4

LEMMA BacksOn ==
  ASSUME NEW d, NEW a \in Items, NEW b \in Items, NEW r \in Entry,
         Extends(d, a, b), Backs(a, r, d)
  PROVE  Backs(b, r, d)
<1> SUFFICES ASSUME NEW e \in ToSet(r.call.seed[d])
             PROVE  \E x \in ToSet(b) : x.key = e.key /\ (r.call.overwrite => x.by >= r.by)
  BY DEF Backs
<1>1. PICK y \in ToSet(a) : y.key = e.key /\ (r.call.overwrite => y.by >= r.by)
  BY DEF Backs
<1>2. PICK x \in ToSet(b) : Follows(d, y, x)
  BY DEF Extends
<1>3. x.key = e.key /\ y.by <= x.by
  BY <1>1, <1>2 DEF Follows
<1>4. x.by \in Nat /\ y.by \in Nat /\ r.by \in Nat
  BY InItems, EntryFields
<1>5. r.call.overwrite => x.by >= r.by
  BY <1>1, <1>3, <1>4
<1> QED
  BY <1>3, <1>5

LEMMA FineEntries ==
  ASSUME NEW d, NEW items \in Items, NEW t \in Nat, Fine(d, items, t)
  PROVE  \A x : Holds(items, x) =>
           x.by \in 1..t /\ Proper(d, x)
BY DEF Fine, Holds

LEMMA FineLater ==
  ASSUME NEW d, NEW items \in Items, NEW t \in Nat, Fine(d, items, t)
  PROVE  Fine(d, items, t + 1)
<1>1. \A n : n \in 1..t => n \in 1..(t + 1)
  OBVIOUS
<1> QED
  BY <1>1 DEF Fine

LEMMA FineMade ==
  ASSUME NEW d, NEW items \in Items, NEW t \in Nat, NoneTwice(items),
         \A x : Holds(items, x) =>
           x.by \in 1..t /\ Proper(d, x)
  PROVE  Fine(d, items, t)
<1>1. \A i \in 1..Len(items) : Holds(items, items[i])
  BY DEF Holds
<1>2. \A i, j \in 1..Len(items) : items[i].key = items[j].key /\ i < j => FALSE
  <2>1. \A i, j \in 1..Len(items) : items[i].key = items[j].key => i = j
    BY DEF NoneTwice
  <2> QED
    BY <2>1, InItems
<1> QED
  BY <1>1, <1>2 DEF Fine

(* What incoming entries of a turn make of a document: it is in good order, *)
(* goes on from what there was and has all of them.                         *)
PutIn(d, t, m, incoming, overwrite, r) ==
  /\ r \in Items /\ Fine(d, r, t + 1) /\ Extends(d, m, r)
  /\ \A i \in 1..Len(incoming) :
       \E x \in ToSet(r) : x.key = incoming[i].key /\ (overwrite => x.by = t + 1)

LEMMA PutAllFine ==
  ASSUME NEW d, NEW t \in Nat, NEW m \in Items, Fine(d, m, t), NoneTwice(m),
         NEW incoming \in Items, NEW overwrite \in BOOLEAN,
         \A i \in 1..Len(incoming) : incoming[i].by = t + 1,
         \A i \in 1..Len(incoming) : Proper(d, incoming[i])
  PROVE  PutIn(d, t, m, incoming, overwrite, PutAll(m, incoming, overwrite))
<1> DEFINE r == PutAll(m, incoming, overwrite)
           n == Len(incoming)
<1>1. r \in Items /\ Merged(m, incoming, overwrite, n, r)
  BY PutAllMerged DEF Items
<1> HIDE DEF r
<1>2. /\ \A x : Holds(r, x) => Holds(m, x) \/ \E j \in 1..n : incoming[j] = x
      /\ \A x : Holds(m, x) =>
           Holds(r, x) \/ (overwrite /\ \E j \in 1..n : incoming[j].key = x.key)
      /\ overwrite => \A j \in 1..n :
           \E k \in j..n : incoming[k].key = incoming[j].key /\ Holds(r, incoming[k])
      /\ \A j \in 1..n : Has(r, incoming[j].key)
      /\ NoneTwice(r)
  BY <1>1 DEF Merged
<1>3. /\ n \in Nat /\ \A j \in 1..n : \A k \in j..n : k \in 1..n
      /\ t + 1 \in 1..(t + 1) /\ \A i \in 1..t : i \in 1..(t + 1) /\ i <= t + 1
  BY InItems
<1>4. \A x : Holds(m, x) => x.by \in 1..t /\ Proper(d, x)
  BY FineEntries
<1>5. Fine(d, r, t + 1)
  <2>1. \A x : Holds(r, x) =>
          x.by \in 1..(t + 1) /\ Proper(d, x)
    BY <1>2, <1>3, <1>4
  <2>2. t + 1 \in Nat
    OBVIOUS
  <2> QED
    BY <1>1, <1>2, <2>1, <2>2, FineMade
<1>6. ASSUME NEW i \in 1..n
      PROVE  \E x \in ToSet(r) : x.key = incoming[i].key /\ (overwrite => x.by = t + 1)
  <2>1. CASE overwrite
    <3>1. PICK k \in i..n : incoming[k].key = incoming[i].key /\ Holds(r, incoming[k])
      BY <1>2, <2>1
    <3>2. incoming[k].by = t + 1
      BY <1>3, <3>1
    <3> QED
      BY <1>1, <3>1, <3>2, InItems
  <2>2. CASE ~overwrite
    <3>1. PICK x : Holds(r, x) /\ x.key = incoming[i].key
      BY <1>2, HasHolds
    <3> QED
      BY <1>1, <2>2, <3>1, InItems
  <2> QED
    BY <2>1, <2>2
<1>7. ASSUME NEW x \in ToSet(m) PROVE \E y \in ToSet(r) : Follows(d, x, y)
  <2>1. Holds(m, x) /\ x.by \in Nat /\ x.by \in 1..t
    BY <1>4, <1>7, InItems
  <2>2. CASE Holds(r, x)
    <3>1. x \in ToSet(r) /\ Follows(d, x, x)
      BY <1>1, <2>1, <2>2, InItems DEF Follows
    <3> QED
      BY <3>1
  <2>3. CASE ~Holds(r, x)
    <3>1. PICK j \in 1..n : overwrite /\ incoming[j].key = x.key
      BY <1>2, <2>1, <2>3
    <3>2. PICK k \in j..n : incoming[k].key = incoming[j].key /\ Holds(r, incoming[k])
      BY <1>2, <3>1
    <3> DEFINE y == incoming[k]
    <3>3. y \in ToSet(r) /\ y.key = x.key /\ y.by = t + 1
      BY <1>1, <1>3, <3>1, <3>2, InItems
    <3>4. d = "knowledge_documents" => KnownAs(x) /\ KnownAs(y)
      BY <1>3, <1>4, <2>1, <3>2 DEF Proper
    <3> HIDE DEF y
    <3>5. d = "knowledge_documents" /\ IdsAreApart => y.ai = x.ai
      BY <3>3, <3>4, KnownAgree
    <3>6. Follows(d, x, y)
      BY <1>3, <2>1, <3>3, <3>5 DEF Follows
    <3> QED
      BY <3>3, <3>6
  <2> QED
    BY <2>2, <2>3
<1>8. Extends(d, m, r)
  BY <1>7 DEF Extends
<1> QED
  BY <1>1, <1>5, <1>6, <1>8 DEF PutIn, r, n

LEMMA MapOfFine ==
  ASSUME NEW d, NEW t \in Nat, NEW m \in Items, Fine(d, m, t)
  PROVE  LET r == MapOf(m) IN
         r \in Items /\ Fine(d, r, t) /\ NoneTwice(r) /\ Extends(d, m, r)
<1> DEFINE r == MapOf(m)
           n == Len(m)
<1>1. r \in Items /\ Merged(<<>>, m, TRUE, n, r)
  <2>1. <<>> \in Seq(Entry)
    OBVIOUS
  <2> QED
    BY <2>1, PutAllMerged DEF Items, MapOf
<1> HIDE DEF r
<1>2. NoneTwice(<<>>) /\ \A x : ~Holds(<<>>, x)
  BY DEF NoneTwice, Holds
<1>3. /\ \A x : Holds(r, x) => \E j \in 1..n : m[j] = x
      /\ \A j \in 1..n : \E k \in j..n : m[k].key = m[j].key /\ Holds(r, m[k])
      /\ NoneTwice(r)
  BY <1>1, <1>2 DEF Merged
<1>4. \A x : Holds(r, x) => Holds(m, x)
  BY <1>3 DEF Holds
<1>5. Fine(d, r, t)
  <2>1. \A x : Holds(m, x) => x.by \in 1..t /\ Proper(d, x)
    BY FineEntries
  <2> QED
    BY <1>1, <1>3, <1>4, <2>1, FineMade
<1>6. ASSUME NEW x \in ToSet(m) PROVE \E y \in ToSet(r) : Follows(d, x, y)
  <2>1. PICK j \in 1..n : m[j] = x
    BY <1>6, InItems DEF Holds
  <2>2. PICK k \in j..n : m[k].key = m[j].key /\ Holds(r, m[k])
    BY <1>3
  <2>3. k \in 1..n /\ j <= k /\ k \in Int /\ j \in Int /\ m[k] \in ToSet(r)
    BY <1>1, <2>2, InItems
  <2>4. m[j].by <= m[k].by
    <3>1. CASE j = k
      BY <2>3, <3>1, InItems
    <3>2. CASE j < k
      BY <2>2, <2>3, <3>2 DEF Fine
    <3> QED
      BY <2>3, <3>1, <3>2
  <2>5. d = "knowledge_documents" => KnownAs(m[j]) /\ KnownAs(m[k])
    BY <2>3 DEF Fine, Proper
  <2>6. d = "knowledge_documents" /\ IdsAreApart => m[k].ai = m[j].ai
    BY <2>2, <2>5, KnownAgree
  <2>7. Follows(d, x, m[k])
    BY <2>1, <2>2, <2>4, <2>6 DEF Follows
  <2> QED
    BY <2>3, <2>7
<1>7. Extends(d, m, r)
  BY <1>6 DEF Extends
<1> QED
  BY <1>1, <1>3, <1>5, <1>7 DEF r

LEMMA MergeByFine ==
  ASSUME NEW d, NEW t \in Nat, NEW m \in Items, Fine(d, m, t),
         NEW incoming \in Items, NEW overwrite \in BOOLEAN,
         \A i \in 1..Len(incoming) : incoming[i].by = t + 1,
         \A i \in 1..Len(incoming) : Proper(d, incoming[i])
  PROVE  PutIn(d, t, m, incoming, overwrite, MergeBy(m, incoming, overwrite))
<1> DEFINE map == MapOf(m)
           r   == MergeBy(m, incoming, overwrite)
<1>1. map \in Items /\ Fine(d, map, t) /\ NoneTwice(map) /\ Extends(d, m, map)
  BY MapOfFine
<1>2. r = PutAll(map, incoming, overwrite)
  BY DEF MergeBy
<1> HIDE DEF map, r
<1>3. PutIn(d, t, map, incoming, overwrite, r)
  BY <1>1, <1>2, PutAllFine
<1>4. Extends(d, m, r)
  BY <1>1, <1>3, ExtendsOn DEF PutIn
<1> QED
  BY <1>3, <1>4 DEF PutIn, r

-----------------------------------------------------------------------------
Typed ==
  /\ connected \subseteq up /\ up \subseteq Processes
  /\ job \subseteq Calls /\ (job # {} => "script" \in up)
  /\ mem \in [Processes -> [Documents -> Items]]
  /\ chain \in [Processes -> Seq(Link)]
  /\ rows \in [Documents -> Items]
  /\ turn \in 0..MaxTurns
  /\ kept \in [Documents -> {"stored", "cached", "gone"}]
  /\ \A p \in Processes \ up : mem[p] = Empty /\ chain[p] = <<>>

(* Every version of a document, wherever it is, is in good order. *)
AllFine ==
  /\ \A d \in Documents : Fine(d, rows[d], turn)
  /\ \A p \in Processes, d \in Documents : Fine(d, mem[p][d], turn)
  /\ \A p \in Processes : \A i \in 1..Len(chain[p]) :
       Fine(chain[p][i].doc, chain[p][i].items, turn)

Registry == "ai_knowledge_registry"


-----------------------------------------------------------------------------
(* What one handler writes.                                                 *)
LEMMA ListsAndRegistry ==
  /\ \A d \in Lists : d \in Documents /\ d # Registry
  /\ Registry \in Documents /\ Registry # "knowledge_documents"
  /\ \A d \in Documents : d = Registry \/ d \in Lists
  /\ \A d \in Lists : d = "source_manifest" \/ d = "knowledge_documents"
                        \/ d = "verified_sources" \/ d = "semantic_memory_manifest"
  /\ "source_manifest" \in Lists /\ "knowledge_documents" \in Lists
  /\ "verified_sources" \in Lists /\ "semantic_memory_manifest" \in Lists
BY DEF Lists, Documents, Registry

LEMMA StampedEntries ==
  ASSUME NEW items, items \in Seq(ToSet(items)), ToSet(items) \subseteq Listed, NEW n \in Nat
  PROVE  LET r == Stamped(items, n) IN
         /\ r \in Items /\ Len(r) = Len(items)
         /\ \A i \in 1..Len(items) :
              r[i].key = items[i].key /\ r[i].ai = items[i].ai /\ r[i].by = n
<1> DEFINE r == Stamped(items, n)
<1>1. Len(items) \in Nat /\ DOMAIN items = 1..Len(items)
  OBVIOUS
<1>2. \A i \in 1..Len(items) : items[i] \in Listed
  BY <1>1 DEF ToSet
<1>3. \A e \in Listed : e.key \in Ids /\ e.ai \in Ais
  BY DEF Ids, Ais
<1>4. \A i \in 1..Len(items) : [key |-> items[i].key, ai |-> items[i].ai, by |-> n] \in Entry
  BY <1>2, <1>3 DEF Entry
<1>5. r = [i \in 1..Len(items) |-> [key |-> items[i].key, ai |-> items[i].ai, by |-> n]]
  BY <1>1 DEF Stamped
<1> HIDE DEF r
<1>6. r \in Seq(Entry) /\ Len(r) = Len(items)
  BY <1>1, <1>4, <1>5
<1>7. \A i \in 1..Len(items) :
        r[i].key = items[i].key /\ r[i].ai = items[i].ai /\ r[i].by = n
  BY <1>5
<1> QED
  BY <1>6, <1>7 DEF r, Items

LEMMA PutFine ==
  ASSUME NEW d, NEW t \in Nat, NEW m \in Items, Fine(d, m, t), NoneTwice(m),
         NEW e \in Entry, e.by = t + 1, Proper(d, e), d # "knowledge_documents"
  PROVE  LET r == Put(m, e) IN
         /\ r \in Items /\ Fine(d, r, t + 1) /\ Extends(d, m, r)
         /\ \A x \in ToSet(r) : x \in ToSet(m) \/ x = e
<1> DEFINE r == Put(m, e)
<1>1. /\ r \in Items /\ Holds(r, e)
      /\ \A x : Holds(r, x) => Holds(m, x) \/ x = e
      /\ \A x : Holds(m, x) /\ x.key # e.key => Holds(r, x)
      /\ NoneTwice(r)
  BY PutKeeps DEF Items
<1> HIDE DEF r
<1>2. \A x : Holds(m, x) => x.by \in 1..t /\ Proper(d, x)
  BY FineEntries
<1>3. t + 1 \in 1..(t + 1) /\ \A i \in 1..t : i \in 1..(t + 1) /\ i <= t + 1 /\ i <= i
  OBVIOUS
<1>4. Fine(d, r, t + 1)
  <2>1. \A x : Holds(r, x) =>
          x.by \in 1..(t + 1) /\ Proper(d, x)
    BY <1>1, <1>2, <1>3
  <2>2. t + 1 \in Nat
    OBVIOUS
  <2> QED
    BY <1>1, <2>1, <2>2, FineMade
<1>5. ASSUME NEW x \in ToSet(m) PROVE \E y \in ToSet(r) : Follows(d, x, y)
  <2>1. Holds(m, x) /\ x.by \in 1..t
    BY <1>2, <1>5, InItems
  <2>2. CASE x.key = e.key
    BY <1>1, <1>3, <2>1, <2>2, InItems DEF Follows
  <2>3. CASE x.key # e.key
    BY <1>1, <1>3, <2>1, <2>3, InItems DEF Follows
  <2> QED
    BY <2>2, <2>3
<1>6. Extends(d, m, r)
  BY <1>5 DEF Extends
<1>7. \A x \in ToSet(r) : x \in ToSet(m) \/ x = e
  BY <1>1, InItems
<1> QED
  BY <1>1, <1>4, <1>6, <1>7 DEF r

LEMMA LinkFields ==
  \A w \in Link : w.doc \in Documents /\ w.items \in Items
BY DEF Link

(* The cache has the last write of a document, or what it had.              *)
IsLast(writes, d, i) ==
  /\ writes[i].doc = d
  /\ \A j \in 1..Len(writes) : j > i => writes[j].doc # d

LEMMA CachedIsLast ==
  ASSUME NEW docs, NEW writes \in Seq(Link), NEW d
  PROVE  \/ /\ \A i \in 1..Len(writes) : writes[i].doc # d
            /\ Cached(docs, writes, d) = docs[d]
         \/ \E i \in 1..Len(writes) : /\ IsLast(writes, d, i)
                                      /\ Cached(docs, writes, d) = writes[i].items
<1> DEFINE T == {i \in 1..Len(writes) : writes[i].doc = d}
           last == IF T # {} THEN Max(T) ELSE 0
<1>1. Cached(docs, writes, d) = IF last = 0 THEN docs[d] ELSE writes[last].items
  BY Zenon DEF Cached, SelectLastInSeq
<1>2. Len(writes) \in Nat
  OBVIOUS
<1>3. CASE T = {}
  <2>1. \A i \in 1..Len(writes) : writes[i].doc # d
    BY <1>3
  <2> QED
    BY <1>1, <1>3, <2>1
<1>4. CASE T # {}
  <2>1. last \in T /\ \A i \in T : last >= i
    BY <1>2, <1>4, MaxIsLast
  <2>2. last \in 1..Len(writes) /\ writes[last].doc = d /\ last # 0
    BY <2>1
  <2> HIDE DEF last
  <2>3. IsLast(writes, d, last)
    BY <1>2, <2>1, <2>2 DEF IsLast
  <2> QED
    BY <1>1, <2>2, <2>3
<1> QED
  BY <1>3, <1>4

LEMMA LastIsOne ==
  ASSUME NEW writes \in Seq(Link), NEW d, NEW i \in 1..Len(writes), NEW j \in 1..Len(writes),
         IsLast(writes, d, i), IsLast(writes, d, j)
  PROVE  i = j
BY DEF IsLast

LEMMA CachedIs ==
  ASSUME NEW docs, NEW writes \in Seq(Link), NEW d, NEW l \in 1..Len(writes),
         IsLast(writes, d, l)
  PROVE  Cached(docs, writes, d) = writes[l].items
<1>1. writes[l].doc = d
  BY DEF IsLast
<1>2. PICK i \in 1..Len(writes) : /\ IsLast(writes, d, i)
                                 /\ Cached(docs, writes, d) = writes[i].items
  <2>1. \/ /\ \A i \in 1..Len(writes) : writes[i].doc # d
           /\ Cached(docs, writes, d) = docs[d]
        \/ \E i \in 1..Len(writes) : /\ IsLast(writes, d, i)
                                     /\ Cached(docs, writes, d) = writes[i].items
    BY CachedIsLast
  <2> QED
    BY <1>1, <2>1
<1>3. i = l
  BY <1>2, LastIsOne
<1> QED
  BY <1>2, <1>3

(* A handler's writes go on from its process's cache, those of one document *)
(* each from the one before; the registry's is the last, and what is new in *)
(* it is backed by what is cached then.                                     *)
Batch(docs, t, writes) ==
  /\ writes \in Seq(Link)
  /\ \A i \in 1..Len(writes) :
       /\ Fine(writes[i].doc, writes[i].items, t + 1)
       /\ Extends(writes[i].doc, docs[writes[i].doc], writes[i].items)
  /\ \A i, j \in 1..Len(writes) : (i < j /\ writes[i].doc = writes[j].doc) =>
       Extends(writes[i].doc, writes[i].items, writes[j].items)
  /\ \A i \in 1..Len(writes) : writes[i].doc = Registry =>
       /\ i = Len(writes)
       /\ \A r \in ToSet(writes[i].items) :
            r \in ToSet(docs[Registry]) \/ \A d \in Lists : Backs(Cached(docs, writes, d), r, d)

LEMMA OneWrite ==
  ASSUME NEW docs, NEW t \in Nat, NEW d \in Documents \ {Registry}, NEW items \in Items,
         Fine(d, items, t + 1), Extends(d, docs[d], items)
  PROVE  Batch(docs, t, <<[doc |-> d, items |-> items]>>)
<1> DEFINE w == [doc |-> d, items |-> items]
           writes == <<w>>
<1>1. w \in Link /\ w.doc = d /\ w.items = items
  BY DEF Link
<1>2. writes \in Seq(Link) /\ Len(writes) = 1 /\ writes[1] = w
  BY <1>1
<1> HIDE DEF writes, w
<1>3. \A i \in 1..Len(writes) : i = 1
  BY <1>2
<1>4. Batch(docs, t, writes)
  BY <1>1, <1>2, <1>3 DEF Batch
<1> QED
  BY <1>4 DEF writes, w

(* c: the sequence of writes a with a batch b behind it.                    *)
Behind(a, b, c) ==
  /\ c \in Seq(Link) /\ Len(c) = Len(a) + Len(b)
  /\ Len(a) \in Nat /\ Len(b) \in Nat
  /\ \A i \in 1..Len(a) : i \in 1..Len(c) /\ c[i] = a[i]
  /\ \A i \in 1..Len(b) : Len(a) + i \in 1..Len(c) /\ c[Len(a) + i] = b[i]
  /\ \A i \in 1..Len(c) : i \in 1..Len(a) \/ \E j \in 1..Len(b) : i = Len(a) + j

LEMMA WrittenBehind ==
  ASSUME NEW a \in Seq(Link), NEW b \in Seq(Link)
  PROVE  Behind(a, b, a \o b)
<1>1. a \o b \in Seq(Link) /\ Len(a \o b) = Len(a) + Len(b) /\ Len(a) \in Nat /\ Len(b) \in Nat
  BY ConcatProperties
<1>2. \A i \in 1..(Len(a) + Len(b)) :
        (a \o b)[i] = IF i <= Len(a) THEN a[i] ELSE b[i - Len(a)]
  BY ConcatProperties
<1> DEFINE c == a \o b
           m == Len(a)
           n == Len(b)
<1>3. m \in Nat /\ n \in Nat /\ Len(c) = m + n
  BY <1>1
<1>4. \A i \in 1..(m + n) : c[i] = IF i <= m THEN a[i] ELSE b[i - m]
  BY <1>2
<1> HIDE DEF c, m, n
<1>5. \A i \in 1..m : i \in 1..(m + n) /\ c[i] = a[i]
  BY <1>3, <1>4
<1>6. ASSUME NEW i \in 1..n PROVE m + i \in 1..(m + n) /\ c[m + i] = b[i]
  <2>1. m + i \in 1..(m + n) /\ ~(m + i <= m) /\ (m + i) - m = i
    BY <1>3
  <2> QED
    BY <1>4, <2>1
<1>7. ASSUME NEW i \in 1..(m + n), i \notin 1..m PROVE \E j \in 1..n : i = m + j
  <2>1. i - m \in 1..n /\ i = m + (i - m)
    BY <1>3, <1>7
  <2> QED
    BY <2>1
<1> QED
  BY <1>1, <1>3, <1>5, <1>6, <1>7 DEF Behind, c, m, n


(* The manifest after each of the seed's sources. *)
LEMMA SourceWritesFine ==
  ASSUME NEW call \in Calls, NEW docs \in [Documents -> Items], NEW t \in Nat,
         Fine("source_manifest", docs["source_manifest"], t)
  PROVE  LET d == "source_manifest"
             writes == SourceWrites(call, docs, t + 1)
             sources == Stamped(call.seed[d], t + 1)
         IN /\ Len(writes) = Len(call.seed[d]) /\ Len(writes) \in Nat
            /\ writes \in Seq(Link)
            /\ \A i \in 1..Len(writes) :
                 /\ writes[i].doc = d
                 /\ Fine(d, writes[i].items, t + 1)
                 /\ Extends(d, docs[d], writes[i].items)
            /\ \A i, j \in 1..Len(writes) :
                 i < j => Extends(d, writes[i].items, writes[j].items)
            /\ \A j \in 1..Len(writes) : \A k \in 1..j :
                 \E x \in ToSet(writes[j].items) :
                   x.key = call.seed[d][k].key /\ x.by = t + 1
<1> DEFINE d == "source_manifest"
           seed == call.seed[d]
           sources == Stamped(seed, t + 1)
           n == Len(seed)
           writes == SourceWrites(call, docs, t + 1)
           m == docs[d]
           made(i) == PutAll(m, SubSeq(sources, 1, i), TRUE)
<1>1. d \in Lists /\ d \in Documents /\ d # "knowledge_documents"
  BY DEF Lists, Documents
<1>2. call.seed \in Seeds
  BY DEF Calls
<1>3. seed \in Seq(ToSet(seed)) /\ ToSet(seed) \subseteq Listed
  BY <1>1, <1>2, KnowledgeAssumption DEF Listed
<1>4. /\ sources \in Items /\ Len(sources) = n
      /\ \A i \in 1..n : sources[i].key = seed[i].key /\ sources[i].by = t + 1
  BY <1>3, StampedEntries
<1>5. n \in Nat
  BY <1>3
<1>6. writes = [i \in 1..n |-> [doc |-> d, items |-> made(i)]]
  <2>1. DOMAIN sources = 1..n
    BY <1>4 DEF Items
  <2> QED
    BY <2>1 DEF SourceWrites
<1>7. m \in Items /\ Fine(d, m, t) /\ NoneTwice(m)
  BY <1>1 DEF Fine
<1> HIDE DEF writes, sources, n, seed, d, m
<1>8. ASSUME NEW i \in 1..n
      PROVE  LET s == SubSeq(sources, 1, i) IN
             /\ s \in Items /\ Len(s) = i
             /\ \A k \in 1..i : s[k] = sources[k] /\ k \in 1..n
  BY <1>4, <1>5, SubSeqProperties DEF Items
<1>9. ASSUME NEW i \in 1..n
      PROVE  PutIn(d, t, m, SubSeq(sources, 1, i), TRUE, made(i))
  <2> DEFINE s == SubSeq(sources, 1, i)
  <2>1. s \in Items /\ \A k \in 1..Len(s) : s[k].by = t + 1
    BY <1>4, <1>8
  <2>2. \A k \in 1..Len(s) : Proper(d, s[k])
    BY DEF Proper, d
  <2> HIDE DEF s
  <2>3. PutIn(d, t, m, s, TRUE, PutAll(m, s, TRUE))
    BY <1>1, <1>7, <2>1, <2>2, PutAllFine
  <2> QED
    BY <2>3 DEF s
<1>10. ASSUME NEW i \in 1..n, NEW k \in 1..i
       PROVE  \E x \in ToSet(made(i)) : x.key = seed[k].key /\ x.by = t + 1
  <2> DEFINE s == SubSeq(sources, 1, i)
  <2>1. Len(s) = i /\ s[k].key = seed[k].key
    BY <1>4, <1>8
  <2>2. \A l \in 1..Len(s) :
          \E x \in ToSet(made(i)) : x.key = s[l].key /\ (TRUE => x.by = t + 1)
    <3> HIDE DEF made
    <3> QED
      BY <1>9 DEF PutIn
  <2> QED
    BY <2>1, <2>2
<1>11. ASSUME NEW i \in 1..n, NEW j \in 1..n, i < j
       PROVE  Extends(d, made(i), made(j))
  <2> DEFINE s == SubSeq(sources, 1, i)
  <2>1. s \in Items /\ Len(s) = i /\ \A k \in 1..i : s[k] = sources[k] /\ k \in 1..n
    BY <1>8
  <2>2. Merged(m, s, TRUE, i, made(i)) /\ made(i) \in Items
    <3> HIDE DEF s
    <3>1. Merged(m, s, TRUE, i, PutAll(m, s, TRUE)) /\ PutAll(m, s, TRUE) \in Items
      BY <1>7, <2>1, PutAllMerged DEF Items
    <3> QED
      BY <3>1 DEF s
  <2>3. Extends(d, m, made(j))
    BY <1>9 DEF PutIn
  <2> HIDE DEF made, s
  <2>4. \A x : Holds(made(i), x) => Holds(m, x) \/ \E k \in 1..i : s[k] = x
    BY <2>2 DEF Merged
  <2>5. ASSUME NEW x \in ToSet(made(i)) PROVE \E y \in ToSet(made(j)) : Follows(d, x, y)
    <3>1. Holds(made(i), x)
      BY <2>2, InItems
    <3>2. CASE Holds(m, x)
      BY <1>7, <2>3, <3>2, InItems DEF Extends
    <3>3. CASE \E k \in 1..i : s[k] = x
      <4>1. PICK k \in 1..i : s[k] = x
        BY <3>3
      <4>2. x.key = seed[k].key /\ x.by = t + 1
        BY <1>4, <2>1, <4>1
      <4>3. k \in 1..j
        BY <1>5, <1>11
      <4>4. PICK y \in ToSet(made(j)) : y.key = seed[k].key /\ y.by = t + 1
        BY <1>10, <4>3
      <4>5. x.by <= y.by
        BY <4>2, <4>4
      <4> QED
        BY <1>1, <4>2, <4>4, <4>5 DEF Follows
    <3> QED
      BY <2>4, <3>1, <3>2, <3>3
  <2> QED
    BY <2>5 DEF Extends
<1>12. \A i \in 1..n : made(i) \in Items /\ Fine(d, made(i), t + 1) /\ Extends(d, m, made(i))
  BY <1>9 DEF PutIn
<1> HIDE DEF made
<1>13. /\ writes \in Seq(Link) /\ Len(writes) = n
       /\ \A i \in 1..n : writes[i].doc = d /\ writes[i].items = made(i)
  <2>1. \A i \in 1..n : [doc |-> d, items |-> made(i)] \in Link
    BY <1>1, <1>12 DEF Link
  <2> QED
    BY <1>5, <1>6, <2>1
<1>14. \A i \in 1..n : /\ writes[i].doc = d
                        /\ Fine(d, writes[i].items, t + 1)
                        /\ Extends(d, m, writes[i].items)
  BY <1>12, <1>13
<1>15. \A i, j \in 1..n : i < j => Extends(d, writes[i].items, writes[j].items)
  BY <1>11, <1>13
<1>16. \A j \in 1..n : \A k \in 1..j :
         \E x \in ToSet(writes[j].items) : x.key = seed[k].key /\ x.by = t + 1
  BY <1>10, <1>13
<1> QED
  BY <1>5, <1>13, <1>14, <1>15, <1>16 DEF writes, n, seed, d, m

(* A list merged as a whole. *)
LEMMA MergeWriteFine ==
  ASSUME NEW call \in Calls, Verified(call.seed), NEW docs \in [Documents -> Items],
         NEW t \in Nat, NEW d \in Lists, Fine(d, docs[d], t)
  PROVE  LET w == MergeWrite(call, docs, t + 1, d) IN
         /\ w \in Link /\ w.doc = d
         /\ Fine(d, w.items, t + 1) /\ Extends(d, docs[d], w.items)
         /\ \A k \in 1..Len(call.seed[d]) : \E x \in ToSet(w.items) :
              x.key = call.seed[d][k].key /\ (call.overwrite => x.by = t + 1)
<1> DEFINE seed == call.seed[d]
           in == Stamped(seed, t + 1)
           m == docs[d]
           items == MergeBy(m, in, call.overwrite)
           w == MergeWrite(call, docs, t + 1, d)
<1>1. call.seed \in Seeds /\ call.overwrite \in BOOLEAN
  BY DEF Calls
<1>2. seed \in Seq(ToSet(seed)) /\ ToSet(seed) \subseteq Listed
  BY <1>1, KnowledgeAssumption DEF Listed
<1>3. /\ in \in Items /\ Len(in) = Len(seed)
      /\ \A i \in 1..Len(seed) :
           in[i].key = seed[i].key /\ in[i].ai = seed[i].ai /\ in[i].by = t + 1
  BY <1>2, StampedEntries
<1>4. \A i \in 1..Len(in) : Proper(d, in[i])
  <2> SUFFICES ASSUME d = "knowledge_documents", NEW i \in 1..Len(in) PROVE KnownAs(in[i])
    BY ListsAndRegistry DEF Proper, Registry
  <2>1. seed[i] \in ToSet(seed)
    BY <1>2, <1>3 DEF ToSet
  <2>2. seed[i].ai = call.seed.ai
    BY <2>1 DEF Verified
  <2>3. in[i].key = seed[i].key /\ in[i].ai = seed[i].ai
    BY <1>3
  <2> QED
    BY <1>1, <2>1, <2>2, <2>3 DEF KnownAs
<1>5. d \in Documents /\ m \in Items
  BY DEF Documents
<1>6. w = [doc |-> d, items |-> items]
  BY DEF MergeWrite
<1> HIDE DEF in, w, seed
<1>7. PutIn(d, t, m, in, call.overwrite, items)
  <2> HIDE DEF m
  <2>1. Fine(d, m, t) /\ \A i \in 1..Len(in) : in[i].by = t + 1
    BY <1>3 DEF m
  <2> QED
    BY <1>1, <1>3, <1>4, <1>5, <2>1, MergeByFine
<1> HIDE DEF items
<1>8. /\ items \in Items /\ Fine(d, items, t + 1) /\ Extends(d, m, items)
      /\ \A i \in 1..Len(in) :
           \E x \in ToSet(items) : x.key = in[i].key /\ (call.overwrite => x.by = t + 1)
  BY <1>7 DEF PutIn
<1>9. w \in Link /\ w.doc = d /\ w.items = items
  BY <1>5, <1>6, <1>8 DEF Link
<1>10. \A k \in 1..Len(seed) : \E x \in ToSet(items) :
         x.key = seed[k].key /\ (call.overwrite => x.by = t + 1)
  BY <1>3, <1>8
<1> QED
  BY <1>8, <1>9, <1>10 DEF w, seed, m

(* The registry with one more seeding. *)
LEMMA RegistryWriteFine ==
  ASSUME NEW call \in Calls, Verified(call.seed), NEW docs \in [Documents -> Items],
         NEW t \in Nat, Fine(Registry, docs[Registry], t)
  PROVE  LET w == RegistryWrite(call, docs, t + 1) IN
         /\ w \in Link /\ w.doc = Registry
         /\ Fine(Registry, w.items, t + 1) /\ Extends(Registry, docs[Registry], w.items)
         /\ \A r \in ToSet(w.items) :
              r \in ToSet(docs[Registry]) \/ (r.call = call /\ r.by = t + 1)
<1> DEFINE m == docs[Registry]
           e == [key |-> call.seed.ai, ai |-> call.seed.ai, by |-> t + 1, call |-> call]
           w == RegistryWrite(call, docs, t + 1)
<1>1. call.seed \in Seeds
  BY DEF Calls
<1>2. call.seed.ai \in Ids /\ call.seed.ai \in Ais
  BY <1>1 DEF Ids, Ais
<1>3. e \in Entry /\ e.by = t + 1 /\ e.call = call
  BY <1>2 DEF Entry
<1>4. Registry \in Documents /\ Registry # "knowledge_documents" /\ Proper(Registry, e)
  BY ListsAndRegistry DEF Proper, Recorded
<1>5. m \in Items /\ Fine(Registry, m, t) /\ NoneTwice(m)
  BY <1>4 DEF Fine, Registry
<1>6. w = [doc |-> Registry, items |-> Put(m, e)]
  BY DEF RegistryWrite, Registry
<1> HIDE DEF m, e, w
<1>7. /\ Put(m, e) \in Items /\ Fine(Registry, Put(m, e), t + 1)
      /\ Extends(Registry, m, Put(m, e))
      /\ \A x \in ToSet(Put(m, e)) : x \in ToSet(m) \/ x = e
  BY <1>3, <1>4, <1>5, PutFine
<1>8. w \in Link /\ w.doc = Registry /\ w.items = Put(m, e)
  BY <1>4, <1>6, <1>7 DEF Link
<1>9. \A r \in ToSet(w.items) : r \in ToSet(m) \/ (r.call = call /\ r.by = t + 1)
  BY <1>3, <1>7, <1>8
<1> QED
  BY <1>7, <1>8, <1>9 DEF m, w

LEMMA SeedBatch ==
  ASSUME NEW call \in Calls, Verified(call.seed), NEW docs \in [Documents -> Items],
         NEW t \in Nat, \A d \in Documents : Fine(d, docs[d], t)
  PROVE  Batch(docs, t, SeedWrites(call, docs, t + 1))
<1> DEFINE S  == SourceWrites(call, docs, t + 1)
           M(d) == MergeWrite(call, docs, t + 1, d)
           R  == RegistryWrite(call, docs, t + 1)
           n  == Len(S)
           writes == SeedWrites(call, docs, t + 1)
<1>1. /\ n = Len(call.seed["source_manifest"]) /\ n \in Nat /\ S \in Seq(Link)
      /\ \A i \in 1..n : /\ S[i].doc = "source_manifest"
                         /\ Fine("source_manifest", S[i].items, t + 1)
                         /\ Extends("source_manifest", docs["source_manifest"], S[i].items)
      /\ \A i, j \in 1..n : i < j => Extends("source_manifest", S[i].items, S[j].items)
      /\ \A j \in 1..n : \A k \in 1..j :
           \E x \in ToSet(S[j].items) :
             x.key = call.seed["source_manifest"][k].key /\ x.by = t + 1
  <2>1. Fine("source_manifest", docs["source_manifest"], t)
    BY DEF Documents, Lists
  <2> QED
    BY <2>1, SourceWritesFine
<1>2. \A d \in Lists :
        /\ M(d) \in Link /\ M(d).doc = d
        /\ Fine(d, M(d).items, t + 1) /\ Extends(d, docs[d], M(d).items)
        /\ \A k \in 1..Len(call.seed[d]) : \E x \in ToSet(M(d).items) :
             x.key = call.seed[d][k].key /\ (call.overwrite => x.by = t + 1)
  BY MergeWriteFine, ListsAndRegistry
<1>3. /\ R \in Link /\ R.doc = Registry
      /\ Fine(Registry, R.items, t + 1) /\ Extends(Registry, docs[Registry], R.items)
      /\ \A r \in ToSet(R.items) : r \in ToSet(docs[Registry]) \/ (r.call = call /\ r.by = t + 1)
  BY RegistryWriteFine, ListsAndRegistry
<1>4. writes = S \o <<M("knowledge_documents"), M("verified_sources"),
                      M("semantic_memory_manifest"), R>>
  BY DEF SeedWrites
<1>sets. n = Len(S)
  OBVIOUS
<1> HIDE DEF S, M, R, n, writes
<1>seq. n \in Nat /\ S \in Seq(Link)
  BY <1>1
<1>5. /\ writes \in Seq(Link) /\ Len(writes) = n + 4
      /\ \A i \in 1..n : writes[i] = S[i]
      /\ writes[n + 1] = M("knowledge_documents") /\ writes[n + 2] = M("verified_sources")
      /\ writes[n + 3] = M("semantic_memory_manifest") /\ writes[n + 4] = R
  <2> DEFINE four == <<M("knowledge_documents"), M("verified_sources"),
                       M("semantic_memory_manifest"), R>>
  <2>1. /\ M("knowledge_documents") \in Link /\ M("verified_sources") \in Link
        /\ M("semantic_memory_manifest") \in Link
    BY <1>2, ListsAndRegistry
  <2>2. four \in Seq(Link) /\ Len(four) = 4
    <3>1. R \in Link
      BY <1>3
    <3> QED
      BY <2>1, <3>1
  <2>3. /\ four[1] = M("knowledge_documents") /\ four[2] = M("verified_sources")
        /\ four[3] = M("semantic_memory_manifest") /\ four[4] = R
    OBVIOUS
  <2>4. writes = S \o four
    BY <1>4
  <2> HIDE DEF four
  <2>5. Behind(S, four, writes)
    BY <1>seq, <2>2, <2>4, WrittenBehind
  <2>6. writes \in Seq(Link) /\ Len(writes) = n + 4
    BY <1>sets, <2>2, <2>5 DEF Behind
  <2>7. \A i \in 1..n : writes[i] = S[i]
    BY <1>sets, <2>5 DEF Behind
  <2>8. \A i \in 1..4 : writes[n + i] = four[i]
    BY <1>sets, <2>2, <2>5 DEF Behind
  <2>9. /\ writes[n + 1] = four[1] /\ writes[n + 2] = four[2]
        /\ writes[n + 3] = four[3] /\ writes[n + 4] = four[4]
    BY <2>8
  <2> QED
    BY <2>3, <2>6, <2>7, <2>9
<1>len. n \in Nat /\ Len(writes) = n + 4 /\ writes \in Seq(Link)
  BY <1>seq, <1>5
<1>6. \A i \in 1..Len(writes) :
        i \in 1..n \/ i = n + 1 \/ i = n + 2 \/ i = n + 3 \/ i = n + 4
  BY <1>len
<1>7. /\ \A i \in 1..n : writes[i].doc = "source_manifest"
      /\ writes[n + 1].doc = "knowledge_documents" /\ writes[n + 2].doc = "verified_sources"
      /\ writes[n + 3].doc = "semantic_memory_manifest" /\ writes[n + 4].doc = Registry
  <2>1. /\ M("knowledge_documents").doc = "knowledge_documents"
        /\ M("verified_sources").doc = "verified_sources"
        /\ M("semantic_memory_manifest").doc = "semantic_memory_manifest"
    BY <1>2, ListsAndRegistry
  <2>2. \A i \in 1..n : writes[i].doc = "source_manifest"
    BY <1>1, <1>5
  <2> QED
    BY <1>3, <1>5, <2>1, <2>2
<1>8. ASSUME NEW i \in 1..Len(writes)
      PROVE  /\ Fine(writes[i].doc, writes[i].items, t + 1)
             /\ Extends(writes[i].doc, docs[writes[i].doc], writes[i].items)
  <2>1. CASE i \in 1..n
    BY <1>1, <1>5, <2>1
  <2>2. ASSUME NEW d \in Lists, writes[i] = M(d)
        PROVE  /\ Fine(writes[i].doc, writes[i].items, t + 1)
               /\ Extends(writes[i].doc, docs[writes[i].doc], writes[i].items)
    BY <1>2, <2>2
  <2>3. CASE i = n + 4
    BY <1>3, <1>5, <2>3
  <2> QED
    BY <1>5, <1>6, <2>1, <2>2, <2>3, ListsAndRegistry
<1> DEFINE doc(i) == writes[i].doc
<1>docs. /\ \A i \in 1..n : doc(i) = "source_manifest"
       /\ doc(n + 1) = "knowledge_documents" /\ doc(n + 2) = "verified_sources"
       /\ doc(n + 3) = "semantic_memory_manifest" /\ doc(n + 4) = "ai_knowledge_registry"
  BY <1>7 DEF Registry
<1>places. ASSUME NEW i \in 1..Len(writes)
       PROVE  /\ doc(i) = "source_manifest" <=> i \in 1..n
              /\ doc(i) = "knowledge_documents" <=> i = n + 1
              /\ doc(i) = "verified_sources" <=> i = n + 2
              /\ doc(i) = "semantic_memory_manifest" <=> i = n + 3
              /\ doc(i) = "ai_knowledge_registry" <=> i = n + 4
  <2>1. /\ \A k \in 1..n : k # n + 1 /\ k # n + 2 /\ k # n + 3 /\ k # n + 4
        /\ n + 1 # n + 2 /\ n + 1 # n + 3 /\ n + 1 # n + 4
        /\ n + 2 # n + 3 /\ n + 2 # n + 4 /\ n + 3 # n + 4
    BY <1>len
  <2> HIDE DEF doc
  <2>2. CASE i \in 1..n
    <3>1. doc(i) = "source_manifest"
      BY <1>docs, <2>2
    <3> QED
      BY <2>1, <2>2, <3>1
  <2>3. CASE i = n + 1
    BY <1>docs, <2>1, <2>3
  <2>4. CASE i = n + 2
    BY <1>docs, <2>1, <2>4
  <2>5. CASE i = n + 3
    BY <1>docs, <2>1, <2>5
  <2>6. CASE i = n + 4
    BY <1>docs, <2>1, <2>6
  <2> QED
    BY <1>6, <2>2, <2>3, <2>4, <2>5, <2>6
<1>9. ASSUME NEW i \in 1..Len(writes), NEW j \in 1..Len(writes), i < j,
             writes[i].doc = writes[j].doc
      PROVE  Extends(writes[i].doc, writes[i].items, writes[j].items)
  <2>1. i \in 1..n /\ j \in 1..n
    <3>1. doc(i) = doc(j) /\ i \in Int /\ j \in Int /\ i # j
      BY <1>9
    <3> HIDE DEF doc
    <3> QED
      BY <1>6, <1>places, <3>1
  <2>2. writes[i] = S[i] /\ writes[j] = S[j] /\ S[i].doc = "source_manifest"
    BY <1>1, <1>5, <2>1
  <2>3. Extends("source_manifest", S[i].items, S[j].items)
    BY <1>1, <1>9, <2>1
  <2> QED
    BY <2>2, <2>3
<1>10. ASSUME NEW i \in 1..Len(writes), writes[i].doc = Registry PROVE i = Len(writes)
  <2>1. doc(i) = "ai_knowledge_registry"
    BY <1>10 DEF Registry
  <2> HIDE DEF doc
  <2> QED
    BY <1>5, <1>6, <1>docs, <2>1
<1>11. ASSUME NEW d \in Lists, NEW r, r.call = call, r.by = t + 1
       PROVE  Backs(Cached(docs, writes, d), r, d)
  <2> SUFFICES ASSUME NEW e \in ToSet(call.seed[d])
               PROVE  \E x \in ToSet(Cached(docs, writes, d)) :
                        x.key = e.key /\ (call.overwrite => x.by >= t + 1)
    BY <1>11 DEF Backs
  <2>1. call.seed \in Seeds
    BY DEF Calls
  <2>2. call.seed[d] \in Seq(ToSet(call.seed[d]))
    BY <2>1, KnowledgeAssumption
  <2>3. PICK k \in 1..Len(call.seed[d]) : call.seed[d][k] = e
    BY <2>2 DEF ToSet
  <2>4. t + 1 >= t + 1
    OBVIOUS
  <2>5. CASE d = "source_manifest"
    <3>0. Len(call.seed[d]) = n
      BY <1>1, <2>5
    <3>k. k \in 1..n
      BY <3>0
    <3>1. n \in 1..n /\ k \in 1..n /\ n \in 1..Len(writes)
      BY <1>len, <3>k
    <3>2. doc(n) = "source_manifest" /\ \A j \in 1..Len(writes) : j > n => doc(j) # "source_manifest"
      <4> HIDE DEF doc
      <4>1. \A j \in 1..Len(writes) : j > n => j \notin 1..n
        BY <1>len
      <4> QED
        BY <1>places, <3>1, <4>1
    <3>3. IsLast(writes, d, n)
      BY <2>5, <3>2 DEF IsLast
    <3>4. Cached(docs, writes, d) = S[n].items
      <4>1. Cached(docs, writes, d) = writes[n].items
        BY <1>len, <3>1, <3>3, CachedIs
      <4>2. writes[n] = S[n]
        BY <1>5, <3>1
      <4> QED
        BY <4>1, <4>2
    <3>5. \E x \in ToSet(S[n].items) : x.key = e.key /\ x.by = t + 1
      BY <1>1, <2>3, <2>5, <3>1
    <3> QED
      BY <2>4, <3>4, <3>5
  <2>6. ASSUME NEW l \in 1..Len(writes), writes[l] = M(d), IsLast(writes, d, l)
        PROVE  \E x \in ToSet(Cached(docs, writes, d)) :
                 x.key = e.key /\ (call.overwrite => x.by >= t + 1)
    <3>1. Cached(docs, writes, d) = M(d).items
      BY <1>len, <2>6, CachedIs
    <3>2. \E x \in ToSet(M(d).items) : x.key = e.key /\ (call.overwrite => x.by = t + 1)
      BY <1>2, <2>3
    <3> QED
      BY <2>4, <3>1, <3>2
  <2>7. /\ n + 1 \in 1..Len(writes) /\ n + 2 \in 1..Len(writes) /\ n + 3 \in 1..Len(writes)
        /\ \A j \in 1..Len(writes) :
             /\ j > n + 1 => doc(j) # "knowledge_documents"
             /\ j > n + 2 => doc(j) # "verified_sources"
             /\ j > n + 3 => doc(j) # "semantic_memory_manifest"
    <3> HIDE DEF doc
    <3>1. /\ n + 1 \in 1..Len(writes) /\ n + 2 \in 1..Len(writes) /\ n + 3 \in 1..Len(writes)
      BY <1>len
    <3>2. \A j \in 1..Len(writes) :
            (j > n + 1 => j # n + 1) /\ (j > n + 2 => j # n + 2) /\ (j > n + 3 => j # n + 3)
      BY <1>len
    <3> QED
      BY <1>places, <3>1, <3>2
  <2>8. CASE d = "knowledge_documents"
    <3>1. IsLast(writes, d, n + 1)
      BY <1>docs, <2>7, <2>8 DEF IsLast
    <3> QED
      BY <1>5, <2>6, <2>7, <2>8, <3>1
  <2>9. CASE d = "verified_sources"
    <3>1. IsLast(writes, d, n + 2)
      BY <1>docs, <2>7, <2>9 DEF IsLast
    <3> QED
      BY <1>5, <2>6, <2>7, <2>9, <3>1
  <2>10. CASE d = "semantic_memory_manifest"
    <3>1. IsLast(writes, d, n + 3)
      BY <1>docs, <2>7, <2>10 DEF IsLast
    <3> QED
      BY <1>5, <2>6, <2>7, <2>10, <3>1
  <2> QED
    BY <2>5, <2>8, <2>9, <2>10, ListsAndRegistry
<1>12. ASSUME NEW i \in 1..Len(writes), writes[i].doc = Registry, NEW r \in ToSet(writes[i].items)
       PROVE  r \in ToSet(docs[Registry]) \/ \A d \in Lists : Backs(Cached(docs, writes, d), r, d)
  <2>1. writes[i] = R
    BY <1>5, <1>10, <1>12
  <2> QED
    BY <1>3, <1>11, <1>12, <2>1
<1>13. Batch(docs, t, writes)
  BY <1>5, <1>8, <1>9, <1>10, <1>12 DEF Batch
<1> QED
  BY <1>13 DEF writes

(* Every handler and every seeding is one batch of writes of a process.     *)
WritesAt(p, writes) ==
  p \in up /\ Batch(mem[p], turn, writes) /\ WriteAll(p, writes) /\ job' \in SUBSET job

LEMMA CachedFine ==
  ASSUME Typed, AllFine, NEW p \in Processes
  PROVE  /\ mem[p] \in [Documents -> Items] /\ turn \in Nat
         /\ \A d \in Documents : mem[p][d] \in Items /\ Fine(d, mem[p][d], turn)
BY DEF Typed, AllFine

LEMMA UpProcesses == \A p : p \in up /\ Typed => p \in Processes
BY DEF Typed

LEMMA SeedWritesAt ==
  ASSUME Typed, AllFine, NEW p \in Processes, NEW call \in Calls,
         Seed(p, call), job' \in SUBSET job
  PROVE  \E writes : WritesAt(p, writes)
<1>1. p \in up /\ Verified(call.seed)
  BY DEF Seed, Typed
<1>2. Batch(mem[p], turn, SeedWrites(call, mem[p], turn + 1))
  BY <1>1, CachedFine, SeedBatch
<1>3. WritesAt(p, SeedWrites(call, mem[p], turn + 1))
  BY <1>1, <1>2 DEF Seed, WritesAt
<1> QED
  BY <1>3

LEMMA AppendFine ==
  ASSUME NEW d \in Documents, d \in {"verified_sources", "semantic_memory_manifest"},
         NEW t \in Nat, NEW m \in Items, Fine(d, m, t),
         NEW e \in Entry, e.by = t + 1
  PROVE  LET r == Append(m, e) IN
         r \in Items /\ Fine(d, r, t + 1) /\ Extends(d, m, r)
<1> DEFINE r == Append(m, e)
<1>1. /\ r \in Items /\ Len(r) = Len(m) + 1 /\ r[Len(m) + 1] = e
      /\ \A i \in 1..Len(m) : r[i] = m[i]
  BY AppendProperties DEF Items
<1>2. Len(m) \in Nat /\ \A i \in 1..Len(m) : m[i].by \in 1..t
  BY InItems DEF Fine
<1> HIDE DEF r
<1>3. \A i \in 1..Len(r) : i \in 1..Len(m) \/ (i = Len(m) + 1 /\ r[i] = e)
  BY <1>1, <1>2
<1>4. \A i \in 1..Len(r) : r[i].by \in 1..(t + 1)
  BY <1>1, <1>2, <1>3
<1>5. ASSUME NEW i \in 1..Len(r), NEW j \in 1..Len(r), r[i].key = r[j].key, i < j
      PROVE  r[i].by <= r[j].by
  <2>1. i \in 1..Len(m)
    BY <1>1, <1>2, <1>5
  <2>2. CASE j \in 1..Len(m)
    BY <1>1, <1>5, <2>1, <2>2 DEF Fine
  <2>3. CASE j = Len(m) + 1
    BY <1>1, <1>2, <2>1, <2>3
  <2> QED
    BY <1>3, <2>2, <2>3
<1>6. Fine(d, r, t + 1)
  <2>1. \A i \in 1..Len(r) : Proper(d, r[i])
    BY DEF Proper
  <2> QED
    BY <1>4, <1>5, <2>1 DEF Fine
<1>7. ASSUME NEW x \in ToSet(m) PROVE \E y \in ToSet(r) : Follows(d, x, y)
  <2>1. PICK i \in 1..Len(m) : m[i] = x
    BY <1>7, InItems DEF Holds
  <2>2. i \in 1..Len(r) /\ r[i] = x
    BY <1>1, <1>2, <2>1
  <2>3. x \in ToSet(r) /\ x.by \in Nat
    BY <1>1, <1>7, <2>2, InItems
  <2>4. Follows(d, x, x)
    BY <2>3 DEF Follows
  <2> QED
    BY <2>3, <2>4
<1>8. Extends(d, m, r)
  BY <1>7 DEF Extends
<1> QED
  BY <1>1, <1>6, <1>8 DEF r

LEMMA MemoryWritesAt ==
  ASSUME Typed, AllFine, NEW note \in Notes, AddMemory(note)
  PROVE  \E writes : WritesAt("server", writes)
<1> DEFINE d == note.layer
           m == mem["server"][d]
           e == [key |-> IF note.key = NoKey THEN <<"mem", turn + 1>> ELSE note.key,
                 ai |-> note.ai, by |-> turn + 1]
           writes == <<[doc |-> d, items |-> Append(m, e)]>>
<1>1. "server" \in up /\ "server" \in Processes /\ UNCHANGED job
  BY DEF AddMemory, Typed, Processes
<1>2. WriteAll("server", writes)
  BY DEF AddMemory
<1>3. turn \in Nat /\ turn + 1 \in 1..MaxTurns
  BY <1>2, KnowledgeAssumption DEF WriteAll, Typed
<1>4. d \in {"verified_sources", "semantic_memory_manifest"}
  BY KnowledgeAssumption
<1>5. d \in Documents /\ d \in Documents \ {Registry}
  BY <1>4 DEF Documents, Lists, Registry
<1>6. m \in Items /\ Fine(d, m, turn)
  BY <1>1, <1>5, CachedFine
<1>7. e \in Entry /\ e.by = turn + 1
  <2>1. note.ai \in Ais /\ note.key \in Ids /\ <<"mem", turn + 1>> \in Ids
    BY <1>3 DEF Ais, Ids
  <2>2. e.by = turn + 1 /\ turn + 1 \in Nat
    BY <1>3
  <2> QED
    BY <2>1, <2>2 DEF Entry
<1> HIDE DEF e, m
<1>8. /\ Append(m, e) \in Items /\ Fine(d, Append(m, e), turn + 1)
      /\ Extends(d, m, Append(m, e))
  BY <1>3, <1>4, <1>5, <1>6, <1>7, AppendFine
<1>9. Batch(mem["server"], turn, writes)
  BY <1>3, <1>5, <1>8, OneWrite DEF m
<1>10. WritesAt("server", writes)
  BY <1>1, <1>2, <1>9 DEF WritesAt
<1> QED
  BY <1>10

LEMMA SourceWritesAt ==
  ASSUME Typed, AllFine, NEW source \in Given, UpsertSource(source)
  PROVE  \E writes : WritesAt("server", writes)
<1> DEFINE d == "source_manifest"
           m == mem["server"][d]
           e == Stamped(<<source>>, turn + 1)[1]
           writes == <<[doc |-> d, items |-> Put(m, e)]>>
<1>1. "server" \in up /\ "server" \in Processes /\ UNCHANGED job
  BY DEF UpsertSource, Typed, Processes
<1>2. WriteAll("server", writes)
  BY DEF UpsertSource
<1>3. turn \in Nat
  BY <1>1, CachedFine
<1>4. d \in Documents /\ d \in Documents \ {Registry} /\ d # "knowledge_documents" /\ Proper(d, e)
  BY DEF Documents, Lists, Registry, Proper
<1>5. m \in Items /\ Fine(d, m, turn)
  BY <1>1, <1>4, CachedFine
<1>6. NoneTwice(m)
  BY <1>5 DEF Fine
<1>7. e \in Entry /\ e.by = turn + 1
  <2>1. e = [key |-> source.key, ai |-> source.ai, by |-> turn + 1]
    BY DEF Stamped
  <2>2. source.key \in Ids /\ source.ai \in Ais
    BY DEF Ids, Ais, Listed
  <2>3. turn + 1 \in Nat
    BY <1>3
  <2> HIDE DEF e
  <2> QED
    BY <2>1, <2>2, <2>3 DEF Entry
<1> HIDE DEF e, m, d
<1>8. /\ Put(m, e) \in Items /\ Fine(d, Put(m, e), turn + 1) /\ Extends(d, m, Put(m, e))
  BY <1>3, <1>4, <1>5, <1>6, <1>7, PutFine
<1>9. Batch(mem["server"], turn, writes)
  BY <1>3, <1>4, <1>8, OneWrite DEF m
<1>10. WritesAt("server", writes)
  BY <1>1, <1>2, <1>9 DEF WritesAt
<1> QED
  BY <1>10

-----------------------------------------------------------------------------
(* What a process caches behind its handlers' writes.                       *)
LEMMA CachedIsItems ==
  ASSUME NEW docs \in [Documents -> Items], NEW t, NEW writes, Batch(docs, t, writes),
         NEW d \in Documents
  PROVE  /\ Cached(docs, writes, d) \in Items
         /\ Cached(docs, writes, d) = docs[d] \/ Fine(d, Cached(docs, writes, d), t + 1)
<1>1. writes \in Seq(Link)
  BY DEF Batch
<1>2. \A i \in 1..Len(writes) : writes[i].items \in Items
  <2>1. \A i \in 1..Len(writes) : writes[i] \in Link
    BY <1>1
  <2> QED
    BY <2>1, LinkFields
<1>3. CASE Cached(docs, writes, d) = docs[d]
  BY <1>3
<1>4. ASSUME NEW i \in 1..Len(writes), IsLast(writes, d, i),
             Cached(docs, writes, d) = writes[i].items
      PROVE  /\ Cached(docs, writes, d) \in Items
             /\ Fine(d, Cached(docs, writes, d), t + 1)
  <2>1. writes[i].doc = d
    BY <1>4 DEF IsLast
  <2>2. Fine(writes[i].doc, writes[i].items, t + 1)
    BY DEF Batch
  <2> QED
    BY <1>2, <1>4, <2>1, <2>2
<1> QED
  BY <1>1, <1>3, <1>4, CachedIsLast

-----------------------------------------------------------------------------
(* Every document, wherever it is, stays in good order.                     *)
LEMMA FineTill ==
  ASSUME NEW d, NEW items \in Items, NEW t \in Nat, NEW u \in Nat, t <= u, Fine(d, items, t)
  PROVE  Fine(d, items, u)
<1>1. \A n : n \in 1..t => n \in 1..u
  OBVIOUS
<1> QED
  BY <1>1 DEF Fine

LEMMA LinksTyped ==
  ASSUME Typed, NEW p \in Processes
  PROVE  /\ chain[p] \in Seq(Link) /\ Len(chain[p]) \in Nat
         /\ \A i \in 1..Len(chain[p]) :
              chain[p][i].doc \in Documents /\ chain[p][i].items \in Items
<1>1. chain[p] \in Seq(Link)
  BY DEF Typed
<1>2. \A i \in 1..Len(chain[p]) : chain[p][i] \in Link
  BY <1>1
<1> QED
  BY <1>1, <1>2, LinkFields

LEMMA WrittenOrdered ==
  ASSUME Typed, AllFine, NEW p, NEW writes, WritesAt(p, writes)
  PROVE  Typed' /\ AllFine'
<1>1. /\ p \in up /\ p \in Processes /\ job' \in SUBSET job
      /\ Batch(mem[p], turn, writes) /\ WriteAll(p, writes)
  BY UpProcesses DEF WritesAt
<1>2. /\ turn \in Nat /\ turn' = turn + 1 /\ turn' \in Nat /\ turn' \in 0..MaxTurns
      /\ turn <= turn' /\ UNCHANGED <<up, connected, rows, kept>>
  BY <1>1, KnowledgeAssumption DEF WriteAll, Typed
<1>3. /\ mem[p] \in [Documents -> Items]
      /\ \A d \in Documents : mem[p][d] \in Items /\ Fine(d, mem[p][d], turn)
  BY <1>1, CachedFine
<1>4. \A d \in Documents : /\ Cached(mem[p], writes, d) \in Items
                           /\ Fine(d, Cached(mem[p], writes, d), turn')
  BY <1>1, <1>2, <1>3, CachedIsItems, FineTill
<1>5. /\ mem' = [mem EXCEPT ![p] = [d \in Documents |-> Cached(mem[p], writes, d)]]
      /\ chain' = [chain EXCEPT ![p] = chain[p] \o writes]
  BY <1>1 DEF WriteAll
<1>6. /\ mem \in [Processes -> [Documents -> Items]] /\ chain \in [Processes -> Seq(Link)]
      /\ chain[p] \in Seq(Link) /\ writes \in Seq(Link)
  BY <1>1 DEF Typed, Batch
<1>7. chain[p] \o writes \in Seq(Link)
  BY <1>6, WrittenBehind DEF Behind
<1>8. /\ mem' \in [Processes -> [Documents -> Items]]
      /\ \A d \in Documents : mem'[p][d] = Cached(mem[p], writes, d)
      /\ \A q \in Processes : q # p => mem'[q] = mem[q]
  BY <1>1, <1>4, <1>5, <1>6
<1>9. /\ chain' \in [Processes -> Seq(Link)] /\ chain'[p] = chain[p] \o writes
      /\ \A q \in Processes : q # p => chain'[q] = chain[q]
  BY <1>1, <1>5, <1>6, <1>7
<1>10. Typed'
  <2>1. \A q \in Processes \ up' : mem'[q] = Empty /\ chain'[q] = <<>>
    BY <1>1, <1>2, <1>8, <1>9 DEF Typed
  <2>2. job' \subseteq Calls /\ (job' # {} => "script" \in up')
    BY <1>1, <1>2 DEF Typed
  <2>3. rows' \in [Documents -> Items] /\ kept' \in [Documents -> {"stored", "cached", "gone"}]
        /\ connected' \subseteq up' /\ up' \subseteq Processes
    BY <1>2 DEF Typed
  <2> QED
    BY <1>2, <1>8, <1>9, <2>1, <2>2, <2>3 DEF Typed
<1>11. \A d \in Documents : Fine(d, rows'[d], turn')
  <2>1. \A d \in Documents : rows'[d] \in Items /\ Fine(d, rows'[d], turn)
    BY <1>2 DEF Typed, AllFine
  <2> QED
    BY <1>2, <2>1, FineTill
<1>12. \A q \in Processes, d \in Documents : Fine(d, mem'[q][d], turn')
  <2>1. \A q \in Processes, d \in Documents : q # p => Fine(d, mem'[q][d], turn')
    <3>1. \A q \in Processes, d \in Documents : mem[q][d] \in Items /\ Fine(d, mem[q][d], turn)
      BY CachedFine
    <3> QED
      BY <1>2, <1>8, <3>1, FineTill
  <2> QED
    BY <1>4, <1>8, <2>1
<1>13. ASSUME NEW q \in Processes, NEW i \in 1..Len(chain'[q])
       PROVE  Fine(chain'[q][i].doc, chain'[q][i].items, turn')
  <2>1. \A o \in Processes : \A k \in 1..Len(chain[o]) :
          Fine(chain[o][k].doc, chain[o][k].items, turn')
    <3>1. \A o \in Processes : \A k \in 1..Len(chain[o]) :
            chain[o][k].items \in Items /\ Fine(chain[o][k].doc, chain[o][k].items, turn)
      BY LinksTyped DEF AllFine
    <3> QED
      BY <1>2, <3>1, FineTill
  <2>2. CASE q # p
    BY <1>9, <2>1, <2>2
  <2>3. CASE q = p
    <3>1. /\ \A k \in 1..Len(chain[p]) : chain'[p][k] = chain[p][k]
          /\ \A k \in 1..Len(writes) : chain'[p][Len(chain[p]) + k] = writes[k]
          /\ i \in 1..Len(chain[p]) \/ \E j \in 1..Len(writes) : i = Len(chain[p]) + j
      <4>1. Behind(chain[p], writes, chain'[p])
        BY <1>6, <1>9, WrittenBehind
      <4> QED
        BY <1>13, <2>3, <4>1 DEF Behind
    <3>2. \A k \in 1..Len(writes) : Fine(writes[k].doc, writes[k].items, turn')
      BY <1>1, <1>2 DEF Batch
    <3> QED
      BY <1>1, <2>1, <2>3, <3>1, <3>2
  <2> QED
    BY <2>2, <2>3
<1>14. AllFine'
  BY <1>11, <1>12, <1>13 DEF AllFine
<1> QED
  BY <1>10, <1>14

(* The oldest write leaves its process's sequence, run or not.              *)
Settles(p) ==
  /\ p \in Processes /\ chain[p] # <<>>
  /\ rows' \in {rows, Written(p)}
  /\ chain' = [chain EXCEPT ![p] = Tail(@)]
  /\ UNCHANGED <<up, job, mem, turn>>

LEMMA SettlesWrite ==
  ASSUME Typed, NEW p, Settles(p)
  PROVE  LET w == Head(chain[p]) IN
         /\ Len(chain[p]) \in Nat /\ 1 \in 1..Len(chain[p]) /\ w = chain[p][1]
         /\ w.doc \in Documents /\ w.items \in Items
         /\ chain' \in [Processes -> Seq(Link)]
         /\ Len(chain'[p]) = Len(chain[p]) - 1
         /\ \A i \in 1..Len(chain'[p]) :
              i + 1 \in 1..Len(chain[p]) /\ chain'[p][i] = chain[p][i + 1]
         /\ \A q \in Processes : q # p => chain'[q] = chain[q]
         /\ rows' \in [Documents -> Items]
         /\ \A d \in Documents :
              rows'[d] = rows[d] \/ (d = w.doc /\ rows'[d] = w.items)
         /\ rows' = Written(p) => rows'[w.doc] = w.items
<1> DEFINE w == Head(chain[p])
           c == chain[p]
<1>1. /\ p \in Processes /\ chain' = [chain EXCEPT ![p] = Tail(c)]
      /\ c \in Seq(Link) /\ c # <<>> /\ chain \in [Processes -> Seq(Link)]
      /\ rows \in [Documents -> Items] /\ rows' \in {rows, Written(p)}
  BY DEF Settles, Typed
<1> HIDE DEF c
<1>2. /\ Len(c) \in Nat /\ 1 \in 1..Len(c) /\ Head(c) = c[1] /\ Head(c) \in Link
      /\ Tail(c) \in Seq(Link) /\ Len(Tail(c)) = Len(c) - 1
      /\ \A i \in 1..Len(Tail(c)) : i + 1 \in 1..Len(c) /\ Tail(c)[i] = c[i + 1]
  <2>1. Len(c) \in Nat /\ Len(c) # 0
    BY <1>1, EmptySeq
  <2>2. Head(c) = c[1] /\ Head(c) \in Link
    BY <1>1, <2>1, HeadTailProperties, ElementOfSeq
  <2>3. /\ Tail(c) \in Seq(Link) /\ Len(Tail(c)) = Len(c) - 1
        /\ \A i \in 1..Len(Tail(c)) : Tail(c)[i] = c[i + 1]
    BY <1>1, HeadTailProperties
  <2> QED
    BY <2>1, <2>2, <2>3
<1>3. w.doc \in Documents /\ w.items \in Items
  BY <1>2, LinkFields DEF c
<1>4. Written(p) = [rows EXCEPT ![w.doc] = w.items]
  BY DEF Written
<1> HIDE DEF w
<1>5. /\ rows' \in [Documents -> Items]
      /\ \A d \in Documents : rows'[d] = rows[d] \/ (d = w.doc /\ rows'[d] = w.items)
      /\ rows' = Written(p) => rows'[w.doc] = w.items
  BY <1>1, <1>3, <1>4
<1>6. /\ chain' \in [Processes -> Seq(Link)] /\ chain'[p] = Tail(c)
      /\ \A q \in Processes : q # p => chain'[q] = chain[q]
  BY <1>1, <1>2
<1> QED
  BY <1>2, <1>3, <1>5, <1>6 DEF c, w

LEMMA SettledOrdered ==
  ASSUME Typed, AllFine, NEW p, Settles(p), connected' \subseteq connected,
         kept' \in [Documents -> {"stored", "cached", "gone"}]
  PROVE  Typed' /\ AllFine'
<1> DEFINE w == Head(chain[p])
<1>1. /\ 1 \in 1..Len(chain[p]) /\ w = chain[p][1]
      /\ chain' \in [Processes -> Seq(Link)]
      /\ \A i \in 1..Len(chain'[p]) :
           i + 1 \in 1..Len(chain[p]) /\ chain'[p][i] = chain[p][i + 1]
      /\ \A q \in Processes : q # p => chain'[q] = chain[q]
      /\ rows' \in [Documents -> Items]
      /\ \A d \in Documents : rows'[d] = rows[d] \/ (d = w.doc /\ rows'[d] = w.items)
  BY SettlesWrite
<1> HIDE DEF w
<1>2. p \in Processes /\ chain[p] # <<>> /\ UNCHANGED <<up, job, mem, turn>>
  BY DEF Settles
<1>3. Typed'
  <2>1. p \in up
    BY <1>2 DEF Typed
  <2>2. \A q \in Processes \ up' : mem'[q] = Empty /\ chain'[q] = <<>>
    BY <1>1, <1>2, <2>1 DEF Typed
  <2> QED
    BY <1>1, <1>2, <2>2 DEF Typed
<1>4. Fine(w.doc, w.items, turn)
  BY <1>1, <1>2 DEF AllFine
<1>5. \A d \in Documents : Fine(d, rows'[d], turn)
  BY <1>1, <1>4 DEF AllFine
<1>6. \A q \in Processes : \A i \in 1..Len(chain'[q]) :
        Fine(chain'[q][i].doc, chain'[q][i].items, turn)
  <2>1. \A q \in Processes : \A i \in 1..Len(chain[q]) :
          Fine(chain[q][i].doc, chain[q][i].items, turn)
    BY DEF AllFine
  <2>2. \A i \in 1..Len(chain'[p]) : Fine(chain'[p][i].doc, chain'[p][i].items, turn)
    BY <1>1, <1>2, <2>1
  <2>3. \A q \in Processes : q # p => chain'[q] = chain[q]
    BY <1>1
  <2> QED
    BY <2>1, <2>2, <2>3
<1>7. AllFine'
  BY <1>2, <1>5, <1>6 DEF AllFine
<1> QED
  BY <1>3, <1>7

LEMMA EmptyDocuments ==
  /\ Empty \in [Documents -> Items]
  /\ \A d \in Documents, t \in Nat : Fine(d, Empty[d], t)
<1>1. <<>> \in Items /\ Len(<<>>) = 0
  BY DEF Items
<1>2. \A i : i \notin 1..0
  OBVIOUS
<1> QED
  BY <1>1, <1>2 DEF Empty, Fine, NoneTwice

LEMMA StartedOrdered ==
  ASSUME Typed, AllFine, NEW p \in Processes, Start(p), job' \subseteq Calls,
         job' # {} => "script" \in up'
  PROVE  Typed' /\ AllFine'
<1>1. /\ up' = up \cup {p} /\ connected' = connected \cup {p}
      /\ mem' = [mem EXCEPT ![p] = rows] /\ UNCHANGED <<chain, rows, turn, kept>>
  BY DEF Start
<1>2. /\ mem \in [Processes -> [Documents -> Items]] /\ rows \in [Documents -> Items]
      /\ connected \subseteq up /\ up \subseteq Processes
  BY DEF Typed
<1>3. /\ mem' \in [Processes -> [Documents -> Items]] /\ mem'[p] = rows
      /\ \A q \in Processes : q # p => mem'[q] = mem[q]
  BY <1>1, <1>2
<1>4. Typed'
  <2>1. \A q \in Processes \ up' : mem'[q] = Empty /\ chain'[q] = <<>>
    BY <1>1, <1>3 DEF Typed
  <2> QED
    BY <1>1, <1>2, <1>3, <2>1 DEF Typed
<1>5. \A q \in Processes, d \in Documents : Fine(d, mem'[q][d], turn)
  BY <1>3 DEF AllFine
<1>6. AllFine'
  BY <1>1, <1>5 DEF AllFine
<1> QED
  BY <1>4, <1>6

LEMMA ExitOrdered ==
  ASSUME Typed, AllFine, NEW p \in Processes, Exit(p)
  PROVE  Typed' /\ AllFine'
<1>1. /\ p \in up /\ up' = up \ {p} /\ connected' = connected \ {p}
      /\ mem' = [mem EXCEPT ![p] = Empty] /\ chain' = [chain EXCEPT ![p] = <<>>]
      /\ job' = (IF p = "script" THEN {} ELSE job)
      /\ kept' = [d \in Documents |-> IF kept[d] = "cached" THEN "gone" ELSE kept[d]]
      /\ UNCHANGED <<rows, turn>>
  BY DEF Exit
<1>2. /\ mem \in [Processes -> [Documents -> Items]] /\ chain \in [Processes -> Seq(Link)]
      /\ turn \in Nat /\ <<>> \in Seq(Link)
  BY CachedFine DEF Typed
<1>3. /\ mem' \in [Processes -> [Documents -> Items]] /\ mem'[p] = Empty
      /\ \A q \in Processes : q # p => mem'[q] = mem[q]
  BY <1>1, <1>2, EmptyDocuments
<1>4. /\ chain' \in [Processes -> Seq(Link)] /\ chain'[p] = <<>>
      /\ \A q \in Processes : q # p => chain'[q] = chain[q]
  BY <1>1, <1>2
<1>5. Typed'
  <2>1. \A q \in Processes \ up' : mem'[q] = Empty /\ chain'[q] = <<>>
    BY <1>1, <1>3, <1>4 DEF Typed
  <2>2. job' \subseteq Calls /\ (job' # {} => "script" \in up')
    BY <1>1 DEF Typed
  <2>3. kept' \in [Documents -> {"stored", "cached", "gone"}]
    BY <1>1 DEF Typed
  <2> QED
    BY <1>1, <1>3, <1>4, <2>1, <2>2, <2>3 DEF Typed
<1>6. \A q \in Processes, d \in Documents : Fine(d, mem'[q][d], turn)
  BY <1>2, <1>3, EmptyDocuments DEF AllFine
<1>7. \A q \in Processes : \A i \in 1..Len(chain'[q]) :
        Fine(chain'[q][i].doc, chain'[q][i].items, turn)
  <2>1. Len(<<>>) = 0 /\ \A i : i \notin 1..0
    OBVIOUS
  <2> QED
    BY <1>4, <2>1 DEF AllFine
<1>8. AllFine'
  BY <1>1, <1>6, <1>7 DEF AllFine
<1> QED
  BY <1>5, <1>8

LEMMA Steps ==
  ASSUME Typed, AllFine, Next
  PROVE  \/ \E p \in Processes : /\ Start(p) /\ job' \subseteq Calls
                                 /\ job' # {} => "script" \in up'
         \/ \E p, writes : WritesAt(p, writes)
         \/ \E p \in Processes : Stored(p) \/ Rejected(p) \/ Exit(p)
         \/ Reconnect
<1> DEFINE Cases ==
      \/ \E p \in Processes : /\ Start(p) /\ job' \subseteq Calls
                              /\ job' # {} => "script" \in up'
      \/ \E p, writes : WritesAt(p, writes)
      \/ \E p \in Processes : Stored(p) \/ Rejected(p) \/ Exit(p)
      \/ Reconnect
<1>1. "server" \in Processes /\ "script" \in Processes
  BY DEF Processes
<1>2. CASE StartServer
  <2>1. Start("server") /\ UNCHANGED job /\ up' = up \cup {"server"}
    BY <1>2 DEF StartServer, Start
  <2>2. job' \subseteq Calls /\ (job' # {} => "script" \in up')
    BY <2>1 DEF Typed
  <2> QED
    BY <1>1, <2>1, <2>2
<1>3. ASSUME NEW call \in Calls, StartScript(call) PROVE Cases
  <2>1. Start("script") /\ job' = {call} /\ up' = up \cup {"script"}
    BY <1>3 DEF StartScript, Start
  <2>2. job' \subseteq Calls /\ (job' # {} => "script" \in up')
    BY <2>1
  <2> QED
    BY <1>1, <2>1, <2>2
<1>4. ASSUME NEW call \in Calls, RouteSeeds(call) PROVE Cases
  BY <1>1, <1>4, SeedWritesAt DEF RouteSeeds
<1>5. ASSUME NEW call \in Calls, ScriptSeeds(call) PROVE Cases
  <2>1. Seed("script", call) /\ job' \in SUBSET job
    BY <1>5 DEF ScriptSeeds
  <2> QED
    BY <1>1, <2>1, SeedWritesAt
<1>6. ASSUME NEW note \in Notes, AddMemory(note) PROVE Cases
  BY <1>6, MemoryWritesAt
<1>7. ASSUME NEW source \in Given, UpsertSource(source) PROVE Cases
  BY <1>7, SourceWritesAt
<1>8. CASE Reconnect
  BY <1>8
<1>9. ASSUME NEW p \in Processes, Stored(p) \/ Rejected(p) \/ Exit(p) PROVE Cases
  BY <1>9
<1> HIDE DEF Cases
<1>10. Cases
  BY <1>2, <1>3, <1>4, <1>5, <1>6, <1>7, <1>8, <1>9 DEF Next, Cases
<1> QED
  BY <1>10 DEF Cases

LEMMA SettlesCases ==
  ASSUME Typed, NEW p \in Processes, Stored(p) \/ Rejected(p)
  PROVE  /\ Settles(p) /\ connected' \subseteq connected
         /\ kept' \in [Documents -> {"stored", "cached", "gone"}]
<1>1. kept \in [Documents -> {"stored", "cached", "gone"}]
  BY DEF Typed
<1> QED
  BY <1>1 DEF Stored, Rejected, Settles

LEMMA OrderedStep ==
  ASSUME Typed, AllFine, [Next]_vars
  PROVE  Typed' /\ AllFine'
<1>1. CASE UNCHANGED vars
  <2>1. UNCHANGED <<up, connected, job, mem, chain, rows, turn, kept>>
    BY <1>1 DEF vars
  <2>2. Typed'
    BY <2>1 DEF Typed
  <2>3. AllFine'
    BY <2>1 DEF AllFine
  <2> QED
    BY <2>2, <2>3
<1>2. ASSUME NEW p \in Processes, Start(p), job' \subseteq Calls, job' # {} => "script" \in up'
      PROVE  Typed' /\ AllFine'
  BY <1>2, StartedOrdered
<1>3. ASSUME NEW p, NEW writes, WritesAt(p, writes) PROVE Typed' /\ AllFine'
  BY <1>3, WrittenOrdered
<1>4. ASSUME NEW p \in Processes, Stored(p) \/ Rejected(p) PROVE Typed' /\ AllFine'
  BY <1>4, SettlesCases, SettledOrdered
<1>5. ASSUME NEW p \in Processes, Exit(p) PROVE Typed' /\ AllFine'
  BY <1>5, ExitOrdered
<1>6. CASE Reconnect
  <2>1. Typed'
    BY <1>6 DEF Reconnect, Typed
  <2>2. AllFine'
    BY <1>6 DEF Reconnect, AllFine
  <2> QED
    BY <2>1, <2>2
<1> QED
  BY <1>1, <1>2, <1>3, <1>4, <1>5, <1>6, Steps

LEMMA OrderedInit == ASSUME Init PROVE Typed /\ AllFine
<1>1. /\ up = {} /\ connected = {} /\ job = {} /\ rows = Empty /\ turn = 0
      /\ mem = [p \in Processes |-> Empty] /\ chain = [p \in Processes |-> <<>>]
      /\ kept = [d \in Documents |-> "stored"]
  BY DEF Init
<1>2. <<>> \in Seq(Link) /\ Len(<<>>) = 0 /\ \A i : i \notin 1..0
  OBVIOUS
<1>3. turn \in 0..MaxTurns /\ turn \in Nat
  BY <1>1, KnowledgeAssumption
<1>4. Typed
  BY <1>1, <1>2, <1>3, EmptyDocuments DEF Typed
<1>5. AllFine
  BY <1>1, <1>2, <1>3, EmptyDocuments DEF AllFine
<1> QED
  BY <1>4, <1>5

LEMMA OrderedIsTyped == ASSUME Typed, AllFine PROVE TypeOK
<1>1. ASSUME NEW d \in Documents \ {"verified_sources", "semantic_memory_manifest"}
      PROVE  IsInjective([i \in DOMAIN rows[d] |-> rows[d][i].key])
  <2> DEFINE f == [i \in DOMAIN rows[d] |-> rows[d][i].key]
  <2>1. rows[d] \in Items /\ NoneTwice(rows[d])
    BY <1>1 DEF Typed, AllFine, Fine
  <2>2. DOMAIN rows[d] = 1..Len(rows[d])
    BY <2>1 DEF Items
  <2>3. \A i, j \in DOMAIN f : f[i] = f[j] => i = j
    BY <2>1, <2>2 DEF NoneTwice
  <2> HIDE DEF f
  <2>4. IsInjective(f)
    BY <2>3 DEF IsInjective
  <2> QED
    BY <2>4 DEF f
<1>2. \A d \in Documents : \A e \in ToSet(rows[d]) : e.by \in 1..turn
  <2>1. \A d \in Documents : rows[d] \in Items /\ Fine(d, rows[d], turn)
    BY DEF Typed, AllFine
  <2> QED
    BY <2>1, InItems DEF Fine, Holds
<1> QED
  BY <1>1, <1>2 DEF TypeOK, Typed

(* A document's row never has two entries of one id, the memory layers'     *)
(* excepted, whoever writes it: upsertSource and mergeBy look at what their *)
(* process has cached, and each of its versions is free of doubles.         *)
THEOREM TypeCorrect == Spec => []TypeOK
<1>1. Init => Typed /\ AllFine
  BY OrderedInit
<1>2. Typed /\ AllFine /\ [Next]_vars => Typed' /\ AllFine'
  BY OrderedStep
<1>3. Typed /\ AllFine => TypeOK
  BY OrderedIsTyped
<1> QED
  BY <1>1, <1>2, <1>3, PTL DEF Spec

-----------------------------------------------------------------------------
(* One process at a time goes on from the rows r: row, chained writes c and *)
(* cache m of a document follow each other.                                 *)
Grows(r, m, c) ==
  /\ \A d \in Documents : Extends(d, r[d], m[d])
  /\ \A i \in 1..Len(c) : /\ Extends(c[i].doc, r[c[i].doc], c[i].items)
                          /\ Extends(c[i].doc, c[i].items, m[c[i].doc])
  /\ \A i, j \in 1..Len(c) : (i < j /\ c[i].doc = c[j].doc) =>
       Extends(c[i].doc, c[i].items, c[j].items)

(* The last write of a document is what is cached, and the row is where     *)
(* none is left, unless one was rejected.                                   *)
Latest(r, m, c, k) ==
  \A d \in Documents :
    /\ \A i \in 1..Len(c) : IsLast(c, d, i) => c[i].items = m[d]
    /\ (k[d] = "stored" /\ \A i \in 1..Len(c) : c[i].doc # d) => r[d] = m[d]

AllBacked(registry, items, d) == \A r \in ToSet(registry) : Backs(items, r, d)

(* Whatever version of the registry the database is at, what it says was    *)
(* seeded is in the version of each document that is cached,                *)
CacheBacks(r, m, c, k) ==
  \A d \in Lists : k[d] # "gone" =>
    /\ AllBacked(r[Registry], m[d], d) /\ AllBacked(m[Registry], m[d], d)
    /\ \A l \in 1..Len(c) : c[l].doc = Registry => AllBacked(c[l].items, m[d], d)

(* in each that is yet to be written, of those the registry's write comes   *)
(* after the last one,                                                      *)
ChainBacks(r, c, k) ==
  \A d \in Lists : k[d] # "gone" =>
    \A i \in 1..Len(c) : c[i].doc = d =>
      /\ AllBacked(r[Registry], c[i].items, d)
      /\ \A l \in 1..Len(c) :
           (c[l].doc = Registry /\ \A j \in 1..Len(c) : (i < j /\ j < l) => c[j].doc # d)
           => AllBacked(c[l].items, c[i].items, d)

(* and in the row if no write of it comes before the registry's.            *)
RowBacks(r, c, k) ==
  \A d \in Lists : k[d] = "stored" =>
    \A l \in 1..Len(c) :
      (c[l].doc = Registry /\ \A j \in 1..Len(c) : j < l => c[j].doc # d)
      => AllBacked(c[l].items, r[d], d)

Rows(r, k) == \A d \in Lists : k[d] = "stored" => AllBacked(r[Registry], r[d], d)

Sound(r, m, c, k) ==
  /\ Grows(r, m, c) /\ Latest(r, m, c, k)
  /\ CacheBacks(r, m, c, k) /\ ChainBacks(r, c, k) /\ RowBacks(r, c, k)

KInv ==
  /\ Typed /\ AllFine
  /\ \A p, q \in up : p = q
  /\ \A p \in up : Sound(rows, mem[p], chain[p], kept)
  /\ Rows(rows, kept)
  /\ up = {} => \A d \in Documents : kept[d] # "cached"

-----------------------------------------------------------------------------
(* A handler's writes behind those of its process.                          *)
LEMMA AllBackedOn ==
  ASSUME NEW registry \in Items, NEW d, NEW a \in Items, NEW b \in Items,
         Extends(d, a, b), AllBacked(registry, a, d)
  PROVE  AllBacked(registry, b, d)
<1>1. \A r \in ToSet(registry) : r \in Entry
  BY InItems
<1> QED
  BY <1>1, BacksOn DEF AllBacked

LEMMA CachedIsNone ==
  ASSUME NEW docs, NEW writes \in Seq(Link), NEW d, \A i \in 1..Len(writes) : writes[i].doc # d
  PROVE  Cached(docs, writes, d) = docs[d]
<1>1. \/ Cached(docs, writes, d) = docs[d]
      \/ \E i \in 1..Len(writes) : IsLast(writes, d, i)
  BY CachedIsLast
<1> QED
  BY <1>1 DEF IsLast

LEMMA LinksAre ==
  ASSUME NEW c \in Seq(Link)
  PROVE  Len(c) \in Nat /\ \A i \in 1..Len(c) : c[i].doc \in Documents /\ c[i].items \in Items
<1>1. \A i \in 1..Len(c) : c[i] \in Link
  OBVIOUS
<1> QED
  BY <1>1, LinkFields

LEMMA CachedExtends ==
  ASSUME NEW m \in [Documents -> Items], NEW t, NEW b, Batch(m, t, b)
  PROVE  /\ \A d \in Documents : Extends(d, m[d], Cached(m, b, d))
         /\ \A i \in 1..Len(b) : Extends(b[i].doc, b[i].items, Cached(m, b, b[i].doc))
<1>1. b \in Seq(Link) /\ Len(b) \in Nat
      /\ \A i \in 1..Len(b) : b[i].doc \in Documents /\ b[i].items \in Items
  BY LinksAre DEF Batch
<1>2. ASSUME NEW d \in Documents PROVE Extends(d, m[d], Cached(m, b, d))
  <2>1. CASE Cached(m, b, d) = m[d]
    BY <2>1, ExtendsItself
  <2>2. ASSUME NEW i \in 1..Len(b), IsLast(b, d, i), Cached(m, b, d) = b[i].items
        PROVE  Extends(d, m[d], Cached(m, b, d))
    BY <2>2 DEF Batch, IsLast
  <2> QED
    BY <1>1, <2>1, <2>2, CachedIsLast
<1>3. ASSUME NEW i \in 1..Len(b) PROVE Extends(b[i].doc, b[i].items, Cached(m, b, b[i].doc))
  <2> DEFINE d == b[i].doc
  <2>1. ASSUME NEW l \in 1..Len(b), IsLast(b, d, l), Cached(m, b, d) = b[l].items
        PROVE  Extends(d, b[i].items, Cached(m, b, d))
    <3>1. ~(i > l) /\ b[l].doc = d
      BY <2>1 DEF IsLast
    <3>2. CASE i = l
      BY <1>1, <2>1, <3>2, ExtendsItself
    <3>3. CASE i < l
      BY <2>1, <3>1, <3>3 DEF Batch
    <3> QED
      BY <1>1, <3>1, <3>2, <3>3
  <2>2. \E l \in 1..Len(b) : IsLast(b, d, l) /\ Cached(m, b, d) = b[l].items
    BY <1>1, CachedIsLast
  <2> QED
    BY <2>1, <2>2
<1> QED
  BY <1>2, <1>3

LEMMA GrowsBehind ==
  ASSUME NEW r \in [Documents -> Items], NEW m \in [Documents -> Items], NEW c \in Seq(Link),
         NEW t, NEW b, Batch(m, t, b), Grows(r, m, c)
  PROVE  Grows(r, [d \in Documents |-> Cached(m, b, d)], c \o b)
<1> DEFINE e == c \o b
           n == [d \in Documents |-> Cached(m, b, d)]
<1>1. b \in Seq(Link)
  BY DEF Batch
<1>2. Behind(c, b, e)
  BY <1>1, WrittenBehind
<1>3. /\ \A i \in 1..Len(c) : c[i].doc \in Documents /\ c[i].items \in Items
      /\ \A i \in 1..Len(b) : b[i].doc \in Documents /\ b[i].items \in Items
  BY <1>1, LinksAre
<1>4. /\ \A d \in Documents : n[d] \in Items /\ Extends(d, m[d], n[d])
      /\ \A i \in 1..Len(b) : Extends(b[i].doc, b[i].items, n[b[i].doc])
  BY <1>3, CachedExtends, CachedIsItems
<1> HIDE DEF e, n
<1> USE <1>2 DEF Behind
<1>5. /\ \A d \in Documents : Extends(d, r[d], m[d])
      /\ \A i \in 1..Len(c) : /\ Extends(c[i].doc, r[c[i].doc], c[i].items)
                              /\ Extends(c[i].doc, c[i].items, m[c[i].doc])
      /\ \A i, j \in 1..Len(c) : (i < j /\ c[i].doc = c[j].doc) =>
           Extends(c[i].doc, c[i].items, c[j].items)
  BY DEF Grows
<1>6. /\ \A i \in 1..Len(b) : Extends(b[i].doc, m[b[i].doc], b[i].items)
      /\ \A i, j \in 1..Len(b) : (i < j /\ b[i].doc = b[j].doc) =>
           Extends(b[i].doc, b[i].items, b[j].items)
  BY DEF Batch
<1>7. \A d \in Documents : Extends(d, r[d], n[d])
  BY <1>4, <1>5, ExtendsOn
<1>8. ASSUME NEW i \in 1..Len(e)
      PROVE  /\ Extends(e[i].doc, r[e[i].doc], e[i].items)
             /\ Extends(e[i].doc, e[i].items, n[e[i].doc])
  <2>1. CASE i \in 1..Len(c)
    <3>1. e[i] = c[i] /\ c[i].doc \in Documents /\ c[i].items \in Items
      BY <1>3, <2>1
    <3>2. /\ Extends(c[i].doc, r[c[i].doc], c[i].items)
          /\ Extends(c[i].doc, c[i].items, m[c[i].doc])
      BY <1>5, <2>1
    <3>3. Extends(c[i].doc, c[i].items, n[c[i].doc])
      <4>1. Extends(c[i].doc, m[c[i].doc], n[c[i].doc]) /\ n[c[i].doc] \in Items
            /\ m[c[i].doc] \in Items
        BY <1>4, <3>1
      <4> QED
        BY <3>1, <3>2, <4>1, ExtendsOn
    <3> QED
      BY <3>1, <3>2, <3>3
  <2>2. ASSUME NEW j \in 1..Len(b), i = Len(c) + j
        PROVE  /\ Extends(e[i].doc, r[e[i].doc], e[i].items)
               /\ Extends(e[i].doc, e[i].items, n[e[i].doc])
    <3>1. e[i] = b[j]
      BY <1>2, <2>2
    <3>2. Extends(b[j].doc, r[b[j].doc], b[j].items)
      BY <1>3, <1>5, <1>6, ExtendsOn
    <3> QED
      BY <1>4, <3>1, <3>2
  <2> QED
    BY <1>2, <2>1, <2>2
<1>9. ASSUME NEW i \in 1..Len(e), NEW j \in 1..Len(e), i < j, e[i].doc = e[j].doc
      PROVE  Extends(e[i].doc, e[i].items, e[j].items)
  <2>1. CASE i \in 1..Len(c) /\ j \in 1..Len(c)
    BY <1>2, <1>5, <1>9, <2>1
  <2>2. ASSUME i \in 1..Len(c), NEW l \in 1..Len(b), j = Len(c) + l
        PROVE  Extends(e[i].doc, e[i].items, e[j].items)
    <3>1. e[i] = c[i] /\ e[j] = b[l] /\ c[i].doc = b[l].doc
      BY <1>2, <1>9, <2>2
    <3>2. Extends(c[i].doc, c[i].items, b[l].items)
      <4>1. Extends(c[i].doc, c[i].items, m[c[i].doc]) /\ c[i].items \in Items
        BY <1>3, <1>5, <2>2
      <4>2. Extends(c[i].doc, m[c[i].doc], b[l].items) /\ b[l].items \in Items
            /\ m[c[i].doc] \in Items
        BY <1>3, <1>6, <3>1
      <4> QED
        BY <4>1, <4>2, ExtendsOn
    <3> QED
      BY <3>1, <3>2
  <2>3. ASSUME NEW k \in 1..Len(b), i = Len(c) + k, NEW l \in 1..Len(b), j = Len(c) + l
        PROVE  Extends(e[i].doc, e[i].items, e[j].items)
    <3>1. e[i] = b[k] /\ e[j] = b[l] /\ k < l
      BY <1>2, <1>9, <2>3
    <3> QED
      BY <1>6, <1>9, <3>1
  <2>4. ASSUME NEW k \in 1..Len(b), i = Len(c) + k, j \in 1..Len(c)
        PROVE  FALSE
    BY <1>2, <1>9, <2>4
  <2> QED
    BY <1>2, <2>1, <2>2, <2>3, <2>4
<1> QED
  BY <1>7, <1>8, <1>9 DEF Grows, e, n

LEMMA LatestBehind ==
  ASSUME NEW r, NEW m \in [Documents -> Items], NEW c \in Seq(Link), NEW k,
         NEW t, NEW b, Batch(m, t, b), Latest(r, m, c, k)
  PROVE  Latest(r, [d \in Documents |-> Cached(m, b, d)], c \o b, k)
<1> DEFINE e == c \o b
           n == [d \in Documents |-> Cached(m, b, d)]
<1>1. b \in Seq(Link)
  BY DEF Batch
<1>2. Behind(c, b, e)
  BY <1>1, WrittenBehind
<1>3. \A d \in Documents : n[d] = Cached(m, b, d)
  OBVIOUS
<1> HIDE DEF e, n
<1> USE <1>2 DEF Behind
<1> SUFFICES ASSUME NEW d \in Documents
             PROVE  /\ \A i \in 1..Len(e) : IsLast(e, d, i) => e[i].items = n[d]
                    /\ (k[d] = "stored" /\ \A i \in 1..Len(e) : e[i].doc # d) => r[d] = n[d]
  BY DEF Latest, e, n
<1>4. ASSUME \A j \in 1..Len(b) : b[j].doc # d PROVE n[d] = m[d]
  BY <1>1, <1>3, <1>4, CachedIsNone
<1>5. ASSUME NEW i \in 1..Len(e), IsLast(e, d, i) PROVE e[i].items = n[d]
  <2>1. e[i].doc = d /\ \A j \in 1..Len(e) : j > i => e[j].doc # d
    BY <1>5 DEF IsLast
  <2>2. CASE i \in 1..Len(c)
    <3>1. ASSUME NEW j \in 1..Len(b) PROVE b[j].doc # d
      <4>1. Len(c) + j > i
        BY <1>2, <2>2
      <4> QED
        BY <1>2, <2>1, <4>1
    <3>2. IsLast(c, d, i)
      BY <1>2, <2>1, <2>2 DEF IsLast
    <3> QED
      BY <1>2, <1>4, <2>2, <3>1, <3>2 DEF Latest
  <2>3. ASSUME NEW l \in 1..Len(b), i = Len(c) + l PROVE e[i].items = n[d]
    <3>1. ASSUME NEW j \in 1..Len(b), j > l PROVE b[j].doc # d
      <4>1. Len(c) + j > i
        BY <1>2, <2>3, <3>1
      <4> QED
        BY <1>2, <2>1, <4>1
    <3>2. IsLast(b, d, l)
      BY <1>2, <2>1, <2>3, <3>1 DEF IsLast
    <3>3. n[d] = b[l].items
      BY <1>1, <1>3, <3>2, CachedIs
    <3> QED
      BY <1>2, <2>3, <3>3
  <2> QED
    BY <1>2, <2>2, <2>3
<1>6. ASSUME k[d] = "stored", \A i \in 1..Len(e) : e[i].doc # d PROVE r[d] = n[d]
  <2>1. \A i \in 1..Len(c) : c[i].doc # d
    BY <1>2, <1>6
  <2>2. \A i \in 1..Len(b) : b[i].doc # d
    BY <1>2, <1>6
  <2> QED
    BY <1>4, <1>6, <2>1, <2>2 DEF Latest
<1> QED
  BY <1>5, <1>6

(* The registry's write of a batch is the last of all.                      *)
LEMMA RegistryIsLast ==
  ASSUME NEW m, NEW c, NEW t, NEW b, Batch(m, t, b), NEW e, Behind(c, b, e),
         NEW l \in 1..Len(e), e[l].doc = Registry, l \notin 1..Len(c)
  PROVE  l = Len(e) /\ e[l] = b[Len(b)] /\ b[Len(b)].doc = Registry /\ Len(b) \in 1..Len(b)
<1>1. PICK j \in 1..Len(b) : l = Len(c) + j
  BY DEF Behind
<1>2. e[l] = b[j] /\ b[j].doc = Registry
  BY <1>1 DEF Behind
<1>3. j = Len(b)
  BY <1>2 DEF Batch
<1>4. Len(c) \in Nat /\ Len(b) \in Nat /\ Len(e) = Len(c) + Len(b)
  BY DEF Behind
<1> QED
  BY <1>1, <1>2, <1>3, <1>4

LEMMA CacheBacksBehind ==
  ASSUME NEW r \in [Documents -> Items], NEW m \in [Documents -> Items], NEW c \in Seq(Link),
         NEW k, NEW t, NEW b, Batch(m, t, b), CacheBacks(r, m, c, k)
  PROVE  CacheBacks(r, [d \in Documents |-> Cached(m, b, d)], c \o b, k)
<1> DEFINE e == c \o b
           n == [d \in Documents |-> Cached(m, b, d)]
<1>1. b \in Seq(Link)
  BY DEF Batch
<1>2. Behind(c, b, e)
  BY <1>1, WrittenBehind
<1>3. /\ \A d \in Documents : n[d] = Cached(m, b, d)
      /\ \A d \in Documents : n[d] \in Items /\ Extends(d, m[d], n[d])
  BY CachedExtends, CachedIsItems
<1>4. /\ Registry \in Documents /\ \A d \in Lists : d \in Documents
      /\ \A i \in 1..Len(c) : c[i].items \in Items
      /\ \A i \in 1..Len(b) : b[i].items \in Items
  BY <1>1, LinksAre, ListsAndRegistry
<1> HIDE DEF e, n
<1> SUFFICES ASSUME NEW d \in Lists, k[d] # "gone"
             PROVE  /\ AllBacked(r[Registry], n[d], d) /\ AllBacked(n[Registry], n[d], d)
                    /\ \A l \in 1..Len(e) : e[l].doc = Registry => AllBacked(e[l].items, n[d], d)
  BY DEF CacheBacks, e, n
<1>5. /\ AllBacked(r[Registry], m[d], d) /\ AllBacked(m[Registry], m[d], d)
      /\ \A l \in 1..Len(c) : c[l].doc = Registry => AllBacked(c[l].items, m[d], d)
  BY DEF CacheBacks
<1>6. m[d] \in Items /\ n[d] \in Items /\ Extends(d, m[d], n[d]) /\ n[d] = Cached(m, b, d)
  BY <1>3, <1>4
<1>7. /\ AllBacked(r[Registry], n[d], d) /\ AllBacked(m[Registry], n[d], d)
      /\ \A l \in 1..Len(c) : c[l].doc = Registry => AllBacked(c[l].items, n[d], d)
  <2>1. r[Registry] \in Items /\ m[Registry] \in Items
    BY <1>4
  <2> QED
    BY <1>4, <1>5, <1>6, <2>1, AllBackedOn
<1>8. ASSUME NEW l \in 1..Len(b), b[l].doc = Registry PROVE AllBacked(b[l].items, n[d], d)
  <2>1. \A x \in ToSet(b[l].items) :
          x \in ToSet(m[Registry]) \/ Backs(Cached(m, b, d), x, d)
    BY <1>8 DEF Batch
  <2> QED
    BY <1>6, <1>7, <2>1 DEF AllBacked
<1>9. AllBacked(n[Registry], n[d], d)
  <2>1. CASE n[Registry] = m[Registry]
    BY <1>7, <2>1
  <2>2. ASSUME NEW l \in 1..Len(b), IsLast(b, Registry, l),
               Cached(m, b, Registry) = b[l].items
        PROVE  AllBacked(n[Registry], n[d], d)
    <3>1. n[Registry] = b[l].items
      BY <1>3, <1>4, <2>2
    <3> QED
      BY <1>8, <2>2, <3>1 DEF IsLast
  <2>3. \/ Cached(m, b, Registry) = m[Registry]
        \/ \E l \in 1..Len(b) : /\ IsLast(b, Registry, l)
                                /\ Cached(m, b, Registry) = b[l].items
    BY <1>1, CachedIsLast
  <2>4. n[Registry] = Cached(m, b, Registry)
    BY <1>3, <1>4
  <2> QED
    BY <2>1, <2>2, <2>3, <2>4
<1>10. ASSUME NEW l \in 1..Len(e), e[l].doc = Registry PROVE AllBacked(e[l].items, n[d], d)
  <2>1. CASE l \in 1..Len(c)
    BY <1>2, <1>7, <1>10, <2>1 DEF Behind
  <2>2. CASE l \notin 1..Len(c)
    <3>1. e[l] = b[Len(b)] /\ b[Len(b)].doc = Registry /\ Len(b) \in 1..Len(b)
      BY <1>2, <1>10, <2>2, RegistryIsLast
    <3> QED
      BY <1>8, <3>1
  <2> QED
    BY <2>1, <2>2
<1> QED
  BY <1>7, <1>9, <1>10

LEMMA ChainBacksBehind ==
  ASSUME NEW r \in [Documents -> Items], NEW m \in [Documents -> Items], NEW c \in Seq(Link),
         NEW k, NEW t, NEW b, Batch(m, t, b), NEW n, NEW e, Behind(c, b, e),
         CacheBacks(r, m, c, k), ChainBacks(r, c, k), RowBacks(r, c, k),
         CacheBacks(r, n, e, k), Latest(r, n, e, k)
  PROVE  ChainBacks(r, e, k) /\ RowBacks(r, e, k)
<1>1. /\ e \in Seq(Link) /\ Len(e) = Len(c) + Len(b) /\ Len(c) \in Nat /\ Len(b) \in Nat
      /\ \A i \in 1..Len(c) : i \in 1..Len(e) /\ e[i] = c[i]
      /\ \A i \in 1..Len(b) : Len(c) + i \in 1..Len(e) /\ e[Len(c) + i] = b[i]
      /\ \A i \in 1..Len(e) : i \in 1..Len(c) \/ \E j \in 1..Len(b) : i = Len(c) + j
  BY DEF Behind
<1>2. /\ Registry \in Documents /\ \A d \in Lists : d \in Documents /\ d # Registry
      /\ \A i \in 1..Len(c) : c[i].items \in Items
      /\ \A i \in 1..Len(b) : b[i].items \in Items
  BY LinksAre, ListsAndRegistry DEF Batch
<1>3. ASSUME NEW l \in 1..Len(e), e[l].doc = Registry, l \notin 1..Len(c)
      PROVE  l = Len(e)
  BY <1>3, RegistryIsLast
<1>4. ASSUME NEW d \in Lists, k[d] # "gone", NEW i \in 1..Len(e), e[i].doc = d
      PROVE  /\ AllBacked(r[Registry], e[i].items, d)
             /\ \A l \in 1..Len(c) : c[l].doc = Registry /\ i \notin 1..Len(c) =>
                  AllBacked(c[l].items, e[i].items, d)
  <2>1. CASE i \in 1..Len(c)
    BY <1>1, <1>4, <2>1 DEF ChainBacks
  <2>2. ASSUME NEW j \in 1..Len(b), i = Len(c) + j
        PROVE  /\ AllBacked(r[Registry], e[i].items, d)
               /\ \A l \in 1..Len(c) : c[l].doc = Registry => AllBacked(c[l].items, e[i].items, d)
    <3>1. e[i] = b[j] /\ b[j].doc = d /\ b[j].items \in Items
      BY <1>1, <1>2, <1>4, <2>2
    <3>2. Extends(d, m[d], b[j].items) /\ m[d] \in Items /\ r[Registry] \in Items
      BY <1>2, <3>1 DEF Batch
    <3>3. /\ AllBacked(r[Registry], m[d], d)
          /\ \A l \in 1..Len(c) : c[l].doc = Registry => AllBacked(c[l].items, m[d], d)
      BY <1>4 DEF CacheBacks
    <3> QED
      BY <1>2, <3>1, <3>2, <3>3, AllBackedOn
  <2> QED
    BY <1>1, <2>1, <2>2
<1>5. ASSUME NEW d \in Lists, k[d] # "gone", NEW i \in 1..Len(e), e[i].doc = d,
             NEW l \in 1..Len(e), e[l].doc = Registry,
             \A j \in 1..Len(e) : (i < j /\ j < l) => e[j].doc # d
      PROVE  AllBacked(e[l].items, e[i].items, d)
  <2>1. CASE l \notin 1..Len(c)
    <3>1. l = Len(e) /\ e[l].doc # d
      BY <1>2, <1>3, <1>5, <2>1
    <3>2. \A j \in 1..Len(e) : j > i => e[j].doc # d
      <4>1. ASSUME NEW j \in 1..Len(e), j > i PROVE e[j].doc # d
        <5>1. CASE j = l
          BY <3>1, <5>1
        <5>2. CASE j # l
          <6>1. i < j /\ j < l
            BY <1>1, <3>1, <4>1, <5>2
          <6> QED
            BY <1>5, <6>1
        <5> QED
          BY <5>1, <5>2
      <4> QED
        BY <4>1
    <3>3. IsLast(e, d, i)
      BY <1>5, <3>2 DEF IsLast
    <3>4. e[i].items = n[d]
      BY <1>2, <3>3 DEF Latest
    <3>5. AllBacked(e[l].items, n[d], d)
      BY <1>5 DEF CacheBacks
    <3> QED
      BY <3>4, <3>5
  <2>2. CASE l \in 1..Len(c) /\ i \notin 1..Len(c)
    <3>1. e[l] = c[l]
      BY <1>1, <2>2
    <3> QED
      BY <1>4, <1>5, <2>2, <3>1
  <2>3. CASE l \in 1..Len(c) /\ i \in 1..Len(c)
    <3>1. e[l] = c[l] /\ e[i] = c[i]
      BY <1>1, <2>3
    <3>2. \A j \in 1..Len(c) : (i < j /\ j < l) => c[j].doc # d
      BY <1>1, <1>5
    <3> QED
      BY <1>5, <2>3, <3>1, <3>2 DEF ChainBacks
  <2> QED
    BY <2>1, <2>2, <2>3
<1>6. ChainBacks(r, e, k)
  BY <1>4, <1>5 DEF ChainBacks
<1>7. ASSUME NEW d \in Lists, k[d] = "stored", NEW l \in 1..Len(e), e[l].doc = Registry,
             \A j \in 1..Len(e) : j < l => e[j].doc # d
      PROVE  AllBacked(e[l].items, r[d], d)
  <2>1. CASE l \in 1..Len(c)
    <3>1. e[l] = c[l] /\ \A j \in 1..Len(c) : j < l => c[j].doc # d
      BY <1>1, <1>7, <2>1
    <3> QED
      BY <1>7, <2>1, <3>1 DEF RowBacks
  <2>2. CASE l \notin 1..Len(c)
    <3>1. l = Len(e) /\ e[l].doc # d
      BY <1>2, <1>3, <1>7, <2>2
    <3>2. \A j \in 1..Len(e) : e[j].doc # d
      BY <1>1, <1>7, <3>1
    <3>3. r[d] = n[d]
      BY <1>2, <1>7, <3>2 DEF Latest
    <3>4. AllBacked(e[l].items, n[d], d)
      BY <1>7 DEF CacheBacks
    <3> QED
      BY <3>3, <3>4
  <2> QED
    BY <2>1, <2>2
<1>8. RowBacks(r, e, k)
  BY <1>7 DEF RowBacks
<1> QED
  BY <1>6, <1>8

LEMMA SoundBehind ==
  ASSUME NEW r \in [Documents -> Items], NEW m \in [Documents -> Items], NEW c \in Seq(Link),
         NEW k, NEW t, NEW b, Batch(m, t, b), Sound(r, m, c, k)
  PROVE  Sound(r, [d \in Documents |-> Cached(m, b, d)], c \o b, k)
<1> DEFINE e == c \o b
           n == [d \in Documents |-> Cached(m, b, d)]
<1>1. /\ Grows(r, m, c) /\ Latest(r, m, c, k)
      /\ CacheBacks(r, m, c, k) /\ ChainBacks(r, c, k) /\ RowBacks(r, c, k)
  BY DEF Sound
<1>2. Behind(c, b, e)
  BY WrittenBehind DEF Batch
<1>3. Grows(r, n, e) /\ Latest(r, n, e, k) /\ CacheBacks(r, n, e, k)
  BY <1>1, GrowsBehind, LatestBehind, CacheBacksBehind
<1> HIDE DEF e, n
<1>4. ChainBacks(r, e, k) /\ RowBacks(r, e, k)
  BY <1>1, <1>2, <1>3, ChainBacksBehind
<1> QED
  BY <1>3, <1>4 DEF Sound, e, n

-----------------------------------------------------------------------------
(* The oldest write of a process settles: it is run by the database, or     *)
(* answered with an error and then not stored.                              *)
Shorter(c, e) ==
  /\ c \in Seq(Link) /\ Len(c) \in Nat /\ 1 \in 1..Len(c) /\ Len(e) = Len(c) - 1
  /\ \A i \in 1..Len(e) : i + 1 \in 1..Len(c) /\ e[i] = c[i + 1]

Settled(r, k, w, s, q) ==
  /\ r \in [Documents -> Items] /\ s \in [Documents -> Items]
  /\ w.doc \in Documents /\ w.items \in Items
  /\ \A d \in Documents : d # w.doc => s[d] = r[d] /\ q[d] = k[d]
  /\ s[w.doc] = r[w.doc] \/ s[w.doc] = w.items
  /\ q[w.doc] # "gone" => k[w.doc] # "gone"
  /\ q[w.doc] = "stored" => s[w.doc] = w.items

LEMMA GrowsSettled ==
  ASSUME NEW r, NEW m, NEW c, NEW k, NEW s, NEW e, NEW q,
         Shorter(c, e), Settled(r, k, c[1], s, q), Grows(r, m, c)
  PROVE  Grows(s, m, e)
<1> DEFINE w == c[1]
<1>1. 1 \in 1..Len(c) /\ Len(c) \in Nat
      /\ \A i \in 1..Len(e) : i + 1 \in 1..Len(c) /\ e[i] = c[i + 1] /\ 1 < i + 1
  BY DEF Shorter
<1>2. /\ \A d \in Documents : d # w.doc => s[d] = r[d]
      /\ s[w.doc] = r[w.doc] \/ s[w.doc] = w.items
      /\ \A i \in 1..Len(c) : c[i].doc \in Documents
  <2>1. c \in Seq(Link)
    BY DEF Shorter
  <2> QED
    BY <2>1, LinksAre DEF Settled
<1>3. /\ \A d \in Documents : Extends(d, r[d], m[d])
      /\ \A i \in 1..Len(c) : /\ Extends(c[i].doc, r[c[i].doc], c[i].items)
                              /\ Extends(c[i].doc, c[i].items, m[c[i].doc])
      /\ \A i, j \in 1..Len(c) : (i < j /\ c[i].doc = c[j].doc) =>
           Extends(c[i].doc, c[i].items, c[j].items)
  BY DEF Grows
<1>4. ASSUME NEW d \in Documents PROVE Extends(d, s[d], m[d])
  BY <1>1, <1>2, <1>3
<1>5. ASSUME NEW i \in 1..Len(e)
      PROVE  /\ Extends(e[i].doc, s[e[i].doc], e[i].items)
             /\ Extends(e[i].doc, e[i].items, m[e[i].doc])
  <2>1. e[i] = c[i + 1] /\ i + 1 \in 1..Len(c) /\ e[i].doc \in Documents
    BY <1>1, <1>2
  <2>2. CASE s[e[i].doc] = r[e[i].doc]
    BY <1>3, <2>1, <2>2
  <2>3. CASE e[i].doc = w.doc /\ s[e[i].doc] = w.items
    BY <1>1, <1>3, <2>1, <2>3
  <2> QED
    BY <1>2, <2>1, <2>2, <2>3
<1>6. ASSUME NEW i \in 1..Len(e), NEW j \in 1..Len(e), i < j, e[i].doc = e[j].doc
      PROVE  Extends(e[i].doc, e[i].items, e[j].items)
  <2>1. i + 1 < j + 1 /\ e[i] = c[i + 1] /\ e[j] = c[j + 1]
        /\ i + 1 \in 1..Len(c) /\ j + 1 \in 1..Len(c)
    BY <1>1, <1>6
  <2> QED
    BY <1>3, <1>6, <2>1
<1> QED
  BY <1>4, <1>5, <1>6 DEF Grows

LEMMA ShorterIndexes ==
  ASSUME NEW c, NEW e, Shorter(c, e)
  PROVE  /\ \A i \in 1..Len(e) : i + 1 \in 1..Len(c) /\ e[i] = c[i + 1]
         /\ \A j \in 1..Len(c) : j = 1 \/ (j - 1 \in 1..Len(e) /\ e[j - 1] = c[j])
<1>1. Len(c) \in Nat /\ Len(e) = Len(c) - 1
      /\ \A i \in 1..Len(e) : i + 1 \in 1..Len(c) /\ e[i] = c[i + 1]
  BY DEF Shorter
<1>2. ASSUME NEW j \in 1..Len(c), j # 1 PROVE j - 1 \in 1..Len(e) /\ e[j - 1] = c[j]
  <2>1. j - 1 \in 1..Len(e) /\ (j - 1) + 1 = j
    BY <1>1, <1>2
  <2> QED
    BY <1>1, <2>1
<1> QED
  BY <1>1, <1>2

LEMMA LatestSettled ==
  ASSUME NEW r, NEW m, NEW c, NEW k, NEW s, NEW e, NEW q,
         Shorter(c, e), Settled(r, k, c[1], s, q), Latest(r, m, c, k)
  PROVE  Latest(s, m, e, q)
<1>1. /\ \A i \in 1..Len(e) : i + 1 \in 1..Len(c) /\ e[i] = c[i + 1]
      /\ \A j \in 1..Len(c) : j = 1 \/ (j - 1 \in 1..Len(e) /\ e[j - 1] = c[j])
  BY ShorterIndexes
<1>2. 1 \in 1..Len(c) /\ Len(c) \in Nat
  BY DEF Shorter
<1> SUFFICES ASSUME NEW d \in Documents
             PROVE  /\ \A i \in 1..Len(e) : IsLast(e, d, i) => e[i].items = m[d]
                    /\ (q[d] = "stored" /\ \A i \in 1..Len(e) : e[i].doc # d) => s[d] = m[d]
  BY DEF Latest
<1>3. ASSUME NEW i \in 1..Len(e), IsLast(e, d, i) PROVE e[i].items = m[d]
  <2>1. ASSUME NEW j \in 1..Len(c), j > i + 1 PROVE c[j].doc # d
    <3>1. j # 1 /\ j - 1 > i
      BY <1>1, <2>1
    <3> QED
      BY <1>1, <1>3, <3>1 DEF IsLast
  <2>2. IsLast(c, d, i + 1)
    BY <1>1, <1>3, <2>1 DEF IsLast
  <2> QED
    BY <1>1, <2>2 DEF Latest
<1>4. ASSUME q[d] = "stored", \A i \in 1..Len(e) : e[i].doc # d PROVE s[d] = m[d]
  <2>1. \A j \in 1..Len(c) : j = 1 \/ c[j].doc # d
    BY <1>1, <1>4
  <2>2. CASE c[1].doc = d
    <3>1. \A j \in 1..Len(c) : j > 1 => c[j].doc # d
      BY <2>1
    <3>2. IsLast(c, d, 1)
      BY <2>2, <3>1 DEF IsLast
    <3>3. c[1].items = m[d]
      BY <1>2, <3>2 DEF Latest
    <3> QED
      BY <1>4, <2>2, <3>3 DEF Settled
  <2>3. CASE c[1].doc # d
    <3>1. s[d] = r[d] /\ k[d] = "stored"
      BY <1>4, <2>3 DEF Settled
    <3>2. \A j \in 1..Len(c) : c[j].doc # d
      BY <2>1, <2>3
    <3> QED
      BY <3>1, <3>2 DEF Latest
  <2> QED
    BY <2>2, <2>3
<1> QED
  BY <1>3, <1>4

LEMMA BacksSettled ==
  ASSUME NEW r, NEW m, NEW c, NEW k, NEW s, NEW e, NEW q,
         Shorter(c, e), Settled(r, k, c[1], s, q), Rows(r, k),
         CacheBacks(r, m, c, k), ChainBacks(r, c, k), RowBacks(r, c, k)
  PROVE  /\ CacheBacks(s, m, e, q) /\ ChainBacks(s, e, q) /\ RowBacks(s, e, q)
         /\ Rows(s, q)
<1> DEFINE w == c[1]
<1>1. /\ \A i \in 1..Len(e) : i + 1 \in 1..Len(c) /\ e[i] = c[i + 1]
      /\ \A j \in 1..Len(c) : j = 1 \/ (j - 1 \in 1..Len(e) /\ e[j - 1] = c[j])
  BY ShorterIndexes
<1>2. /\ 1 \in 1..Len(c) /\ Registry \in Documents
      /\ \A d \in Lists : d \in Documents /\ d # Registry
  BY ListsAndRegistry DEF Shorter
<1>3. /\ \A d \in Documents : d # w.doc => s[d] = r[d] /\ q[d] = k[d]
      /\ s[w.doc] = r[w.doc] \/ s[w.doc] = w.items
      /\ q[w.doc] # "gone" => k[w.doc] # "gone"
      /\ q[w.doc] = "stored" => s[w.doc] = w.items
  BY DEF Settled
<1>4. s[Registry] = r[Registry] \/ (w.doc = Registry /\ s[Registry] = w.items)
  BY <1>2, <1>3
<1>5. \A d \in Lists : q[d] # "gone" => k[d] # "gone"
  BY <1>2, <1>3
<1>6. CacheBacks(s, m, e, q)
  <2> SUFFICES ASSUME NEW d \in Lists, q[d] # "gone"
               PROVE  /\ AllBacked(s[Registry], m[d], d) /\ AllBacked(m[Registry], m[d], d)
                      /\ \A l \in 1..Len(e) :
                           e[l].doc = Registry => AllBacked(e[l].items, m[d], d)
    BY DEF CacheBacks
  <2>1. /\ AllBacked(r[Registry], m[d], d) /\ AllBacked(m[Registry], m[d], d)
        /\ \A l \in 1..Len(c) : c[l].doc = Registry => AllBacked(c[l].items, m[d], d)
    BY <1>5 DEF CacheBacks
  <2> QED
    BY <1>1, <1>2, <1>4, <2>1
<1>7. ASSUME NEW d \in Lists, k[d] # "gone", NEW i \in 1..Len(c), c[i].doc = d,
             NEW l \in 1..Len(e), e[l].doc = Registry,
             \A j \in 1..Len(e) : (i < j + 1 /\ j < l) => e[j].doc # d
      PROVE  AllBacked(e[l].items, c[i].items, d)
  <2>1. l + 1 \in 1..Len(c) /\ e[l] = c[l + 1] /\ l \in Int
    BY <1>1
  <2>2. ASSUME NEW j \in 1..Len(c), i < j, j < l + 1 PROVE c[j].doc # d
    <3> DEFINE h == j - 1
    <3>1. j # 1 /\ i < h + 1 /\ h < l
      BY <2>1, <2>2
    <3>2. h \in 1..Len(e) /\ e[h] = c[j]
      BY <1>1, <3>1
    <3> HIDE DEF h
    <3>3. e[h].doc # d
      BY <1>7, <3>1, <3>2
    <3> QED
      BY <3>2, <3>3
  <2> QED
    BY <1>7, <2>1, <2>2 DEF ChainBacks
<1>8. ASSUME NEW d \in Lists, k[d] # "gone", NEW i \in 1..Len(c), c[i].doc = d
      PROVE  AllBacked(r[Registry], c[i].items, d)
  BY <1>8 DEF ChainBacks
<1>9. ChainBacks(s, e, q)
  <2> SUFFICES ASSUME NEW d \in Lists, q[d] # "gone", NEW i \in 1..Len(e), e[i].doc = d
               PROVE  /\ AllBacked(s[Registry], e[i].items, d)
                      /\ \A l \in 1..Len(e) :
                           (e[l].doc = Registry
                              /\ \A j \in 1..Len(e) : (i < j /\ j < l) => e[j].doc # d)
                           => AllBacked(e[l].items, e[i].items, d)
    BY DEF ChainBacks
  <2>1. i + 1 \in 1..Len(c) /\ e[i] = c[i + 1] /\ k[d] # "gone" /\ i \in Int /\ i >= 1
    BY <1>1, <1>5
  <2>2. AllBacked(s[Registry], e[i].items, d)
    <3>1. CASE s[Registry] = r[Registry]
      BY <1>8, <2>1, <3>1
    <3>2. CASE w.doc = Registry /\ s[Registry] = w.items
      <4>1. \A j \in 1..Len(c) : (i + 1 < j /\ j < 1) => c[j].doc # d
        BY <2>1
      <4> QED
        BY <1>2, <2>1, <3>2, <4>1 DEF ChainBacks
    <3> QED
      BY <1>4, <3>1, <3>2
  <2>3. ASSUME NEW l \in 1..Len(e), e[l].doc = Registry,
               \A j \in 1..Len(e) : (i < j /\ j < l) => e[j].doc # d
        PROVE  AllBacked(e[l].items, e[i].items, d)
    <3>1. \A j \in 1..Len(e) : (i + 1 < j + 1 /\ j < l) => e[j].doc # d
      BY <2>1, <2>3
    <3> QED
      BY <1>7, <2>1, <2>3, <3>1
  <2> QED
    BY <2>2, <2>3
<1>10. RowBacks(s, e, q)
  <2> SUFFICES ASSUME NEW d \in Lists, q[d] = "stored", NEW l \in 1..Len(e),
                      e[l].doc = Registry, \A j \in 1..Len(e) : j < l => e[j].doc # d
               PROVE  AllBacked(e[l].items, s[d], d)
    BY DEF RowBacks
  <2>1. l + 1 \in 1..Len(c) /\ e[l] = c[l + 1] /\ l \in Int
    BY <1>1
  <2>2. CASE w.doc = d
    <3>1. s[d] = w.items /\ k[d] # "gone"
      BY <1>3, <2>2
    <3> QED
      BY <1>2, <1>7, <2>2, <3>1
  <2>3. CASE w.doc # d
    <3>1. s[d] = r[d] /\ k[d] = "stored"
      BY <1>2, <1>3, <2>3
    <3>2. ASSUME NEW j \in 1..Len(c), j < l + 1 PROVE c[j].doc # d
      <4>1. CASE j = 1
        BY <2>3, <4>1
      <4>2. CASE j # 1
        <5>1. j - 1 < l
          BY <2>1, <3>2
        <5> QED
          BY <1>1, <4>2, <5>1
      <4> QED
        BY <4>1, <4>2
    <3> QED
      BY <2>1, <3>1, <3>2 DEF RowBacks
  <2> QED
    BY <2>2, <2>3
<1>11. Rows(s, q)
  <2> SUFFICES ASSUME NEW d \in Lists, q[d] = "stored"
               PROVE  AllBacked(s[Registry], s[d], d)
    BY DEF Rows
  <2>1. CASE w.doc = d
    <3>1. s[d] = w.items /\ k[d] # "gone" /\ s[Registry] = r[Registry]
      BY <1>2, <1>3, <2>1
    <3> QED
      BY <1>2, <1>8, <2>1, <3>1
  <2>2. CASE w.doc # d
    <3>1. s[d] = r[d] /\ k[d] = "stored"
      BY <1>2, <1>3, <2>2
    <3>2. CASE s[Registry] = r[Registry]
      BY <3>1, <3>2 DEF Rows
    <3>3. CASE w.doc = Registry /\ s[Registry] = w.items
      <4>1. \A j \in 1..Len(c) : j < 1 => c[j].doc # d
        BY <1>2
      <4> QED
        BY <1>2, <3>1, <3>3, <4>1 DEF RowBacks
    <3> QED
      BY <1>4, <3>2, <3>3
  <2> QED
    BY <2>1, <2>2
<1> QED
  BY <1>6, <1>9, <1>10, <1>11

-----------------------------------------------------------------------------
(* With one process at a time, every step keeps the order.                  *)
LEMMA KInvInit == ASSUME Init PROVE KInv
<1>1. Typed /\ AllFine
  BY OrderedInit
<1>2. up = {} /\ rows = Empty /\ kept = [d \in Documents |-> "stored"]
  BY DEF Init
<1>3. Registry \in Documents /\ \A x : x \notin ToSet(<<>>)
  BY ListsAndRegistry DEF ToSet
<1>4. Rows(rows, kept)
  BY <1>2, <1>3 DEF Rows, AllBacked, Empty
<1>5. \A d \in Documents : kept[d] # "cached"
  BY <1>2
<1> QED
  BY <1>1, <1>2, <1>4, <1>5 DEF KInv

LEMMA StartSound ==
  ASSUME NEW r \in [Documents -> Items], NEW k, Rows(r, k),
         \A d \in Documents : k[d] # "gone" => k[d] = "stored"
  PROVE  Sound(r, r, <<>>, k)
<1>1. Len(<<>>) = 0 /\ \A i : i \notin 1..0
  OBVIOUS
<1>2. Grows(r, r, <<>>)
  BY <1>1, ExtendsItself DEF Grows
<1>3. Latest(r, r, <<>>, k)
  BY <1>1 DEF Latest
<1>4. CacheBacks(r, r, <<>>, k)
  BY <1>1, ListsAndRegistry DEF CacheBacks, Rows
<1>5. ChainBacks(r, <<>>, k) /\ RowBacks(r, <<>>, k)
  BY <1>1 DEF ChainBacks, RowBacks
<1> QED
  BY <1>2, <1>3, <1>4, <1>5 DEF Sound

LEMMA KInvStart ==
  ASSUME ~Overlap, KInv, NEW p \in Processes, Start(p), Typed', AllFine'
  PROVE  KInv'
<1>1. /\ up = {} /\ up' = {p} /\ chain' = chain /\ rows' = rows /\ kept' = kept
      /\ mem' = [mem EXCEPT ![p] = rows]
  BY DEF Start
<1>2. /\ rows \in [Documents -> Items] /\ mem \in [Processes -> [Documents -> Items]]
      /\ kept \in [Documents -> {"stored", "cached", "gone"}]
      /\ \A q \in Processes \ up : chain[q] = <<>>
  BY DEF KInv, Typed
<1>3. chain'[p] = <<>> /\ mem'[p] = rows
  BY <1>1, <1>2
<1>4. Rows(rows, kept) /\ \A d \in Documents : kept[d] # "cached"
  BY <1>1 DEF KInv
<1>5. Sound(rows, rows, <<>>, kept)
  <2>1. \A d \in Documents : kept[d] # "gone" => kept[d] = "stored"
    BY <1>2, <1>4
  <2> QED
    BY <1>2, <1>4, <2>1, StartSound
<1>6. \A o \in up' : Sound(rows', mem'[o], chain'[o], kept')
  BY <1>1, <1>3, <1>5
<1>7. Rows(rows', kept')
  BY <1>1, <1>4
<1>8. (\A o, q \in up' : o = q) /\ (up' = {} => \A d \in Documents : kept'[d] # "cached")
  BY <1>1
<1> QED
  BY <1>6, <1>7, <1>8 DEF KInv

LEMMA KInvWritten ==
  ASSUME KInv, NEW p, NEW writes, WritesAt(p, writes), Typed', AllFine'
  PROVE  KInv'
<1>1. /\ p \in up /\ p \in Processes /\ Batch(mem[p], turn, writes)
      /\ UNCHANGED <<up, rows, kept>>
      /\ mem' = [mem EXCEPT ![p] = [d \in Documents |-> Cached(mem[p], writes, d)]]
      /\ chain' = [chain EXCEPT ![p] = chain[p] \o writes]
  BY UpProcesses DEF WritesAt, WriteAll, KInv
<1>2. /\ rows \in [Documents -> Items] /\ mem[p] \in [Documents -> Items]
      /\ chain[p] \in Seq(Link) /\ mem \in [Processes -> [Documents -> Items]]
      /\ chain \in [Processes -> Seq(Link)]
  BY <1>1 DEF KInv, Typed
<1>3. Sound(rows, mem[p], chain[p], kept)
  BY <1>1 DEF KInv
<1>4. Sound(rows, [d \in Documents |-> Cached(mem[p], writes, d)], chain[p] \o writes, kept)
  BY <1>1, <1>2, <1>3, SoundBehind
<1>5. /\ mem'[p] = [d \in Documents |-> Cached(mem[p], writes, d)]
      /\ chain'[p] = chain[p] \o writes
  BY <1>1, <1>2
<1>6. \A o \in up' : o = p
  BY <1>1 DEF KInv
<1>7. \A o \in up' : Sound(rows', mem'[o], chain'[o], kept')
  BY <1>1, <1>4, <1>5, <1>6
<1>8. Rows(rows', kept')
  BY <1>1 DEF KInv
<1>9. (\A o, q \in up' : o = q) /\ (up' = {} => \A d \in Documents : kept'[d] # "cached")
  BY <1>1, <1>6
<1> QED
  BY <1>7, <1>8, <1>9 DEF KInv

LEMMA KInvSettled ==
  ASSUME KInv, NEW p \in Processes, Stored(p) \/ Rejected(p), Typed', AllFine'
  PROVE  KInv'
<1> DEFINE w == Head(chain[p])
<1>1. Typed /\ Settles(p)
  BY SettlesCases DEF KInv
<1>2. /\ Shorter(chain[p], chain'[p]) /\ w = chain[p][1]
      /\ w.doc \in Documents /\ w.items \in Items /\ rows' \in [Documents -> Items]
      /\ \A d \in Documents : rows'[d] = rows[d] \/ (d = w.doc /\ rows'[d] = w.items)
      /\ rows' = Written(p) => rows'[w.doc] = w.items
  <2>1. chain[p] \in Seq(Link)
    BY <1>1 DEF Typed
  <2> QED
    BY <1>1, <2>1, SettlesWrite DEF Shorter
<1> HIDE DEF w
<1>3. p \in up /\ UNCHANGED <<up, mem>>
  BY <1>1 DEF Settles, Typed
<1>4. /\ rows \in [Documents -> Items]
      /\ kept \in [Documents -> {"stored", "cached", "gone"}]
  BY <1>1 DEF Typed
<1>5. Settled(rows, kept, w, rows', kept')
  <2>1. CASE Stored(p)
    <3>1. /\ kept' = [kept EXCEPT ![w.doc] = IF kept[w.doc] = "gone" THEN kept[w.doc]
                                                                     ELSE "stored"]
          /\ rows' = Written(p)
      BY <2>1 DEF Stored, w
    <3> QED
      BY <1>2, <1>4, <3>1 DEF Settled
  <2>2. CASE Rejected(p)
    <3>1. kept' = [kept EXCEPT ![w.doc] = IF kept[w.doc] = "gone" THEN kept[w.doc]
                                                                  ELSE "cached"]
      BY <2>2 DEF Rejected, w
    <3>2. kept'[w.doc] # "stored" /\ (kept'[w.doc] # "gone" => kept[w.doc] # "gone")
          /\ \A d \in Documents : d # w.doc => kept'[d] = kept[d]
      BY <1>2, <1>4, <3>1
    <3> QED
      BY <1>2, <1>4, <3>2 DEF Settled
  <2> QED
    BY <2>1, <2>2
<1>6. Sound(rows, mem[p], chain[p], kept) /\ Rows(rows, kept)
  BY <1>3 DEF KInv
<1>7. Sound(rows', mem[p], chain'[p], kept') /\ Rows(rows', kept')
  BY <1>2, <1>5, <1>6, GrowsSettled, LatestSettled, BacksSettled DEF Sound
<1>8. \A o \in up' : o = p
  BY <1>3 DEF KInv
<1>9. \A o \in up' : Sound(rows', mem'[o], chain'[o], kept')
  BY <1>3, <1>7, <1>8
<1>10. (\A o, q \in up' : o = q) /\ (up' = {} => \A d \in Documents : kept'[d] # "cached")
  BY <1>3, <1>8
<1> QED
  BY <1>7, <1>9, <1>10 DEF KInv

LEMMA KInvExit ==
  ASSUME KInv, NEW p \in Processes, Exit(p), Typed', AllFine'
  PROVE  KInv'
<1>1. /\ p \in up /\ up' = up \ {p} /\ rows' = rows
      /\ kept' = [d \in Documents |-> IF kept[d] = "cached" THEN "gone" ELSE kept[d]]
  BY DEF Exit
<1>2. up' = {}
  BY <1>1 DEF KInv
<1>3. /\ \A d \in Lists : kept'[d] = "stored" => kept[d] = "stored"
      /\ \A d \in Documents : kept'[d] # "cached"
  BY <1>1, ListsAndRegistry
<1>4. Rows(rows', kept')
  BY <1>1, <1>3 DEF KInv, Rows
<1> QED
  BY <1>2, <1>3, <1>4 DEF KInv

LEMMA KInvStep ==
  ASSUME ~Overlap, KInv, [Next]_vars
  PROVE  KInv'
<1>1. Typed /\ AllFine
  BY DEF KInv
<1>2. Typed' /\ AllFine'
  BY <1>1, OrderedStep
<1>3. CASE UNCHANGED <<up, mem, chain, rows, kept>>
  BY <1>2, <1>3 DEF KInv
<1>4. CASE UNCHANGED vars
  <2>1. UNCHANGED <<up, mem, chain, rows, kept>>
    BY <1>4 DEF vars
  <2> QED
    BY <1>3, <2>1
<1>5. CASE Reconnect
  <2>1. UNCHANGED <<up, mem, chain, rows, kept>>
    BY <1>5 DEF Reconnect
  <2> QED
    BY <1>3, <2>1
<1>6. ASSUME NEW p \in Processes, Start(p) PROVE KInv'
  BY <1>2, <1>6, KInvStart
<1>7. ASSUME NEW p, NEW writes, WritesAt(p, writes) PROVE KInv'
  BY <1>2, <1>7, KInvWritten
<1>8. ASSUME NEW p \in Processes, Stored(p) \/ Rejected(p) PROVE KInv'
  BY <1>2, <1>8, KInvSettled
<1>9. ASSUME NEW p \in Processes, Exit(p) PROVE KInv'
  BY <1>2, <1>9, KInvExit
<1> QED
  BY <1>1, <1>4, <1>5, <1>6, <1>7, <1>8, <1>9, Steps

(* What the registry row says was seeded is in the documents' rows, in that *)
(* version or a later one, at every moment of every seeding and after every *)
(* crash, for the documents no write of which was lost: the seedings write  *)
(* the registry last, through one sequence, and no merge takes away or goes *)
(* back behind what was there.  The script and the server must not run at   *)
(* once: each would go on from rows the other has left behind.              *)
THEOREM RegistryHolds ==
  ASSUME ~Overlap
  PROVE  Spec => []RegistryIsBacked
<1>1. Init => KInv
  BY KInvInit
<1>2. KInv /\ [Next]_vars => KInv'
  BY KInvStep
<1>3. KInv => RegistryIsBacked
  <2>1. Rows(rows, kept) => RegistryIsBacked
    BY DEF Rows, AllBacked, Backs, Registry, RegistryIsBacked
  <2> QED
    BY <2>1 DEF KInv
<1> QED
  BY <1>1, <1>2, <1>3, PTL DEF Spec

(* The rows change only when a process's oldest write is run, and that one  *)
(* goes on from the row it replaces.                                        *)
LEMMA RowsExtend ==
  ASSUME KInv, [Next]_vars
  PROVE  \A d \in Documents : rows'[d] \in Items /\ Extends(d, rows[d], rows'[d])
<1>1. Typed /\ AllFine /\ rows \in [Documents -> Items]
  BY DEF KInv, Typed
<1>2. \A d \in Documents : rows[d] \in Items /\ Extends(d, rows[d], rows[d])
  BY <1>1, ExtendsItself
<1>3. CASE rows' = rows
  BY <1>2, <1>3
<1>4. ASSUME NEW p \in Processes, Stored(p) \/ Rejected(p)
      PROVE  \A d \in Documents : rows'[d] \in Items /\ Extends(d, rows[d], rows'[d])
  <2> DEFINE w == Head(chain[p])
  <2>1. Settles(p)
    BY <1>1, <1>4, SettlesCases
  <2>2. /\ 1 \in 1..Len(chain[p]) /\ w = chain[p][1] /\ w.items \in Items
        /\ \A d \in Documents : rows'[d] = rows[d] \/ (d = w.doc /\ rows'[d] = w.items)
    BY <1>1, <2>1, SettlesWrite
  <2>3. p \in up
    BY <1>1, <2>1 DEF Settles, Typed
  <2>4. Extends(w.doc, rows[w.doc], w.items)
    <3>1. Grows(rows, mem[p], chain[p])
      BY <2>3 DEF KInv, Sound
    <3> QED
      BY <2>2, <3>1 DEF Grows
  <2> QED
    BY <1>2, <2>2, <2>4
<1>5. (~ \E p \in Processes : Stored(p) \/ Rejected(p)) => rows' = rows
  <2>1. CASE UNCHANGED vars
    BY <2>1 DEF vars
  <2>2. ASSUME NEW p, NEW writes, WritesAt(p, writes) PROVE rows' = rows
    BY <2>2 DEF WritesAt, WriteAll
  <2>3. \A p : Start(p) \/ Exit(p) => rows' = rows
    BY DEF Start, Exit
  <2>4. Reconnect => rows' = rows
    BY DEF Reconnect
  <2> QED
    BY <1>1, <2>1, <2>2, <2>3, <2>4, Steps
<1> QED
  BY <1>3, <1>4, <1>5

(* No entry leaves a row and no piece of knowledge changes its AI, one      *)
(* process at a time, for seeds of different AIs that have no id in common, *)
(* as those shipped have none.                                              *)
THEOREM EntriesAreKept ==
  ASSUME ~Overlap, IdsAreApart
  PROVE  Spec => EntriesStay
<1> DEFINE Stay ==
      /\ \A d \in Documents : Keys(rows[d]) \subseteq Keys(rows'[d])
      /\ \A e \in ToSet(rows["knowledge_documents"]) :
           \E x \in ToSet(rows'["knowledge_documents"]) : x.key = e.key /\ x.ai = e.ai
<1>1. Init => KInv
  BY KInvInit
<1>2. KInv /\ [Next]_vars => KInv'
  BY KInvStep
<1>3. KInv /\ [Next]_vars => [Stay]_vars
  <2> SUFFICES ASSUME KInv, [Next]_vars PROVE Stay
    OBVIOUS
  <2>1. \A d \in Documents : Extends(d, rows[d], rows'[d])
    BY RowsExtend
  <2>2. \A d \in Documents : Keys(rows[d]) \subseteq Keys(rows'[d])
    BY <2>1 DEF Extends, Follows, Keys
  <2>3. \A e \in ToSet(rows["knowledge_documents"]) :
          \E x \in ToSet(rows'["knowledge_documents"]) : x.key = e.key /\ x.ai = e.ai
    <3>1. "knowledge_documents" \in Documents
      BY ListsAndRegistry
    <3> QED
      BY <2>1, <3>1 DEF Extends, Follows
  <2> QED
    BY <2>2, <2>3
<1> HIDE DEF Stay
<1>4. Spec => [][Stay]_vars
  BY <1>1, <1>2, <1>3, PTL DEF Spec
<1> QED
  BY <1>4, PTL DEF EntriesStay, Stay

-----------------------------------------------------------------------------
(* What the server counts.  No verified seed lists a document twice.        *)
SeedsAreSets ==
  \A s \in Seeds : Verified(s) => NoneTwice(s["knowledge_documents"])

LEMMA ItemsAreFinite ==
  ASSUME NEW items \in Items PROVE IsFiniteSet(ToSet(items))
<1> DEFINE f == [i \in 1..Len(items) |-> items[i]]
<1>1. Len(items) \in Nat /\ DOMAIN items = 1..Len(items)
  BY DEF Items
<1>2. f \in Surjection(1..Len(items), ToSet(items))
  BY <1>1 DEF Surjection, ToSet
<1>3. IsFiniteSet(1..Len(items))
  BY <1>1, FS_Interval
<1> HIDE DEF f
<1> QED
  BY <1>2, <1>3, FS_Surjection

LEMMA CountedIsEnough ==
  ASSUME NEW items \in Items, NEW ai, NEW seed, seed \in Seq(ToSet(seed)), NoneTwice(seed),
         \A e \in ToSet(seed) : \E x \in ToSet(items) : x.key = e.key /\ x.ai = ai
  PROVE  Cardinality({x \in ToSet(items) : x.ai = ai}) >= Len(seed)
<1> DEFINE S == {x \in ToSet(items) : x.ai = ai}
           n == Len(seed)
           f == [i \in 1..n |-> CHOOSE x \in S : x.key = seed[i].key]
<1>1. n \in Nat /\ \A i \in 1..n : seed[i] \in ToSet(seed)
  BY DEF ToSet
<1>2. IsFiniteSet(S)
  BY ItemsAreFinite, FS_Subset
<1>3. \A i \in 1..n : \E x \in S : x.key = seed[i].key
  BY <1>1
<1> HIDE DEF S, n
<1>4. \A i \in 1..n : f[i] \in S /\ f[i].key = seed[i].key
  BY <1>3
<1>5. f \in Injection(1..n, S)
  <2>1. f \in [1..n -> S]
    BY <1>4
  <2>2. \A i, j \in 1..n : f[i] = f[j] => i = j
    <3> HIDE DEF f
    <3> QED
      BY <1>4 DEF NoneTwice, n
  <2> HIDE DEF f
  <2> QED
    BY <2>1, <2>2 DEF Injection, IsInjective
<1> HIDE DEF f
<1>6. Cardinality(1..n) <= Cardinality(S)
  BY <1>2, <1>5, FS_Injection
<1>7. Cardinality(1..n) = n /\ Cardinality(S) \in Nat
  BY <1>1, <1>2, FS_Interval, FS_CardinalityType
<1> QED
  BY <1>1, <1>6, <1>7 DEF S, n

LEMMA ServedWhenQuiet ==
  ASSUME KInv, IdsAreApart, SeedsAreSets PROVE SeededIsServed
<1> SUFFICES ASSUME up = {"server"}, chain["server"] = <<>>,
                    \A d \in Documents : kept[d] = "stored",
                    NEW r \in ToSet(rows[Registry])
             PROVE  Counted(r.ai) >= Len(r.call.seed["knowledge_documents"])
  BY DEF SeededIsServed, Registry
<1> DEFINE d == "knowledge_documents"
           seed == r.call.seed[d]
           cached == mem["server"][d]
<1>1. d \in Documents /\ d \in Lists /\ Registry \in Documents /\ "server" \in Processes
  BY ListsAndRegistry DEF Processes
<1>2. /\ rows[d] \in Items /\ rows[Registry] \in Items /\ cached \in Items
      /\ Fine(Registry, rows[Registry], turn) /\ Fine(d, cached, turn) /\ turn \in Nat
  BY <1>1, CachedFine DEF KInv, Typed, AllFine
<1>3. Recorded(r)
  BY <1>2, FineEntries, InItems DEF Proper, Registry
<1>4. r.call.seed \in Seeds /\ Verified(r.call.seed) /\ r.ai = r.call.seed.ai
  BY <1>3 DEF Recorded, Calls
<1>5. rows[d] = cached
  <2>1. Latest(rows, mem["server"], chain["server"], kept)
    BY DEF KInv, Sound
  <2>2. Len(<<>>) = 0 /\ \A i : i \notin 1..0
    OBVIOUS
  <2> QED
    BY <1>1, <2>1, <2>2 DEF Latest
<1>6. Backs(cached, r, d)
  BY <1>1, <1>5 DEF KInv, Rows, AllBacked
<1> HIDE DEF cached
<1>7. \A x \in ToSet(cached) : KnownAs(x)
  BY <1>2, FineEntries, InItems DEF Proper
<1>8. ASSUME NEW e \in ToSet(seed)
      PROVE  \E x \in ToSet(cached) : x.key = e.key /\ x.ai = r.ai
  <2>1. PICK x \in ToSet(cached) : x.key = e.key
    BY <1>6, <1>8 DEF Backs
  <2>2. e.ai = r.ai
    BY <1>4, <1>8 DEF Verified
  <2>3. KnownAs(e)
    BY <1>4, <1>8, <2>2 DEF KnownAs
  <2> QED
    BY <1>7, <2>1, <2>2, <2>3, KnownAgree
<1>9. seed \in Seq(ToSet(seed)) /\ NoneTwice(seed)
  BY <1>1, <1>4, KnowledgeAssumption DEF SeedsAreSets
<1> HIDE DEF seed
<1>10. Cardinality({x \in ToSet(cached) : x.ai = r.ai}) >= Len(seed)
  BY <1>2, <1>8, <1>9, CountedIsEnough
<1> QED
  BY <1>10 DEF Counted, cached, seed

(* A server that is alone with the rows serves the whole of every seed the  *)
(* registry names once its writes are through and none was rejected: what   *)
(* the status route counts short of it is the script's doing, run beside    *)
(* the server.                                                              *)
THEOREM AloneIsServed ==
  ASSUME ~Overlap, IdsAreApart, SeedsAreSets
  PROVE  Spec => []SeededIsServed
<1>1. Init => KInv
  BY KInvInit
<1>2. KInv /\ [Next]_vars => KInv'
  BY KInvStep
<1>3. KInv => SeededIsServed
  BY ServedWhenQuiet
<1> QED
  BY <1>1, <1>2, <1>3, PTL DEF Spec
=============================================================================
