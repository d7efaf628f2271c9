---------------------------- MODULE StoreProofs ----------------------------
(* Theorems about Store, alone and beside the migrations of StoreMigration, *)
(* for every value of their constants.                                     *)
EXTENDS StoreMigration, SequenceTheorems, TLAPS

-----------------------------------------------------------------------------
(* What a default, a file or a row contributes is a set of updates. *)
LEMMA DocOfType ==
  ASSUME NEW place \in Docs \cup {NoDoc}
  PROVE  DocOf(place) \in Docs
BY DEF DocOf, Docs

LEMMA ReadJsonType ==
  ASSUME TypeOK, NEW c \in Collections
  PROVE  /\ ReadLocal(c) \in Docs /\ ReadCached(c) \in Docs
         /\ ReadJson(c) \in Docs
BY DocOfType DEF TypeOK, Places, ReadJson, ReadCached, ReadLocal

(* enqueueWrite adds one write at the end of the chain. *)
LEMMA ChainedProperties ==
  ASSUME TypeOK, NEW c \in Collections, NEW doc \in Docs
  PROVE  /\ Chained(c, doc) \in Seq(Write) /\ Chained(c, doc) # <<>>
         /\ Len(writeChain) \in Nat
         /\ Len(Chained(c, doc)) = Len(writeChain) + 1
         /\ \A i \in 1..Len(writeChain) : Chained(c, doc)[i] = writeChain[i]
         /\ Chained(c, doc)[Len(writeChain) + 1] = [key |-> c, doc |-> doc]
<1>1. [key |-> c, doc |-> doc] \in Write
  BY DEF Write
<1>2. writeChain \in Seq(Write) /\ Len(writeChain) \in Nat
  BY LenProperties DEF TypeOK
<1>3. /\ Chained(c, doc) \in Seq(Write)
      /\ Len(Chained(c, doc)) = Len(writeChain) + 1
      /\ \A i \in 1..Len(writeChain) : Chained(c, doc)[i] = writeChain[i]
      /\ Chained(c, doc)[Len(writeChain) + 1] = [key |-> c, doc |-> doc]
  BY <1>1, <1>2, AppendProperties DEF Chained
<1>4. Chained(c, doc) # <<>>
  BY <1>2, <1>3, EmptySeq
<1> QED
  BY <1>2, <1>3, <1>4

(* A settled write leaves the front of the chain. *)
LEMMA TailOfChain ==
  ASSUME TypeOK, writeChain # <<>>
  PROVE  /\ Len(writeChain) \in Nat \ {0}
         /\ Head(writeChain) = writeChain[1] /\ Head(writeChain) \in Write
         /\ Tail(writeChain) \in Seq(Write)
         /\ Len(Tail(writeChain)) = Len(writeChain) - 1
         /\ \A i \in 1..Len(Tail(writeChain)) :
               Tail(writeChain)[i] = writeChain[i + 1]
<1> writeChain \in Seq(Write)
  BY DEF TypeOK
<1> QED
  BY HeadTailProperties, EmptySeq

-----------------------------------------------------------------------------
(* An answer is due only for a write that is still in the chain. *)
HeadIsPending == headApplied => writeChain # <<>>

(* An action keeps the types, and the head of the chain there while its     *)
(* answer is due.                                                           *)
LEMMA TypeStep == TypeOK /\ HeadIsPending /\ [Next]_vars => (TypeOK /\ HeadIsPending)'
<1> SUFFICES ASSUME TypeOK, HeadIsPending, [Next]_vars
             PROVE  TypeOK' /\ HeadIsPending'
  OBVIOUS
<1>1. CASE Start(TRUE)
  BY <1>1, StoreAssumption DEF TypeOK, HeadIsPending, Start, Seeded
<1>2. CASE Start(FALSE)
  BY <1>2 DEF TypeOK, HeadIsPending, Start, Places, Nowhere
<1>3. CASE Listen
  BY <1>3 DEF TypeOK, HeadIsPending, Listen
<1>4. ASSUME NEW c \in Collections, SeedDefault(c)
      PROVE  TypeOK' /\ HeadIsPending'
  <2>1. DocOf(db[c]) \in Docs /\ DocOf(cache[c]) \in Docs
    BY DocOfType DEF TypeOK, Places
  <2>2. db' \in Places /\ cache' \in Places
    BY <1>4, <2>1 DEF TypeOK, SeedDefault, Places
  <2> QED
    BY <1>4, <2>2 DEF TypeOK, HeadIsPending, SeedDefault
<1>5. ASSUME NEW c \in Collections, NEW e \in Entries, Update(c, e)
      PROVE  TypeOK' /\ HeadIsPending'
  <2> DEFINE doc == ReadJson(c) \cup {e}
  <2>1. doc \in Docs
    BY ReadJsonType DEF Docs
  <2>2. local' \in Places /\ cache' \in Places
    BY <1>5, <2>1 DEF TypeOK, Update, Cached, Places
  <2>3. acked' \in [Collections -> Docs]
    BY <1>5 DEF TypeOK, Update, Docs
  <2>4. /\ writeChain' \in Seq(Write) /\ Len(writeChain') >= Len(writeChain)
        /\ writeChain # <<>> => writeChain' # <<>>
    <3>1. writeChain' = writeChain \/ writeChain' = Chained(c, doc)
      BY <1>5 DEF Update
    <3>2. writeChain \in Seq(Write) /\ Len(writeChain) \in Nat
      BY LenProperties DEF TypeOK
    <3>3. CASE writeChain' = writeChain
      BY <3>2, <3>3
    <3>4. CASE writeChain' = Chained(c, doc)
      <4> HIDE DEF doc
      <4>1. /\ Chained(c, doc) \in Seq(Write) /\ Chained(c, doc) # <<>>
            /\ Len(Chained(c, doc)) = Len(writeChain) + 1
        BY <2>1, ChainedProperties
      <4> QED
        BY <3>2, <3>4, <4>1
    <3> QED
      BY <3>1, <3>3, <3>4
  <2>5. Len(writeChain) \in Nat /\ Len(writeChain') \in Nat
    BY <2>4, LenProperties DEF TypeOK
  <2> QED
    BY <1>5, <2>2, <2>3, <2>4, <2>5 DEF TypeOK, HeadIsPending, Update
<1>6. CASE ApplyHead
  BY <1>6, TailOfChain DEF TypeOK, HeadIsPending, ApplyHead, Places, Write
<1>7. CASE SettleOk \/ SettleError
  <2>1. Settle /\ writeChain # <<>> /\ connected' \in BOOLEAN
    BY <1>7 DEF TypeOK, HeadIsPending, SettleOk, SettleError
  <2>2. check' \in {NoCheck} \cup 0..Len(writeChain')
    BY <2>1, TailOfChain DEF TypeOK, Settle, FlushProgress, NoCheck
  <2>3. failed' \subseteq Collections
    BY <2>1, TailOfChain DEF TypeOK, Settle, Write
  <2> QED
    BY <2>1, <2>2, <2>3, TailOfChain DEF TypeOK, HeadIsPending, Settle
<1>8. CASE PoolError
  BY <1>8 DEF TypeOK, HeadIsPending, PoolError
<1>9. CASE BeginCheck
  BY <1>9, LenProperties DEF TypeOK, HeadIsPending, BeginCheck
<1>10. CASE Ping
  BY <1>10 DEF TypeOK, HeadIsPending, Ping
<1>11. CASE Crash
  BY <1>11, EmptySeq DEF TypeOK, HeadIsPending, Crash, Places, Nowhere
<1>12. CASE UNCHANGED vars
  BY <1>12 DEF TypeOK, HeadIsPending, vars
<1> QED
  BY <1>1, <1>2, <1>3, <1>4, <1>5, <1>6, <1>7, <1>8, <1>9, <1>10, <1>11,
     <1>12 DEF Next

(* Every state is well typed, a flush never awaits more writes than are     *)
(* pending, and a database answer always belongs to a chained write.        *)
THEOREM TypeCorrect == Spec => [](TypeOK /\ HeadIsPending)
<1>1. Init => TypeOK /\ HeadIsPending
  BY EmptySeq, StoreAssumption DEF Init, TypeOK, HeadIsPending, Places, Nowhere, Docs, NoCheck
<1> QED
  BY <1>1, TypeStep, PTL DEF Spec

-----------------------------------------------------------------------------
(* How the two steps that change the chain change what is pending. *)
LEMMA PendingAfterChained ==
  ASSUME TypeOK, NEW c \in Collections, NEW doc \in Docs,
         writeChain' = Chained(c, doc)
  PROVE  \A d \in Collections :
           Pending(d)' = IF d = c THEN Pending(d) \cup {Len(writeChain) + 1}
                                  ELSE Pending(d)
<1> DEFINE n == Len(writeChain)
           next == Chained(c, doc)
<1>1. /\ n \in Nat /\ Len(next) = n + 1
      /\ \A i \in 1..n : next[i] = writeChain[i]
      /\ next[n + 1].key = c
  <2>1. /\ n \in Nat /\ Len(next) = n + 1
        /\ \A i \in 1..n : next[i] = writeChain[i]
        /\ next[n + 1] = [key |-> c, doc |-> doc]
    BY ChainedProperties
  <2> HIDE DEF n, next
  <2> QED
    BY <2>1
<1>2. \A d \in Collections : Pending(d) = {i \in 1..n : writeChain[i].key = d}
  BY DEF Pending
<1>3. \A d \in Collections : Pending(d)' = {i \in 1..Len(next) : next[i].key = d}
  BY DEF Pending
<1> HIDE DEF n, next
<1> SUFFICES ASSUME NEW d \in Collections
             PROVE  Pending(d)' = IF d = c THEN Pending(d) \cup {n + 1}
                                           ELSE Pending(d)
  BY DEF n
<1>4. 1..(n + 1) = 1..n \cup {n + 1} /\ n + 1 \notin 1..n
  BY <1>1
<1>5. {i \in 1..(n + 1) : next[i].key = d} =
        {i \in 1..n : writeChain[i].key = d}
          \cup (IF d = c THEN {n + 1} ELSE {})
  BY <1>1, <1>4
<1> QED
  BY <1>1, <1>2, <1>3, <1>5

LEMMA PendingAfterSettle ==
  ASSUME TypeOK, writeChain # <<>>, writeChain' = Tail(writeChain)
  PROVE  /\ \A d \in Collections, i \in Nat \ {0} :
              i \in Pending(d)' <=> i + 1 \in Pending(d)
         /\ \A d \in Collections : \A i \in Pending(d)' :
              i \in Nat \ {0} /\ writeChain'[i] = writeChain[i + 1]
         /\ \A d \in Collections : 1 \in Pending(d) <=> d = Head(writeChain).key
BY TailOfChain DEF Pending

(* The latest pending write of a collection is what the cache holds; with  *)
(* none pending and none lost the row is.                                  *)
LatestWins(c) ==
  /\ \A i \in Pending(c) :
       (\A j \in Pending(c) : j <= i) => writeChain[i].doc = cache[c]
  /\ (Pending(c) = {} /\ cache[c] # NoDoc /\ c \notin failed)
       => db[c] = cache[c]

(* A process that does not serve has nothing chained. *)
Quiet == proc # "serve" => writeChain = <<>>

(* One collection's part: its latest write is what the cache holds, its row *)
(* what the database ran last, and nothing but the rows is cached at first. *)
Fits(c) ==
  /\ proc # "down" => LatestWins(c)
  /\ proc = "boot" => cache[c] = db[c]
  /\ (headApplied /\ Head(writeChain).key = c) => db[c] = Head(writeChain).doc

AgreementInv ==
  /\ TypeOK /\ HeadIsPending
  /\ proc # "serve" => writeChain = <<>>
  /\ proc = "boot" => cache = db
  /\ headApplied => db[Head(writeChain).key] = Head(writeChain).doc
  /\ proc # "down" => \A c \in Collections : LatestWins(c)

(* The invariant holds of a fresh database with the server down. *)
LEMMA AgreementInit == Init => AgreementInv
<1> SUFFICES ASSUME Init PROVE AgreementInv
  OBVIOUS
<1>1. TypeOK /\ HeadIsPending
  BY EmptySeq DEF Init, TypeOK, HeadIsPending, Places, Nowhere, Docs, NoCheck
<1> QED
  BY <1>1 DEF Init, AgreementInv

LEMMA QuietStep == TypeOK /\ Quiet /\ [Next]_vars => Quiet'
<1> SUFFICES ASSUME TypeOK, Quiet, [Next]_vars PROVE Quiet'
  OBVIOUS
<1>1. CASE ApplyHead \/ PoolError \/ BeginCheck \/ Ping \/ Listen \/ Crash \/ UNCHANGED vars
  BY <1>1 DEF ApplyHead, PoolError, BeginCheck, Ping, Listen, Crash, vars, Quiet
<1>2. CASE SettleOk \/ SettleError
  <2>1. proc' = proc /\ (writeChain # <<>> \/ headApplied)
    BY <1>2 DEF SettleOk, SettleError, Settle
  <2>2. writeChain = <<>> => writeChain' = <<>>
    BY <1>2 DEF SettleOk, SettleError, Settle
  <2> QED
    BY <2>1, <2>2 DEF Quiet
<1>3. ASSUME NEW ok \in BOOLEAN, Start(ok) PROVE Quiet'
  BY <1>3 DEF Start, Quiet
<1>4. ASSUME NEW c \in Collections, SeedDefault(c) PROVE Quiet'
  BY <1>4 DEF SeedDefault, Quiet
<1>5. ASSUME NEW c \in Collections, NEW e \in Entries, Update(c, e) PROVE Quiet'
  BY <1>5 DEF Update, Quiet
<1> QED
  BY <1>1, <1>2, <1>3, <1>4, <1>5 DEF Next

(* Every step of the store preserves one collection's part of it, whatever  *)
(* is true of the others; one case per action.                              *)
LEMMA FitsStep ==
  ASSUME TypeOK, HeadIsPending, Quiet, TypeOK', HeadIsPending',
         NEW d \in Collections, Fits(d), [Next]_vars
  PROVE  Fits(d)'
<1>1. ASSUME NEW ok \in BOOLEAN, Start(ok)
      PROVE  Fits(d)'
  <2>1. /\ writeChain = <<>> /\ writeChain' = <<>> /\ ~headApplied'
        /\ db' = db /\ cache' \in {Nowhere, db} /\ proc = "down"
        /\ proc' = "boot" => cache' = db'
    BY <1>1 DEF Start, Quiet, HeadIsPending
  <2>2. Pending(d)' = {}
    BY <2>1, EmptySeq DEF Pending
  <2>3. LatestWins(d)'
    BY <2>1, <2>2 DEF LatestWins, Nowhere
  <2> QED
    BY <2>1, <2>3 DEF Fits
<1>2. ASSUME NEW c \in Collections, SeedDefault(c)
      PROVE  Fits(d)'
  <2>1. /\ writeChain = <<>> /\ writeChain' = <<>> /\ ~headApplied'
        /\ proc = "boot" /\ proc' = "boot" /\ cache[d] = db[d] /\ LatestWins(d)
    BY <1>2 DEF SeedDefault, Quiet, HeadIsPending, Fits
  <2>2. Pending(d)' = {} /\ Pending(d) = {}
    BY <2>1, EmptySeq DEF Pending
  <2>3. /\ db'[d] = IF d = c THEN DocOf(db[d]) ELSE db[d]
        /\ cache'[d] = IF d = c THEN DocOf(cache[d]) ELSE cache[d]
        /\ failed' = failed
    BY <1>2 DEF SeedDefault, TypeOK, Places
  <2> QED
    BY <2>1, <2>2, <2>3 DEF Fits, LatestWins
<1>3. CASE Listen \/ PoolError \/ BeginCheck \/ Ping \/ UNCHANGED vars
  <2>1. /\ UNCHANGED <<writeChain, headApplied, cache, db, failed>>
        /\ proc' = "boot" => proc = "boot"
        /\ proc' # "down" => proc # "down"
    BY <1>3 DEF Listen, PoolError, BeginCheck, Ping, vars
  <2>2. LatestWins(d) => LatestWins(d)'
    BY <2>1 DEF LatestWins, Pending
  <2> QED
    BY <2>1, <2>2 DEF Fits
<1>4. ASSUME NEW c \in Collections, NEW e \in Entries, Update(c, e)
      PROVE  Fits(d)'
  <2> DEFINE doc == ReadJson(c) \cup {e}
  <2>1. /\ proc = "serve" /\ UNCHANGED <<proc, headApplied, db, failed>>
        /\ \/ cache' = Cached(c, doc) /\ writeChain' = Chained(c, doc)
           \/ UNCHANGED <<cache, writeChain>>
    BY <1>4 DEF Update
  <2>2. doc \in Docs
    BY ReadJsonType DEF Docs
  <2>3. LatestWins(d)
    BY <2>1 DEF Fits
  <2> HIDE DEF doc
  <2>4. CASE UNCHANGED <<cache, writeChain>>
    <3>1. LatestWins(d)'
      BY <2>1, <2>3, <2>4 DEF LatestWins, Pending
    <3> QED
      BY <2>1, <2>4, <3>1 DEF Fits
  <2>5. CASE cache' = Cached(c, doc) /\ writeChain' = Chained(c, doc)
    <3> DEFINE n == Len(writeChain)
    <3>1. /\ n \in Nat
          /\ \A i \in 1..n : writeChain'[i] = writeChain[i]
          /\ writeChain'[n + 1] = [key |-> c, doc |-> doc]
      <4>1. /\ n \in Nat
            /\ \A i \in 1..n : Chained(c, doc)[i] = writeChain[i]
            /\ Chained(c, doc)[n + 1] = [key |-> c, doc |-> doc]
        BY <2>2, ChainedProperties
      <4> HIDE DEF n
      <4> QED
        BY <2>5, <4>1
    <3>2. Pending(d)' = IF d = c THEN Pending(d) \cup {n + 1} ELSE Pending(d)
      BY <2>2, <2>5, PendingAfterChained
    <3>3. Pending(d) \subseteq 1..n
      BY DEF Pending
    <3> HIDE DEF n
    <3>4. cache'[d] = IF d = c THEN doc ELSE cache[d]
      BY <2>5 DEF Cached, TypeOK, Places
    <3>5. ASSUME d # c PROVE LatestWins(d)'
      BY <2>1, <2>3, <3>1, <3>2, <3>3, <3>4, <3>5 DEF LatestWins
    <3>6. ASSUME d = c PROVE LatestWins(d)'
      <4>1. n + 1 \in Pending(d)' /\ \A i \in Pending(d)' : i <= n + 1
        BY <3>1, <3>2, <3>3, <3>6
      <4>2. writeChain'[n + 1].doc = cache'[d]
        BY <3>1, <3>4, <3>6
      <4>3. \A i \in Pending(d)' :
              (\A j \in Pending(d)' : j <= i) => i = n + 1
        BY <3>1, <3>2, <3>3, <3>6, <4>1
      <4> QED
        BY <4>1, <4>2, <4>3 DEF LatestWins
    <3>7. LatestWins(d)'
      BY <3>5, <3>6
    <3>8. headApplied => Head(writeChain') = Head(writeChain)
      <4> SUFFICES ASSUME headApplied PROVE Head(writeChain') = Head(writeChain)
        OBVIOUS
      <4>1. writeChain # <<>> /\ writeChain' # <<>>
        BY <2>1, <2>2, <2>5, ChainedProperties DEF HeadIsPending
      <4>2. 1 \in 1..n
        BY <4>1, EmptySeq DEF TypeOK, n
      <4> QED
        BY <4>1, <4>2, <3>1
    <3> QED
      BY <2>1, <3>7, <3>8 DEF Fits
  <2> QED
    BY <2>1, <2>4, <2>5
<1>5. CASE ApplyHead
  <2> DEFINE w == Head(writeChain)
  <2>1. /\ writeChain # <<>> /\ w \in Write /\ 1 \in Pending(w.key)
        /\ UNCHANGED <<proc, cache, writeChain, failed>>
        /\ db' = [db EXCEPT ![w.key] = w.doc]
    BY <1>5, TailOfChain DEF ApplyHead, Pending, Write
  <2>2. proc = "serve"
    BY <2>1 DEF Quiet
  <2> HIDE DEF w
  <2>3. LatestWins(d)'
    BY <2>1, <2>2 DEF Fits, LatestWins, Pending, TypeOK, Places, Write
  <2>4. db'[w.key] = w.doc
    BY <2>1 DEF TypeOK, Places, Write
  <2> QED
    BY <2>1, <2>2, <2>3, <2>4 DEF Fits, w
<1>6. CASE SettleOk \/ SettleError
  <2> DEFINE w == Head(writeChain)
  <2>1. /\ writeChain # <<>> /\ writeChain' = Tail(writeChain)
        /\ ~headApplied' /\ UNCHANGED <<proc, cache, db>>
        /\ failed' = IF headApplied THEN failed \ {w.key}
                                    ELSE failed \cup {w.key}
    BY <1>6 DEF SettleOk, SettleError, Settle, HeadIsPending
  <2>2. /\ proc = "serve" /\ w \in Write /\ w = writeChain[1]
        /\ headApplied /\ d = w.key => db[d] = w.doc
    BY <2>1, TailOfChain DEF Quiet, Fits
  <2> HIDE DEF w
  <2>3. /\ \A i \in Nat \ {0} : i \in Pending(d)' <=> i + 1 \in Pending(d)
        /\ \A i \in Pending(d)' :
              i \in Nat \ {0} /\ writeChain'[i] = writeChain[i + 1]
        /\ 1 \in Pending(d) <=> d = w.key
    BY <2>1, PendingAfterSettle DEF w
  <2>4. \A j \in Pending(d) :
           /\ j \in Nat
           /\ j = 1 \/ (j - 1 \in Nat \ {0} /\ j - 1 \in Pending(d)')
    <3>1. \A j \in Pending(d) : j \in Nat \ {0}
      BY LenProperties DEF Pending, TypeOK
    <3> QED
      BY <2>3, <3>1
  <2>5. LatestWins(d)
    BY <2>2 DEF Fits
  <2>6. ASSUME NEW i \in Pending(d)', \A j \in Pending(d)' : j <= i
        PROVE  writeChain'[i].doc = cache'[d]
    <3>1. i \in Nat \ {0} /\ i + 1 \in Pending(d)
      BY <2>3, <2>6
    <3>2. \A j \in Pending(d) : j <= i + 1
      BY <2>4, <2>6, <3>1
    <3> QED
      BY <2>1, <2>3, <2>5, <3>1, <3>2 DEF LatestWins
  <2>7. ASSUME Pending(d)' = {}, cache'[d] # NoDoc, d \notin failed'
        PROVE  db'[d] = cache'[d]
    <3>1. \A j \in Pending(d) : j = 1
      BY <2>4, <2>7
    <3>2. CASE d = w.key
      <4>1. headApplied /\ db[d] = w.doc
        BY <2>1, <2>2, <2>7, <3>2
      <4>2. 1 \in Pending(d) /\ \A j \in Pending(d) : j <= 1
        BY <2>3, <3>1, <3>2
      <4> QED
        BY <2>1, <2>2, <2>5, <4>1, <4>2 DEF LatestWins
    <3>3. CASE d # w.key
      BY <2>1, <2>3, <2>5, <2>7, <3>1, <3>3 DEF LatestWins
    <3> QED
      BY <3>2, <3>3
  <2>8. LatestWins(d)'
    BY <2>6, <2>7 DEF LatestWins
  <2> QED
    BY <2>1, <2>2, <2>8 DEF Fits
<1>7. CASE Crash
  BY <1>7 DEF Crash, Fits
<1> QED
  BY <1>1, <1>2, <1>3, <1>4, <1>5, <1>6, <1>7 DEF Next

LEMMA AgreementFits ==
  ASSUME TypeOK, HeadIsPending
  PROVE  AgreementInv <=> Quiet /\ \A c \in Collections : Fits(c)
<1>1. headApplied => Head(writeChain).key \in Collections
  BY TailOfChain DEF HeadIsPending, Write
<1>2. cache = db <=> \A c \in Collections : cache[c] = db[c]
  BY DEF TypeOK, Places
<1> QED
  BY <1>1, <1>2 DEF AgreementInv, Quiet, Fits

LEMMA AgreementStep ==
  AgreementInv /\ TypeOK' /\ HeadIsPending' /\ [Next]_vars => AgreementInv'
<1> SUFFICES ASSUME AgreementInv, TypeOK', HeadIsPending', [Next]_vars
             PROVE  AgreementInv'
  OBVIOUS
<1>1. TypeOK /\ HeadIsPending
  BY DEF AgreementInv
<1>2. Quiet /\ \A c \in Collections : Fits(c)
  BY <1>1, AgreementFits
<1>3. Quiet' /\ \A c \in Collections : Fits(c)'
  BY <1>1, <1>2, QuietStep, FitsStep
<1>4. headApplied' => Head(writeChain').key \in Collections
  <2>1. headApplied' => writeChain' # <<>> /\ writeChain' \in Seq(Write)
    BY DEF HeadIsPending, TypeOK
  <2>2. headApplied' => Head(writeChain') \in Write
    <3> HIDE DEF Write
    <3> QED
      BY <2>1
  <2> QED
    BY <2>2 DEF Write
<1>5. cache' = db' <=> \A c \in Collections : cache'[c] = db'[c]
  BY DEF TypeOK, Places
<1> QED
  BY <1>3, <1>4, <1>5 DEF AgreementInv, Quiet, Fits

(* The cache and the database agree on every collection with nothing        *)
(* pending whose latest write was not lost, with the connection required or *)
(* not, whatever reconnects, crashes and restarts happened.                 *)
THEOREM Agreement == Spec => []QuiescentAgreement
<1>1. AgreementInv => QuiescentAgreement
  BY DEF AgreementInv, LatestWins, QuiescentAgreement
<1> QED
  BY <1>1, AgreementInit, AgreementStep, TypeCorrect, PTL DEF Spec
-----------------------------------------------------------------------------
(* With the connection required.  One collection's part of PipelineOrdered, *)
(* without the ordering of its writes.                                      *)
Ordered(c) ==
  /\ DocOf(db[c]) \subseteq DocOf(cache[c])
  /\ \A i \in Pending(c) :
       /\ DocOf(db[c]) \subseteq writeChain[i].doc
       /\ cache[c] # NoDoc /\ writeChain[i].doc \subseteq cache[c]
       /\ \A j \in Pending(c) :
            i < j => writeChain[i].doc \subseteq writeChain[j].doc

(* What any copy holds was acknowledged. *)
Known(c) == DocOf(db[c]) \cup DocOf(cache[c]) \cup DocOf(local[c]) \subseteq acked[c]

(* A file is ahead of the cache only where the row is what counts.          *)
FileWithin(c) ==
  (db[c] = NoDoc /\ cache[c] # NoDoc) => DocOf(local[c]) \subseteq cache[c]

RequiredInv ==
  /\ AgreementInv
  /\ seeding \subseteq Seeded
  /\ proc = "boot" => \A c \in Seeded \ seeding : db[c] # NoDoc
  /\ proc # "down" => \A c \in Collections : Ordered(c)
  /\ \A c \in Collections : Known(c)
  /\ proc = "serve" => \A c \in Collections : FileWithin(c)

LEMMA RequiredInit == Init => RequiredInv
<1> SUFFICES ASSUME Init PROVE RequiredInv
  OBVIOUS
<1>1. AgreementInv
  BY AgreementInit
<1> QED
  BY <1>1 DEF Init, RequiredInv, Known, DocOf, Nowhere

(* A document is never the mark for none, and reads as itself. *)
LEMMA DocIsThere == \A doc \in Docs : doc # NoDoc /\ DocOf(doc) = doc
BY StoreAssumption DEF Docs, DocOf

(* What one handler's turn does where the connection is required: the cache *)
(* and the chain take the document read with the update in it, which the    *)
(* collection did not have.                                                 *)
LEMMA UpdateRequired ==
  ASSUME RequireConnection, RequiredInv,
         NEW c \in Collections, NEW e \in Entries, Update(c, e)
  PROVE  \E doc \in Docs :
           /\ doc = ReadCached(c) \cup {e} /\ e \notin ReadCached(c)
           /\ proc = "serve" /\ UNCHANGED <<proc, db, seeding>>
           /\ cache' = Cached(c, doc) /\ writeChain' = Chained(c, doc)
           /\ local' = [local EXCEPT ![c] = doc] \/ local' = local
           /\ acked' = [acked EXCEPT ![c] = @ \cup {e}]
           /\ ReadCached(c) \subseteq acked[c]
<1>1. TypeOK /\ Known(c)
  BY DEF RequiredInv, AgreementInv
<1>2. connected /\ ReadJson(c) = ReadCached(c)
  BY DEF Update, Readable, ReadJson
<1>3. ReadCached(c) \subseteq acked[c]
  BY <1>1 DEF Known, ReadCached, ReadLocal, DocOf
<1>4. e \notin acked[c]
  BY DEF Update
<1>5. ReadCached(c) \cup {e} \in Docs
  BY <1>1, ReadJsonType DEF Docs
<1> QED
  BY <1>2, <1>3, <1>4, <1>5 DEF Update

LEMMA RequiredStep ==
  RequireConnection /\ RequiredInv /\ AgreementInv' /\ [Next]_vars => RequiredInv'
<1> SUFFICES ASSUME RequireConnection, RequiredInv, AgreementInv', [Next]_vars
             PROVE  RequiredInv'
  OBVIOUS
<1>0. /\ AgreementInv /\ TypeOK /\ HeadIsPending
      /\ TypeOK' /\ HeadIsPending'
  BY DEF RequiredInv, AgreementInv
<1>1. ASSUME NEW ok \in BOOLEAN, Start(ok)
      PROVE  RequiredInv'
  <2>1. /\ proc = "down" /\ proc' = "boot" /\ cache' = db /\ seeding' = Seeded
        /\ UNCHANGED <<writeChain, local, db, acked>>
    BY <1>1 DEF Start, Startable
  <2>2. writeChain' = <<>>
    BY <1>0, <2>1 DEF AgreementInv
  <2>3. \A c \in Collections : Pending(c)' = {}
    BY <2>2, EmptySeq DEF Pending
  <2>4. \A c \in Collections : Ordered(c)' /\ (Known(c) => Known(c)')
    BY <2>1, <2>3 DEF Ordered, Known
  <2> QED
    BY <2>1, <2>4 DEF RequiredInv
<1>2. ASSUME NEW c \in Collections, SeedDefault(c)
      PROVE  RequiredInv'
  <2>1. /\ proc = "boot" /\ UNCHANGED <<proc, writeChain, local, acked>>
        /\ c \in seeding /\ seeding' = seeding \ {c}
    BY <1>2 DEF SeedDefault
  <2>2. writeChain' = <<>>
    BY <1>0, <2>1 DEF AgreementInv
  <2>3. \A d \in Collections : Pending(d)' = {}
    BY <2>2, EmptySeq DEF Pending
  <2>4. \A d \in Collections :
          /\ db'[d] = IF d = c THEN DocOf(db[c]) ELSE db[d]
          /\ cache'[d] = IF d = c THEN DocOf(cache[c]) ELSE cache[d]
    BY <1>0, <1>2 DEF SeedDefault, TypeOK, Places
  <2>5. /\ DocOf(db[c]) # NoDoc
        /\ DocOf(DocOf(db[c])) = DocOf(db[c])
        /\ DocOf(DocOf(cache[c])) = DocOf(cache[c])
    BY <1>0, DocOfType, DocIsThere DEF TypeOK, Places
  <2>6. \A d \in Collections :
          DocOf(db'[d]) = DocOf(db[d]) /\ DocOf(cache'[d]) = DocOf(cache[d])
    BY <2>4, <2>5
  <2>7. \A d \in Collections :
          (Ordered(d) => Ordered(d)') /\ (Known(d) => Known(d)')
    BY <2>1, <2>3, <2>6 DEF Ordered, Known
  <2>8. \A d \in Seeded \ seeding' : db'[d] # NoDoc
    BY <2>1, <2>4, <2>5, StoreAssumption DEF RequiredInv, Seeded
  <2> QED
    BY <2>1, <2>7, <2>8 DEF RequiredInv
<1>3. CASE Listen
  <2>1. proc = "boot" /\ UNCHANGED <<writeChain, cache, db, local, acked, seeding>>
    BY <1>3 DEF Listen
  <2>2. cache = db
    BY <1>0, <2>1 DEF AgreementInv
  <2>3. \A c \in Collections : FileWithin(c)' /\ (Known(c) => Known(c)')
                                 /\ (Ordered(c) => Ordered(c)')
    BY <2>1, <2>2 DEF FileWithin, Known, Ordered, Pending
  <2> QED
    BY <1>3, <2>1, <2>3 DEF RequiredInv, Listen
<1>4. ASSUME NEW c \in Collections, NEW e \in Entries, Update(c, e)
      PROVE  RequiredInv'
  <2>1. PICK doc \in Docs :
          /\ doc = ReadCached(c) \cup {e} /\ e \notin ReadCached(c)
          /\ proc = "serve" /\ UNCHANGED <<proc, db, seeding>>
          /\ cache' = Cached(c, doc) /\ writeChain' = Chained(c, doc)
          /\ local' = [local EXCEPT ![c] = doc] \/ local' = local
          /\ acked' = [acked EXCEPT ![c] = @ \cup {e}]
          /\ ReadCached(c) \subseteq acked[c]
    BY <1>4, UpdateRequired
  <2> DEFINE n == Len(writeChain)
  <2>2. /\ n \in Nat
        /\ \A i \in 1..n : writeChain'[i] = writeChain[i]
        /\ writeChain'[n + 1] = [key |-> c, doc |-> doc]
    <3>1. /\ n \in Nat
          /\ \A i \in 1..n : Chained(c, doc)[i] = writeChain[i]
          /\ Chained(c, doc)[n + 1] = [key |-> c, doc |-> doc]
      BY <1>0, ChainedProperties
    <3> HIDE DEF n
    <3> QED
      BY <2>1, <3>1
  <2>3. \A d \in Collections :
          Pending(d)' = IF d = c THEN Pending(d) \cup {n + 1} ELSE Pending(d)
    BY <1>0, <2>1, PendingAfterChained
  <2>4. \A d \in Collections : Pending(d) \subseteq 1..n
    BY DEF Pending
  <2> HIDE DEF n
  <2>5. \A d \in Collections :
          /\ cache'[d] = IF d = c THEN doc ELSE cache[d]
          /\ local'[d] = local[d] \/ (d = c /\ local'[d] = doc)
          /\ acked'[d] = IF d = c THEN acked[c] \cup {e} ELSE acked[d]
          /\ db'[d] = db[d]
    BY <1>0, <2>1 DEF Cached, TypeOK, Places
  <2>6. doc # NoDoc /\ DocOf(doc) = doc
    BY DocIsThere
  <2>7. DocOf(cache[c]) \subseteq ReadCached(c)
    BY DEF DocOf, ReadCached
  <2>8. ASSUME NEW d \in Collections
        PROVE  Ordered(d)' /\ Known(d)' /\ FileWithin(d)'
    <3>1. Ordered(d) /\ Known(d) /\ FileWithin(d)
      BY <2>1 DEF RequiredInv
    <3>2. CASE d # c
      <4>1. /\ UNCHANGED <<db[d], cache[d], local[d], acked[d]>>
            /\ Pending(d)' = Pending(d)
        BY <2>3, <2>5, <3>2
      <4>2. \A i \in Pending(d) : writeChain'[i] = writeChain[i]
        BY <2>2, <2>4
      <4> QED
        BY <3>1, <4>1, <4>2 DEF Ordered, Known, FileWithin
    <3>3. CASE d = c
      <4>1. DocOf(db[c]) \subseteq doc
        BY <2>1, <2>7, <3>1, <3>3 DEF Ordered
      <4>2. \A i \in Pending(c) : writeChain[i].doc \subseteq doc
        BY <2>1, <2>7, <3>1, <3>3 DEF Ordered, DocOf
      <4>3. Ordered(c)'
        <5>1. DocOf(db'[c]) \subseteq DocOf(cache'[c])
          BY <2>5, <2>6, <4>1
        <5>2. ASSUME NEW i \in Pending(c)'
              PROVE  /\ DocOf(db'[c]) \subseteq writeChain'[i].doc
                     /\ cache'[c] # NoDoc /\ writeChain'[i].doc \subseteq cache'[c]
          BY <2>2, <2>3, <2>4, <2>5, <2>6, <3>1, <3>3, <4>1, <4>2 DEF Ordered
        <5>3. ASSUME NEW i \in Pending(c)', NEW j \in Pending(c)', i < j
              PROVE  writeChain'[i].doc \subseteq writeChain'[j].doc
          <6>1. i \in Pending(c)
            BY <2>2, <2>3, <2>4, <5>3
          <6>2. CASE j = n + 1
            BY <2>2, <2>4, <4>2, <6>1, <6>2
          <6>3. CASE j # n + 1
            BY <2>2, <2>3, <2>4, <3>1, <3>3, <5>3, <6>1, <6>3 DEF Ordered
          <6> QED
            BY <6>2, <6>3
        <5> QED
          BY <5>1, <5>2, <5>3 DEF Ordered
      <4>4. Known(c)'
        <5>1. acked[c] \subseteq acked'[c] /\ doc \subseteq acked'[c]
          BY <2>1, <2>5
        <5>2. /\ DocOf(db'[c]) = DocOf(db[c]) /\ DocOf(cache'[c]) = doc
              /\ DocOf(local'[c]) = DocOf(local[c]) \/ DocOf(local'[c]) = doc
          BY <2>5, <2>6
        <5> QED
          BY <3>1, <3>3, <5>1, <5>2 DEF Known
      <4>5. FileWithin(c)'
        <5>1. db[c] = NoDoc => DocOf(local[c]) \subseteq ReadCached(c)
          BY <3>1, <3>3 DEF FileWithin, ReadCached, ReadLocal
        <5> QED
          BY <2>1, <2>5, <2>6, <5>1 DEF FileWithin
      <4> QED
        BY <3>3, <4>3, <4>4, <4>5
    <3> QED
      BY <3>2, <3>3
  <2> QED
    BY <2>1, <2>8 DEF RequiredInv
<1>5. CASE ApplyHead
  <2> DEFINE w == Head(writeChain)
  <2>1. /\ writeChain # <<>> /\ w \in Write /\ w = writeChain[1]
        /\ 1 \in Pending(w.key)
        /\ UNCHANGED <<proc, cache, writeChain, local, seeding, acked>>
        /\ db' = [db EXCEPT ![w.key] = w.doc]
    BY <1>0, <1>5, TailOfChain DEF ApplyHead, Pending, Write
  <2>2. proc = "serve"
    BY <1>0, <2>1 DEF AgreementInv
  <2> HIDE DEF w
  <2>3. w.key \in Collections /\ w.doc \in Docs
    BY <2>1 DEF Write
  <2>4. \A c \in Collections : db'[c] = IF c = w.key THEN w.doc ELSE db[c]
    BY <1>0, <2>1, <2>3 DEF TypeOK, Places
  <2>5. w.doc # NoDoc /\ DocOf(w.doc) = w.doc
    BY <2>3, DocIsThere
  <2>6. ASSUME NEW c \in Collections
        PROVE  Ordered(c)' /\ Known(c)' /\ FileWithin(c)'
    <3>1. Ordered(c) /\ Known(c) /\ FileWithin(c) /\ Pending(c)' = Pending(c)
      BY <2>1, <2>2 DEF RequiredInv, Pending
    <3>2. \A i \in Pending(c) : i \in Nat /\ i >= 1
      BY <1>0, LenProperties DEF TypeOK, Pending
    <3>3. CASE c = w.key
      <4>1. \A i \in Pending(c) : w.doc \subseteq writeChain[i].doc
        BY <2>1, <3>1, <3>2, <3>3 DEF Ordered
      <4>2. w.doc \subseteq cache[c] /\ cache[c] # NoDoc
        BY <2>1, <3>1, <3>3 DEF Ordered
      <4> QED
        BY <2>1, <2>4, <2>5, <3>1, <3>3, <4>1, <4>2
           DEF Ordered, Known, FileWithin, DocOf
    <3>4. CASE c # w.key
      BY <2>1, <2>4, <3>1, <3>4 DEF Ordered, Known, FileWithin
    <3> QED
      BY <3>3, <3>4
  <2> QED
    BY <2>1, <2>2, <2>6 DEF RequiredInv
<1>6. CASE SettleOk \/ SettleError
  <2>1. /\ writeChain # <<>> /\ writeChain' = Tail(writeChain)
        /\ UNCHANGED <<proc, cache, db, local, seeding, acked>>
    BY <1>0, <1>6 DEF SettleOk, SettleError, Settle, HeadIsPending
  <2>2. /\ \A d \in Collections, i \in Nat \ {0} :
              i \in Pending(d)' <=> i + 1 \in Pending(d)
        /\ \A d \in Collections : \A i \in Pending(d)' :
              i \in Nat \ {0} /\ writeChain'[i] = writeChain[i + 1]
    BY <1>0, <2>1, PendingAfterSettle
  <2>3. ASSUME NEW c \in Collections
        PROVE  /\ Ordered(c) => Ordered(c)'
               /\ Known(c) => Known(c)'
               /\ FileWithin(c) => FileWithin(c)'
    <3>1. Known(c) => Known(c)'
      BY <2>1 DEF Known
    <3>2. FileWithin(c) => FileWithin(c)'
      BY <2>1 DEF FileWithin
    <3>3. ASSUME Ordered(c), NEW i \in Pending(c)'
          PROVE  /\ DocOf(db'[c]) \subseteq writeChain'[i].doc
                 /\ cache'[c] # NoDoc /\ writeChain'[i].doc \subseteq cache'[c]
                 /\ \A j \in Pending(c)' :
                      i < j => writeChain'[i].doc \subseteq writeChain'[j].doc
      <4>1. \A j \in Pending(c)' : /\ j \in Nat /\ j + 1 \in Pending(c)
                                    /\ writeChain'[j] = writeChain[j + 1]
        BY <2>2
      <4> QED
        <5>1. i + 1 \in Pending(c) /\ writeChain'[i] = writeChain[i + 1]
          BY <4>1
        <5>2. \A j \in Pending(c)' : i < j =>
                /\ j + 1 \in Pending(c) /\ i + 1 < j + 1
                /\ writeChain'[j] = writeChain[j + 1]
          BY <4>1
        <5> QED
          BY <2>1, <3>3, <5>1, <5>2 DEF Ordered
    <3> QED
      BY <2>1, <3>1, <3>2, <3>3 DEF Ordered
  <2> QED
    BY <2>1, <2>3 DEF RequiredInv
<1>7. CASE PoolError \/ BeginCheck \/ Ping \/ UNCHANGED vars
  <2>1. UNCHANGED <<proc, cache, writeChain, db, local, seeding, acked>>
    BY <1>7 DEF PoolError, BeginCheck, Ping, vars
  <2>2. \A c \in Collections : /\ Ordered(c) => Ordered(c)'
                               /\ Known(c) => Known(c)'
                               /\ FileWithin(c) => FileWithin(c)'
    BY <2>1 DEF Ordered, Known, FileWithin, Pending
  <2> QED
    BY <2>1, <2>2 DEF RequiredInv
<1>8. CASE Crash
  <2>1. /\ proc' = "down" /\ cache' = Nowhere /\ seeding' = {}
        /\ UNCHANGED <<local, db, acked>>
    BY <1>8 DEF Crash
  <2>2. \A c \in Collections : Known(c) => Known(c)'
    BY <2>1 DEF Known, Nowhere, DocOf
  <2> QED
    BY <2>1, <2>2 DEF RequiredInv
<1> QED
  BY <1>1, <1>2, <1>3, <1>4, <1>5, <1>6, <1>7, <1>8 DEF Next

LEMMA RequiredAlways == ASSUME RequireConnection PROVE Spec => []RequiredInv
<1>1. AgreementInv /\ TypeOK' /\ HeadIsPending' /\ [Next]_vars => AgreementInv'
  BY AgreementStep
<1>2. RequiredInv => AgreementInv
  BY DEF RequiredInv
<1>3. RequiredInv /\ AgreementInv' /\ [Next]_vars => RequiredInv'
  BY RequiredStep
<1> QED
  BY <1>1, <1>2, <1>3, AgreementInit, RequiredInit, TypeCorrect, PTL DEF Spec

(* The order of the pipeline: row, chained writes and cache hold one        *)
(* history of each collection, however writes fail and processes restart.   *)
THEOREM PipelineIsOrdered ==
  ASSUME RequireConnection PROVE Spec => []PipelineOrdered
<1>1. RequiredInv => PipelineOrdered
  BY DEF RequiredInv, Ordered, PipelineOrdered
<1> QED
  BY <1>1, RequiredAlways, PTL

-----------------------------------------------------------------------------
(* What a step does to what a row holds and to what a read answers: a       *)
(* summary of the actions for the action properties and the refinement.     *)
LEMMA RowsGrow ==
  ASSUME AgreementInv, [Next]_vars, NEW c \in Collections,
         proc = "serve" => \A i \in Pending(c) : DocOf(db[c]) \subseteq writeChain[i].doc
  PROVE  DocOf(db[c]) \subseteq DocOf(db'[c])
<1>0. TypeOK
  BY DEF AgreementInv
<1>1. ASSUME NEW d \in Collections, SeedDefault(d)
      PROVE  DocOf(db'[c]) = DocOf(db[c])
  <2>1. db'[c] = IF c = d THEN DocOf(db[c]) ELSE db[c]
    BY <1>0, <1>1 DEF SeedDefault, TypeOK, Places
  <2>2. DocOf(DocOf(db[c])) = DocOf(db[c])
    BY <1>0, DocOfType, DocIsThere DEF TypeOK, Places
  <2> QED
    BY <2>1, <2>2
<1>2. CASE ApplyHead
  <2> DEFINE w == Head(writeChain)
  <2>1. /\ writeChain # <<>> /\ w \in Write /\ w = writeChain[1]
        /\ 1 \in Pending(w.key) /\ db' = [db EXCEPT ![w.key] = w.doc]
    BY <1>0, <1>2, TailOfChain DEF ApplyHead, Pending, Write
  <2>2. proc = "serve"
    BY <2>1 DEF AgreementInv
  <2> HIDE DEF w
  <2>3. db'[c] = IF c = w.key THEN w.doc ELSE db[c]
    BY <1>0, <2>1 DEF TypeOK, Places, Write
  <2>4. w.doc \in Docs /\ DocOf(w.doc) = w.doc
    BY <2>1, DocIsThere DEF Write
  <2> QED
    BY <2>1, <2>2, <2>3, <2>4
<1>3. CASE db' = db
  BY <1>3
<1> QED
  BY <1>1, <1>2, <1>3
     DEF Next, vars, Start, Listen, Update, SettleOk, SettleError, Settle,
         PoolError, BeginCheck, Ping, Crash

LEMMA RequiredRowsGrow ==
  ASSUME RequireConnection, RequiredInv, [Next]_vars, NEW c \in Collections
  PROVE  DocOf(db[c]) \subseteq DocOf(db'[c])
BY RowsGrow DEF RequiredInv, Ordered

(* With local files kept, whether or not the connection is required.  The   *)
(* file has all that the row and the cache have, so that a process which    *)
(* serves from the files goes on from there.                                *)
Backed(c) ==
  /\ DocOf(db[c]) \cup DocOf(cache[c]) \subseteq DocOf(local[c])
  /\ cache[c] # NoDoc => DocOf(db[c]) \subseteq cache[c]
  /\ \A i \in Pending(c) :
       /\ DocOf(db[c]) \subseteq writeChain[i].doc
       /\ cache[c] # NoDoc /\ writeChain[i].doc \subseteq cache[c]
       /\ \A j \in Pending(c) :
            i < j => writeChain[i].doc \subseteq writeChain[j].doc

BackedInv == AgreementInv /\ \A c \in Collections : Backed(c)

LEMMA BackedInit == Init => BackedInv
<1> SUFFICES ASSUME Init PROVE BackedInv
  OBVIOUS
<1>1. AgreementInv
  BY AgreementInit
<1>2. \A c \in Collections : Pending(c) = {}
  <2>1. writeChain = <<>> /\ Len(writeChain) = 0
    BY EmptySeq DEF Init
  <2> QED
    BY <2>1 DEF Pending
<1>3. \A c \in Collections : db[c] = NoDoc /\ cache[c] = NoDoc
  BY DEF Init, Nowhere
<1> QED
  BY <1>1, <1>2, <1>3 DEF BackedInv, Backed, DocOf

LEMMA BackedStep ==
  LocalBackup /\ BackedInv /\ AgreementInv' /\ [Next]_vars => BackedInv'
<1> SUFFICES ASSUME LocalBackup, BackedInv, AgreementInv', [Next]_vars
             PROVE  \A c \in Collections : Backed(c)'
  BY DEF BackedInv
<1>0. TypeOK /\ HeadIsPending /\ AgreementInv /\ \A c \in Collections : Backed(c)
  BY DEF BackedInv, AgreementInv
<1>1. ASSUME NEW ok \in BOOLEAN, Start(ok)
      PROVE  \A c \in Collections : Backed(c)'
  <2>1. /\ cache' = db \/ cache' = Nowhere
        /\ proc = "down" /\ UNCHANGED <<writeChain, local, db>>
    BY <1>1 DEF Start
  <2>2. writeChain' = <<>>
    BY <1>0, <2>1 DEF AgreementInv
  <2>3. \A c \in Collections : Pending(c)' = {}
    BY <2>2, EmptySeq DEF Pending
  <2> QED
    BY <1>0, <2>1, <2>3 DEF Backed, DocOf, Nowhere
<1>2. ASSUME NEW c \in Collections, SeedDefault(c)
      PROVE  \A d \in Collections : Backed(d)'
  <2>1. proc = "boot" /\ UNCHANGED <<writeChain, local>>
    BY <1>2 DEF SeedDefault
  <2>2. writeChain' = <<>> /\ cache = db
    BY <1>0, <2>1 DEF AgreementInv
  <2>3. \A d \in Collections : Pending(d)' = {}
    BY <2>2, EmptySeq DEF Pending
  <2>4. \A d \in Collections :
          /\ db'[d] = IF d = c THEN DocOf(db[c]) ELSE db[d]
          /\ cache'[d] = IF d = c THEN DocOf(cache[c]) ELSE cache[d]
    BY <1>0, <1>2 DEF SeedDefault, TypeOK, Places
  <2>5. DocOf(DocOf(db[c])) = DocOf(db[c])
    BY <1>0, DocOfType, DocIsThere DEF TypeOK, Places
  <2>6. ASSUME NEW d \in Collections
        PROVE  DocOf(db'[d]) = DocOf(db[d]) /\ cache'[d] = db'[d]
    BY <2>2, <2>4, <2>5
  <2> QED
    BY <1>0, <2>1, <2>3, <2>6 DEF Backed, DocOf
<1>3. ASSUME NEW c \in Collections, NEW e \in Entries, Update(c, e)
      PROVE  \A d \in Collections : Backed(d)'
  <2> DEFINE doc == ReadJson(c) \cup {e}
             n == Len(writeChain)
  <2>1. /\ UNCHANGED <<db>> /\ local' = [local EXCEPT ![c] = doc]
        /\ \/ cache' = Cached(c, doc) /\ writeChain' = Chained(c, doc)
           \/ UNCHANGED <<cache, writeChain>> /\ ReadLocal(c) \subseteq doc
    BY <1>3 DEF Update, ReadJson
  <2>2. doc \in Docs
    BY <1>0, ReadJsonType DEF Docs
  <2>3. /\ DocOf(db[c]) \subseteq doc
        /\ connected => DocOf(cache[c]) \subseteq doc
    BY <1>0 DEF Backed, ReadJson, ReadCached, ReadLocal, DocOf
  <2>4. doc # NoDoc /\ DocOf(doc) = doc
    BY <2>2, DocIsThere
  <2>5. \A d \in Collections : local'[d] = IF d = c THEN doc ELSE local[d]
    BY <1>0, <2>1 DEF TypeOK, Places
  <2>6. CASE ~connected
    <3>1. UNCHANGED <<cache, writeChain>> /\ ReadLocal(c) \subseteq doc
      BY <1>3, <2>6 DEF Update, ReadJson
    <3>2. \A d \in Collections : DocOf(local[d]) \subseteq DocOf(local'[d])
      BY <2>4, <2>5, <3>1 DEF ReadLocal
    <3> QED
      BY <1>0, <2>1, <3>1, <3>2 DEF Backed, Pending
  <2>7. CASE connected
    <3>1. cache' = Cached(c, doc) /\ writeChain' = Chained(c, doc)
      BY <1>3, <2>7 DEF Update
    <3> HIDE DEF doc
    <3>2. /\ n \in Nat
          /\ \A i \in 1..n : writeChain'[i] = writeChain[i]
          /\ writeChain'[n + 1] = [key |-> c, doc |-> doc]
      <4>1. /\ n \in Nat
            /\ \A i \in 1..n : Chained(c, doc)[i] = writeChain[i]
            /\ Chained(c, doc)[n + 1] = [key |-> c, doc |-> doc]
        BY <1>0, <2>2, ChainedProperties
      <4> HIDE DEF n
      <4> QED
        BY <3>1, <4>1
    <3>3. \A d \in Collections :
            Pending(d)' = IF d = c THEN Pending(d) \cup {n + 1} ELSE Pending(d)
      BY <1>0, <2>2, <3>1, PendingAfterChained
    <3>4. \A d \in Collections : Pending(d) \subseteq 1..n
      BY DEF Pending
    <3> HIDE DEF n
    <3>5. \A d \in Collections : cache'[d] = IF d = c THEN doc ELSE cache[d]
      BY <1>0, <3>1 DEF Cached, TypeOK, Places
    <3>6. ASSUME NEW d \in Collections, d # c
          PROVE  Backed(d)'
      <4>1. \A i \in Pending(d) : writeChain'[i] = writeChain[i]
        BY <3>2, <3>4
      <4> QED
        BY <1>0, <2>1, <2>5, <3>3, <3>5, <3>6, <4>1 DEF Backed
    <3>7. Backed(c)'
      <4>1. \A i \in Pending(c) : writeChain[i].doc \subseteq doc
        BY <1>0, <2>3, <2>7 DEF Backed, DocOf
      <4>2. /\ DocOf(db'[c]) \cup DocOf(cache'[c]) \subseteq DocOf(local'[c])
            /\ cache'[c] # NoDoc /\ DocOf(db'[c]) \subseteq cache'[c]
        BY <2>1, <2>3, <2>4, <2>5, <3>5
      <4>3. ASSUME NEW i \in Pending(c)'
            PROVE  /\ DocOf(db'[c]) \subseteq writeChain'[i].doc
                   /\ writeChain'[i].doc \subseteq cache'[c]
        BY <1>0, <2>1, <2>3, <3>2, <3>3, <3>4, <3>5, <4>1 DEF Backed
      <4>4. ASSUME NEW i \in Pending(c)', NEW j \in Pending(c)', i < j
            PROVE  writeChain'[i].doc \subseteq writeChain'[j].doc
        <5>1. i \in Pending(c)
          BY <3>2, <3>3, <3>4, <4>4
        <5>2. CASE j = n + 1
          BY <3>2, <3>4, <4>1, <5>1, <5>2
        <5>3. CASE j # n + 1
          BY <1>0, <3>2, <3>3, <3>4, <4>4, <5>1, <5>3 DEF Backed
        <5> QED
          BY <5>2, <5>3
      <4> QED
        BY <4>2, <4>3, <4>4 DEF Backed
    <3> QED
      BY <3>6, <3>7
  <2> QED
    BY <1>0, <2>6, <2>7 DEF TypeOK
<1>4. CASE ApplyHead
  <2> DEFINE w == Head(writeChain)
  <2>1. /\ writeChain # <<>> /\ w \in Write /\ w = writeChain[1]
        /\ 1 \in Pending(w.key)
        /\ UNCHANGED <<cache, writeChain, local>>
        /\ db' = [db EXCEPT ![w.key] = w.doc]
    BY <1>0, <1>4, TailOfChain DEF ApplyHead, Pending, Write
  <2> HIDE DEF w
  <2>2. \A c \in Collections : db'[c] = IF c = w.key THEN w.doc ELSE db[c]
    BY <1>0, <2>1 DEF TypeOK, Places, Write
  <2>3. w.doc # NoDoc /\ DocOf(w.doc) = w.doc
    BY <2>1, DocIsThere DEF Write
  <2>4. ASSUME NEW c \in Collections
        PROVE  Backed(c)'
    <3>1. Backed(c) /\ Pending(c)' = Pending(c)
      BY <1>0, <2>1 DEF Pending
    <3>2. \A i \in Pending(c) : i \in Nat /\ i >= 1
      BY <1>0, LenProperties DEF TypeOK, Pending
    <3>3. CASE c = w.key
      <4>1. \A i \in Pending(c) : w.doc \subseteq writeChain[i].doc
        BY <2>1, <3>1, <3>2, <3>3 DEF Backed
      <4>2. w.doc \subseteq cache[c] /\ cache[c] # NoDoc
        BY <2>1, <3>1, <3>3 DEF Backed
      <4> QED
        BY <2>1, <2>2, <2>3, <3>1, <3>3, <4>1, <4>2 DEF Backed, DocOf
    <3>4. CASE c # w.key
      BY <2>1, <2>2, <3>1, <3>4 DEF Backed
    <3> QED
      BY <3>3, <3>4
  <2> QED
    BY <2>4
<1>5. CASE SettleOk \/ SettleError
  <2>1. /\ writeChain # <<>> /\ writeChain' = Tail(writeChain)
        /\ UNCHANGED <<cache, db, local>>
    BY <1>0, <1>5 DEF SettleOk, SettleError, Settle, HeadIsPending
  <2>2. /\ \A d \in Collections, i \in Nat \ {0} :
              i \in Pending(d)' <=> i + 1 \in Pending(d)
        /\ \A d \in Collections : \A i \in Pending(d)' :
              i \in Nat \ {0} /\ writeChain'[i] = writeChain[i + 1]
    BY <1>0, <2>1, PendingAfterSettle
  <2>3. ASSUME NEW c \in Collections
        PROVE  Backed(c)'
    <3>1. Backed(c) /\ \A j \in Pending(c)' :
                         /\ j \in Nat /\ j + 1 \in Pending(c)
                         /\ writeChain'[j] = writeChain[j + 1]
      BY <1>0, <2>2
    <3>2. ASSUME NEW i \in Pending(c)', NEW j \in Pending(c)', i < j
          PROVE  writeChain'[i].doc \subseteq writeChain'[j].doc
      <4>1. i + 1 < j + 1
        BY <3>1, <3>2
      <4> QED
        BY <3>1, <4>1 DEF Backed
    <3> QED
      BY <2>1, <3>1, <3>2 DEF Backed
  <2> QED
    BY <2>3
<1>6. CASE Listen \/ PoolError \/ BeginCheck \/ Ping \/ UNCHANGED vars
  <2>1. UNCHANGED <<cache, writeChain, db, local>>
    BY <1>6 DEF Listen, PoolError, BeginCheck, Ping, vars
  <2> QED
    BY <1>0, <2>1 DEF Backed, Pending
<1>7. CASE Crash
  <2>1. cache' = Nowhere /\ writeChain' = <<>> /\ UNCHANGED <<local, db>>
    BY <1>7 DEF Crash
  <2>2. \A c \in Collections : Pending(c)' = {}
    BY <2>1, EmptySeq DEF Pending
  <2> QED
    BY <1>0, <2>1, <2>2 DEF Backed, Nowhere, DocOf
<1> QED
  BY <1>1, <1>2, <1>3, <1>4, <1>5, <1>6, <1>7 DEF Next

LEMMA BackedAlways == ASSUME LocalBackup PROVE Spec => []BackedInv
<1>1. AgreementInv /\ TypeOK' /\ HeadIsPending' /\ [Next]_vars => AgreementInv'
  BY AgreementStep
<1>2. BackedInv => AgreementInv
  BY DEF BackedInv
<1>3. BackedInv /\ AgreementInv' /\ [Next]_vars => BackedInv'
  BY BackedStep
<1> QED
  BY <1>1, <1>2, <1>3, AgreementInit, BackedInit, TypeCorrect, PTL DEF Spec

LEMMA BackedRowsGrow ==
  ASSUME BackedInv, [Next]_vars, NEW c \in Collections
  PROVE  DocOf(db[c]) \subseteq DocOf(db'[c])
BY RowsGrow DEF BackedInv, Backed

(* No step, a restart included, takes an update out of a database row: not  *)
(* where the connection is required, and not where it may be missing but    *)
(* the files are kept.                                                      *)
THEOREM RowsOnlyGrow ==
  ASSUME RequireConnection \/ LocalBackup PROVE Spec => RowsNeverRegress
<1>1. ASSUME RequireConnection PROVE Spec => RowsNeverRegress
  <2>1. RequiredInv /\ [Next]_vars
          => [\A c \in Collections : DocOf(db[c]) \subseteq DocOf(db[c])']_vars
    BY <1>1, RequiredRowsGrow
  <2> QED
    BY <1>1, <2>1, RequiredAlways, PTL DEF Spec, RowsNeverRegress
<1>2. ASSUME LocalBackup PROVE Spec => RowsNeverRegress
  <2>1. BackedInv /\ [Next]_vars
          => [\A c \in Collections : DocOf(db[c]) \subseteq DocOf(db[c])']_vars
    BY BackedRowsGrow
  <2> QED
    BY <1>2, <2>1, BackedAlways, PTL DEF Spec, RowsNeverRegress
<1> QED
  BY <1>1, <1>2

(* A process that goes on serving changes what it answers by updates only.  *)
LEMMA ServingSteps ==
  ASSUME RequireConnection, RequiredInv, [Next]_vars,
         proc = "serve", proc' = "serve"
  PROVE  \/ UNCHANGED <<cache, local>>
         \/ \E c \in Collections, e \in Entries :
              /\ Update(c, e) /\ e \notin ReadCached(c)
              /\ ReadCached(c)' = ReadCached(c) \cup {e}
              /\ \A d \in Collections \ {c} : ReadCached(d)' = ReadCached(d)
<1>0. TypeOK
  BY DEF RequiredInv, AgreementInv
<1>1. ASSUME NEW c \in Collections, NEW e \in Entries, Update(c, e)
      PROVE  /\ e \notin ReadCached(c)
             /\ ReadCached(c)' = ReadCached(c) \cup {e}
             /\ \A d \in Collections \ {c} : ReadCached(d)' = ReadCached(d)
  <2>1. PICK doc \in Docs :
          /\ doc = ReadCached(c) \cup {e} /\ e \notin ReadCached(c)
          /\ cache' = Cached(c, doc)
          /\ local' = [local EXCEPT ![c] = doc] \/ local' = local
    BY <1>1, UpdateRequired
  <2>2. \A d \in Collections :
          /\ cache'[d] = IF d = c THEN doc ELSE cache[d]
          /\ d # c => local'[d] = local[d]
    BY <1>0, <2>1 DEF Cached, TypeOK, Places
  <2>3. doc # NoDoc
    BY DocIsThere
  <2> QED
    BY <2>1, <2>2, <2>3 DEF ReadCached, ReadLocal
<1>2. ASSUME NEW ok \in BOOLEAN, Start(ok)
      PROVE  FALSE
  BY <1>2 DEF Start
<1>3. ASSUME NEW c \in Collections, SeedDefault(c)
      PROVE  FALSE
  BY <1>3 DEF SeedDefault
<1>4. CASE Listen \/ Crash
  BY <1>4 DEF Listen, Crash
<1>5. CASE ApplyHead \/ SettleOk \/ SettleError \/ PoolError \/ BeginCheck
             \/ Ping \/ UNCHANGED vars
  BY <1>5 DEF ApplyHead, SettleOk, SettleError, Settle, PoolError, BeginCheck,
              Ping, vars
<1> QED
  BY <1>1, <1>2, <1>3, <1>4, <1>5 DEF Next

(* What one read returned every later read of the same process returns too, *)
(* across connection losses and reconnects.                                 *)
THEOREM ReadsOnlyGrow ==
  ASSUME RequireConnection PROVE Spec => ReadsNeverRegress
<1>1. ASSUME RequiredInv, [Next]_vars, proc = "serve", proc' = "serve",
             NEW d \in Collections
      PROVE  Answer(d) \subseteq Answer(d)'
  <2>1. Answer(d) = ReadCached(d) /\ Answer(d)' = ReadCached(d)'
    BY DEF Answer
  <2>2. CASE UNCHANGED <<cache, local>>
    BY <2>1, <2>2 DEF ReadCached, ReadLocal
  <2>3. ASSUME NEW c \in Collections, NEW e \in Entries,
               ReadCached(c)' = ReadCached(c) \cup {e},
               \A x \in Collections \ {c} : ReadCached(x)' = ReadCached(x)
        PROVE  Answer(d) \subseteq Answer(d)'
    BY <2>1, <2>3
  <2> QED
    BY <1>1, <2>2, <2>3, ServingSteps
<1>2. RequiredInv /\ [Next]_vars
        => [(proc = "serve" /\ proc' = "serve") =>
              \A c \in Collections : Answer(c) \subseteq Answer(c)']_vars
  BY <1>1
<1> QED
  BY <1>2, RequiredAlways, PTL DEF Spec, ReadsNeverRegress

-----------------------------------------------------------------------------
(* The store implements WriteBehind.  A process that is not serving shows   *)
(* what it will read once it does, so that starting, seeding and listening  *)
(* change nothing that a caller sees.                                       *)
(* The views of a booting process, of one that begins to serve and of one   *)
(* that is down are the same.                                               *)
LEMMA BootShowsNothing ==
  ASSUME RequireConnection, RequiredInv,
         \/ \E ok \in BOOLEAN : Start(ok)
         \/ \E c \in Collections : SeedDefault(c)
         \/ Listen
  PROVE  view' = view /\ durable' = durable
<1>0. TypeOK /\ AgreementInv
  BY DEF RequiredInv, AgreementInv
<1>1. ASSUME NEW ok \in BOOLEAN, Start(ok)
      PROVE  view' = view /\ durable' = durable
  BY <1>1 DEF Start, Startable, view, durable, ReadAfterBoot, ReadLocal
<1>2. ASSUME NEW c \in Collections, SeedDefault(c)
      PROVE  view' = view /\ durable' = durable
  <2>1. c \in Seeded /\ proc = "boot" /\ proc' = "boot" /\ local' = local
    BY <1>2 DEF SeedDefault, RequiredInv
  <2>2. \A d \in Collections : db'[d] = IF d = c THEN DocOf(db[c]) ELSE db[d]
    BY <1>0, <1>2 DEF SeedDefault, TypeOK, Places
  <2>3. DocOf(DocOf(db[c])) = DocOf(db[c])
    BY <1>0, DocOfType, DocIsThere DEF TypeOK, Places
  <2>4. \A d \in Collections : /\ DocOf(db'[d]) = DocOf(db[d])
                               /\ ReadAfterBoot(d)' = ReadAfterBoot(d)
    BY <2>1, <2>2, <2>3 DEF ReadAfterBoot, ReadLocal
  <2> QED
    BY <2>1, <2>4 DEF view, durable
<1>3. CASE Listen
  <2>1. /\ proc = "boot" /\ proc' = "serve" /\ seeding = {}
        /\ UNCHANGED <<cache, db, local>> /\ cache = db
    BY <1>0, <1>3 DEF Listen, AgreementInv
  <2>2. \A c \in Seeded : db[c] # NoDoc
    BY <2>1 DEF RequiredInv
  <2>3. \A c \in Collections : ReadCached(c)' = ReadAfterBoot(c)
    BY <2>1, <2>2 DEF ReadCached, ReadAfterBoot, ReadLocal, DocOf
  <2> QED
    BY <2>1, <2>3 DEF view, durable
<1> QED
  BY <1>1, <1>2, <1>3

(* A crash shows what a restart will read: no less than the rows and no     *)
(* more than the process had shown.                                         *)
LEMMA CrashKeepsRows ==
  ASSUME RequireConnection, RequiredInv, Crash
  PROVE  WB!Crash
<1>0. TypeOK
  BY DEF RequiredInv, AgreementInv
<1>1. /\ proc' = "down" /\ UNCHANGED <<db, local>>
  BY <1>0 DEF Crash
<1>2. \A c \in Collections :
        view'[c] = ReadAfterBoot(c) /\ durable'[c] = durable[c]
  BY <1>1 DEF view, durable, ReadAfterBoot, ReadLocal
<1>3. durable' = durable
  BY <1>1 DEF durable
<1>4. \A c \in Collections : ReadAfterBoot(c) \in Docs
  BY <1>0, ReadJsonType, DocOfType DEF TypeOK, Places, ReadAfterBoot
<1>5. view' \in [Collections -> SUBSET Entries]
  BY <1>1, <1>4 DEF view, Docs, ReadAfterBoot, ReadLocal
<1>6. ASSUME NEW c \in Collections
      PROVE  DocOf(db[c]) \subseteq ReadAfterBoot(c)
  BY DEF ReadAfterBoot, DocOf
<1>7. ASSUME NEW c \in Collections
      PROVE  ReadAfterBoot(c) \subseteq view[c]
  <2>1. CASE proc # "serve"
    BY <2>1 DEF view
  <2>2. CASE proc = "serve"
    <3>1. Ordered(c) /\ FileWithin(c) /\ view[c] = ReadCached(c)
      BY <2>2 DEF RequiredInv, view
    <3>2. CASE db[c] = NoDoc /\ c \notin Seeded
      BY <3>1, <3>2 DEF ReadAfterBoot, FileWithin, ReadCached, ReadLocal
    <3>3. CASE ~(db[c] = NoDoc /\ c \notin Seeded)
      <4>1. DocOf(cache[c]) \subseteq ReadCached(c)
        BY DEF DocOf, ReadCached
      <4> QED
        BY <3>1, <3>3, <4>1 DEF ReadAfterBoot, Ordered
    <3> QED
      BY <3>2, <3>3
  <2> QED
    BY <2>1, <2>2
<1> QED
  BY <1>2, <1>3, <1>5, <1>6, <1>7 DEF WB!Crash, durable

(* Every step of the store is one of WriteBehind or changes nothing that it *)
(* speaks of.                                                               *)
LEMMA StepsImplement ==
  ASSUME RequireConnection, RequiredInv, [Next]_vars
  PROVE  [WB!Next]_<<view, durable>>
<1>0. TypeOK /\ AgreementInv /\ HeadIsPending
  BY DEF RequiredInv, AgreementInv
<1>1. ASSUME NEW c \in Collections, NEW e \in Entries, Update(c, e)
      PROVE  WB!Submit(c, e)
  <2>1. proc = "serve" /\ proc' = "serve" /\ db' = db
    BY <1>1 DEF Update
  <2>2. PICK doc \in Docs :
          /\ doc = ReadCached(c) \cup {e} /\ e \notin ReadCached(c)
          /\ cache' = Cached(c, doc)
          /\ local' = [local EXCEPT ![c] = doc] \/ local' = local
    BY <1>1, UpdateRequired
  <2>3. \A d \in Collections :
          /\ cache'[d] = IF d = c THEN doc ELSE cache[d]
          /\ d # c => local'[d] = local[d]
    BY <1>0, <2>2 DEF Cached, TypeOK, Places
  <2>4. doc # NoDoc
    BY DocIsThere
  <2>5. \A d \in Collections :
          ReadCached(d)' = IF d = c THEN ReadCached(c) \cup {e} ELSE ReadCached(d)
    BY <2>2, <2>3, <2>4 DEF ReadCached, ReadLocal
  <2>6. durable' = durable
    BY <2>1 DEF durable
  <2>7. /\ view = [d \in Collections |-> ReadCached(d)]
        /\ view' = [d \in Collections |-> ReadCached(d)']
    BY <2>1 DEF view
  <2>8. view' = [view EXCEPT ![c] = @ \cup {e}] /\ e \notin view[c]
    BY <2>2, <2>5, <2>7
  <2> QED
    BY <2>6, <2>8 DEF WB!Submit
<1>2. CASE ApplyHead
  <2> DEFINE w == Head(writeChain)
  <2>1. /\ writeChain # <<>> /\ w \in Write /\ w = writeChain[1]
        /\ 1 \in Pending(w.key) /\ db' = [db EXCEPT ![w.key] = w.doc]
        /\ UNCHANGED <<proc, cache, local>>
    BY <1>0, <1>2, TailOfChain DEF ApplyHead, Pending, Write
  <2>2. proc = "serve"
    BY <1>0, <2>1 DEF AgreementInv
  <2> HIDE DEF w
  <2>3. \A d \in Collections : db'[d] = IF d = w.key THEN w.doc ELSE db[d]
    BY <1>0, <2>1 DEF TypeOK, Places, Write
  <2>4. w.key \in Collections /\ w.doc \in Docs /\ DocOf(w.doc) = w.doc
    BY <2>1, DocIsThere DEF Write
  <2>5. Ordered(w.key)
    BY <2>2, <2>4 DEF RequiredInv
  <2>6. view' = view
    BY <2>1, <2>2 DEF view, ReadCached, ReadLocal
  <2>7. /\ durable[w.key] \subseteq w.doc /\ w.doc \subseteq view[w.key]
        /\ w.doc \in SUBSET view[w.key]
    BY <2>1, <2>2, <2>4, <2>5 DEF Ordered, durable, view, ReadCached
  <2>8. durable' = [durable EXCEPT ![w.key] = w.doc]
    BY <2>3, <2>4 DEF durable
  <2>9. WB!Persist(w.key)
    BY <2>6, <2>7, <2>8 DEF WB!Persist
  <2> QED
    BY <2>4, <2>9 DEF WB!Next
<1>3. CASE SettleOk \/ SettleError \/ PoolError \/ BeginCheck \/ Ping
             \/ UNCHANGED vars
  <2>1. UNCHANGED <<proc, cache, local, db>>
    BY <1>3 DEF SettleOk, SettleError, Settle, PoolError, BeginCheck, Ping, vars
  <2> QED
    BY <2>1 DEF view, durable, ReadCached, ReadLocal, ReadAfterBoot
<1>4. CASE Crash
  BY <1>4, CrashKeepsRows DEF WB!Next
<1>5. CASE \/ \E ok \in BOOLEAN : Start(ok)
           \/ \E c \in Collections : SeedDefault(c)
           \/ Listen
  BY <1>5, BootShowsNothing
<1> QED
  BY <1>1, <1>2, <1>3, <1>4, <1>5 DEF Next, WB!Next

(* With the connection required the store is a write-behind store: an       *)
(* update is visible at once, persisted in order and never past the view,   *)
(* and taken back by a crash only.                                          *)
THEOREM StoreImplements ==
  ASSUME RequireConnection PROVE Spec => Implements
<1>1. Init => WB!Init
  BY DEF Init, WB!Init, view, durable, ReadAfterBoot, ReadLocal, DocOf, Nowhere
<1>2. RequiredInv /\ [Next]_vars => [WB!Next]_<<view, durable>>
  BY StepsImplement
<1> QED
  BY <1>1, <1>2, RequiredAlways, PTL DEF Spec, Implements, WB!Spec

-----------------------------------------------------------------------------
(* The import of JSON files beside the traffic of the store.                *)
MigRecord ==
  [by : {"boot", "route", "cli"}, overwrite : BOOLEAN, todo : SUBSET Collections,
   step : {"file", "check", "insert", "answer"}, key : Collections \cup {NoDoc},
   doc : Docs]

MigTyped ==
  /\ mig \in {None} \cup MigRecord /\ migrations \in 0..MaxMigrations
  /\ outrun \subseteq Collections /\ imported \in BOOLEAN
  /\ mig # None /\ mig.step # "file" => mig.key \in mig.todo
  /\ mig # None /\ mig.by = "boot" => proc = "boot"
  /\ mig # None /\ mig.by = "route" => proc = "serve"

LEMMA MigIsRecord ==
  ASSUME MigTyped, mig # None
  PROVE  /\ mig \in MigRecord /\ mig.by \in {"boot", "route", "cli"}
         /\ mig.overwrite \in BOOLEAN /\ mig.todo \subseteq Collections
         /\ mig.step \in {"file", "check", "insert", "answer"} /\ mig.doc \in Docs
         /\ mig.step # "file" => mig.key \in mig.todo /\ mig.key \in Collections
BY DEF MigTyped, MigRecord

LEMMA RecordIsSome == \A m \in MigRecord : m # None
BY DEF MigRecord, None

LEMMA BegunType ==
  ASSUME NEW by \in {"boot", "route", "cli"}, NEW overwrite \in BOOLEAN,
         NEW names \in SUBSET Collections, MigTyped, Begin(by, overwrite, names)
  PROVE  /\ mig = None /\ mig' \in MigRecord /\ mig' # None
         /\ mig'.by = by /\ mig'.overwrite = overwrite /\ mig'.todo = names
         /\ mig'.step = "file" /\ migrations' \in 0..MaxMigrations
<1> DEFINE next == [by |-> by, overwrite |-> overwrite, todo |-> names,
                    step |-> "file", key |-> NoDoc, doc |-> {}]
<1>1. next \in MigRecord
  BY DEF MigRecord, Docs
<1>2. /\ next.by = by /\ next.overwrite = overwrite /\ next.todo = names
      /\ next.step = "file"
  OBVIOUS
<1>3. mig = None /\ mig' = next /\ migrations < MaxMigrations /\ migrations' = migrations + 1
  BY DEF Begin
<1>4. migrations' \in 0..MaxMigrations
  BY <1>3, MigrationAssumption DEF MigTyped, MigrationAssumption
<1> HIDE DEF next
<1> QED
  BY <1>1, <1>2, <1>3, <1>4, RecordIsSome

(* The loop goes on to the next file. *)
LEMMA DoneType ==
  ASSUME MigTyped, mig # None, mig.step # "file", Done
  PROVE  /\ mig' \in MigRecord /\ mig' # None /\ mig'.step = "file"
         /\ mig'.todo = mig.todo \ {mig.key}
         /\ mig'.by = mig.by /\ mig'.overwrite = mig.overwrite
<1>1. mig \in MigRecord
  BY MigIsRecord
<1>2. mig' = [mig EXCEPT !.todo = mig.todo \ {mig.key}, !.step = "file"]
  BY DEF Done
<1>3. /\ mig' \in MigRecord /\ mig'.step = "file"
      /\ mig'.todo = mig.todo \ {mig.key}
      /\ mig'.by = mig.by /\ mig'.overwrite = mig.overwrite
  BY <1>1, <1>2 DEF MigRecord
<1> QED
  BY <1>3, RecordIsSome

(* It goes on with the same file. *)
LEMMA GoneOnType ==
  ASSUME MigTyped, mig # None, NEW step \in {"insert", "answer"},
         mig.step # "file", mig' = [mig EXCEPT !.step = step]
  PROVE  /\ mig' \in MigRecord /\ mig' # None /\ mig'.step = step
         /\ mig'.todo = mig.todo /\ mig'.key = mig.key /\ mig'.doc = mig.doc
         /\ mig'.by = mig.by /\ mig'.overwrite = mig.overwrite
<1>1. mig \in MigRecord
  BY MigIsRecord
<1>2. /\ mig' \in MigRecord /\ mig'.step = step
      /\ mig'.todo = mig.todo /\ mig'.key = mig.key /\ mig'.doc = mig.doc
      /\ mig'.by = mig.by /\ mig'.overwrite = mig.overwrite
  BY <1>1 DEF MigRecord
<1> QED
  BY <1>2, RecordIsSome

LEMMA ReadType ==
  ASSUME TypeOK, MigTyped, NEW c \in Collections, ReadFile(c)
  PROVE  /\ mig # None /\ mig.step = "file" /\ c \in mig.todo
         /\ mig' \in MigRecord /\ mig' # None /\ mig'.key = c /\ mig'.todo = mig.todo
         /\ mig'.by = mig.by /\ mig'.overwrite = mig.overwrite
         /\ mig'.step = IF mig.overwrite THEN "insert" ELSE "check"
         /\ mig.by # "cli" => mig'.doc = ReadLocal(c)
<1>1. mig # None /\ mig.step = "file" /\ c \in mig.todo /\ mig \in MigRecord
  BY MigIsRecord DEF ReadFile
<1>2. PICK doc \in IF mig.by = "cli" THEN Legacy ELSE {ReadLocal(c)} :
        mig' = [mig EXCEPT !.key = c, !.doc = doc,
                           !.step = IF mig.overwrite THEN "insert" ELSE "check"]
  BY DEF ReadFile
<1>3. doc \in Docs
  BY ReadJsonType, MigrationAssumption DEF MigrationAssumption, Docs
<1>4. /\ mig' \in MigRecord /\ mig'.key = c /\ mig'.todo = mig.todo
      /\ mig'.by = mig.by /\ mig'.overwrite = mig.overwrite /\ mig'.doc = doc
      /\ mig'.step = IF mig.overwrite THEN "insert" ELSE "check"
  BY <1>1, <1>2, <1>3 DEF MigRecord
<1> QED
  BY <1>1, <1>2, <1>4, RecordIsSome

(* A start finds no migration of the process that is about to run. *)
LEMMA NoneBefore ==
  ASSUME MigTyped, proc = "down"
  PROVE  ~InProcess
BY MigIsRecord DEF MigTyped, InProcess

(* Every step but three is one of the store. *)
LEMMA StoreSteps ==
  ASSUME [MigrationNext]_allVars
  PROVE  [Next]_vars \/ InsertRow \/ InsertAnswered \/ EndMigration
BY DEF MigrationNext, allVars, StartAsIs, StartBootstrapping, Boot, RouteMigration,
       CliMigration, ReadFile, CheckRow, QueryFails, Handle, Traffic, Die, Next

(* The end of a migration concerns the defaults still to be seeded alone. *)
LEMMA EndKeeps ==
  ASSUME EndMigration
  PROVE  /\ UNCHANGED <<proc, connected, cache, writeChain, headApplied, local, db,
                        check, acked, failed, outrun, imported>>
         /\ seeding' \subseteq seeding
         /\ mig' = None /\ mig.step = "file" /\ mig # None
BY DEF EndMigration, SeedingLeft

LEMMA MigTypedStep ==
  TypeOK /\ MigTyped /\ [MigrationNext]_allVars => MigTyped'
<1> SUFFICES ASSUME TypeOK, MigTyped, [MigrationNext]_allVars PROVE MigTyped'
  OBVIOUS
<1>1. ASSUME NEW ok \in BOOLEAN, StartAsIs(ok) PROVE MigTyped'
  <2>1. UNCHANGED migVars /\ proc = "down"
    BY <1>1 DEF StartAsIs, Start
  <2> QED
    BY <2>1, NoneBefore, MigIsRecord DEF MigTyped, InProcess, migVars
<1>2. CASE StartBootstrapping
  <2>1. /\ proc' = "boot" /\ Begin("boot", FALSE, Files) /\ imported' = TRUE
        /\ outrun' = outrun /\ Files \in SUBSET Collections
    BY <1>2 DEF StartBootstrapping, Start, Files
  <2> QED
    BY <2>1, BegunType DEF MigTyped
<1>3. CASE Boot
  <2>1. UNCHANGED migVars /\ BootGoesOn /\ proc = "boot"
    BY <1>3 DEF Boot, Listen, SeedDefault
  <2> QED
    BY <2>1, MigIsRecord DEF MigTyped, BootGoesOn, migVars
<1>4. CASE RouteMigration
  <2>1. PICK overwrite \in BOOLEAN : Begin("route", overwrite, Files)
    BY <1>4 DEF RouteMigration
  <2>2. /\ proc = "serve" /\ UNCHANGED <<vars, outrun, imported>>
        /\ Files \in SUBSET Collections
    BY <1>4 DEF RouteMigration, Files
  <2> QED
    BY <2>1, <2>2, BegunType DEF MigTyped, vars
<1>5. CASE CliMigration
  <2>1. PICK overwrite \in BOOLEAN, c \in Collections : Begin("cli", overwrite, {c})
    BY <1>5 DEF CliMigration
  <2>2. UNCHANGED <<vars, outrun, imported>> /\ {c} \in SUBSET Collections
    BY <1>5 DEF CliMigration
  <2> QED
    BY <2>1, <2>2, BegunType DEF MigTyped
<1>6. ASSUME NEW c \in Collections, ReadFile(c) PROVE MigTyped'
  <2>1. UNCHANGED <<vars, migrations, outrun, imported>>
    BY <1>6 DEF ReadFile
  <2> QED
    BY <1>6, <2>1, ReadType DEF MigTyped, vars
<1>7. CASE CheckRow
  <2>1. /\ mig # None /\ mig.step = "check"
        /\ Done \/ mig' = [mig EXCEPT !.step = "insert"]
        /\ UNCHANGED <<vars, migrations, outrun, imported>>
    BY <1>7 DEF CheckRow
  <2>2. /\ mig' \in MigRecord /\ mig'.by = mig.by
        /\ mig'.step # "file" => mig'.key \in mig'.todo
    BY <2>1, DoneType, GoneOnType, MigIsRecord
  <2> QED
    BY <2>1, <2>2 DEF MigTyped, vars
<1>8. CASE InsertRow
  <2>1. /\ mig # None /\ mig.step = "insert" /\ mig' = [mig EXCEPT !.step = "answer"]
        /\ UNCHANGED <<proc, migrations, imported>>
        /\ outrun' \in {outrun, outrun \cup {mig.key}}
    BY <1>8 DEF InsertRow
  <2> QED
    BY <2>1, GoneOnType, MigIsRecord DEF MigTyped
<1>9. CASE InsertAnswered
  <2>1. /\ mig # None /\ mig.step = "answer" /\ Done
        /\ UNCHANGED <<proc, migrations, outrun, imported>>
    BY <1>9 DEF InsertAnswered
  <2> QED
    BY <2>1, DoneType DEF MigTyped
<1>10. CASE QueryFails
  <2>1. /\ mig # None /\ mig.step # "file" /\ Done
        /\ UNCHANGED <<vars, migrations>> /\ imported' \in BOOLEAN
        /\ outrun' \in {outrun, outrun \cup {mig.key}}
    BY <1>10 DEF QueryFails, MigTyped
  <2> QED
    BY <2>1, DoneType, MigIsRecord DEF MigTyped, vars
<1>11. CASE EndMigration
  BY <1>11 DEF EndMigration, MigTyped, vars
<1>12. ASSUME NEW c \in Collections, NEW e \in Entries, Handle(c, e) PROVE MigTyped'
  <2>1. UNCHANGED <<mig, migrations, imported, proc>> /\ outrun' \subseteq Collections
    BY <1>12 DEF Handle, Update, MigTyped
  <2> QED
    BY <2>1 DEF MigTyped
<1>13. CASE Traffic
  <2>1. UNCHANGED <<mig, migrations, outrun, imported, proc>>
    BY <1>13 DEF Traffic, migVars, ApplyHead, SettleOk, SettleError, Settle, PoolError,
                 BeginCheck, Ping
  <2> QED
    BY <2>1 DEF MigTyped
<1>14. CASE Die
  <2>1. /\ mig' = IF InProcess THEN None ELSE mig
        /\ outrun' = {} /\ imported' = FALSE /\ migrations' = migrations
    BY <1>14 DEF Die
  <2> QED
    BY <2>1, MigIsRecord DEF MigTyped, InProcess
<1>15. CASE UNCHANGED allVars
  BY <1>15 DEF allVars, vars, migVars, MigTyped
<1> QED
  BY <1>1, <1>2, <1>3, <1>4, <1>5, <1>6, <1>7, <1>8, <1>9, <1>10, <1>11, <1>12, <1>13,
     <1>14, <1>15 DEF MigrationNext

LEMMA MigrationTypeStep ==
  TypeOK /\ HeadIsPending /\ Quiet /\ MigTyped /\ [MigrationNext]_allVars
    => (TypeOK /\ HeadIsPending /\ Quiet)'
<1> SUFFICES ASSUME TypeOK, HeadIsPending, Quiet, MigTyped, [MigrationNext]_allVars
             PROVE  TypeOK' /\ HeadIsPending' /\ Quiet'
  OBVIOUS
<1>1. CASE [Next]_vars
  BY <1>1, TypeStep, QuietStep
<1>2. CASE InsertRow
  <2>1. /\ mig # None /\ mig.step = "insert" /\ db' = [db EXCEPT ![mig.key] = mig.doc]
        /\ UNCHANGED <<proc, connected, cache, writeChain, headApplied, local,
                       seeding, check, acked, failed>>
    BY <1>2 DEF InsertRow
  <2>2. db' \in Places
    BY <2>1, MigIsRecord DEF TypeOK, Places
  <2> QED
    BY <2>1, <2>2 DEF TypeOK, HeadIsPending, Quiet
<1>3. CASE InsertAnswered
  <2>1. /\ mig # None /\ mig.step = "answer"
        /\ cache' = cache \/ cache' = [cache EXCEPT ![mig.key] = mig.doc]
        /\ UNCHANGED <<proc, connected, writeChain, headApplied, local, db, seeding,
                       check, acked, failed>>
    BY <1>3 DEF InsertAnswered, CacheSet
  <2>2. cache' \in Places
    BY <2>1, MigIsRecord DEF TypeOK, Places
  <2> QED
    BY <2>1, <2>2 DEF TypeOK, HeadIsPending, Quiet
<1>4. CASE EndMigration
  BY <1>4, EndKeeps DEF TypeOK, HeadIsPending, Quiet
<1> QED
  BY <1>1, <1>2, <1>3, <1>4, StoreSteps

(* Between the database's insert and its answer the row is the file's, and  *)
(* nothing else is about to be written there.                               *)
Answering(c) == InProcess /\ mig.step = "answer" /\ mig.key = c
Inserted(c)  == Pending(c) = {} /\ db[c] = mig.doc

MigratedInv ==
  /\ TypeOK /\ HeadIsPending /\ Quiet /\ MigTyped
  /\ \A c \in Collections : c \notin outrun =>
       /\ Answering(c) => Inserted(c)
       /\ ~Answering(c) => Fits(c)

LEMMA MigratedInit == MigrationInit => MigratedInv
<1> SUFFICES ASSUME MigrationInit PROVE MigratedInv
  OBVIOUS
<1>1. Init /\ mig = None /\ migrations = 0 /\ outrun = {} /\ imported = FALSE
  BY DEF MigrationInit
<1>2. TypeOK /\ HeadIsPending /\ Quiet
  BY <1>1, AgreementInit DEF AgreementInv, Quiet
<1>3. MigTyped
  <2>1. migrations \in 0..MaxMigrations
    BY <1>1, MigrationAssumption DEF MigrationAssumption
  <2>2. mig \in {None} \cup MigRecord /\ outrun \subseteq Collections /\ imported \in BOOLEAN
    BY <1>1
  <2> QED
    BY <1>1, <2>1, <2>2 DEF MigTyped
<1>4. \A c \in Collections : Fits(c)
  BY <1>1, <1>2, AgreementInit, AgreementFits
<1> QED
  BY <1>1, <1>2, <1>3, <1>4 DEF MigratedInv, Answering, InProcess

(* A collection whose inserted row is not answered for yet is left alone by *)
(* what the store does meanwhile.                                           *)
LEMMA InsertedStays ==
  ASSUME TypeOK, HeadIsPending, Quiet, MigTyped, NEW c \in Collections,
         Answering(c), Inserted(c),
         \/ ApplyHead \/ SettleOk \/ SettleError \/ PoolError \/ BeginCheck \/ Ping
         \/ UNCHANGED vars
         \/ \E d \in Collections, e \in Entries : d # c /\ Update(d, e)
  PROVE  Pending(c)' = {} /\ db'[c] = db[c]
<1>1. Pending(c) = {}
  BY DEF Inserted
<1>2. CASE PoolError \/ BeginCheck \/ Ping \/ UNCHANGED vars
  BY <1>1, <1>2 DEF PoolError, BeginCheck, Ping, vars, Pending
<1>3. CASE ApplyHead
  <2> DEFINE w == Head(writeChain)
  <2>1. /\ 1 \in Pending(w.key) /\ writeChain' = writeChain
        /\ db' = [db EXCEPT ![w.key] = w.doc]
    BY <1>3, TailOfChain DEF ApplyHead, Pending
  <2> HIDE DEF w
  <2>2. w.key # c
    BY <1>1, <2>1
  <2> QED
    BY <1>1, <2>1, <2>2 DEF TypeOK, Places, Pending
<1>4. CASE SettleOk \/ SettleError
  <2>1. writeChain # <<>> /\ writeChain' = Tail(writeChain) /\ db' = db
    BY <1>4 DEF SettleOk, SettleError, Settle, HeadIsPending
  <2>2. \A i \in Pending(c)' : i \in Nat \ {0} /\ i + 1 \in Pending(c)
    BY <2>1, PendingAfterSettle
  <2> QED
    BY <1>1, <2>1, <2>2
<1>5. ASSUME NEW d \in Collections, NEW e \in Entries, d # c, Update(d, e)
      PROVE  Pending(c)' = {} /\ db'[c] = db[c]
  <2> DEFINE doc == ReadJson(d) \cup {e}
  <2>1. doc \in Docs
    BY ReadJsonType DEF Docs
  <2>2. db' = db /\ (writeChain' = writeChain \/ writeChain' = Chained(d, doc))
    BY <1>5 DEF Update
  <2> HIDE DEF doc
  <2>3. CASE writeChain' = writeChain
    BY <1>1, <2>2, <2>3 DEF Pending
  <2>4. CASE writeChain' = Chained(d, doc)
    BY <1>1, <1>5, <2>1, <2>2, <2>4, PendingAfterChained
  <2> QED
    BY <2>2, <2>3, <2>4
<1> QED
  BY <1>2, <1>3, <1>4, <1>5

LEMMA MigratedStep == MigratedInv /\ [MigrationNext]_allVars => MigratedInv'
<1> SUFFICES ASSUME MigratedInv, [MigrationNext]_allVars PROVE MigratedInv'
  OBVIOUS
<1>1. TypeOK /\ HeadIsPending /\ Quiet /\ MigTyped
  BY DEF MigratedInv
<1>2. TypeOK' /\ HeadIsPending' /\ Quiet' /\ MigTyped'
  BY <1>1, MigrationTypeStep, MigTypedStep
<1> SUFFICES ASSUME NEW c \in Collections, c \notin outrun'
             PROVE  /\ Answering(c)' => Inserted(c)'
                    /\ ~Answering(c)' => Fits(c)'
  BY <1>2 DEF MigratedInv
<1>3. /\ c \notin outrun /\ Answering(c) => Inserted(c)
      /\ c \notin outrun /\ ~Answering(c) => Fits(c)
  BY DEF MigratedInv
(* What the store does leaves both as they were.                            *)
<1>4. ASSUME [Next]_vars, c \notin outrun, mig' = mig,
             Answering(c) =>
               \/ ApplyHead \/ SettleOk \/ SettleError \/ PoolError \/ BeginCheck \/ Ping
               \/ UNCHANGED vars
               \/ \E d \in Collections, e \in Entries : d # c /\ Update(d, e)
      PROVE  /\ Answering(c)' => Inserted(c)'
             /\ ~Answering(c)' => Fits(c)'
  <2>1. Answering(c)' <=> Answering(c)
    BY <1>4 DEF Answering, InProcess
  <2>2. Answering(c) => Pending(c)' = {} /\ db'[c] = db[c]
    BY <1>1, <1>3, <1>4, InsertedStays
  <2>3. Answering(c) => Inserted(c)'
    BY <1>3, <1>4, <2>2 DEF Inserted
  <2>4. ~Answering(c) => Fits(c)'
    BY <1>1, <1>2, <1>3, <1>4, FitsStep
  <2> QED
    BY <2>1, <2>3, <2>4
(* A step of the migration's own: it leaves the store as it is and is not   *)
(* between an insert and its answer, before or after.                       *)
<1>5. ASSUME UNCHANGED vars, c \notin outrun, ~Answering(c), ~Answering(c)'
      PROVE  /\ Answering(c)' => Inserted(c)'
             /\ ~Answering(c)' => Fits(c)'
  BY <1>1, <1>2, <1>3, <1>5, FitsStep
<1>6. ASSUME NEW ok \in BOOLEAN, StartAsIs(ok)
      PROVE  /\ Answering(c)' => Inserted(c)'
             /\ ~Answering(c)' => Fits(c)'
  <2>1. UNCHANGED migVars /\ proc = "down" /\ Start(ok)
    BY <1>6 DEF StartAsIs, Start
  <2>2. ~Answering(c)
    BY <1>1, <2>1, NoneBefore DEF Answering
  <2> QED
    BY <1>4, <2>1, <2>2 DEF migVars, Next
<1>7. CASE StartBootstrapping
  <2>1. /\ Start(TRUE) /\ Begin("boot", FALSE, Files) /\ outrun' = outrun
        /\ Files \in SUBSET Collections
    BY <1>7 DEF StartBootstrapping, Files
  <2>2. mig = None /\ mig'.step = "file"
    BY <1>1, <2>1, BegunType
  <2>3. ~Answering(c) /\ ~Answering(c)'
    BY <2>2 DEF Answering, InProcess
  <2> QED
    BY <1>1, <1>2, <1>3, <2>1, <2>3, FitsStep DEF Next
<1>8. CASE Boot
  <2>1. UNCHANGED migVars /\ BootGoesOn /\ proc = "boot" /\ [Next]_vars
    BY <1>8 DEF Boot, Listen, SeedDefault, Next
  <2>2. ~InProcess
    BY <1>1, <2>1, MigIsRecord DEF InProcess, BootGoesOn, MigTyped
  <2> QED
    BY <1>4, <2>1, <2>2 DEF migVars, Answering
<1>9. CASE RouteMigration
  <2>1. PICK overwrite \in BOOLEAN : Begin("route", overwrite, Files)
    BY <1>9 DEF RouteMigration
  <2>2. UNCHANGED <<vars, outrun>> /\ Files \in SUBSET Collections
    BY <1>9 DEF RouteMigration, Files
  <2>3. mig = None /\ mig'.step = "file"
    BY <1>1, <2>1, <2>2, BegunType
  <2> QED
    BY <1>5, <2>2, <2>3 DEF Answering, InProcess
<1>10. CASE CliMigration
  <2>1. PICK overwrite \in BOOLEAN, d \in Collections : Begin("cli", overwrite, {d})
    BY <1>10 DEF CliMigration
  <2>2. UNCHANGED <<vars, outrun>> /\ {d} \in SUBSET Collections
    BY <1>10 DEF CliMigration
  <2>3. mig = None /\ mig'.step = "file"
    BY <1>1, <2>1, <2>2, BegunType
  <2> QED
    BY <1>5, <2>2, <2>3 DEF Answering, InProcess
<1>11. ASSUME NEW d \in Collections, ReadFile(d)
       PROVE  /\ Answering(c)' => Inserted(c)'
              /\ ~Answering(c)' => Fits(c)'
  <2>1. UNCHANGED <<vars, outrun>>
    BY <1>11 DEF ReadFile
  <2>2. mig.step = "file" /\ mig'.step # "answer"
    BY <1>1, <1>11, ReadType
  <2> QED
    BY <1>5, <2>1, <2>2 DEF Answering
<1>12. CASE CheckRow
  <2>1. /\ mig # None /\ mig.step = "check" /\ UNCHANGED <<vars, outrun>>
        /\ Done \/ mig' = [mig EXCEPT !.step = "insert"]
    BY <1>12 DEF CheckRow
  <2>2. mig'.step # "answer"
    BY <1>1, <2>1, DoneType, GoneOnType
  <2> QED
    BY <1>5, <2>1, <2>2 DEF Answering
<1>13. CASE InsertRow
  <2>1. /\ mig # None /\ mig.step = "insert" /\ mig' = [mig EXCEPT !.step = "answer"]
        /\ db' = [db EXCEPT ![mig.key] = mig.doc]
        /\ outrun' = IF proc # "down" /\ (mig.by = "cli" \/ Pending(mig.key) # {})
                     THEN outrun \cup {mig.key} ELSE outrun
        /\ UNCHANGED <<proc, connected, cache, writeChain, headApplied, local, failed>>
    BY <1>13 DEF InsertRow
  <2>2. /\ mig'.step = "answer" /\ mig'.key = mig.key /\ mig'.doc = mig.doc
        /\ mig'.by = mig.by /\ mig' # None
    BY <1>1, <2>1, GoneOnType
  <2>3. Fits(c) /\ ~Answering(c)
    BY <1>3, <2>1 DEF Answering
  <2>4. Pending(c)' = Pending(c)
    BY <2>1 DEF Pending
  <2>5. CASE c # mig.key
    <3>1. db'[c] = db[c] /\ ~Answering(c)'
      BY <1>1, <2>1, <2>2, <2>5 DEF Answering, TypeOK, Places
    <3> QED
      BY <2>1, <2>3, <2>4, <3>1 DEF Fits, LatestWins
  <2>6. CASE c = mig.key /\ InProcess
    <3>1. proc # "down"
      BY <1>1, <2>6, NoneBefore
    <3>2. Pending(c) = {} /\ Answering(c)' /\ db'[c] = mig.doc
      BY <1>1, <2>1, <2>2, <2>6, <3>1 DEF Answering, InProcess, TypeOK, Places
    <3> QED
      BY <2>2, <2>4, <3>2 DEF Inserted
  <2>7. CASE c = mig.key /\ ~InProcess
    <3>1. proc = "down" /\ proc' = "down"
      BY <2>1, <2>7 DEF InProcess
    <3>2. ~headApplied' /\ ~Answering(c)'
      BY <1>1, <2>1, <2>2, <2>7, <3>1 DEF Quiet, HeadIsPending, Answering, InProcess
    <3> QED
      BY <3>1, <3>2 DEF Fits
  <2> QED
    BY <2>5, <2>6, <2>7
<1>14. CASE InsertAnswered
  <2>1. /\ mig # None /\ mig.step = "answer" /\ Done
        /\ cache' = IF InProcess THEN [cache EXCEPT ![mig.key] = mig.doc] ELSE cache
        /\ UNCHANGED <<proc, writeChain, headApplied, db, failed, outrun>>
    BY <1>14 DEF InsertAnswered, CacheSet
  <2>2. mig'.step = "file"
    BY <1>1, <2>1, DoneType
  <2>3. ~Answering(c)' /\ Pending(c)' = Pending(c)
    BY <2>1, <2>2 DEF Answering, Pending
  <2>4. CASE Answering(c)
    <3>1. Pending(c) = {} /\ db[c] = mig.doc /\ cache'[c] = mig.doc
      BY <1>1, <1>3, <2>1, <2>4 DEF Inserted, Answering, TypeOK, Places
    <3>2. ~(headApplied /\ Head(writeChain).key = c)
      BY <1>1, <3>1, TailOfChain DEF HeadIsPending, Pending
    <3> QED
      BY <2>1, <2>3, <3>1, <3>2 DEF Fits, LatestWins
  <2>5. CASE ~Answering(c)
    <3>1. cache'[c] = cache[c] /\ Fits(c)
      BY <1>1, <1>3, <2>1, <2>5 DEF Answering, TypeOK, Places
    <3> QED
      BY <2>1, <2>3, <3>1 DEF Fits, LatestWins
  <2> QED
    BY <2>4, <2>5
<1>15. CASE QueryFails
  <2>1. /\ mig # None /\ mig.step # "file" /\ Done /\ UNCHANGED vars
        /\ outrun' = IF mig.step = "answer" /\ InProcess THEN outrun \cup {mig.key}
                     ELSE outrun
    BY <1>15 DEF QueryFails
  <2>2. mig'.step = "file"
    BY <1>1, <2>1, DoneType
  <2> QED
    BY <1>5, <2>1, <2>2 DEF Answering
<1>16. CASE EndMigration
  <2>1. ~Answering(c) /\ ~Answering(c)' /\ c \notin outrun
    BY <1>16, EndKeeps DEF Answering, InProcess
  <2>2. Fits(c)
    BY <1>3, <2>1
  <2>3. Fits(c)'
    BY <1>16, <2>2, EndKeeps DEF Fits, LatestWins, Pending
  <2> QED
    BY <2>1, <2>3
<1>17. ASSUME NEW d \in Collections, NEW e \in Entries, Handle(d, e)
       PROVE  /\ Answering(c)' => Inserted(c)'
              /\ ~Answering(c)' => Fits(c)'
  <2>1. /\ Update(d, e) /\ mig' = mig
        /\ outrun' = outrun \cup {x \in {d} : InProcess /\ mig.step # "file" /\ mig.key = d}
    BY <1>17 DEF Handle
  <2>2. c \notin outrun /\ Answering(c) => d # c
    BY <2>1 DEF Answering
  <2> QED
    BY <1>4, <2>1, <2>2 DEF Next
<1>18. CASE Traffic
  <2>1. UNCHANGED migVars
        /\ (ApplyHead \/ SettleOk \/ SettleError \/ PoolError \/ BeginCheck \/ Ping)
    BY <1>18 DEF Traffic
  <2> QED
    BY <1>4, <2>1 DEF migVars, Next
<1>19. CASE Die
  <2>1. /\ proc' = "down" /\ ~headApplied' /\ mig' = IF InProcess THEN None ELSE mig
    BY <1>19 DEF Die, Crash
  <2>2. ~Answering(c)'
    BY <2>1 DEF Answering, InProcess
  <2> QED
    BY <2>1, <2>2 DEF Fits
<1>20. CASE UNCHANGED allVars
  BY <1>4, <1>20 DEF allVars, migVars
<1> QED
  BY <1>6, <1>7, <1>8, <1>9, <1>10, <1>11, <1>12, <1>13, <1>14, <1>15, <1>16, <1>17,
     <1>18, <1>19, <1>20 DEF MigrationNext

LEMMA MigratedAlways == MigrationSpec => []MigratedInv
BY MigratedInit, MigratedStep, PTL DEF MigrationSpec

(* Store and migration stay well typed beside each other: one of the boot   *)
(* is in flight only while the process boots, one of the route only while   *)
(* it serves, and past the first await its file is still one to do.         *)
THEOREM MigrationTypeCorrect == MigrationSpec => [](TypeOK /\ MigrationTypeOK)
<1>1. MigratedInv => TypeOK /\ MigrationTypeOK
  <2> SUFFICES ASSUME MigratedInv PROVE TypeOK /\ MigrationTypeOK
    OBVIOUS
  <2>1. TypeOK /\ MigTyped
    BY DEF MigratedInv
  <2>2. mig # None => /\ mig.step \in {"file", "check", "insert", "answer"}
                      /\ mig.by \in {"boot", "route", "cli"} /\ mig.overwrite \in BOOLEAN
                      /\ mig.todo \subseteq Collections /\ mig.doc \in Docs
    BY <2>1 DEF MigTyped, MigRecord
  <2> QED
    BY <2>1, <2>2 DEF MigTyped, MigrationTypeOK
<1> QED
  BY <1>1, MigratedAlways, PTL

(* Beside migrations, wherever they run and whatever gets between their     *)
(* awaits, cache and row of a settled collection are the same, but for the  *)
(* collections a migration was outrun in.                                   *)
THEOREM MigrationAgrees == MigrationSpec => []MigratedAgree
<1>1. MigratedInv => MigratedAgree
  <2> SUFFICES ASSUME MigratedInv, proc = "serve", NEW c \in Collections, c \notin outrun,
                      cache[c] # NoDoc, c \notin failed, Pending(c) = {}, ~Answering(c)
               PROVE  db[c] = cache[c]
    BY DEF MigratedAgree, Answering
  <2> QED
    BY DEF MigratedInv, Fits, LatestWins
<1> QED
  BY <1>1, MigratedAlways, PTL

-----------------------------------------------------------------------------
(* As long as a collection has no row, its file has what cache and chain    *)
(* have.                                                                    *)
Sourced(c) ==
  db[c] = NoDoc =>
    /\ LocalBackup => DocOf(cache[c]) \subseteq DocOf(local[c])
    /\ \A i \in Pending(c) : writeChain[i].doc \subseteq DocOf(cache[c])

(* What a migration that found no row is about to insert has all that a row *)
(* written meanwhile can have.                                              *)
Claimed(c) ==
  (/\ InProcess /\ ~mig.overwrite /\ mig.step \in {"check", "insert"} /\ mig.key = c
   /\ mig.step = "insert" \/ db[c] = NoDoc) =>
      /\ DocOf(db[c]) \subseteq mig.doc
      /\ \A i \in Pending(c) : writeChain[i].doc \subseteq mig.doc

ClaimInv ==
  /\ ~LocalBackup => local = Nowhere
  /\ InProcess => \A c \in mig.todo : local[c] # NoDoc
  /\ \A c \in Collections : c \notin outrun => Sourced(c) /\ Claimed(c)

(* What bounds the pending writes of a collection goes on to, unless a      *)
(* handler writes it.                                                       *)
LEMMA PendingWithin ==
  ASSUME TypeOK, HeadIsPending, NEW c \in Collections, NEW doc,
         \A i \in Pending(c) : writeChain[i].doc \subseteq doc,
         \/ ApplyHead \/ SettleOk \/ SettleError
         \/ writeChain' = writeChain
         \/ \E d \in Collections, e \in Entries : d # c /\ Update(d, e)
  PROVE  \A i \in Pending(c)' : writeChain'[i].doc \subseteq doc
<1>1. CASE writeChain' = writeChain \/ ApplyHead
  BY <1>1 DEF ApplyHead, Pending
<1>2. CASE SettleOk \/ SettleError
  <2>1. writeChain # <<>> /\ writeChain' = Tail(writeChain)
    BY <1>2 DEF SettleOk, SettleError, Settle, HeadIsPending
  <2>2. \A i \in Pending(c)' : /\ i \in Nat \ {0} /\ i + 1 \in Pending(c)
                               /\ writeChain'[i] = writeChain[i + 1]
    BY <2>1, PendingAfterSettle
  <2> QED
    BY <2>2
<1>3. ASSUME NEW d \in Collections, NEW e \in Entries, d # c, Update(d, e)
      PROVE  \A i \in Pending(c)' : writeChain'[i].doc \subseteq doc
  <2> DEFINE new == ReadJson(d) \cup {e}
  <2>1. new \in Docs
    BY ReadJsonType DEF Docs
  <2>2. writeChain' = writeChain \/ writeChain' = Chained(d, new)
    BY <1>3 DEF Update
  <2> HIDE DEF new
  <2>3. CASE writeChain' = Chained(d, new)
    <3>1. Pending(c)' = Pending(c) /\ \A i \in 1..Len(writeChain) : writeChain'[i] = writeChain[i]
      BY <1>3, <2>1, <2>3, PendingAfterChained, ChainedProperties
    <3>2. Pending(c) \subseteq 1..Len(writeChain)
      BY DEF Pending
    <3> QED
      BY <3>1, <3>2
  <2> QED
    BY <1>1, <2>2, <2>3
<1> QED
  BY <1>1, <1>2, <1>3

LEMMA SourcedStep ==
  ASSUME TypeOK, HeadIsPending, Quiet, NEW c \in Collections, Sourced(c), [Next]_vars
  PROVE  Sourced(c)'
<1> SUFFICES ASSUME db'[c] = NoDoc
             PROVE  /\ LocalBackup => DocOf(cache'[c]) \subseteq DocOf(local'[c])
                    /\ \A i \in Pending(c)' : writeChain'[i].doc \subseteq DocOf(cache'[c])
  BY DEF Sourced
<1> DEFINE Goal == /\ LocalBackup => DocOf(cache'[c]) \subseteq DocOf(local'[c])
                   /\ \A i \in Pending(c)' : writeChain'[i].doc \subseteq DocOf(cache'[c])
<1>1. ASSUME NEW ok \in BOOLEAN, Start(ok) PROVE Goal
  <2>1. db' = db /\ cache' \in {db, Nowhere} /\ writeChain' = <<>>
    BY <1>1 DEF Start, Quiet
  <2>2. DocOf(cache'[c]) = {}
    BY <2>1 DEF Nowhere, DocOf
  <2>3. Pending(c)' = {}
    BY <2>1, EmptySeq DEF Pending
  <2> QED
    BY <2>2, <2>3
<1>2. ASSUME NEW d \in Collections, SeedDefault(d) PROVE Goal
  <2>1. /\ db'[c] = IF c = d THEN DocOf(db[c]) ELSE db[c]
        /\ cache'[c] = IF c = d THEN DocOf(cache[c]) ELSE cache[c]
        /\ UNCHANGED <<writeChain, local>>
    BY <1>2 DEF SeedDefault, TypeOK, Places
  <2>2. DocOf(db[c]) # NoDoc
    BY DocOfType, DocIsThere DEF TypeOK, Places
  <2> QED
    BY <2>1, <2>2 DEF Sourced, Pending
<1>3. CASE Listen \/ PoolError \/ BeginCheck \/ Ping \/ UNCHANGED vars
  BY <1>3 DEF Listen, PoolError, BeginCheck, Ping, vars, Sourced, Pending
<1>4. ASSUME NEW d \in Collections, NEW e \in Entries, Update(d, e) PROVE Goal
  <2> DEFINE doc == ReadJson(d) \cup {e}
             n == Len(writeChain)
  <2>1. /\ db' = db /\ local' = IF LocalBackup THEN [local EXCEPT ![d] = doc] ELSE local
        /\ \/ connected /\ cache' = [cache EXCEPT ![d] = doc] /\ writeChain' = Chained(d, doc)
           \/ ~connected /\ UNCHANGED <<cache, writeChain>>
    BY <1>4 DEF Update, Cached
  <2>2. doc \in Docs
    BY ReadJsonType DEF Docs
  <2>3. /\ ~connected => DocOf(local[d]) \subseteq doc
        /\ connected => DocOf(cache[d]) \subseteq doc
    BY DEF ReadJson, ReadLocal, ReadCached, DocOf
  <2>4. DocOf(doc) = doc
    BY <2>2, DocIsThere
  <2>5. /\ LocalBackup => DocOf(cache[c]) \subseteq DocOf(local[c])
        /\ \A i \in Pending(c) : writeChain[i].doc \subseteq DocOf(cache[c])
    BY <2>1 DEF Sourced
  <2> HIDE DEF doc
  <2>6. /\ LocalBackup => local'[c] = IF c = d THEN doc ELSE local[c]
        /\ connected => cache'[c] = IF c = d THEN doc ELSE cache[c]
    BY <2>1 DEF TypeOK, Places
  <2>7. CASE c # d
    <3>1. \A i \in Pending(c)' : writeChain'[i].doc \subseteq DocOf(cache[c])
      BY <1>4, <2>5, <2>7, PendingWithin
    <3> QED
      BY <2>1, <2>5, <2>6, <2>7, <3>1
  <2>8. CASE c = d /\ ~connected
    <3>1. Pending(c)' = Pending(c)
      BY <2>1, <2>8 DEF Pending
    <3> QED
      BY <2>1, <2>3, <2>4, <2>5, <2>6, <2>8, <3>1
  <2>9. CASE c = d /\ connected
    <3>1. writeChain' = Chained(d, doc) /\ cache'[c] = doc
      BY <2>1, <2>6, <2>9
    <3>2. /\ Pending(c)' = Pending(c) \cup {n + 1}
          /\ \A i \in 1..n : writeChain'[i] = writeChain[i]
          /\ writeChain'[n + 1] = [key |-> d, doc |-> doc]
      <4>1. /\ \A i \in 1..n : Chained(d, doc)[i] = writeChain[i]
            /\ Chained(d, doc)[n + 1] = [key |-> d, doc |-> doc]
        BY <2>2, ChainedProperties
      <4>2. Pending(c)' = Pending(c) \cup {n + 1}
        BY <2>2, <2>9, <3>1, PendingAfterChained
      <4> HIDE DEF n
      <4> QED
        BY <3>1, <4>1, <4>2
    <3>3. Pending(c) \subseteq 1..n
      BY DEF Pending
    <3> HIDE DEF n
    <3>4. ASSUME NEW i \in Pending(c)' PROVE writeChain'[i].doc \subseteq doc
      <4>1. CASE i = n + 1
        BY <3>2, <4>1
      <4>2. CASE i \in Pending(c)
        <5>1. writeChain'[i] = writeChain[i] /\ writeChain[i].doc \subseteq DocOf(cache[c])
          BY <2>5, <3>2, <3>3, <4>2
        <5> QED
          BY <2>3, <2>9, <5>1
      <4> QED
        BY <3>2, <3>4, <4>1, <4>2
    <3> QED
      BY <2>4, <2>6, <2>9, <3>1, <3>4
  <2> QED
    BY <2>7, <2>8, <2>9
<1>5. CASE ApplyHead
  <2>1. UNCHANGED <<cache, local, writeChain>>
    BY <1>5 DEF ApplyHead
  <2>2. Head(writeChain).key # c /\ db'[c] = db[c]
    <3>1. Head(writeChain).doc # NoDoc
      BY <1>5, TailOfChain, DocIsThere DEF ApplyHead, Write
    <3> QED
      BY <1>5, <3>1 DEF ApplyHead, TypeOK, Places
  <2> QED
    BY <2>1, <2>2 DEF Sourced, Pending
<1>6. CASE SettleOk \/ SettleError
  <2>1. UNCHANGED <<cache, local, db>>
    BY <1>6 DEF SettleOk, SettleError, Settle
  <2>2. \A i \in Pending(c) : writeChain[i].doc \subseteq DocOf(cache[c])
    BY <2>1 DEF Sourced
  <2>3. \A i \in Pending(c)' : writeChain'[i].doc \subseteq DocOf(cache[c])
    BY <1>6, <2>2, PendingWithin
  <2> QED
    BY <2>1, <2>3 DEF Sourced
<1>7. CASE Crash
  <2>1. writeChain' = <<>> /\ cache' = Nowhere
    BY <1>7 DEF Crash
  <2>2. Pending(c)' = {} /\ DocOf(cache'[c]) = {}
    BY <2>1, EmptySeq DEF Pending, Nowhere, DocOf
  <2> QED
    BY <2>2
<1> QED
  BY <1>1, <1>2, <1>3, <1>4, <1>5, <1>6, <1>7 DEF Next

LEMMA ClaimInit == MigrationInit => ClaimInv
<1> SUFFICES ASSUME MigrationInit PROVE ClaimInv
  OBVIOUS
<1>1. /\ mig = None /\ local = Nowhere /\ cache = Nowhere /\ writeChain = <<>>
  BY DEF MigrationInit, Init
<1>2. \A c \in Collections : Sourced(c)
  BY <1>1, EmptySeq DEF Sourced, Nowhere, DocOf, Pending
<1> QED
  BY <1>1, <1>2 DEF ClaimInv, Claimed, InProcess

(* A file that is there stays there. *)
LEMMA FilesStay ==
  ASSUME TypeOK, [MigrationNext]_allVars
  PROVE  /\ ~LocalBackup => local' = local
         /\ \A c \in Collections : local[c] # NoDoc => local'[c] # NoDoc
<1>1. CASE local' = local
  BY <1>1
<1>2. ASSUME NEW c \in Collections, NEW e \in Entries, Update(c, e)
      PROVE  /\ ~LocalBackup => local' = local
             /\ \A d \in Collections : local[d] # NoDoc => local'[d] # NoDoc
  <2> DEFINE doc == ReadJson(c) \cup {e}
  <2>1. local' = IF LocalBackup THEN [local EXCEPT ![c] = doc] ELSE local
    BY <1>2 DEF Update
  <2>2. doc \in Docs
    BY ReadJsonType DEF Docs
  <2> HIDE DEF doc
  <2> QED
    BY <2>1, <2>2, DocIsThere DEF TypeOK, Places
<1>3. local' = local \/ \E c \in Collections, e \in Entries : Update(c, e)
  BY StoreSteps DEF Next, vars, Start, Listen, SeedDefault, ApplyHead, SettleOk,
     SettleError, Settle, PoolError, BeginCheck, Ping, Crash, InsertRow, InsertAnswered,
     EndMigration
<1> QED
  BY <1>1, <1>2, <1>3

LEMMA SourcedMigration ==
  ASSUME MigratedInv, [MigrationNext]_allVars, NEW c \in Collections, c \notin outrun,
         Sourced(c)
  PROVE  Sourced(c)'
<1>1. TypeOK /\ HeadIsPending /\ Quiet /\ MigTyped
  BY DEF MigratedInv
<1>2. CASE [Next]_vars
  BY <1>1, <1>2, SourcedStep
<1>3. CASE InsertRow
  <2>1. /\ db' = [db EXCEPT ![mig.key] = mig.doc] /\ mig # None
        /\ UNCHANGED <<cache, local, writeChain>>
    BY <1>3 DEF InsertRow
  <2>2. mig.doc # NoDoc
    BY <1>1, <2>1, MigIsRecord, DocIsThere
  <2>3. db'[c] = NoDoc => db[c] = NoDoc
    BY <1>1, <2>1, <2>2 DEF TypeOK, Places
  <2> QED
    BY <2>1, <2>3 DEF Sourced, Pending
<1>4. CASE InsertAnswered
  <2>1. /\ cache' = IF InProcess THEN [cache EXCEPT ![mig.key] = mig.doc] ELSE cache
        /\ mig # None /\ mig.step = "answer" /\ UNCHANGED <<db, local, writeChain>>
    BY <1>4 DEF InsertAnswered, CacheSet
  <2>2. CASE Answering(c)
    <3>1. db[c] = mig.doc
      BY <2>2 DEF MigratedInv, Inserted
    <3>2. db'[c] # NoDoc
      BY <1>1, <2>1, <3>1, MigIsRecord, DocIsThere
    <3> QED
      BY <3>2 DEF Sourced
  <2>3. CASE ~Answering(c)
    <3>1. cache'[c] = cache[c]
      BY <1>1, <2>1, <2>3 DEF Answering, TypeOK, Places
    <3> QED
      BY <2>1, <3>1 DEF Sourced, Pending
  <2> QED
    BY <2>2, <2>3
<1>5. CASE EndMigration
  BY <1>5, EndKeeps DEF Sourced, Pending
<1> QED
  BY <1>2, <1>3, <1>4, <1>5, StoreSteps

(* The files of a migration of this process are there. *)
LEMMA TodoStep ==
  ASSUME MigratedInv, [MigrationNext]_allVars,
         InProcess => \A c \in mig.todo : local[c] # NoDoc, InProcess'
  PROVE  \A c \in mig'.todo : local'[c] # NoDoc
<1>1. TypeOK /\ MigTyped
  BY DEF MigratedInv
<1>2. \A c \in Collections : local[c] # NoDoc => local'[c] # NoDoc
  BY <1>1, FilesStay
<1>3. \A c \in Files : c \in Collections /\ local[c] # NoDoc
  BY DEF Files
<1>4. mig # None => mig.todo \subseteq Collections
  BY <1>1, MigIsRecord
<1>5. CASE mig' = mig
  BY <1>2, <1>4, <1>5 DEF InProcess
<1>6. ASSUME mig # None, mig'.by = mig.by, mig'.todo \subseteq mig.todo
      PROVE  \A c \in mig'.todo : local'[c] # NoDoc
  BY <1>2, <1>4, <1>6 DEF InProcess
<1>7. CASE StartBootstrapping \/ RouteMigration
  <2>1. PICK by \in {"boot", "route", "cli"}, overwrite \in BOOLEAN :
          Begin(by, overwrite, Files)
    BY <1>7 DEF StartBootstrapping, RouteMigration
  <2>2. mig'.todo = Files
    BY <1>1, <1>3, <2>1, BegunType
  <2> QED
    BY <1>2, <1>3, <2>2
<1>8. CASE CliMigration
  <2>1. PICK overwrite \in BOOLEAN, c \in Collections : Begin("cli", overwrite, {c})
    BY <1>8 DEF CliMigration
  <2>2. mig'.by = "cli"
    BY <1>1, <2>1, BegunType
  <2> QED
    BY <2>2 DEF InProcess
<1>9. ASSUME NEW c \in Collections, ReadFile(c)
      PROVE  \A d \in mig'.todo : local'[d] # NoDoc
  BY <1>1, <1>6, <1>9, ReadType
<1>10. CASE CheckRow \/ InsertRow \/ InsertAnswered \/ QueryFails
  <2>1. /\ mig # None /\ mig.step # "file"
        /\ Done \/ \E step \in {"insert", "answer"} : mig' = [mig EXCEPT !.step = step]
    BY <1>10 DEF CheckRow, InsertRow, InsertAnswered, QueryFails
  <2>2. mig'.by = mig.by /\ mig'.todo \subseteq mig.todo
    BY <1>1, <2>1, DoneType, GoneOnType
  <2> QED
    BY <1>6, <2>1, <2>2
<1>11. CASE EndMigration \/ Die
  BY <1>5, <1>11 DEF EndMigration, Die, InProcess
<1> QED
  BY <1>5, <1>7, <1>8, <1>9, <1>10, <1>11
     DEF MigrationNext, StartAsIs, Boot, Handle, Traffic, allVars, migVars

LEMMA ClaimedStep ==
  ASSUME MigratedInv, ClaimInv, [MigrationNext]_allVars, NEW c \in Collections,
         c \notin outrun, c \notin outrun'
  PROVE  Claimed(c)'
<1> SUFFICES ASSUME InProcess', ~mig'.overwrite, mig'.step \in {"check", "insert"},
                    mig'.key = c, mig'.step = "insert" \/ db'[c] = NoDoc
             PROVE  /\ DocOf(db'[c]) \subseteq mig'.doc
                    /\ \A i \in Pending(c)' : writeChain'[i].doc \subseteq mig'.doc
  BY DEF Claimed
<1> DEFINE Goal == /\ DocOf(db'[c]) \subseteq mig'.doc
                   /\ \A i \in Pending(c)' : writeChain'[i].doc \subseteq mig'.doc
           Claiming == /\ InProcess /\ ~mig.overwrite /\ mig.key = c
                       /\ mig.step \in {"check", "insert"}
                       /\ mig.step = "insert" \/ db[c] = NoDoc
<1>1. TypeOK /\ HeadIsPending /\ Quiet /\ MigTyped /\ Sourced(c) /\ Claimed(c)
  BY DEF MigratedInv, ClaimInv
<1>2. Claiming => /\ DocOf(db[c]) \subseteq mig.doc
                  /\ \A i \in Pending(c) : writeChain[i].doc \subseteq mig.doc
  BY <1>1 DEF Claimed
(* The migration waits meanwhile.                                           *)
<1>3. ASSUME mig' = mig, db[c] = NoDoc \/ db'[c] # NoDoc,
             \/ ApplyHead \/ SettleOk \/ SettleError
             \/ writeChain' = writeChain /\ db' = db
             \/ \E d \in Collections, e \in Entries : d # c /\ Update(d, e)
      PROVE  Goal
  <2>1. Claiming
    BY <1>3 DEF InProcess
  <2>2. \A i \in Pending(c)' : writeChain'[i].doc \subseteq mig.doc
    BY <1>1, <1>2, <1>3, <2>1, PendingWithin
  <2>3. DocOf(db'[c]) \subseteq mig.doc
    <3>1. CASE db' = db
      BY <1>2, <2>1, <3>1
    <3>2. CASE ApplyHead
      <4> DEFINE w == Head(writeChain)
      <4>1. /\ 1 \in Pending(w.key) /\ w = writeChain[1] /\ w.doc \in Docs
            /\ db' = [db EXCEPT ![w.key] = w.doc]
        BY <1>1, <3>2, TailOfChain DEF ApplyHead, Pending, Write
      <4> HIDE DEF w
      <4>2. CASE w.key = c
        BY <1>1, <1>2, <2>1, <4>1, <4>2, DocIsThere DEF TypeOK, Places
      <4>3. CASE w.key # c
        BY <1>1, <1>2, <2>1, <4>1, <4>3 DEF TypeOK, Places
      <4> QED
        BY <4>2, <4>3
    <3> QED
      BY <1>3, <3>1, <3>2 DEF SettleOk, SettleError, Settle, Update
  <2> QED
    BY <1>3, <2>2, <2>3
<1>4. CASE StartBootstrapping \/ RouteMigration \/ CliMigration
  <2>1. PICK by \in {"boot", "route", "cli"}, overwrite \in BOOLEAN,
             names \in SUBSET Collections : Begin(by, overwrite, names)
    BY <1>4 DEF StartBootstrapping, RouteMigration, CliMigration, Files
  <2> QED
    BY <1>1, <2>1, BegunType
<1>5. CASE Boot
  <2>1. UNCHANGED migVars /\ BootGoesOn /\ proc = "boot"
    BY <1>5 DEF Boot, Listen, SeedDefault
  <2> QED
    BY <1>1, <2>1, MigIsRecord DEF InProcess, BootGoesOn, MigTyped, migVars
<1>6. ASSUME NEW ok \in BOOLEAN, StartAsIs(ok) PROVE Goal
  <2>1. UNCHANGED migVars /\ proc = "down"
    BY <1>6 DEF StartAsIs, Start
  <2> QED
    BY <1>1, <2>1, NoneBefore DEF InProcess, migVars
<1>7. ASSUME NEW d \in Collections, ReadFile(d) PROVE Goal
  <2>1. /\ mig # None /\ c \in mig.todo /\ mig'.by = mig.by /\ mig'.step = "check"
        /\ mig'.overwrite = mig.overwrite /\ c = d
        /\ mig.by # "cli" => mig'.doc = ReadLocal(c)
    BY <1>1, <1>7, ReadType
  <2>2. UNCHANGED <<db, cache, local, writeChain>>
    BY <1>7 DEF ReadFile, vars
  <2>3. InProcess /\ mig'.doc = DocOf(local[c])
    BY <2>1 DEF InProcess, ReadLocal
  <2>4. LocalBackup
    BY <2>1, <2>3 DEF ClaimInv, Nowhere
  <2>5. db[c] = NoDoc
    BY <2>1, <2>2
  <2>6. /\ DocOf(cache[c]) \subseteq mig'.doc
        /\ \A i \in Pending(c) : writeChain[i].doc \subseteq DocOf(cache[c])
    BY <1>1, <2>3, <2>4, <2>5 DEF Sourced
  <2>7. Pending(c)' = Pending(c) /\ DocOf(db'[c]) = {}
    BY <2>2, <2>5 DEF Pending, DocOf
  <2> QED
    BY <2>2, <2>6, <2>7
<1>8. CASE CheckRow
  <2>1. /\ mig # None /\ mig.step = "check" /\ UNCHANGED <<db, writeChain>>
        /\ IF db[mig.key] # NoDoc THEN Done ELSE mig' = [mig EXCEPT !.step = "insert"]
    BY <1>8 DEF CheckRow, vars
  <2>2. db[mig.key] = NoDoc /\ mig' = [mig EXCEPT !.step = "insert"]
    BY <1>1, <2>1, DoneType
  <2>3. mig'.key = mig.key /\ mig'.doc = mig.doc /\ mig'.by = mig.by
        /\ mig'.overwrite = mig.overwrite
    BY <1>1, <2>1, <2>2, GoneOnType
  <2>4. Claiming
    BY <2>1, <2>2, <2>3 DEF InProcess
  <2>5. Pending(c)' = Pending(c)
    BY <2>1 DEF Pending
  <2> QED
    BY <1>2, <2>1, <2>3, <2>4, <2>5
<1>9. CASE InsertRow \/ InsertAnswered \/ QueryFails
  <2>1. /\ mig # None /\ mig.step # "file"
        /\ Done \/ mig' = [mig EXCEPT !.step = "answer"]
    BY <1>9 DEF InsertRow, InsertAnswered, QueryFails
  <2>2. mig'.step \notin {"check", "insert"}
    BY <1>1, <2>1, DoneType, GoneOnType
  <2> QED
    BY <2>2
<1>10. CASE EndMigration
  BY <1>10 DEF EndMigration, InProcess
<1>11. ASSUME NEW d \in Collections, NEW e \in Entries, Handle(d, e) PROVE Goal
  <2>1. /\ Update(d, e) /\ mig' = mig /\ db' = db
        /\ outrun' = outrun \cup {x \in {d} : InProcess /\ mig.step # "file" /\ mig.key = d}
    BY <1>11 DEF Handle, Update
  <2>2. d # c
    BY <2>1 DEF InProcess
  <2> QED
    BY <1>3, <2>1, <2>2
<1>12. CASE Traffic
  <2>1. UNCHANGED migVars
        /\ (ApplyHead \/ SettleOk \/ SettleError \/ (writeChain' = writeChain /\ db' = db))
    BY <1>12 DEF Traffic, PoolError, BeginCheck, Ping
  <2>2. db[c] = NoDoc \/ db'[c] # NoDoc
    <3>1. CASE ApplyHead
      <4>1. Head(writeChain).doc # NoDoc
        BY <1>1, <3>1, TailOfChain, DocIsThere DEF ApplyHead, Write
      <4> QED
        BY <1>1, <3>1, <4>1 DEF ApplyHead, TypeOK, Places
    <3>2. CASE db' = db
      BY <3>2
    <3> QED
      BY <2>1, <3>1, <3>2 DEF SettleOk, SettleError, Settle
  <2> QED
    BY <1>3, <2>1, <2>2 DEF migVars
<1>13. CASE Die
  BY <1>13 DEF Die, InProcess
<1>14. CASE UNCHANGED allVars
  BY <1>3, <1>14 DEF allVars, vars, migVars
<1> QED
  BY <1>4, <1>5, <1>6, <1>7, <1>8, <1>9, <1>10, <1>11, <1>12, <1>13, <1>14
     DEF MigrationNext

LEMMA ClaimStep ==
  MigratedInv /\ ClaimInv /\ [MigrationNext]_allVars => ClaimInv'
<1> SUFFICES ASSUME MigratedInv, ClaimInv, [MigrationNext]_allVars PROVE ClaimInv'
  OBVIOUS
<1>1. TypeOK
  BY DEF MigratedInv
<1>2. ~LocalBackup => local' = Nowhere
  BY <1>1, FilesStay DEF ClaimInv
<1>3. InProcess' => \A c \in mig'.todo : local'[c] # NoDoc
  BY TodoStep DEF ClaimInv
<1>4. ASSUME NEW c \in Collections, c \notin outrun' PROVE Sourced(c)' /\ Claimed(c)'
  <2>1. CASE c \notin outrun
    BY <1>4, <2>1, SourcedMigration, ClaimedStep DEF ClaimInv
(* A crash leaves nothing of what was outrun.                               *)
  <2>2. CASE c \in outrun
    <3>1. Die
      BY <1>4, <2>2 DEF MigrationNext, StartAsIs, StartBootstrapping, Boot, RouteMigration,
         CliMigration, ReadFile, CheckRow, InsertRow, InsertAnswered, QueryFails,
         EndMigration, Handle, Traffic, allVars, migVars
    <3>2. /\ cache' = Nowhere /\ writeChain' = <<>> /\ ~InProcess'
      BY <3>1 DEF Die, Crash, InProcess
    <3>3. Sourced(c)'
      BY <3>2, EmptySeq DEF Sourced, Nowhere, DocOf, Pending
    <3> QED
      BY <3>2, <3>3 DEF Claimed
  <2> QED
    BY <2>1, <2>2
<1> QED
  BY <1>2, <1>3, <1>4 DEF ClaimInv

(* A migration of this process that was not told to overwrite takes nothing *)
(* out of a row, but for the collections it was outrun in.                  *)
THEOREM MigrationOnlyAdds == MigrationSpec => MigrationKeepsRows
<1>1. ASSUME MigratedInv, ClaimInv, [MigrationNext]_allVars,
             InProcess, ~mig.overwrite, mig.step = "insert", mig'.step = "answer",
             NEW c \in Collections, c \notin outrun
      PROVE  DocOf(db[c]) \subseteq DocOf(db'[c])
  <2>1. TypeOK /\ MigTyped /\ mig # None
    BY <1>1 DEF MigratedInv, InProcess
  <2>2. InsertRow
    <3>1. mig' # mig /\ mig' # None
      BY <1>1 DEF None
    <3>2. ~QueryFails
      BY <1>1, <2>1, DoneType DEF QueryFails
    <3> QED
      BY <1>1, <2>1, <3>1, <3>2 DEF MigrationNext, StartAsIs, StartBootstrapping, Boot,
         RouteMigration, CliMigration, ReadFile, CheckRow, InsertAnswered, EndMigration,
         Handle, Traffic, Die, allVars, migVars, Begin
  <2>3. db' = [db EXCEPT ![mig.key] = mig.doc] /\ mig.doc \in Docs
    BY <2>1, <2>2, MigIsRecord DEF InsertRow
  <2>4. CASE c = mig.key
    <3>1. DocOf(db[c]) \subseteq mig.doc
      BY <1>1, <2>4 DEF ClaimInv, Claimed
    <3> QED
      BY <2>1, <2>3, <2>4, <3>1, DocIsThere DEF TypeOK, Places
  <2>5. CASE c # mig.key
    BY <2>1, <2>3, <2>5 DEF TypeOK, Places
  <2> QED
    BY <2>4, <2>5
<1>2. MigrationInit => MigratedInv /\ ClaimInv
  BY MigratedInit, ClaimInit
<1>3. MigratedInv /\ ClaimInv /\ [MigrationNext]_allVars => (MigratedInv /\ ClaimInv)'
  BY MigratedStep, ClaimStep
<1>4. MigratedInv /\ ClaimInv /\ [MigrationNext]_allVars =>
        ((InProcess /\ ~mig.overwrite /\ mig.step = "insert" /\ mig'.step = "answer") =>
           \A c \in Collections \ outrun : DocOf(db[c]) \subseteq DocOf(db'[c]))
  BY <1>1
<1> QED
  BY <1>2, <1>3, <1>4, PTL DEF MigrationSpec, MigrationKeepsRows

-----------------------------------------------------------------------------
(* While the process boots from its files: a file's turn is still to come,  *)
(* and there is no row but the one just inserted, or it is in row and cache.*)
Waiting(c) == mig # None /\ mig.by = "boot" /\ c \in mig.todo

Coming(c) ==
  /\ (mig.step # "file" /\ mig.key = c) => mig.doc = local[c]
  /\ db[c] = IF mig.step = "answer" /\ mig.key = c THEN local[c] ELSE NoDoc

Arrived(c) == cache[c] = local[c] /\ db[c] = local[c]

ImportInv ==
  /\ proc = "down" => imported = FALSE
  /\ (proc = "boot" /\ imported = TRUE) =>
       \A c \in Files : c \notin outrun =>
         (Waiting(c) => Coming(c)) /\ (~Waiting(c) => Arrived(c))

LEMMA ImportStep == MigratedInv /\ ImportInv /\ [MigrationNext]_allVars => ImportInv'
<1> SUFFICES ASSUME MigratedInv, ImportInv, [MigrationNext]_allVars PROVE ImportInv'
  OBVIOUS
<1>1. TypeOK /\ HeadIsPending /\ Quiet /\ MigTyped /\ TypeOK' /\ MigTyped'
  BY MigratedStep DEF MigratedInv
<1>2. proc' = "down" => imported' = FALSE
  <2>1. CASE Die
    BY <2>1 DEF Die
  <2>2. CASE ~Die
    <3>1. proc' = "down" => proc = "down" /\ imported' \in {imported, FALSE}
      BY <1>1, <2>2 DEF MigrationNext, StartAsIs, StartBootstrapping, Start, Boot, Listen,
         SeedDefault, RouteMigration, CliMigration, ReadFile, CheckRow, InsertRow,
         InsertAnswered, QueryFails, EndMigration, Handle, Update, Traffic, ApplyHead,
         SettleOk, SettleError, Settle, PoolError, BeginCheck, Ping, allVars, migVars,
         vars, MigTyped
    <3> QED
      BY <3>1 DEF ImportInv
  <2> QED
    BY <2>1, <2>2
<1> SUFFICES ASSUME proc' = "boot", imported' = TRUE,
                    NEW c \in Collections, local'[c] # NoDoc, c \notin outrun'
             PROVE  (Waiting(c)' => Coming(c)') /\ (~Waiting(c)' => Arrived(c)')
  BY <1>2 DEF ImportInv, Files
<1> DEFINE Goal == (Waiting(c)' => Coming(c)') /\ (~Waiting(c)' => Arrived(c)')
<1>3. ASSUME proc = "boot", imported = TRUE, local[c] # NoDoc, c \notin outrun
      PROVE  (Waiting(c) => Coming(c)) /\ (~Waiting(c) => Arrived(c))
  BY <1>3 DEF ImportInv, Files
<1>4. CASE /\ UNCHANGED <<proc, cache, local, db, mig, imported>>
           /\ outrun \subseteq outrun'
  BY <1>3, <1>4 DEF Waiting, Coming, Arrived
<1>5. ASSUME NEW ok \in BOOLEAN, StartAsIs(ok) PROVE Goal
  <2>1. proc = "down" /\ imported' = imported
    BY <1>5 DEF StartAsIs, Start, migVars
  <2> QED
    BY <2>1 DEF ImportInv
<1>6. CASE StartBootstrapping
  <2>1. /\ Begin("boot", FALSE, Files) /\ cache' = Nowhere /\ cache' = db
        /\ UNCHANGED <<db, local>> /\ Files \in SUBSET Collections
    BY <1>6 DEF StartBootstrapping, Start, Files
  <2>2. mig' # None /\ mig'.by = "boot" /\ mig'.todo = Files /\ mig'.step = "file"
    BY <1>1, <2>1, BegunType
  <2>3. c \in Files /\ db'[c] = NoDoc
    BY <2>1 DEF Files, Nowhere
  <2> QED
    BY <2>2, <2>3 DEF Waiting, Coming
<1>7. CASE Boot
  <2>1. UNCHANGED migVars /\ BootGoesOn /\ proc = "boot"
    BY <1>7 DEF Boot, Listen, SeedDefault
  <2>2. PICK d \in Collections : SeedDefault(d)
    BY <1>7 DEF Boot, Listen
  <2>3. /\ local' = local
        /\ db'[c] = IF c = d THEN DocOf(db[c]) ELSE db[c]
        /\ cache'[c] = IF c = d THEN DocOf(cache[c]) ELSE cache[c]
    BY <1>1, <2>2 DEF SeedDefault, TypeOK, Places
  <2>4. ~Waiting(c) /\ ~Waiting(c)'
    BY <2>1 DEF Waiting, BootGoesOn, migVars
  <2>5. Arrived(c)
    BY <1>3, <2>1, <2>3, <2>4 DEF migVars
  <2>6. DocOf(local[c]) = local[c]
    BY <2>3 DEF DocOf
  <2> QED
    BY <2>3, <2>4, <2>5, <2>6 DEF Arrived
<1>8. CASE RouteMigration
  BY <1>8 DEF RouteMigration, vars
<1>9. CASE CliMigration
  <2>1. PICK overwrite \in BOOLEAN, d \in Collections : Begin("cli", overwrite, {d})
    BY <1>9 DEF CliMigration
  <2>2. UNCHANGED <<proc, cache, local, db, outrun, imported>>
    BY <1>9 DEF CliMigration, vars
  <2>3. mig = None /\ mig'.by = "cli"
    BY <1>1, <2>1, BegunType
  <2> QED
    BY <1>3, <2>2, <2>3 DEF Waiting, Arrived
<1>10. ASSUME NEW d \in Collections, ReadFile(d) PROVE Goal
  <2>1. UNCHANGED <<proc, cache, local, db, outrun, imported>>
    BY <1>10 DEF ReadFile, vars
  <2>2. /\ mig # None /\ mig.step = "file" /\ mig' # None
        /\ mig'.key = d /\ mig'.todo = mig.todo /\ mig'.by = mig.by
        /\ mig'.step # "answer"
        /\ mig.by # "cli" => mig'.doc = ReadLocal(d)
    BY <1>1, <1>10, ReadType
  <2>3. (mig.by = "boot" /\ d = c) => mig'.doc = local'[c]
    BY <2>1, <2>2 DEF ReadLocal, DocOf
  <2>4. Waiting(c)' <=> Waiting(c)
    BY <2>2 DEF Waiting
  <2> QED
    BY <1>3, <2>1, <2>2, <2>3, <2>4 DEF Waiting, Coming, Arrived
<1>11. CASE CheckRow
  <2>1. /\ mig # None /\ mig.step = "check"
        /\ UNCHANGED <<proc, cache, local, db, outrun, imported>>
        /\ IF db[mig.key] # NoDoc THEN Done ELSE mig' = [mig EXCEPT !.step = "insert"]
    BY <1>11 DEF CheckRow, vars
  <2>2. mig.key = c /\ Waiting(c) => db[c] = NoDoc
    BY <1>3, <2>1 DEF Coming
  <2>3. CASE mig' = [mig EXCEPT !.step = "insert"]
    <3>1. /\ mig' # None /\ mig'.step = "insert" /\ mig'.todo = mig.todo
          /\ mig'.key = mig.key /\ mig'.doc = mig.doc /\ mig'.by = mig.by
      BY <1>1, <2>1, <2>3, GoneOnType
    <3> QED
      BY <1>3, <2>1, <3>1 DEF Waiting, Coming, Arrived
  <2>4. CASE Done /\ db[mig.key] # NoDoc
    <3>1. /\ mig' # None /\ mig'.step = "file" /\ mig'.by = mig.by
          /\ mig'.todo = mig.todo \ {mig.key}
      BY <1>1, <2>1, <2>4, DoneType
    <3>2. Waiting(c)' <=> Waiting(c)
      BY <2>1, <2>2, <2>4, <3>1 DEF Waiting
    <3> QED
      BY <1>3, <2>1, <3>1, <3>2 DEF Coming, Arrived
  <2> QED
    BY <2>1, <2>3, <2>4
<1>12. CASE InsertRow
  <2>1. /\ mig # None /\ mig.step = "insert" /\ mig' = [mig EXCEPT !.step = "answer"]
        /\ db' = [db EXCEPT ![mig.key] = mig.doc]
        /\ outrun' = IF proc # "down" /\ (mig.by = "cli" \/ Pending(mig.key) # {})
                     THEN outrun \cup {mig.key} ELSE outrun
        /\ UNCHANGED <<proc, cache, local, imported>>
    BY <1>12 DEF InsertRow
  <2>2. /\ mig' # None /\ mig'.step = "answer" /\ mig'.todo = mig.todo
        /\ mig'.key = mig.key /\ mig'.doc = mig.doc /\ mig'.by = mig.by
    BY <1>1, <2>1, GoneOnType
  <2>3. db'[c] = IF c = mig.key THEN mig.doc ELSE db[c]
    BY <1>1, <2>1 DEF TypeOK, Places
  <2>4. mig.by \in {"boot", "cli"}
    BY <1>1, <2>1, MigIsRecord DEF MigTyped
  <2>5. c \notin outrun /\ (c = mig.key => Waiting(c))
    BY <1>1, <2>1, <2>4, MigIsRecord DEF Waiting
  <2> QED
    BY <1>3, <2>1, <2>2, <2>3, <2>5 DEF Waiting, Coming, Arrived
<1>13. CASE InsertAnswered
  <2>1. /\ mig # None /\ mig.step = "answer" /\ Done
        /\ cache' = IF InProcess THEN [cache EXCEPT ![mig.key] = mig.doc] ELSE cache
        /\ UNCHANGED <<proc, db, local, outrun, imported>>
    BY <1>13 DEF InsertAnswered, CacheSet
  <2>2. /\ mig' # None /\ mig'.step = "file" /\ mig'.by = mig.by
        /\ mig'.todo = mig.todo \ {mig.key}
    BY <1>1, <2>1, DoneType
  <2>3. /\ c = mig.key /\ InProcess => Waiting(c) /\ cache'[c] = mig.doc
        /\ ~(c = mig.key /\ InProcess) => cache'[c] = cache[c]
    BY <1>1, <2>1, MigIsRecord DEF MigTyped, InProcess, Waiting, TypeOK, Places
  <2>4. CASE c = mig.key /\ InProcess
    BY <1>3, <2>1, <2>2, <2>3, <2>4 DEF Waiting, Coming, Arrived
  <2>5. CASE ~(c = mig.key /\ InProcess)
    <3>1. Waiting(c)' <=> Waiting(c)
      BY <2>1, <2>2, <2>5 DEF Waiting, InProcess
    <3>2. Waiting(c) => c # mig.key
      BY <2>5 DEF Waiting, InProcess
    <3> QED
      BY <1>3, <2>1, <2>2, <2>3, <2>5, <3>1, <3>2 DEF Coming, Arrived
  <2> QED
    BY <2>4, <2>5
<1>14. CASE QueryFails
  <2>1. /\ mig # None /\ mig.step # "file" /\ Done /\ UNCHANGED vars
        /\ outrun \subseteq outrun' /\ imported' = (imported /\ mig.by # "boot")
    BY <1>14 DEF QueryFails
  <2>2. mig' # None /\ mig'.by = mig.by /\ mig.by # "boot" /\ imported = TRUE
    <3>1. imported \in BOOLEAN
      BY <1>1 DEF MigTyped
    <3>2. mig' # None /\ mig'.by = mig.by
      BY <1>1, <2>1, DoneType
    <3> QED
      BY <2>1, <3>1, <3>2
  <2> QED
    BY <1>3, <2>1, <2>2 DEF vars, Waiting, Arrived
<1>15. CASE EndMigration
  BY <1>3, <1>15 DEF EndMigration, vars, Waiting, Arrived
<1>16. CASE Traffic
  <2>1. UNCHANGED migVars
        /\ (ApplyHead \/ SettleOk \/ SettleError \/ PoolError \/ BeginCheck \/ Ping)
    BY <1>16 DEF Traffic
  <2>2. proc = "boot"
    BY <2>1 DEF ApplyHead, SettleOk, SettleError, Settle, PoolError, BeginCheck, Ping
  <2>3. writeChain = <<>> /\ ~headApplied
    BY <1>1, <2>2 DEF Quiet, HeadIsPending
  <2>4. PoolError
    BY <2>1, <2>2, <2>3 DEF ApplyHead, SettleOk, SettleError, BeginCheck, Ping
  <2> QED
    BY <1>4, <2>1, <2>4 DEF PoolError, migVars
<1>17. ~Die /\ \A d \in Collections, e \in Entries : ~Handle(d, e)
  BY DEF Die, Crash, Handle, Update
<1>18. CASE UNCHANGED allVars
  BY <1>4, <1>18 DEF allVars, vars, migVars
<1> QED
  BY <1>5, <1>6, <1>7, <1>8, <1>9, <1>10, <1>11, <1>12, <1>13, <1>14, <1>15, <1>16,
     <1>17, <1>18 DEF MigrationNext

(* A process that bootstrapped with no file failing serves with every file  *)
(* in its row and its cache.                                                *)
THEOREM FilesAreImported == MigrationSpec => BootstrapImportsFiles
<1>1. ASSUME MigratedInv, ImportInv, [MigrationNext]_allVars,
             proc = "boot", proc' = "serve", imported = TRUE,
             NEW c \in Files, c \notin outrun
      PROVE  cache[c] = local[c] /\ db[c] = local[c]
  <2>1. Boot
    BY <1>1 DEF MigrationNext, StartAsIs, StartBootstrapping, Start, RouteMigration,
       CliMigration, ReadFile, CheckRow, InsertRow, InsertAnswered, QueryFails,
       EndMigration, Handle, Update, Traffic, ApplyHead, SettleOk, SettleError, Settle,
       PoolError, BeginCheck, Ping, Die, Crash, allVars, vars
  <2>2. ~Waiting(c)
    BY <2>1 DEF Boot, BootGoesOn, Waiting
  <2> QED
    BY <1>1, <2>2 DEF ImportInv, Arrived
<1>2. MigrationInit => MigratedInv /\ ImportInv
  BY MigratedInit DEF MigrationInit, Init, ImportInv
<1>3. MigratedInv /\ ImportInv /\ [MigrationNext]_allVars => (MigratedInv /\ ImportInv)'
  BY MigratedStep, ImportStep
<1>4. MigratedInv /\ ImportInv /\ [MigrationNext]_allVars =>
        ((proc = "boot" /\ proc' = "serve" /\ imported) =>
           \A c \in Files \ outrun : cache[c] = local[c] /\ db[c] = local[c])
  <2>1. MigratedInv /\ imported => imported = TRUE
    BY DEF MigratedInv, MigTyped
  <2> QED
    BY <1>1, <2>1
<1> QED
  BY <1>2, <1>3, <1>4, PTL DEF MigrationSpec, BootstrapImportsFiles

=============================================================================
