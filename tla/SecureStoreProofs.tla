-------------------------- MODULE SecureStoreProofs --------------------------
(***************************************************************************)
(* The three backends, for any number of executions, keys and values.      *)
(*                                                                         *)
(* The keyring: splitting a document over entries of any length and        *)
(* joining them again gives the document, whatever the entries held        *)
(* before; and under the lock nobody reads between two of them.            *)
(*                                                                         *)
(* The 1Password vault: an execution whose version is the item's current   *)
(* one has the item's contents in memory but for its own edits, so the     *)
(* only writes that the service accepts lose nothing.                      *)
(*                                                                         *)
(* The JSON store: its lock excludes, no reader sees a save in progress,   *)
(* and it implements the all-or-nothing document of SharedStore.           *)
(***************************************************************************)
EXTENDS SecureStore, FiniteSetTheorems, WellFoundedInduction, TLAPS

-----------------------------------------------------------------------------
(* An empty store and the results of Save* and Delete* are snapshots.      *)
LEMMA Snapshots ==
  /\ NewStorageData \in Snapshot
  /\ \A copy \in Snapshot, k \in Key :
       /\ DeleteEntry(copy, k) \in Snapshot
       /\ \A v \in Value : SaveEntry(copy, k, v) \in Snapshot
  BY DEF Snapshot, NewStorageData, SaveEntry, DeleteEntry

-----------------------------------------------------------------------------
(* Sums over the entries of the keyring.  Induction over numbers, with the *)
(* set of those for which something holds.                                 *)

(* Induction over the numbers, for a set instead of a property.            *)
LEMMA Induction ==
  ASSUME NEW S, S \subseteq Nat, 0 \in S, \A n \in S : n + 1 \in S
  PROVE  S = Nat
<1> DEFINE R == {ss \in Nat \X Nat : ss[1] < ss[2]}
<1> SUFFICES ASSUME Nat \ S # {}
             PROVE  FALSE
  OBVIOUS
<1>1. IsWellFoundedOn(R, Nat)
  BY NatLessThanWellFounded DEF OpToRel
<1>2. PICK x \in Nat \ S : \A y \in Nat \ S : <<y, x>> \notin R
  <2> HIDE DEF R
  <2> QED
    BY <1>1, WFMin
<1>3. x # 0 /\ x - 1 \in Nat /\ <<x - 1, x>> \in R
  OBVIOUS
<1>4. x - 1 \in S
  BY <1>2, <1>3
<1>5. (x - 1) + 1 = x
  OBVIOUS
<1> QED
  BY <1>2, <1>4, <1>5

(* The recursive function that adds up g.                                  *)
IsSum(f, g, n) == f = [k \in 0..n |-> IF k = 0 THEN 0 ELSE f[k - 1] + g[k - 1]]

(* A function of n that adds up g exists for every n.                      *)
LEMMA SumExists ==
  ASSUME NEW g
  PROVE  \A n \in Nat : \E f : IsSum(f, g, n)
<1> DEFINE S == {n \in Nat : \E f : IsSum(f, g, n)}
<1>1. 0 \in S
  <2>1. IsSum([k \in 0..0 |-> 0], g, 0)
    BY DEF IsSum
  <2> QED
    BY <2>1
<1>2. ASSUME NEW n \in S
      PROVE  n + 1 \in S
  <2>1. PICK sum : IsSum(sum, g, n)
    OBVIOUS
  <2> DEFINE h == [k \in 0..(n + 1) |-> IF k = n + 1 THEN sum[n] + g[n] ELSE sum[k]]
  <2>2. ASSUME NEW k \in 0..(n + 1)
        PROVE  h[k] = IF k = 0 THEN 0 ELSE h[k - 1] + g[k - 1]
    <3>1. CASE k = 0
      BY <2>1, <3>1 DEF IsSum
    <3>2. CASE k # 0 /\ k # n + 1
      <4>1. k \in 0..n /\ k - 1 \in 0..n
        BY <3>2
      <4>2. sum[k] = sum[k - 1] + g[k - 1]
        BY <2>1, <3>2, <4>1 DEF IsSum
      <4> QED
        BY <3>2, <4>1, <4>2
    <3>3. CASE k = n + 1
      <4>1. k - 1 = n /\ h[n] = sum[n]
        BY <3>3
      <4> QED
        BY <3>3, <4>1
    <3> QED
      BY <3>1, <3>2, <3>3
  <2>3. IsSum(h, g, n + 1)
    <3>1. h = [k \in 0..(n + 1) |-> h[k]]
      OBVIOUS
    <3> HIDE DEF h
    <3> QED
      BY <2>2, <3>1 DEF IsSum
  <2> QED
    BY <2>3
<1>3. S = Nat
  <2> HIDE DEF S
  <2>1. S \subseteq Nat
    BY DEF S
  <2> QED
    BY <1>1, <1>2, <2>1, Induction
<1> QED
  BY <1>3

(* What division by a positive number rounds to.                           *)
LEMMA Div ==
  ASSUME NEW a \in Nat, NEW b \in Nat \ {0}
  PROVE  /\ a \div b \in Nat
         /\ b * (a \div b) <= a
         /\ a < b * (a \div b) + b
OBVIOUS

(* The instance counts like FiniteSets.                                    *)
LEMMA SameCardinality == \A S : Keyring!Cardinality(S) = Cardinality(S)
BY DEF Keyring!Cardinality, Cardinality

-----------------------------------------------------------------------------
(* Sizes.                                                                  *)

(* A document has a size, which the number of keys bounds.                 *)
LEMMA SizeBounds ==
  ASSUME NEW d \in Snapshot
  PROVE  Keyring!Size(d) \in 1..(Cardinality(Key) + 1) /\ Cardinality(Key) \in Nat
<1> DEFINE K == {k \in Key : d[k] # NoValue}
<1>1. Cardinality(K) \in Nat /\ Cardinality(Key) \in Nat /\ Cardinality(K) <= Cardinality(Key)
  BY KeyringAssumption, FS_Subset, FS_CardinalityType
<1> QED
  BY <1>1, SameCardinality DEF Keyring!Size

(* The keyring has entries from 0 on, enough for every document.           *)
LEMMA Entries ==
  /\ Cardinality(Keyring!Entry) \in Nat \ {0}
  /\ Keyring!Entry = 0..(Cardinality(Keyring!Entry) - 1)
  /\ \A d \in Snapshot : Keyring!Chunks(d) \in 1..Cardinality(Keyring!Entry)
<1> DEFINE e == (Cardinality(Key) + Capacity) \div Capacity
<1>1. Cardinality(Key) \in Nat /\ Capacity \in Nat \ {0}
  BY KeyringAssumption, FS_CardinalityType
<1>2. e \in Nat \ {0}
  BY <1>1, Div
<1>3. Keyring!Entry = 0..(e - 1)
  BY SameCardinality DEF Keyring!Entry
<1>4. Cardinality(Keyring!Entry) = e
  <2> HIDE DEF e
  <2> QED
    BY <1>2, <1>3, FS_Interval
<1>5. ASSUME NEW d \in Snapshot
      PROVE  Keyring!Chunks(d) \in 1..e
  <2> DEFINE c == Keyring!Size(d)
  <2>1. c \in 1..(Cardinality(Key) + 1)
    BY SizeBounds
  <2> HIDE DEF c
  <2>2. (c + Capacity - 1) \div Capacity \in 1..e
    <3>1. c + Capacity - 1 \in Nat /\ Cardinality(Key) + Capacity \in Nat
      BY <1>1, <2>1
    <3> DEFINE m == (c + Capacity - 1) \div Capacity
    <3>2. m \in Nat /\ Capacity * m <= c + Capacity - 1 /\ c + Capacity - 1 < Capacity * m + Capacity
      BY <1>1, <3>1, Div
    <3>3. e \in Nat /\ Cardinality(Key) + Capacity < Capacity * e + Capacity
      BY <1>1, <3>1, Div
    <3> HIDE DEF m, e
    <3>4. m # 0
      BY <1>1, <2>1, <3>2
    <3>5. m <= e
      <4>1. Capacity * m < Capacity * e + Capacity
        BY <1>1, <2>1, <3>2, <3>3
      <4>2. Capacity * m < Capacity * (e + 1)
        BY <1>1, <3>2, <3>3, <4>1
      <4> QED
        BY <1>1, <3>2, <3>3, <4>2
    <3> QED
      BY <3>2, <3>3, <3>4, <3>5 DEF m
  <2> QED
    BY <2>2 DEF Keyring!Chunks, c
<1> QED
  BY <1>2, <1>3, <1>4, <1>5

(* A document fills all of its chunks but the last.                        *)
LEMMA ChunksFit ==
  ASSUME NEW d \in Snapshot, NEW n \in 0..Keyring!Chunks(d)
  PROVE  /\ Keyring!Chunks(d) \in Nat /\ Keyring!Size(d) \in Nat
         /\ n # Keyring!Chunks(d) <=> n * Capacity < Keyring!Size(d)
<1> DEFINE c == Keyring!Size(d)
           m == (c + Capacity - 1) \div Capacity
<1>1. c \in Nat /\ c # 0 /\ Capacity \in Nat \ {0}
  BY SizeBounds, KeyringAssumption
<1> HIDE DEF c
<1>2. c + Capacity - 1 \in Nat
  BY <1>1
<1>3. m \in Nat /\ Capacity * m <= c + Capacity - 1 /\ c + Capacity - 1 < Capacity * m + Capacity
  BY <1>1, <1>2, Div
<1>4. Keyring!Chunks(d) = m
  BY DEF Keyring!Chunks, c
<1> HIDE DEF m
<1>5. CASE n = m
  BY <1>1, <1>3, <1>4, <1>5 DEF c
<1>6. CASE n # m
  <2>1. n \in Nat /\ n + 1 <= m
    BY <1>3, <1>4, <1>6
  <2>2. Capacity * (n + 1) <= Capacity * m
    BY <1>1, <1>3, <2>1
  <2>3. Capacity * (n + 1) = n * Capacity + Capacity
    BY <1>1, <2>1
  <2> QED
    BY <1>1, <1>3, <1>4, <1>6, <2>1, <2>2, <2>3 DEF c
<1> QED
  BY <1>5, <1>6

(* BytesRead adds the sizes of the chunks, one after another.              *)
LEMMA BytesAddUp ==
  ASSUME NEW r, NEW n \in 0..Cardinality(Keyring!Entry)
  PROVE  Keyring!BytesRead(r)[n] = IF n = 0 THEN 0
           ELSE Keyring!BytesRead(r)[n - 1] + Keyring!ChunkSize(r[n - 1], n - 1)
<1> DEFINE c == Cardinality(Keyring!Entry)
           g == [i \in 0..c |-> Keyring!ChunkSize(r[i], i)]
<1>1. c \in Nat
  BY Entries
<1>2. PICK f : IsSum(f, g, c)
  <2> HIDE DEF c, g
  <2> QED
    BY <1>1, SumExists
<1>3. f = [k \in 0..c |-> IF k = 0 THEN 0 ELSE f[k - 1] + Keyring!ChunkSize(r[k - 1], k - 1)]
  BY <1>1, <1>2 DEF IsSum
<1>4. Keyring!BytesRead(r) =
        [k \in 0..c |-> IF k = 0 THEN 0
           ELSE Keyring!BytesRead(r)[k - 1] + Keyring!ChunkSize(r[k - 1], k - 1)]
  BY <1>3, SameCardinality DEF Keyring!BytesRead
<1> QED
  BY <1>4

-----------------------------------------------------------------------------
(* Split and join.                                                         *)

HoldsChunks(r, d, n) == \A i \in 0..(n - 1) : r[i] = d

(* As long as the chunks are of one document, what is read of it is the    *)
(* full capacity of each, and in the end its whole length.                 *)
LEMMA BytesOfDocument ==
  ASSUME NEW r, NEW d \in Snapshot, HoldsChunks(r, d, Keyring!Chunks(d))
  PROVE  \A n \in 0..Keyring!Chunks(d) :
           Keyring!BytesRead(r)[n] = IF n = Keyring!Chunks(d) THEN Keyring!Size(d) ELSE n * Capacity
<1> DEFINE m == Keyring!Chunks(d)
           S == {n \in Nat : n <= m => Keyring!BytesRead(r)[n] =
                               IF n = m THEN Keyring!Size(d) ELSE n * Capacity}
<1>1. /\ m \in 1..Cardinality(Keyring!Entry) /\ Cardinality(Keyring!Entry) \in Nat
      /\ Keyring!Size(d) \in Nat /\ Capacity \in Nat \ {0}
  BY Entries, SizeBounds, KeyringAssumption, NoDataAssumption
<1>2. 0 \in S
  <2>1. Keyring!BytesRead(r)[0] = 0
    BY <1>1, BytesAddUp
  <2> HIDE DEF m
  <2> QED
    BY <1>1, <2>1
<1>3. ASSUME NEW n \in S
      PROVE  n + 1 \in S
  <2> SUFFICES ASSUME n + 1 <= m
               PROVE  Keyring!BytesRead(r)[n + 1] =
                        IF n + 1 = m THEN Keyring!Size(d) ELSE (n + 1) * Capacity
    OBVIOUS
  <2>1. n \in 0..(m - 1) /\ n + 1 \in 0..m /\ n \in 0..m /\ n + 1 \in 0..Cardinality(Keyring!Entry)
    BY <1>1
  <2>2. Keyring!BytesRead(r)[n] = n * Capacity
    BY <1>1, <2>1
  <2>3. r[n] = d
    BY <2>1 DEF HoldsChunks
  <2>4. Keyring!BytesRead(r)[n + 1] = n * Capacity + Keyring!ChunkSize(d, n)
    BY <2>1, <2>2, <2>3, BytesAddUp
  <2>5. n + 1 # m <=> (n + 1) * Capacity < Keyring!Size(d)
    BY <2>1, ChunksFit
  <2>6. n * Capacity \in Nat /\ (n + 1) * Capacity = n * Capacity + Capacity
    BY <1>1, <2>1
  <2>7. Keyring!ChunkSize(d, n) =
          IF n + 1 = m THEN Keyring!Size(d) - n * Capacity ELSE Capacity
    BY <1>1, <2>5, <2>6 DEF Keyring!ChunkSize
  <2> HIDE DEF m
  <2> QED
    BY <1>1, <2>4, <2>6, <2>7
<1>4. S = Nat
  <2> HIDE DEF S
  <2>1. S \subseteq Nat
    BY DEF S
  <2> QED
    BY <1>2, <1>3, <2>1, Induction
<1> QED
  BY <1>4

(* joinAndGetKeyringData undoes splitAndSetStorageData, whatever is in the *)
(* entries after the document's.                                           *)
LEMMA JoinOfSplit ==
  ASSUME NEW r, NEW d \in Snapshot, HoldsChunks(r, d, Keyring!Chunks(d))
  PROVE  Keyring!Join(r) = {d}
<1> DEFINE m == Keyring!Chunks(d)
           Present(n) == \A i \in 0..(n-1) : r[i] # NoData
           enough == {n \in 1..Cardinality(Keyring!Entry) :
                        Present(n) /\ Keyring!BytesRead(r)[n] >= Keyring!Size(r[0])}
           first == CHOOSE n \in enough : \A k \in enough : n <= k
<1>1. /\ m \in 1..Cardinality(Keyring!Entry) /\ Cardinality(Keyring!Entry) \in Nat
      /\ Keyring!Size(d) \in Nat /\ d # NoData
  BY Entries, SizeBounds, KeyringAssumption, NoDataAssumption
<1>2. r[0] = d
  BY <1>1 DEF HoldsChunks
<1>3. Keyring!BytesRead(r)[m] = Keyring!Size(d)
  BY <1>1, BytesOfDocument
<1>4. m \in enough
  BY <1>1, <1>2, <1>3 DEF HoldsChunks
<1>5. ASSUME NEW n \in enough
      PROVE  m <= n
  <2> SUFFICES ASSUME n < m
               PROVE  FALSE
    BY <1>1
  <2>1. n \in 0..m /\ n # m
    BY <1>1
  <2>2. Keyring!BytesRead(r)[n] = n * Capacity /\ n * Capacity < Keyring!Size(d)
    BY <2>1, BytesOfDocument, ChunksFit
  <2>3. n * Capacity \in Nat
    BY <2>1, KeyringAssumption
  <2> QED
    BY <1>1, <1>2, <2>2, <2>3
<1>6. first = m
  <2>1. first \in enough /\ \A k \in enough : first <= k
    <3> HIDE DEF enough
    <3> QED
      BY <1>4, <1>5
  <2> HIDE DEF first
  <2>2. first \in Nat /\ m \in Nat
    BY <1>1, <2>1
  <2>3. m <= first
    BY <1>5, <2>1
  <2>4. first <= m
    BY <1>4, <2>1
  <2> QED
    BY <2>2, <2>3, <2>4
<1>7. Keyring!Join(r) = {r[i] : i \in 0..(m - 1)}
  <2>1. Keyring!Join(r) =
          IF enough = {} \/ Keyring!BytesRead(r)[first] # Keyring!Size(r[0]) THEN {}
          ELSE {r[i] : i \in 0..(first - 1)}
    BY <1>1, <1>2, SameCardinality DEF Keyring!Join
  <2> HIDE DEF enough, first
  <2> QED
    BY <1>2, <1>3, <1>4, <1>6, <2>1
<1> QED
  BY <1>1, <1>7 DEF HoldsChunks

-----------------------------------------------------------------------------
(* The inductive invariant of the keyring.                                 *)

(* Who reads or writes the keyring has the lock for it.                    *)
RingLocked ==
  /\ \A p \in Proc : ringPc[p] = "reading" <=> p \in shared
  /\ \A p \in Proc : ringPc[p] = "writing" <=> p \in exclusive
  /\ \A p \in exclusive : shared = {} /\ exclusive = {p}

(* A save that has come to an entry has written those before it.           *)
RingWritten ==
  \A p \in Proc : ringPc[p] = "writing" =>
    /\ next[p] < Keyring!Chunks(ringMem[p])
    /\ HoldsChunks(ring, ringMem[p], next[p])

(* Between two saves the keyring holds the last one whole.                 *)
RingCommitted ==
  ~damaged /\ (\A p \in Proc : ringPc[p] = "writing" => next[p] = 0) =>
    IF committed = NoData THEN ring[0] = NoData
    ELSE HoldsChunks(ring, committed, Keyring!Chunks(committed))

RingInv == Keyring!TypeOK /\ RingLocked /\ RingWritten /\ RingCommitted

-----------------------------------------------------------------------------
(* The keyring is empty at first.                                          *)
LEMMA RingInvInit == Keyring!Init => RingInv
<1> SUFFICES ASSUME Keyring!Init
             PROVE  RingInv
  OBVIOUS
<1>1. NewStorageData \in Snapshot /\ 0 \in Keyring!Entry
  BY Snapshots, Entries
<1>2. Keyring!TypeOK
  BY <1>1 DEF Keyring!Init, Keyring!LockInit, Keyring!TypeOK, Keyring!LockTypeOK,
              Keyring!Snapshot, Snapshot, Keyring!NewStorageData, NewStorageData
<1>3. RingLocked /\ RingWritten /\ RingCommitted
  BY <1>1 DEF Keyring!Init, Keyring!LockInit, RingLocked, RingWritten, RingCommitted
<1> QED
  BY <1>2, <1>3 DEF RingInv

(* A step of one execution that touches neither the entries nor the        *)
(* history of the keyring.                                                 *)
LEMMA RingOthers ==
  ASSUME RingInv, NEW p \in Proc, NEW l \in {"closed", "openWait", "reading", "idle", "saveWait"},
         Keyring!Goto(p, l), ringMem' \in [Proc -> Snapshot],
         \A q \in Proc \ {p} : ringMem'[q] = ringMem[q],
         UNCHANGED <<next, ring, committed, damaged>>,
         ringPc[p] # "writing",
         \/ l # "reading" /\ Keyring!Unlock(p)
         \/ l # "reading" /\ ringPc[p] # "reading" /\ UNCHANGED <<shared, exclusive>>
         \/ l = "reading" /\ Keyring!LockShared(p)
  PROVE  RingInv'
<1> USE DEF RingInv
<1>1. Keyring!TypeOK'
  BY DEF Keyring!TypeOK, Keyring!LockTypeOK, Keyring!Goto, Keyring!Unlock, Keyring!LockShared,
         Keyring!Snapshot, Snapshot
<1>2. /\ ringPc'[p] = l
      /\ \A q \in Proc \ {p} : ringPc'[q] = ringPc[q]
  BY DEF Keyring!TypeOK, Keyring!Goto
<1>3. RingLocked'
  BY <1>2 DEF RingLocked, Keyring!TypeOK, Keyring!LockTypeOK, Keyring!Unlock, Keyring!LockShared,
              Keyring!CanLockShared
<1>4. RingWritten'
  BY <1>2 DEF RingWritten
<1>5. RingCommitted'
  BY <1>2 DEF RingCommitted
<1> QED
  BY <1>1, <1>3, <1>4, <1>5

(* Opening reads under the shared lock, or finds nothing.                  *)
LEMMA OpensKeepRing ==
  ASSUME RingInv, NEW p \in Proc,
         \/ Keyring!Open(p) \/ Keyring!OpenLocked(p) \/ Keyring!ReadData(p)
         \/ Keyring!ReadGarbage(p) \/ Keyring!OpenEmpty(p) \/ Keyring!SaveTimesOut(p)
  PROVE  RingInv'
<1> USE DEF Keyring!lockVars
<1>1. ringMem \in [Proc -> Snapshot] /\ ringPc \in [Proc -> {"closed", "openWait", "reading", "idle", "saveWait", "writing"}]
  BY DEF RingInv, Keyring!TypeOK, Keyring!Snapshot, Snapshot
<1>2. \A d \in Snapshot : [ringMem EXCEPT ![p] = d] \in [Proc -> Snapshot]
  BY <1>1
<1>3. CASE Keyring!Open(p)
  BY <1>1, <1>3, RingOthers DEF Keyring!Open
<1>4. CASE Keyring!OpenLocked(p)
  BY <1>1, <1>4, RingOthers DEF Keyring!OpenLocked
<1>5. CASE Keyring!ReadData(p)
  <2>1. PICK d \in Snapshot : ringMem' = [ringMem EXCEPT ![p] = d]
    BY <1>5 DEF Keyring!ReadData, Keyring!Splices, Keyring!Snapshot, Snapshot
  <2> QED
    BY <1>1, <1>2, <1>5, <2>1, RingOthers DEF Keyring!ReadData
<1>6. CASE Keyring!ReadGarbage(p)
  BY <1>1, <1>6, RingOthers DEF Keyring!ReadGarbage
<1>7. CASE Keyring!OpenEmpty(p)
  <2>1. ringMem' = [ringMem EXCEPT ![p] = NewStorageData]
    BY <1>7 DEF Keyring!OpenEmpty, Keyring!NewStorageData, NewStorageData
  <2> QED
    BY <1>1, <1>2, <1>7, <2>1, Snapshots, RingOthers DEF Keyring!OpenEmpty
<1>8. CASE Keyring!SaveTimesOut(p)
  BY <1>1, <1>8, RingOthers DEF Keyring!SaveTimesOut
<1> QED
  BY <1>3, <1>4, <1>5, <1>6, <1>7, <1>8

(* An edit of the copy in memory.                                          *)
LEMMA EditsKeepRing ==
  ASSUME RingInv, NEW p \in Proc, NEW k \in Key,
         Keyring!Delete(p, k) \/ \E v \in Value : Keyring!Save(p, k, v)
  PROVE  RingInv'
<1>1. ringMem \in [Proc -> Snapshot]
  BY DEF RingInv, Keyring!TypeOK, Keyring!Snapshot, Snapshot
<1>2. PICK d \in Snapshot : Keyring!Edit(p, d)
  <2>1. /\ Keyring!DeleteEntry(ringMem[p], k) \in Snapshot
        /\ \A v \in Value : Keyring!SaveEntry(ringMem[p], k, v) \in Snapshot
    BY <1>1, Snapshots DEF Keyring!DeleteEntry, DeleteEntry, Keyring!SaveEntry, SaveEntry
  <2> QED
    BY <2>1 DEF Keyring!Delete, Keyring!Save
<1>3. [ringMem EXCEPT ![p] = d] \in [Proc -> Snapshot]
  BY <1>1
<1> QED
  BY <1>1, <1>2, <1>3, RingOthers DEF Keyring!Edit, Keyring!lockVars

(* A save begins once it holds the lock alone.                             *)
LEMMA SaveLockedKeepsRing ==
  ASSUME RingInv, NEW p \in Proc, Keyring!SaveLocked(p)
  PROVE  RingInv'
<1> USE DEF RingInv, Keyring!SaveLocked, Keyring!LockExclusive, Keyring!CanLockExclusive, Keyring!Goto
<1>1. 0 \in Keyring!Entry
  BY Entries
<1>2. Keyring!TypeOK'
  BY <1>1 DEF Keyring!TypeOK, Keyring!LockTypeOK
<1>3. /\ ringPc'[p] = "writing" /\ next'[p] = 0
      /\ \A q \in Proc \ {p} : ringPc'[q] = ringPc[q] /\ next'[q] = next[q]
      /\ \A q \in Proc \ {p} : ringPc[q] # "writing"
  BY DEF Keyring!TypeOK, RingLocked
<1>4. RingLocked'
  BY <1>3 DEF RingLocked, Keyring!TypeOK, Keyring!LockTypeOK
<1>5. RingWritten'
  <2>1. Keyring!Chunks(ringMem[p]) \in Nat \ {0}
    BY Entries DEF Keyring!TypeOK, Keyring!Snapshot, Snapshot
  <2> QED
    BY <1>3, <2>1 DEF RingWritten, HoldsChunks
<1>6. RingCommitted'
  BY <1>3 DEF RingCommitted
<1> QED
  BY <1>2, <1>4, <1>5, <1>6

(* Nobody else reads or writes the keyring while an execution writes it.   *)
LEMMA WriterAlone ==
  ASSUME RingInv, NEW p \in Proc, ringPc[p] = "writing"
  PROVE  \A q \in Proc \ {p} : ringPc[q] \notin {"reading", "writing"}
BY DEF RingInv, RingLocked

(* One chunk is written; the last one makes the save complete.             *)
LEMMA WriteKeepsRing ==
  ASSUME RingInv, NEW p \in Proc, Keyring!WriteChunk(p)
  PROVE  RingInv'
<1> DEFINE i == next[p]
           m == Keyring!Chunks(ringMem[p])
<1> USE DEF RingInv, Keyring!Goto, Keyring!Unlock, Keyring!lockVars
<1>1. /\ ringPc[p] = "writing" /\ ringMem' = ringMem
      /\ ring' = [ring EXCEPT ![i] = ringMem[p]]
      /\ IF i + 1 < m
         THEN /\ next' = [next EXCEPT ![p] = i + 1]
              /\ UNCHANGED <<shared, exclusive, ringPc, committed, damaged>>
         ELSE /\ committed' = ringMem[p] /\ damaged' = FALSE
              /\ Keyring!Goto(p, "idle") /\ Keyring!Unlock(p)
              /\ next' = next
  BY DEF Keyring!WriteChunk
<1>2. /\ ringMem[p] \in Snapshot /\ ringMem[p] # NoData
      /\ i \in Nat /\ m \in 1..Cardinality(Keyring!Entry) /\ i < m
      /\ i \in Keyring!Entry /\ (i + 1 < m => i + 1 \in Keyring!Entry)
      /\ Cardinality(Keyring!Entry) \in Nat
  <2>1. ringMem[p] \in Snapshot /\ i \in Keyring!Entry
    BY DEF Keyring!TypeOK, Keyring!Snapshot, Snapshot
  <2>2. i < m
    BY <1>1 DEF RingWritten
  <2>3. /\ m \in 1..Cardinality(Keyring!Entry)
        /\ Cardinality(Keyring!Entry) \in Nat
        /\ Keyring!Entry = 0..(Cardinality(Keyring!Entry) - 1)
    BY <2>1, Entries
  <2> HIDE DEF m, i
  <2> QED
    BY <2>1, <2>2, <2>3, KeyringAssumption, NoDataAssumption
<1> HIDE DEF m, i
<1>3. Keyring!TypeOK'
  <2>1. ring' \in [Keyring!Entry -> Keyring!Snapshot \union {NoData}]
    BY <1>1, <1>2 DEF Keyring!TypeOK, Keyring!Snapshot, Snapshot
  <2>2. next' \in [Proc -> Keyring!Entry]
    BY <1>1, <1>2 DEF Keyring!TypeOK
  <2> QED
    BY <1>1, <1>2, <2>1, <2>2 DEF Keyring!TypeOK, Keyring!LockTypeOK, Keyring!Snapshot, Snapshot
<1>4. HoldsChunks(ring', ringMem[p], i + 1)
  <2>1. HoldsChunks(ring, ringMem[p], i)
    BY <1>1 DEF RingWritten, i
  <2>2. ASSUME NEW j \in 0..i
        PROVE  ring'[j] = ringMem[p]
    <3>1. j \in Keyring!Entry
      BY <1>2, Entries
    <3> QED
      BY <1>1, <1>2, <2>1, <3>1 DEF HoldsChunks, Keyring!TypeOK
  <2> QED
    BY <1>2, <2>2 DEF HoldsChunks
<1>5. \A q \in Proc \ {p} : ringPc[q] \notin {"reading", "writing"}
  BY <1>1, WriterAlone
<1>6. CASE i + 1 < m
  <2>1. next'[p] = i + 1
    BY <1>1, <1>6 DEF Keyring!TypeOK
  <2>2. RingLocked'
    BY <1>1, <1>6 DEF RingLocked
  <2>3. RingWritten'
    BY <1>1, <1>4, <1>5, <1>6, <2>1 DEF RingWritten, m
  <2>4. RingCommitted'
    BY <1>1, <1>2, <1>6, <2>1 DEF RingCommitted
  <2> QED
    BY <1>3, <2>2, <2>3, <2>4
<1>7. CASE ~(i + 1 < m)
  <2>1. i + 1 = m
    BY <1>2, <1>7
  <2>2. /\ ringPc'[p] = "idle"
        /\ \A q \in Proc \ {p} : ringPc'[q] = ringPc[q]
        /\ committed' = ringMem[p]
    BY <1>1, <1>7 DEF Keyring!TypeOK
  <2>3. RingLocked'
    BY <1>1, <1>5, <1>7, <2>2 DEF RingLocked
  <2>4. RingWritten'
    BY <1>5, <2>2 DEF RingWritten
  <2>5. RingCommitted'
    BY <1>2, <1>4, <2>1, <2>2 DEF RingCommitted, m
  <2> QED
    BY <1>3, <2>3, <2>4, <2>5
<1> QED
  BY <1>6, <1>7

(* A save that is cut short has either written nothing or damaged it.      *)
LEMMA InterruptionsKeepRing ==
  ASSUME RingInv, NEW p \in Proc, Keyring!WriteFails(p) \/ Keyring!Exit(p)
  PROVE  RingInv'
<1> USE DEF RingInv, Keyring!Goto, Keyring!Unlock, Keyring!Interrupted
<1>1. PICK l \in {"idle", "closed"} :
        /\ ringPc' = [ringPc EXCEPT ![p] = l]
        /\ damaged' = (damaged \/ (ringPc[p] = "writing" /\ next[p] > 0))
        /\ Keyring!Unlock(p) /\ UNCHANGED <<ring, committed>>
        /\ ringMem' \in {ringMem, [ringMem EXCEPT ![p] = NewStorageData]}
        /\ next' \in {next, [next EXCEPT ![p] = 0]}
  BY DEF Keyring!WriteFails, Keyring!Exit, Keyring!NewStorageData, NewStorageData
<1>2. Keyring!TypeOK'
  <2>1. 0 \in Keyring!Entry /\ NewStorageData \in Keyring!Snapshot
    BY Entries, Snapshots DEF Keyring!Snapshot, Snapshot
  <2> QED
    BY <1>1, <2>1 DEF Keyring!TypeOK, Keyring!LockTypeOK
<1>3. /\ ringPc'[p] = l
      /\ \A q \in Proc \ {p} : ringPc'[q] = ringPc[q] /\ ringMem'[q] = ringMem[q] /\ next'[q] = next[q]
      /\ next[p] \in Nat
  BY <1>1, Entries DEF Keyring!TypeOK
<1>4. RingLocked'
  BY <1>1, <1>3 DEF RingLocked
<1>5. RingWritten'
  BY <1>1, <1>3 DEF RingWritten
<1>6. RingCommitted'
  <2> SUFFICES ASSUME ~damaged'
               PROVE  ~damaged /\ (ringPc[p] = "writing" => next[p] = 0)
    BY <1>1, <1>3 DEF RingCommitted
  <2>1. ~(damaged \/ (ringPc[p] = "writing" /\ next[p] > 0))
    BY <1>1
  <2> QED
    BY <1>3, <2>1
<1> QED
  BY <1>2, <1>4, <1>5, <1>6

(* The invariant holds after each step.                                    *)
LEMMA RingInvNext == RingInv /\ [StoreNext]_storeVars => RingInv'
<1> SUFFICES ASSUME RingInv, [StoreNext]_storeVars
             PROVE  RingInv'
  OBVIOUS
<1>1. CASE UNCHANGED ringVars
  <2> USE <1>1 DEF ringVars, RingInv
  <2>1. Keyring!TypeOK'
    BY DEF Keyring!TypeOK, Keyring!LockTypeOK
  <2>2. RingLocked' /\ RingWritten' /\ RingCommitted'
    BY DEF RingLocked, RingWritten, RingCommitted
  <2> QED
    BY <2>1, <2>2
<1>2. CASE Keyring!Next
  BY <1>2, OpensKeepRing, EditsKeepRing, SaveLockedKeepsRing, WriteKeepsRing, InterruptionsKeepRing
     DEF Keyring!Next
<1> QED
  BY <1>1, <1>2 DEF StoreNext, storeVars

(***************************************************************************)
(* The keyring, on machines with any number of executions, any documents   *)
(* and entries of any length: as long as no save was cut short, an         *)
(* execution that reads the keyring under its lock puts together the last  *)
(* document saved (splitAndSetStorageData, joinAndGetKeyringData).         *)
(***************************************************************************)
THEOREM SplitIsJoined == StoreSpec => []KeyringInv
<1>1. StoreInit => RingInv
  BY RingInvInit DEF StoreInit
<1>2. RingInv => KeyringInv
  <2> SUFFICES ASSUME RingInv, NEW p \in Proc, ringPc[p] = "reading", ~damaged
               PROVE  Keyring!Join(ring) = IF committed = NoData THEN {} ELSE {committed}
    BY DEF RingInv, KeyringInv, Keyring!ReadersJoinCommitted
  <2>1. \A q \in Proc : ringPc[q] # "writing"
    BY DEF RingInv, RingLocked
  <2>2. CASE committed = NoData
    BY <2>1, <2>2 DEF RingInv, RingCommitted, Keyring!Join
  <2>3. CASE committed # NoData
    <3>1. committed \in Snapshot
      BY <2>3 DEF RingInv, Keyring!TypeOK, Keyring!Snapshot, Snapshot
    <3>2. HoldsChunks(ring, committed, Keyring!Chunks(committed))
      BY <2>1, <2>3 DEF RingInv, RingCommitted
    <3> QED
      BY <2>3, <3>1, <3>2, JoinOfSplit
  <2> QED
    BY <2>2, <2>3
<1> QED
  BY <1>1, <1>2, RingInvNext, PTL DEF StoreSpec

-----------------------------------------------------------------------------
(* The 1Password vault: its inductive invariant.                           *)

(* The itemID of a store is empty or names an item of the vault.           *)
ItemInv ==
  /\ \A p \in Proc : pc[p] = "listed" => itemID[p] # NoItem
  /\ \A p \in Proc : pc[p] = "closed" => itemID[p] = NoItem
  /\ \A p \in Proc : itemID[p] # NoItem => itemID[p] \in items

(* A store's version is never ahead of the service's.                      *)
VersionInv == \A p \in Proc : Loaded(p) => version[p] <= current[itemID[p]]

IInv == TypeOK /\ ItemInv /\ VersionInv /\ CurrentCopyAgrees

USE DEF PC, Goto, service, session

(* No store is open and the vault has no item.                             *)
LEMMA InitIInv == Init => IInv
  BY Snapshots, NoItemAssumption
  DEF Init, IInv, TypeOK, ItemInv, VersionInv, CurrentCopyAgrees, Loaded

(* What Save* and Delete* do to the store is an Edit of one key.           *)
LEMMA CallsEdit ==
  ASSUME TypeOK, NEW p \in Proc, NEW k \in Key,
         Delete(p, k) \/ \E v \in Value : Save(p, k, v)
  PROVE  \E copy \in Snapshot :
           /\ Edit(p, k, copy)
           /\ \A j \in Key \ {k} : copy[j] = mem[p][j]
  <1>1. ASSUME Delete(p, k)
        PROVE  \E copy \in Snapshot : Edit(p, k, copy) /\ \A j \in Key \ {k} : copy[j] = mem[p][j]
    <2>1. DeleteEntry(mem[p], k) \in Snapshot
      BY Snapshots DEF TypeOK
    <2>2. \A j \in Key \ {k} : DeleteEntry(mem[p], k)[j] = mem[p][j]
      BY DEF DeleteEntry, TypeOK, Snapshot
    <2> QED
      BY <1>1, <2>1, <2>2 DEF Delete
  <1>2. ASSUME NEW v \in Value, Save(p, k, v)
        PROVE  \E copy \in Snapshot : Edit(p, k, copy) /\ \A j \in Key \ {k} : copy[j] = mem[p][j]
    <2>1. SaveEntry(mem[p], k, v) \in Snapshot
      BY Snapshots DEF TypeOK
    <2>2. \A j \in Key \ {k} : SaveEntry(mem[p], k, v)[j] = mem[p][j]
      BY DEF SaveEntry, TypeOK, Snapshot
    <2> QED
      BY <1>2, <2>1, <2>2 DEF Save
  <1> QED
    BY <1>1, <1>2

(* Every step keeps the types.                                             *)
LEMMA NextType == TypeOK /\ ItemInv /\ [Next]_vars => TypeOK'
  <1> SUFFICES ASSUME TypeOK, ItemInv, [Next]_vars PROVE TypeOK'
    OBVIOUS
  <1> USE DEF TypeOK
  <1>1. ASSUME NEW p \in Proc, List(p) PROVE TypeOK'
    BY <1>1 DEF List
  <1>2. ASSUME NEW p \in Proc, Get(p) PROVE TypeOK'
    BY <1>2 DEF Get, ItemInv
  <1>3. ASSUME NEW p \in Proc, NEW k \in Key, NEW copy \in Snapshot, Edit(p, k, copy)
        PROVE  TypeOK'
    BY <1>3 DEF Edit
  <1>4. ASSUME NEW p \in Proc, NEW i \in ItemId, ServiceCreate(p, i)
        PROVE  /\ items' \subseteq ItemId /\ current' \in [ItemId -> Nat]
               /\ data' \in [ItemId -> Snapshot]
    BY <1>4 DEF ServiceCreate
  <1>5. ASSUME NEW p \in Proc, itemID[p] # NoItem, ServicePut(p)
        PROVE  /\ items' \subseteq ItemId /\ current' \in [ItemId -> Nat]
               /\ data' \in [ItemId -> Snapshot]
    BY <1>5 DEF ServicePut
  <1>6. ASSUME NEW p \in Proc, Create(p) PROVE TypeOK'
    BY <1>4, <1>6 DEF Create
  <1>7. ASSUME NEW p \in Proc, Put(p) PROVE TypeOK'
    BY <1>5, <1>7 DEF Put
  <1>8. ASSUME NEW p \in Proc, Conflict(p) PROVE TypeOK'
    BY <1>8 DEF Conflict
  <1>9. ASSUME NEW p \in Proc, CallFails(p) PROVE TypeOK'
    BY <1>4, <1>5, <1>9 DEF CallFails
  <1>10. ASSUME NEW p \in Proc, Exit(p) PROVE TypeOK'
    BY <1>10, Snapshots DEF Exit
  <1>11. CASE UNCHANGED vars
    BY <1>11 DEF vars
  <1> QED
    BY <1>1, <1>2, <1>3, <1>6, <1>7, <1>8, <1>9, <1>10, <1>11, CallsEdit DEF Next

(* Every step keeps the items and versions that the stores know in line    *)
(* with the service's.                                                     *)
LEMMA NextItems == IInv /\ [Next]_vars => ItemInv' /\ VersionInv'
  <1> SUFFICES ASSUME IInv, [Next]_vars PROVE ItemInv' /\ VersionInv'
    OBVIOUS
  <1> USE DEF IInv, TypeOK, ItemInv, VersionInv, Loaded
  <1>1. ASSUME NEW p \in Proc, List(p) PROVE ItemInv' /\ VersionInv'
    BY <1>1, NoItemAssumption DEF List
  <1>2. ASSUME NEW p \in Proc, Get(p) PROVE ItemInv' /\ VersionInv'
    BY <1>2 DEF Get
  <1>3. ASSUME NEW p \in Proc, NEW k \in Key, NEW copy \in Snapshot, Edit(p, k, copy)
        PROVE  ItemInv' /\ VersionInv'
    BY <1>3 DEF Edit
  <1>4. ASSUME NEW p \in Proc, Create(p) PROVE ItemInv' /\ VersionInv'
    BY <1>4, NoItemAssumption DEF Create, ServiceCreate
  <1>5. ASSUME NEW p \in Proc, Put(p) PROVE ItemInv' /\ VersionInv'
    BY <1>5 DEF Put, ServicePut
  <1>6. ASSUME NEW p \in Proc, Conflict(p) PROVE ItemInv' /\ VersionInv'
    BY <1>6 DEF Conflict
  <1>7. ASSUME NEW p \in Proc, CallFails(p) PROVE ItemInv' /\ VersionInv'
    BY <1>7 DEF CallFails, ServiceCreate, ServicePut
  <1>8. ASSUME NEW p \in Proc, Exit(p) PROVE ItemInv' /\ VersionInv'
    BY <1>8 DEF Exit
  <1>9. CASE UNCHANGED vars
    BY <1>9 DEF vars
  <1> QED
    BY <1>1, <1>2, <1>3, <1>4, <1>5, <1>6, <1>7, <1>8, <1>9, CallsEdit DEF Next

(* Every step keeps current copies in agreement with their items: a write  *)
(* of one execution makes every other copy of that item stale.             *)
LEMMA NextAgrees == IInv /\ [Next]_vars => CurrentCopyAgrees'
  <1> SUFFICES ASSUME IInv, [Next]_vars PROVE CurrentCopyAgrees'
    OBVIOUS
  <1> USE DEF IInv, TypeOK, ItemInv, VersionInv, CurrentCopyAgrees, Loaded, Stale
  <1>1. ASSUME NEW p \in Proc, List(p) PROVE CurrentCopyAgrees'
    BY <1>1 DEF List
  <1>2. ASSUME NEW p \in Proc, Get(p) PROVE CurrentCopyAgrees'
    BY <1>2 DEF Get
  <1>3. ASSUME NEW p \in Proc, NEW k \in Key, NEW copy \in Snapshot, Edit(p, k, copy),
               \A j \in Key \ {k} : copy[j] = mem[p][j]
        PROVE  CurrentCopyAgrees'
    BY <1>3 DEF Edit
  <1>4. ASSUME NEW p \in Proc, Create(p) PROVE CurrentCopyAgrees'
    BY <1>4 DEF Create, ServiceCreate
  <1>5. ASSUME NEW p \in Proc, Put(p) PROVE CurrentCopyAgrees'
    BY <1>5 DEF Put, ServicePut
  <1>6. ASSUME NEW p \in Proc, Conflict(p) PROVE CurrentCopyAgrees'
    BY <1>6 DEF Conflict
  <1>7. ASSUME NEW p \in Proc, CallFails(p) PROVE CurrentCopyAgrees'
    BY <1>7 DEF CallFails, ServiceCreate, ServicePut
  <1>8. ASSUME NEW p \in Proc, Exit(p) PROVE CurrentCopyAgrees'
    BY <1>8 DEF Exit
  <1>9. CASE UNCHANGED vars
    BY <1>9 DEF vars
  <1> QED
    BY <1>1, <1>2, <1>3, <1>4, <1>5, <1>6, <1>7, <1>8, <1>9, CallsEdit DEF Next

(* IInv is an invariant.                                                   *)
LEMMA IInvHolds == Spec => []IInv
  <1>1. IInv /\ [Next]_vars => IInv'
    BY NextType, NextItems, NextAgrees DEF IInv
  <1> QED
    BY InitIInv, <1>1, PTL DEF Spec

-----------------------------------------------------------------------------
(* Type correctness of the 1Password store, for every value of the         *)
(* constants.                                                              *)
THEOREM TypeCorrect == Spec => []TypeOK
  <1>1. IInv => TypeOK
    BY DEF IInv
  <1> QED
    BY <1>1, IInvHolds, PTL

(* The version stands for the contents (loadFromItem, saveStorageData).    *)
THEOREM VersionStandsForContents == Spec => []CurrentCopyAgrees
  <1>1. IInv => CurrentCopyAgrees
    BY DEF IInv
  <1> QED
    BY <1>1, IInvHolds, PTL

(* The action of PutsOnlyOwnKeys, for one execution.                       *)
OwnKeysOnly(p) ==
  pc[p] = "saving" /\ pc'[p] = "idle" =>
    \A i \in items : \A k \in Key \ touched[p] : data'[i][k] = data[i][k]

(* saveStorageData loses no update: it changes, in the items that exist,   *)
(* only what its own execution saved or deleted.                           *)
THEOREM NoLostUpdate == Spec => PutsOnlyOwnKeys
  <1>1. ASSUME IInv, [Next]_vars, NEW p \in Proc PROVE OwnKeysOnly(p)
    <2> SUFFICES ASSUME pc[p] = "saving", pc'[p] = "idle",
                        NEW i \in items, NEW k \in Key \ touched[p]
                 PROVE  data'[i][k] = data[i][k]
      BY DEF OwnKeysOnly
    <2> USE <1>1 DEF IInv, TypeOK, ItemInv
    <2>1. \/ UNCHANGED data
          \/ \E j \in ItemId : ServiceCreate(p, j)
          \/ itemID[p] # NoItem /\ ServicePut(p)
      <3>1. ASSUME NEW q \in Proc,
                   List(q) \/ Get(q) \/ Conflict(q) \/ Exit(q)
            PROVE  UNCHANGED data
        BY <3>1 DEF List, Get, Conflict, Exit
      <3>2. ASSUME NEW q \in Proc, NEW j \in Key, NEW copy \in Snapshot, Edit(q, j, copy)
            PROVE  UNCHANGED data
        BY <3>2 DEF Edit
      <3>3. ASSUME NEW q \in Proc, Create(q) \/ Put(q) \/ CallFails(q) PROVE q = p
        BY <3>3 DEF Create, Put, CallFails
      <3>4. Create(p) \/ Put(p) \/ CallFails(p) =>
              \/ UNCHANGED data
              \/ \E j \in ItemId : ServiceCreate(p, j)
              \/ itemID[p] # NoItem /\ ServicePut(p)
        BY DEF Create, Put, CallFails
      <3> QED
        BY <3>1, <3>2, <3>3, <3>4, CallsEdit DEF Next, vars
    <2>2. CASE UNCHANGED data
      BY <2>2
    <2>3. CASE \E j \in ItemId : ServiceCreate(p, j)
      BY <2>3 DEF ServiceCreate
    <2>4. CASE itemID[p] # NoItem /\ ServicePut(p)
      <3>1. Loaded(p) /\ ~Stale(p)
        BY <2>4 DEF Loaded, Stale, ServicePut
      <3>2. mem[p][k] = data[itemID[p]][k]
        BY <3>1 DEF CurrentCopyAgrees
      <3> QED
        BY <2>4, <3>2 DEF ServicePut
    <2> QED
      BY <2>1, <2>2, <2>3, <2>4
  <1>2. IInv /\ [Next]_vars => [\A p \in Proc : OwnKeysOnly(p)]_vars
    BY <1>1
  <1> QED
    BY <1>2, IInvHolds, PTL DEF Spec, PutsOnlyOwnKeys, OwnKeysOnly

(* The action of StaleUntilExit, for one execution.                        *)
StaysStale(p) ==
  Stale(p) => /\ Stale(p)' \/ pc'[p] = "closed"
              /\ pc'[p] # pc[p] => UNCHANGED service

(* A store that lost the race for a version stays out of it: it never      *)
(* writes again (saveStorageData has no reload).                           *)
THEOREM ConflictIsFinal == Spec => StaleUntilExit
  <1>1. ASSUME IInv, [Next]_vars, NEW p \in Proc PROVE StaysStale(p)
    <2> SUFFICES ASSUME Stale(p) PROVE /\ Stale(p)' \/ pc'[p] = "closed"
                                       /\ pc'[p] # pc[p] => UNCHANGED service
      BY DEF StaysStale
    <2> USE <1>1 DEF IInv, TypeOK, ItemInv, VersionInv, Loaded, Stale
    <2>1. ASSUME NEW q \in Proc, List(q) \/ Get(q) \/ Conflict(q) \/ Exit(q)
          PROVE  /\ Stale(p)' \/ pc'[p] = "closed"
                 /\ pc'[p] # pc[p] => UNCHANGED service
      BY <2>1 DEF List, Get, Conflict, Exit
    <2>2. ASSUME NEW q \in Proc, NEW j \in Key, NEW copy \in Snapshot, Edit(q, j, copy)
          PROVE  Stale(p)' /\ UNCHANGED service
      BY <2>2 DEF Edit
    <2>3. ASSUME NEW q \in Proc, Create(q)
          PROVE  /\ Stale(p)'
                 /\ pc'[p] # pc[p] => UNCHANGED service
      BY <2>3 DEF Create, ServiceCreate
    <2>4. ASSUME NEW q \in Proc, Put(q)
          PROVE  /\ Stale(p)'
                 /\ pc'[p] # pc[p] => UNCHANGED service
      BY <2>4 DEF Put, ServicePut
    <2>5. ASSUME NEW q \in Proc, CallFails(q)
          PROVE  /\ Stale(p)'
                 /\ pc'[p] # pc[p] => UNCHANGED service
      BY <2>5 DEF CallFails, ServiceCreate, ServicePut
    <2>6. CASE UNCHANGED vars
      BY <2>6 DEF vars
    <2> QED
      BY <2>1, <2>2, <2>3, <2>4, <2>5, <2>6, CallsEdit DEF Next
  <1>2. IInv /\ [Next]_vars => [\A p \in Proc : StaysStale(p)]_vars
    BY <1>1
  <1> QED
    BY <1>2, IInvHolds, PTL DEF Spec, StaleUntilExit, StaysStale

(***************************************************************************)
(* Whichever backend the settings choose, the vault is only worked on as   *)
(* OnePasswordStore says: what holds of it there holds in SecureStore.     *)
(***************************************************************************)
THEOREM VaultAsSpecified == StoreSpec => Spec
<1>1. StoreInit => Init
  BY DEF StoreInit
<1>2. [StoreNext]_storeVars => [Next]_vars
  BY DEF StoreNext, storeVars
<1> QED
  BY <1>1, <1>2, PTL DEF StoreSpec, Spec

-----------------------------------------------------------------------------
(* The JSON store: its inductive invariant.                                *)

(* The lock file's holders are the executions at the lines that hold it.   *)
JsonHoldersInv ==
  /\ readers = {p \in Proc : jsonPc[p] = "reading"}
  /\ writer = {p \in Proc : jsonPc[p] \in Json!Writing}

(* An exclusive holder is alone.                                           *)
JsonExclusionInv ==
  /\ writer # {} => readers = {}
  /\ \A p, q \in writer : p = q

JsonLockInv == JsonHoldersInv /\ JsonExclusionInv

(* The file has its last completed contents except inside os.WriteFile,    *)
(* where it is empty and then unfinished.                                  *)
JsonContentsInv ==
  /\ (\A p \in Proc : ~Json!Unfinished(p)) => Json!Decode(file) = published
  /\ \A p \in Proc : jsonPc[p] = "truncated" => file = NoData
  /\ \A p \in Proc : jsonPc[p] = "torn" => file = Unreadable

(* An execution without a loaded store has nothing in memory.              *)
JsonUnloadedInv ==
  \A p \in Proc : jsonPc[p] \notin Json!Saving \union {"idle"} => jsonMem[p] = Json!NewStorageData

JsonIInv == Json!TypeOK /\ JsonLockInv /\ JsonContentsInv /\ JsonUnloadedInv

-----------------------------------------------------------------------------
(* Editing keeps the shape of the stored maps (Save* and Delete* of        *)
(* json_store.go).                                                         *)
LEMMA JsonEditsAreSnapshots ==
  ASSUME NEW copy \in Json!Snapshot, NEW k \in Key, NEW v \in Value
  PROVE  /\ Json!NewStorageData \in Json!Snapshot
         /\ Json!SaveEntry(copy, k, v) \in Json!Snapshot
         /\ Json!DeleteEntry(copy, k) \in Json!Snapshot
  BY DEF Json!Snapshot, Json!NewStorageData, Json!SaveEntry, Json!DeleteEntry

(* An empty store is a snapshot.                                           *)
LEMMA JsonNewIsSnapshot == Json!NewStorageData \in Json!Snapshot
  BY DEF Json!Snapshot, Json!NewStorageData

(* What an open makes of the bytes of the file: a snapshot, or nothing.    *)
LEMMA JsonDecodeType ==
  ASSUME NEW bytes \in Json!Snapshot \union {NoData, Unreadable}
  PROVE  /\ Json!Decode(bytes) \in Json!Snapshot \union {Unreadable}
         /\ bytes # Unreadable => Json!Decode(bytes) \in Json!Snapshot
         /\ Json!Decode(NoData) = Json!NewStorageData
         /\ Json!Decode(Unreadable) = Unreadable
  BY JsonNewIsSnapshot, NoDataAssumption DEF Json!Decode

(* Unreadable bytes are not a snapshot.                                    *)
LEMMA JsonUnreadableIsNone == Unreadable \notin Json!Snapshot
  BY UnreadableAssumption DEF Json!Snapshot

-----------------------------------------------------------------------------
(* The program points, for the leaves below.                               *)
USE DEF Json!Waiting, Json!Backoff, Json!Writing, Json!PC, Json!Saving,
   Json!Unfinished, Json!Goto, Json!lockVars

(* Nobody holds the lock, no store is loaded and the file is missing.      *)
LEMMA JsonInitIInv == Json!Init => JsonIInv
  <1> SUFFICES ASSUME Json!Init PROVE JsonIInv
    OBVIOUS
  <1>1. Json!TypeOK
    BY JsonNewIsSnapshot DEF Json!Init, Json!LockInit, Json!TypeOK,
       Json!LockTypeOK
  <1>2. JsonLockInv /\ JsonUnloadedInv
    BY DEF Json!Init, Json!LockInit, JsonLockInv, JsonHoldersInv, JsonExclusionInv,
       JsonUnloadedInv
  <1>3. JsonContentsInv
    BY DEF Json!Init, JsonContentsInv, Json!Decode
  <1> QED
    BY <1>1, <1>2, <1>3 DEF JsonIInv

(* Forgetting a store keeps the types.                                     *)
LEMMA JsonForgetType ==
  ASSUME Json!TypeOK, NEW p \in Proc, Json!Forget(p)
  PROVE  /\ jsonPc' \in [Proc -> Json!PC] /\ late' \in [Proc -> BOOLEAN]
         /\ jsonMem' \in [Proc -> Json!Snapshot]
  BY JsonNewIsSnapshot DEF Json!TypeOK, Json!Forget

(* Every step keeps the types.                                             *)
LEMMA JsonNextType == Json!TypeOK /\ [Json!Next]_Json!vars => Json!TypeOK'
  <1> SUFFICES ASSUME Json!TypeOK, [Json!Next]_Json!vars PROVE Json!TypeOK'
    OBVIOUS
  <1> USE DEF Json!TypeOK, Json!LockTypeOK
  <1>1. ASSUME NEW p \in Proc, Json!LockBusy(p) PROVE Json!TypeOK'
    BY <1>1 DEF Json!LockBusy
  <1>2. ASSUME NEW p \in Proc, Json!Deadline(p) PROVE Json!TypeOK'
    BY <1>2 DEF Json!Deadline
  <1>3. ASSUME NEW p \in Proc, Json!Retry(p) PROVE Json!TypeOK'
    BY <1>3 DEF Json!Retry
  <1>4. ASSUME NEW p \in Proc, Json!GiveUp(p) PROVE Json!TypeOK'
    BY <1>4, JsonForgetType DEF Json!GiveUp
  <1>5. ASSUME NEW p \in Proc, Json!Open(p) PROVE Json!TypeOK'
    BY <1>5 DEF Json!Open
  <1>6. ASSUME NEW p \in Proc, Json!OpenLocked(p) PROVE Json!TypeOK'
    BY <1>6 DEF Json!OpenLocked, Json!LockShared
  <1>7. ASSUME NEW p \in Proc, Json!ReadFile(p) PROVE Json!TypeOK'
    <2>1. CASE file # Unreadable
      BY <1>7, <2>1, JsonDecodeType DEF Json!ReadFile, Json!Unlock
    <2>2. CASE file = Unreadable
      BY <1>7, <2>2, JsonForgetType DEF Json!ReadFile, Json!Unlock
    <2> QED BY <2>1, <2>2
  <1>8. ASSUME NEW p \in Proc, NEW copy \in Json!Snapshot, Json!Edit(p, copy)
        PROVE  Json!TypeOK'
    BY <1>8 DEF Json!Edit
  <1>9. ASSUME NEW p \in Proc, NEW k \in Key, NEW v \in Value, Json!Save(p, k, v) PROVE Json!TypeOK'
    BY <1>8, <1>9, JsonEditsAreSnapshots DEF Json!Save
  <1>10. ASSUME NEW p \in Proc, NEW k \in Key, Json!Delete(p, k) PROVE Json!TypeOK'
    <2>1. Json!DeleteEntry(jsonMem[p], k) \in Json!Snapshot
      BY DEF Json!DeleteEntry, Json!Snapshot
    <2> QED BY <1>8, <1>10, <2>1 DEF Json!Delete
  <1>11. ASSUME NEW p \in Proc, Json!SaveLocked(p) PROVE Json!TypeOK'
    BY <1>11 DEF Json!SaveLocked, Json!LockExclusive
  <1>12. ASSUME NEW p \in Proc, Json!Truncate(p) PROVE Json!TypeOK'
    BY <1>12 DEF Json!Truncate
  <1>13. ASSUME NEW p \in Proc, Json!WritePart(p) PROVE Json!TypeOK'
    BY <1>13 DEF Json!WritePart
  <1>14. ASSUME NEW p \in Proc, Json!WriteAll(p) PROVE Json!TypeOK'
    BY <1>14 DEF Json!WriteAll, Json!Unlock
  <1>15. ASSUME NEW p \in Proc, Json!WriteFails(p) PROVE Json!TypeOK'
    BY <1>15, JsonDecodeType DEF Json!WriteFails, Json!Unlock
  <1>16. ASSUME NEW p \in Proc, Json!Exit(p) PROVE Json!TypeOK'
    BY <1>16, JsonForgetType, JsonDecodeType DEF Json!Exit, Json!Unlock
  <1>17. CASE UNCHANGED Json!vars
    BY <1>17 DEF Json!vars
  <1> QED
    BY <1>1, <1>2, <1>3, <1>4, <1>5, <1>6, <1>7, <1>9, <1>10, <1>11, <1>12,
       <1>13, <1>14, <1>15, <1>16, <1>17 DEF Json!Next, Json!Step, Json!Call

-----------------------------------------------------------------------------
(* The rest of the inductive invariant, one lemma per part.                *)

(* What an exclusive holder may conclude about everybody else.             *)
LEMMA JsonWriterAlone ==
  ASSUME JsonIInv, NEW p \in Proc, jsonPc[p] \in Json!Writing
  PROVE  \A q \in Proc : q # p => jsonPc[q] \notin Json!Writing \union {"reading"}
  BY DEF JsonIInv, JsonLockInv, JsonHoldersInv, JsonExclusionInv

(* Every step keeps the lock's holders in line with the program points.    *)
LEMMA JsonNextHolders == JsonIInv /\ [Json!Next]_Json!vars => JsonLockInv'
  <1> SUFFICES ASSUME JsonIInv, [Json!Next]_Json!vars PROVE JsonLockInv'
    OBVIOUS
  <1> USE DEF JsonIInv, Json!TypeOK, Json!LockTypeOK, JsonLockInv, JsonHoldersInv,
              JsonExclusionInv
  <1>1. ASSUME NEW p \in Proc, Json!LockBusy(p) PROVE JsonLockInv'
    BY <1>1 DEF Json!LockBusy
  <1>2. ASSUME NEW p \in Proc, Json!Deadline(p) PROVE JsonLockInv'
    BY <1>2 DEF Json!Deadline
  <1>3. ASSUME NEW p \in Proc, Json!Retry(p) PROVE JsonLockInv'
    BY <1>3 DEF Json!Retry
  <1>4. ASSUME NEW p \in Proc, Json!GiveUp(p) PROVE JsonLockInv'
    BY <1>4 DEF Json!GiveUp, Json!Forget
  <1>5. ASSUME NEW p \in Proc, Json!Open(p) PROVE JsonLockInv'
    BY <1>5 DEF Json!Open
  <1>6. ASSUME NEW p \in Proc, Json!OpenLocked(p) PROVE JsonLockInv'
    BY <1>6 DEF Json!OpenLocked, Json!LockShared, Json!CanLockShared
  <1>7. ASSUME NEW p \in Proc, Json!ReadFile(p) PROVE JsonLockInv'
    BY <1>7 DEF Json!ReadFile, Json!Unlock, Json!Forget
  <1>8. ASSUME NEW p \in Proc, NEW copy, Json!Edit(p, copy)
        PROVE  JsonLockInv'
    BY <1>8 DEF Json!Edit
  <1>9. ASSUME NEW p \in Proc, Json!SaveLocked(p) PROVE JsonLockInv'
    BY <1>9 DEF Json!SaveLocked, Json!LockExclusive, Json!CanLockExclusive
  <1>10. ASSUME NEW p \in Proc, Json!Truncate(p) PROVE JsonLockInv'
    BY <1>10 DEF Json!Truncate
  <1>11. ASSUME NEW p \in Proc, Json!WritePart(p) PROVE JsonLockInv'
    BY <1>11 DEF Json!WritePart
  <1>12. ASSUME NEW p \in Proc, Json!WriteAll(p) PROVE JsonLockInv'
    BY <1>12 DEF Json!WriteAll, Json!Unlock
  <1>13. ASSUME NEW p \in Proc, Json!WriteFails(p) PROVE JsonLockInv'
    BY <1>13 DEF Json!WriteFails, Json!Unlock
  <1>14. ASSUME NEW p \in Proc, Json!Exit(p) PROVE JsonLockInv'
    BY <1>14 DEF Json!Exit, Json!Unlock, Json!Forget
  <1>15. CASE UNCHANGED Json!vars
    BY <1>15 DEF Json!vars
  <1> QED
    BY <1>1, <1>2, <1>3, <1>4, <1>5, <1>6, <1>7, <1>8, <1>9, <1>10, <1>11,
       <1>12, <1>13, <1>14, <1>15 DEF Json!Next, Json!Step, Json!Call, Json!Save, Json!Delete

(* Every step keeps the file's contents in line with the program points:   *)
(* only the exclusive holder touches the file.                             *)
LEMMA JsonNextContents == JsonIInv /\ [Json!Next]_Json!vars => JsonContentsInv'
  <1> SUFFICES ASSUME JsonIInv, [Json!Next]_Json!vars PROVE JsonContentsInv'
    OBVIOUS
  <1> USE DEF JsonContentsInv
  <1>0. Json!TypeOK /\ JsonContentsInv
    BY DEF JsonIInv
  <1>a. ASSUME UNCHANGED <<file, published>>,
               \A p \in Proc : jsonPc'[p] # jsonPc[p] => ~Json!Unfinished(p) /\ ~Json!Unfinished(p)'
        PROVE  JsonContentsInv'
    BY <1>0, <1>a DEF Json!Decode
  <1>1. ASSUME NEW p \in Proc, Json!LockBusy(p) PROVE JsonContentsInv'
    BY <1>0, <1>1, <1>a DEF Json!LockBusy, Json!TypeOK
  <1>2. ASSUME NEW p \in Proc, Json!Deadline(p) PROVE JsonContentsInv'
    BY <1>2, <1>a DEF Json!Deadline
  <1>3. ASSUME NEW p \in Proc, Json!Retry(p) PROVE JsonContentsInv'
    BY <1>0, <1>3, <1>a DEF Json!Retry, Json!TypeOK
  <1>4. ASSUME NEW p \in Proc, Json!GiveUp(p) PROVE JsonContentsInv'
    BY <1>0, <1>4, <1>a DEF Json!GiveUp, Json!Forget, Json!TypeOK
  <1>5. ASSUME NEW p \in Proc, Json!Open(p) PROVE JsonContentsInv'
    BY <1>0, <1>5, <1>a DEF Json!Open, Json!TypeOK
  <1>6. ASSUME NEW p \in Proc, Json!OpenLocked(p) PROVE JsonContentsInv'
    BY <1>0, <1>6, <1>a DEF Json!OpenLocked, Json!TypeOK
  <1>7. ASSUME NEW p \in Proc, Json!ReadFile(p) PROVE JsonContentsInv'
    BY <1>0, <1>7, <1>a DEF Json!ReadFile, Json!Forget, Json!TypeOK
  <1>8. ASSUME NEW p \in Proc, NEW copy, Json!Edit(p, copy)
        PROVE  JsonContentsInv'
    BY <1>0, <1>8, <1>a DEF Json!Edit, Json!TypeOK
  <1>9. ASSUME NEW p \in Proc, Json!SaveLocked(p) PROVE JsonContentsInv'
    BY <1>0, <1>9, <1>a DEF Json!SaveLocked, Json!TypeOK
  <1>10. ASSUME NEW p \in Proc, Json!Truncate(p) PROVE JsonContentsInv'
    BY <1>0, <1>10, JsonWriterAlone DEF Json!Truncate, Json!TypeOK
  <1>11. ASSUME NEW p \in Proc, Json!WritePart(p) PROVE JsonContentsInv'
    BY <1>0, <1>11, JsonWriterAlone DEF Json!WritePart, Json!TypeOK
  <1>12. ASSUME NEW p \in Proc, Json!WriteAll(p) PROVE JsonContentsInv'
    <2>1. file' = jsonMem[p] /\ published' = jsonMem[p] /\ jsonMem[p] \in Json!Snapshot
      BY <1>0, <1>12 DEF Json!WriteAll, Json!TypeOK
    <2>2. Json!Decode(file)' = published'
      BY <2>1, NoDataAssumption DEF Json!Decode, Json!Snapshot, Snapshot
    <2>3. \A q \in Proc : ~Json!Unfinished(q)'
      BY <1>0, <1>12, JsonWriterAlone DEF Json!WriteAll, Json!TypeOK
    <2> QED BY <2>2, <2>3
  <1>13. ASSUME NEW p \in Proc, Json!WriteFails(p) PROVE JsonContentsInv'
    <2>1. \A q \in Proc : ~Json!Unfinished(q)'
      BY <1>0, <1>13, JsonWriterAlone DEF Json!WriteFails, Json!TypeOK
    <2>2. Json!Decode(file)' = published'
      BY <1>0, <1>13, JsonWriterAlone DEF Json!WriteFails, Json!Decode
    <2> QED BY <2>1, <2>2
  <1>14. ASSUME NEW p \in Proc, Json!Exit(p) PROVE JsonContentsInv'
    <2>1. CASE Json!Unfinished(p)
      <3>1. \A q \in Proc : ~Json!Unfinished(q)'
        BY <1>0, <1>14, <2>1, JsonWriterAlone DEF Json!Exit, Json!Forget,
           Json!TypeOK
      <3>2. Json!Decode(file)' = published'
        BY <1>14, <2>1 DEF Json!Exit, Json!Decode
      <3> QED BY <3>1, <3>2
    <2>2. CASE ~Json!Unfinished(p)
      BY <1>0, <1>14, <2>2, <1>a DEF Json!Exit, Json!Forget, Json!TypeOK
    <2> QED BY <2>1, <2>2
  <1>15. CASE UNCHANGED Json!vars
    BY <1>15, <1>a DEF Json!vars
  <1> QED
    BY <1>1, <1>2, <1>3, <1>4, <1>5, <1>6, <1>7, <1>8, <1>9, <1>10, <1>11,
       <1>12, <1>13, <1>14, <1>15 DEF Json!Next, Json!Step, Json!Call, Json!Save, Json!Delete

(* Every step keeps the memory of executions without a store empty.        *)
LEMMA JsonNextUnloaded == JsonIInv /\ [Json!Next]_Json!vars => JsonUnloadedInv'
  <1> SUFFICES ASSUME JsonIInv, [Json!Next]_Json!vars PROVE JsonUnloadedInv'
    OBVIOUS
  <1> USE DEF JsonUnloadedInv, JsonIInv, Json!TypeOK
  <1>1. ASSUME NEW p \in Proc,
               Json!LockBusy(p) \/ Json!Deadline(p) \/ Json!Retry(p) \/ Json!Open(p) \/ Json!OpenLocked(p)
        PROVE  JsonUnloadedInv'
    BY <1>1 DEF Json!LockBusy, Json!Deadline, Json!Retry, Json!Open,
       Json!OpenLocked
  <1>2. ASSUME NEW p \in Proc,
               Json!SaveLocked(p) \/ Json!Truncate(p) \/ Json!WritePart(p) \/ Json!WriteAll(p) \/ Json!WriteFails(p)
        PROVE  JsonUnloadedInv'
    BY <1>2 DEF Json!SaveLocked, Json!Truncate, Json!WritePart, Json!WriteAll,
       Json!WriteFails
  <1>3. ASSUME NEW p \in Proc, Json!GiveUp(p) \/ Json!ReadFile(p) \/ Json!Exit(p) PROVE JsonUnloadedInv'
    BY <1>3 DEF Json!GiveUp, Json!ReadFile, Json!Exit, Json!Forget
  <1>4. ASSUME NEW p \in Proc, NEW copy, Json!Edit(p, copy)
        PROVE  JsonUnloadedInv'
    BY <1>4 DEF Json!Edit
  <1>5. CASE UNCHANGED Json!vars
    BY <1>5 DEF Json!vars
  <1> QED
    BY <1>1, <1>2, <1>3, <1>4, <1>5 DEF Json!Next, Json!Step, Json!Call,
       Json!Save, Json!Delete

(* IInv is an invariant.                                                   *)
LEMMA JsonIInvHolds == Json!Spec => []JsonIInv
  <1>1. JsonIInv /\ [Json!Next]_Json!vars => JsonIInv'
    BY JsonNextType, JsonNextHolders, JsonNextContents, JsonNextUnloaded
       DEF JsonIInv
  <1> QED
    BY JsonInitIInv, <1>1, PTL DEF Json!Spec

-----------------------------------------------------------------------------
(* A reader's lock keeps writers out, so the file is what was committed.   *)
LEMMA JsonNoTornReadStep ==
  ASSUME JsonIInv, NEW p \in Proc, jsonPc[p] = "reading"
  PROVE  Json!Decode(file) = published
  <1>1. \A q \in Proc : ~Json!Unfinished(q)
    BY JsonWriterAlone
  <1> QED
    BY <1>1 DEF JsonIInv, JsonContentsInv

(***************************************************************************)
(* Whichever backend the settings choose, the file is only worked on as    *)
(* JsonStore says.                                                         *)
(***************************************************************************)
THEOREM JsonAsSpecified == StoreSpec => Json!Spec
<1>1. StoreInit => Json!Init
  BY DEF StoreInit
<1>2. [StoreNext]_storeVars => [Json!Next]_Json!vars
  BY DEF StoreNext, storeVars, jsonVars, Json!vars
<1> QED
  BY <1>1, <1>2, PTL DEF StoreSpec, Json!Spec

(***************************************************************************)
(* The JSON store (save and OpenJsonStore), however many executions there  *)
(* are: one that may be writing store.json is alone on it, and a reader    *)
(* that holds its lock finds what the last finished or interrupted save    *)
(* left, never a save in progress.                                         *)
(***************************************************************************)
THEOREM JsonCorrect == StoreSpec => []JsonInv
<1>1. JsonIInv => JsonInv
  BY JsonWriterAlone, JsonNoTornReadStep
     DEF JsonIInv, JsonInv, Json!WriterExcludesAll, Json!ReadersSeeCommitted
<1> QED
  BY <1>1, JsonAsSpecified, JsonIInvHolds, PTL

-----------------------------------------------------------------------------
(* Refinement of SharedStore.                                              *)

(* The mapping's set of open stores.                                       *)
JsonOpened == {p \in Proc : jsonPc[p] \in Json!Saving \union {"idle"}}

(* A step of an execution that neither loads, edits nor publishes is a     *)
(* stutter of the abstract document.                                       *)
LEMMA JsonStepsImplement == JsonIInv /\ [Json!Next]_Json!vars => [Json!Abstract!Next]_(Json!Abstract!vars)
  <1> SUFFICES ASSUME JsonIInv, [Json!Next]_Json!vars
               PROVE  Json!Abstract!Next \/ UNCHANGED <<published, jsonMem, JsonOpened>>
    BY DEF Json!Abstract!vars, JsonOpened
  <1> USE DEF JsonOpened
  <1>0. Json!TypeOK /\ JsonContentsInv /\ JsonUnloadedInv
    BY DEF JsonIInv
  <1>1. ASSUME NEW p \in Proc,
               Json!LockBusy(p) \/ Json!Deadline(p) \/ Json!Retry(p) \/ Json!Open(p) \/ Json!OpenLocked(p)
        PROVE  UNCHANGED <<published, jsonMem, JsonOpened>>
    BY <1>0, <1>1 DEF Json!LockBusy, Json!Deadline, Json!Retry, Json!Open,
       Json!OpenLocked, Json!TypeOK
  <1>2. ASSUME NEW p \in Proc, Json!SaveLocked(p) \/ Json!Truncate(p) \/ Json!WritePart(p)
        PROVE  UNCHANGED <<published, jsonMem, JsonOpened>>
    BY <1>0, <1>2 DEF Json!SaveLocked, Json!Truncate, Json!WritePart,
       Json!TypeOK
  <1>3. ASSUME NEW p \in Proc, Json!Forget(p), jsonPc[p] \notin Json!Saving \union {"idle"}
        PROVE  UNCHANGED <<jsonMem, JsonOpened>>
    <2>1. jsonMem[p] = Json!NewStorageData
      BY <1>0, <1>3 DEF JsonUnloadedInv
    <2> QED
      BY <1>0, <1>3, <2>1 DEF Json!Forget, Json!TypeOK
  <1>4. ASSUME NEW p \in Proc, Json!GiveUp(p)
        PROVE  UNCHANGED <<published, jsonMem, JsonOpened>>
    BY <1>0, <1>3, <1>4 DEF Json!GiveUp, Json!TypeOK
  <1>5. ASSUME NEW p \in Proc, Json!ReadFile(p)
        PROVE  Json!Abstract!Next \/ UNCHANGED <<published, jsonMem, JsonOpened>>
    <2>1. CASE file # Unreadable
      <3>1. Json!Decode(file) = published
        BY <1>5, JsonNoTornReadStep DEF Json!ReadFile
      <3>2. published # Unreadable
        BY <1>0, <2>1, <3>1, JsonDecodeType, JsonUnreadableIsNone
           DEF Json!TypeOK
      <3>3. Json!Abstract!Open(p)
        BY <1>0, <1>5, <2>1, <3>1, <3>2 DEF Json!ReadFile, Json!Abstract!Open,
           Json!TypeOK
      <3> QED BY <3>3 DEF Json!Abstract!Next
    <2>2. CASE file = Unreadable
      BY <1>3, <1>5, <2>2 DEF Json!ReadFile
    <2> QED BY <2>1, <2>2
  <1>6. ASSUME NEW p \in Proc, NEW k \in Key, NEW v \in Value \union {NoValue},
               Json!Edit(p, [jsonMem[p] EXCEPT ![k] = v])
        PROVE  Json!Abstract!Edit(p)
    BY <1>0, <1>6 DEF Json!Edit, Json!Abstract!Edit, Json!TypeOK
  <1>7. ASSUME NEW p \in Proc, Json!WriteAll(p) PROVE Json!Abstract!Publish(p)
    BY <1>0, <1>7 DEF Json!WriteAll, Json!Abstract!Publish, Json!TypeOK
  <1>8. ASSUME NEW p \in Proc, Json!Unfinished(p)
        PROVE  Json!Decode(file) \in {Json!Abstract!NewStorageData, Unreadable}
    BY <1>0, <1>8, JsonDecodeType DEF JsonContentsInv,
       Json!Abstract!NewStorageData, Json!NewStorageData
  <1>9. ASSUME NEW p \in Proc, Json!WriteFails(p)
        PROVE  Json!Abstract!Next \/ UNCHANGED <<published, jsonMem, JsonOpened>>
    <2>1. CASE Json!Unfinished(p)
      <3>1. Json!Abstract!Spoil(p)
        BY <1>0, <1>8, <1>9, <2>1 DEF Json!WriteFails, Json!Abstract!Spoil,
           Json!TypeOK
      <3> QED BY <3>1 DEF Json!Abstract!Next
    <2>2. CASE ~Json!Unfinished(p)
      BY <1>0, <1>9, <2>2 DEF Json!WriteFails, Json!TypeOK
    <2> QED BY <2>1, <2>2
  <1>10. ASSUME NEW p \in Proc, Json!Exit(p) PROVE Json!Abstract!Next
    <2>0. /\ jsonMem' = [jsonMem EXCEPT ![p] = Json!Abstract!NewStorageData]
          /\ JsonOpened' = JsonOpened \ {p}
      BY <1>0, <1>10 DEF Json!Exit, Json!Forget, Json!TypeOK,
         Json!Abstract!NewStorageData, Json!NewStorageData
    <2>1. CASE Json!Unfinished(p)
      <3>1. Json!Abstract!Spoil(p)
        BY <1>8, <1>10, <2>0, <2>1 DEF Json!Exit, Json!Abstract!Spoil
      <3> QED BY <3>1 DEF Json!Abstract!Next
    <2>2. CASE ~Json!Unfinished(p)
      <3>1. Json!Abstract!Close(p)
        BY <1>10, <2>0, <2>2 DEF Json!Exit, Json!Abstract!Close
      <3> QED BY <3>1 DEF Json!Abstract!Next
    <2> QED BY <2>1, <2>2
  <1>11. ASSUME NEW p \in Proc, NEW k \in Key, NEW v \in Value, Json!Save(p, k, v)
         PROVE  Json!Abstract!Next
    BY <1>6, <1>11 DEF Json!Save, Json!SaveEntry, Json!Abstract!Next
  <1>12. ASSUME NEW p \in Proc, NEW k \in Key, Json!Delete(p, k) PROVE Json!Abstract!Next
    BY <1>6, <1>12 DEF Json!Delete, Json!DeleteEntry, Json!Abstract!Next
  <1>13. CASE UNCHANGED Json!vars
    BY <1>13 DEF Json!vars
  <1> QED
    BY <1>1, <1>2, <1>4, <1>5, <1>7, <1>9, <1>10, <1>11, <1>12, <1>13
    DEF Json!Next, Json!Step, Json!Call, Json!Abstract!Next

(* The JSON store implements the all-or-nothing document: an open loads    *)
(* what one save published as a whole, or what an interruption spoilt.     *)
THEOREM JsonRefinement == StoreSpec => RefinesSharedStore
  <1>1. Json!Init => Json!Abstract!Init
    BY DEF Json!Init, Json!Abstract!Init, Json!NewStorageData,
       Json!Abstract!NewStorageData
  <1> QED
    BY <1>1, JsonAsSpecified, JsonIInvHolds, JsonStepsImplement, PTL
       DEF Json!Spec, RefinesSharedStore, Json!RefinesSharedStore, Json!Abstract!Spec
=============================================================================
