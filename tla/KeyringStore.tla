---------------------------- MODULE KeyringStore ----------------------------
(***************************************************************************)
(* The keyring SecureStore shared by several executions of aws-sso.  On    *)
(* Windows the document is split over numbered keyring entries of bounded  *)
(* length, entry 0 starting with the total length, and joined again when   *)
(* the store is opened; a Capacity no document exceeds gives the other     *)
(* systems, which write one entry.  Unlike the JSON store, an open that    *)
(* fails to read goes on with an empty store.                              *)
(***************************************************************************)
EXTENDS StoreData, FileLock, Naturals, FiniteSets

CONSTANT Capacity           \* WINCRED_MAX_LENGTH, in units of one stored value: 1 or more

VARIABLES
  pc,           \* where each execution is
  mem,          \* KeyringStore.cache of each execution
  next,         \* number of the entry splitAndSetStorageData writes next
  ring,         \* ring[i] = d: entry i holds the i-th chunk of document d
  committed,    \* history: the last document written completely
  damaged       \* history: a save has been cut short since then

vars == <<shared, exclusive, pc, mem, next, ring, committed, damaged>>

-----------------------------------------------------------------------------
(* Length of the JSON document: its frame and one unit per stored value.   *)
Size(d) == 1 + Cardinality({k \in Key : d[k] # NoValue})

Chunks(d) == (Size(d) + Capacity - 1) \div Capacity

ChunkSize(d, i) ==
  IF (i + 1) * Capacity <= Size(d) THEN Capacity ELSE Size(d) - i * Capacity

(* Room for the longest document.                                          *)
Entry == 0..((Cardinality(Key) + Capacity) \div Capacity - 1)

(* Bytes in the first n entries of a keyring.                              *)
BytesRead(r) ==
  LET sum[n \in 0..Cardinality(Entry)] ==
        IF n = 0 THEN 0 ELSE sum[n-1] + ChunkSize(r[n-1], n-1)
  IN  sum

(* A join that reads on while the length is reached but not passed.        *)
JoinTooFar(r) ==
  IF r[0] = NoData THEN {}
  ELSE LET Present(n) == \A i \in 0..(n-1) : r[i] # NoData
           enough == {n \in 1..Cardinality(Entry) :
                        Present(n) /\ BytesRead(r)[n] > Size(r[0])}
       IN  {r[i] : i \in {j \in Entry : \E n \in enough : j < n}}

(* joinAndGetKeyringData: the documents whose chunks it puts together, in  *)
(* good order just one; {} when an entry is missing or the lengths differ. *)
Join(r) ==
  IF r[0] = NoData THEN {}
  ELSE LET Present(n) == \A i \in 0..(n-1) : r[i] # NoData
           enough == {n \in 1..Cardinality(Entry) :
                        Present(n) /\ BytesRead(r)[n] >= Size(r[0])}
           first == CHOOSE n \in enough : \A m \in enough : n <= m
       IN  IF enough = {} \/ BytesRead(r)[first] # Size(r[0]) THEN {}
           ELSE {r[i] : i \in 0..(first-1)}

(* What json.Unmarshal can make of the chunks of several documents, when   *)
(* it does not fail: every value comes from one of them.                   *)
Splices(docs) == {s \in Snapshot : \A k \in Key : \E d \in docs : s[k] = d[k]}

TypeOK ==
  /\ LockTypeOK
  /\ pc \in [Proc -> {"closed", "openWait", "reading", "idle", "saveWait", "writing"}]
  /\ mem \in [Proc -> Snapshot]
  /\ next \in [Proc -> Entry]
  /\ ring \in [Entry -> Snapshot \union {NoData}]
  /\ committed \in Snapshot \union {NoData}
  /\ damaged \in BOOLEAN

Init ==
  /\ LockInit
  /\ pc = [p \in Proc |-> "closed"]
  /\ mem = [p \in Proc |-> NewStorageData]
  /\ next = [p \in Proc |-> 0]
  /\ ring = [i \in Entry |-> NoData]
  /\ committed = NoData
  /\ damaged = FALSE

Goto(p, l) == pc' = [pc EXCEPT ![p] = l]

-----------------------------------------------------------------------------
(* OpenKeyring, getStorageData.                                            *)

Open(p) ==
  /\ pc[p] = "closed"
  /\ Goto(p, "openWait")
  /\ UNCHANGED <<lockVars, mem, next, ring, committed, damaged>>

OpenLocked(p) ==
  /\ pc[p] = "openWait"
  /\ LockShared(p)
  /\ Goto(p, "reading")
  /\ UNCHANGED <<mem, next, ring, committed, damaged>>

(* The chunks join and the document unmarshals.                            *)
ReadData(p) ==
  /\ pc[p] = "reading"
  /\ Join(ring) # {}
  /\ \E s \in Splices(Join(ring)) : mem' = [mem EXCEPT ![p] = s]
  /\ Goto(p, "idle")
  /\ Unlock(p)
  /\ UNCHANGED <<next, ring, committed, damaged>>

(* The chunks join, but what they give does not unmarshal: the command     *)
(* ends.                                                                   *)
ReadGarbage(p) ==
  /\ pc[p] = "reading"
  /\ Cardinality(Join(ring)) > 1
  /\ Goto(p, "closed")
  /\ Unlock(p)
  /\ UNCHANGED <<mem, next, ring, committed, damaged>>

(* Any error of the locked part, be it the wait for the lock, an entry     *)
(* the keyring does not give or a wrong length: a warning, and the store   *)
(* is empty.                                                               *)
OpenEmpty(p) ==
  /\ \/ pc[p] = "openWait" /\ ~CanLockShared
     \/ pc[p] = "reading"
  /\ Goto(p, "idle")
  /\ mem' = [mem EXCEPT ![p] = NewStorageData]
  /\ Unlock(p)
  /\ UNCHANGED <<next, ring, committed, damaged>>

-----------------------------------------------------------------------------
(* Save* and Delete*, then saveStorageData.                                *)

Edit(p, copy) ==
  /\ pc[p] = "idle"
  /\ mem' = [mem EXCEPT ![p] = copy]
  /\ Goto(p, "saveWait")
  /\ UNCHANGED <<lockVars, next, ring, committed, damaged>>

Save(p, k, v) == Edit(p, SaveEntry(mem[p], k, v))

Delete(p, k) == MayDelete(mem[p], k) /\ Edit(p, DeleteEntry(mem[p], k))

SaveLocked(p) ==
  /\ pc[p] = "saveWait"
  /\ LockExclusive(p)
  /\ next' = [next EXCEPT ![p] = 0]
  /\ Goto(p, "writing")
  /\ UNCHANGED <<mem, ring, committed, damaged>>

SaveTimesOut(p) ==
  /\ pc[p] = "saveWait"
  /\ ~CanLockExclusive
  /\ Goto(p, "idle")
  /\ UNCHANGED <<lockVars, mem, next, ring, committed, damaged>>

(* splitAndSetStorageData writes one entry after the other; entries that   *)
(* an earlier, longer document left behind it does not touch.              *)
WriteChunk(p) ==
  LET i == next[p] IN
  /\ pc[p] = "writing"
  /\ ring' = [ring EXCEPT ![i] = mem[p]]
  /\ IF i + 1 < Chunks(mem[p])
     THEN /\ next' = [next EXCEPT ![p] = i + 1]
          /\ UNCHANGED <<lockVars, pc, committed, damaged>>
     ELSE /\ committed' = mem[p]
          /\ damaged' = FALSE
          /\ Goto(p, "idle")
          /\ Unlock(p)
          /\ UNCHANGED next
  /\ UNCHANGED mem

(* The keyring refuses an entry, or the execution ends between two.        *)
Interrupted(p) == damaged' = (damaged \/ (pc[p] = "writing" /\ next[p] > 0))

WriteFails(p) ==
  /\ pc[p] = "writing"
  /\ Interrupted(p)
  /\ Goto(p, "idle")
  /\ Unlock(p)
  /\ UNCHANGED <<mem, next, ring, committed>>

Exit(p) ==
  /\ pc[p] # "closed"
  /\ Interrupted(p)
  /\ Goto(p, "closed")
  /\ mem' = [mem EXCEPT ![p] = NewStorageData]
  /\ next' = [next EXCEPT ![p] = 0]
  /\ Unlock(p)
  /\ UNCHANGED <<ring, committed>>

Next ==
  \E p \in Proc :
    \/ Open(p) \/ OpenLocked(p) \/ ReadData(p) \/ ReadGarbage(p) \/ OpenEmpty(p)
    \/ SaveLocked(p) \/ SaveTimesOut(p) \/ WriteChunk(p) \/ WriteFails(p) \/ Exit(p)
    \/ \E k \in Key : Delete(p, k) \/ \E v \in Value : Save(p, k, v)

Spec == Init /\ [][Next]_vars

-----------------------------------------------------------------------------
(* Split and join are inverse whatever was stored before: as long as no    *)
(* save has been cut short, an execution that reads the keyring under its  *)
(* lock puts together exactly the last document saved, never a chunk of an *)
(* older or a half-written one.                                            *)
ReadersJoinCommitted ==
  \A p \in Proc : pc[p] = "reading" /\ ~damaged =>
    Join(ring) = IF committed = NoData THEN {} ELSE {committed}

=============================================================================
