----------------------------- MODULE JsonStore -----------------------------
(***************************************************************************)
(* The "json" SecureStore shared by several executions of aws-sso.  An     *)
(* execution loads the file once, under a shared lock; every Save* and     *)
(* Delete* edits the copy in memory and writes the whole copy back under   *)
(* an exclusive lock.  os.WriteFile truncates and then writes, so the file *)
(* has unfinished contents in between, and an execution may end anywhere.  *)
(***************************************************************************)
EXTENDS StoreData, FileLock

VARIABLES
  pc,           \* where each execution is
  late,         \* has the 30 s deadline of the current lock wait passed?
  mem,          \* JsonStore: each execution's copy of the maps
  file,         \* the bytes of the store file
  committed     \* history: what an open that finds no writer at work loads

vars == <<shared, exclusive, pc, late, mem, file, committed>>

Waiting == {"openWait", "saveWait"}
Backoff == {"openBackoff", "saveBackoff"}
Writing == {"locked", "truncated", "torn"}
PC == Waiting \union Backoff \union Writing \union {"closed", "reading", "idle"}
Saving == {"saveWait", "saveBackoff"} \union Writing

Unfinished(p) == pc[p] \in {"truncated", "torn"}

(* What json.Unmarshal makes of the bytes: an empty file is an empty store *)
Decode(bytes) == IF bytes = NoData THEN NewStorageData ELSE bytes

TypeOK ==
  /\ LockTypeOK
  /\ pc \in [Proc -> PC]
  /\ late \in [Proc -> BOOLEAN]
  /\ mem \in [Proc -> Snapshot]
  /\ file \in Snapshot \union {NoData, Unreadable}
  /\ committed \in Snapshot \union {Unreadable}

Init ==
  /\ LockInit
  /\ pc = [p \in Proc |-> "closed"]
  /\ late = [p \in Proc |-> FALSE]
  /\ mem = [p \in Proc |-> NewStorageData]
  /\ file = NoData
  /\ committed = NewStorageData

Goto(p, l) == pc' = [pc EXCEPT ![p] = l]

(* The execution has no store (any more): what it had in memory is gone.   *)
Forget(p) ==
  /\ Goto(p, "closed")
  /\ mem' = [mem EXCEPT ![p] = NewStorageData]
  /\ late' = [late EXCEPT ![p] = FALSE]

-----------------------------------------------------------------------------
(* The lock wait: fslock tries, calls the blocker when the lock is held,   *)
(* and the blocker either sleeps or reports that the deadline has passed.  *)

LockBusy(p) ==
  /\ \/ pc[p] = "openWait" /\ ~CanLockShared /\ Goto(p, "openBackoff")
     \/ pc[p] = "saveWait" /\ ~CanLockExclusive /\ Goto(p, "saveBackoff")
  /\ UNCHANGED <<lockVars, late, mem, file, committed>>

Deadline(p) ==
  /\ pc[p] \in Waiting \union Backoff
  /\ ~late[p]
  /\ late' = [late EXCEPT ![p] = TRUE]
  /\ UNCHANGED <<lockVars, pc, mem, file, committed>>

(* FlockBlocker, which takes no context: it always sleeps and retries.     *)
RetryForever(p) ==
  /\ \/ pc[p] = "openBackoff" /\ Goto(p, "openWait")
     \/ pc[p] = "saveBackoff" /\ Goto(p, "saveWait")
  /\ UNCHANGED <<lockVars, late, mem, file, committed>>

Retry(p) ==
  /\ ~late[p]
  /\ \/ pc[p] = "openBackoff" /\ Goto(p, "openWait")
     \/ pc[p] = "saveBackoff" /\ Goto(p, "saveWait")
  /\ UNCHANGED <<lockVars, late, mem, file, committed>>

(* A failed open ends the execution (log.Fatal); a failed save is reported *)
(* to the caller, and memory keeps the edit that the file does not have.   *)
GiveUp(p) ==
  /\ late[p]
  /\ \/ pc[p] = "openBackoff" /\ Forget(p)
     \/ /\ pc[p] = "saveBackoff"
        /\ Goto(p, "idle")
        /\ UNCHANGED <<late, mem>>
  /\ UNCHANGED <<lockVars, file, committed>>

-----------------------------------------------------------------------------
(* OpenJsonStore.                                                          *)

Open(p) ==
  /\ pc[p] = "closed"
  /\ Goto(p, "openWait")
  /\ late' = [late EXCEPT ![p] = FALSE]
  /\ UNCHANGED <<lockVars, mem, file, committed>>

ReadUnlocked(p) ==
  /\ pc[p] = "openWait"
  /\ Goto(p, "reading")
  /\ UNCHANGED <<lockVars, late, mem, file, committed>>

OpenLocked(p) ==
  /\ pc[p] = "openWait"
  /\ LockShared(p)
  /\ Goto(p, "reading")
  /\ UNCHANGED <<late, mem, file, committed>>

(* A reading that ignores the error of json.Unmarshal.                     *)
ReadUnchecked(p) ==
  /\ pc[p] = "reading"
  /\ Unlock(p)
  /\ Goto(p, "idle")
  /\ mem' = [mem EXCEPT ![p] = Decode(file)]
  /\ UNCHANGED <<late, file, committed>>

(* A reading that takes what it cannot parse for an empty store.           *)
ReadForgiving(p) ==
  /\ pc[p] = "reading"
  /\ Unlock(p)
  /\ Goto(p, "idle")
  /\ mem' = [mem EXCEPT ![p] = IF file = Unreadable THEN NewStorageData ELSE Decode(file)]
  /\ UNCHANGED <<late, file, committed>>

ReadFile(p) ==
  /\ pc[p] = "reading"
  /\ Unlock(p)
  /\ \/ /\ file # Unreadable
        /\ Goto(p, "idle")
        /\ mem' = [mem EXCEPT ![p] = Decode(file)]
        /\ UNCHANGED <<late>>
     \/ /\ file = Unreadable
        /\ Forget(p)
  /\ UNCHANGED <<file, committed>>

-----------------------------------------------------------------------------
(* Save* and Delete*: edit memory, then save().  The edit stays when the   *)
(* directory of the file cannot be created.                                *)

Edit(p, data) ==
  /\ pc[p] = "idle"
  /\ mem' = [mem EXCEPT ![p] = data]
  /\ late' = [late EXCEPT ![p] = FALSE]
  /\ Goto(p, "saveWait") \/ Goto(p, "idle")
  /\ UNCHANGED <<lockVars, file, committed>>

Save(p, k, v) == Edit(p, SaveEntry(mem[p], k, v))

Delete(p, k) == MayDelete(mem[p], k) /\ Edit(p, DeleteEntry(mem[p], k))

SaveUnlocked(p) ==
  /\ pc[p] = "saveWait"
  /\ Goto(p, "locked")
  /\ UNCHANGED <<lockVars, late, mem, file, committed>>

SaveLocked(p) ==
  /\ pc[p] = "saveWait"
  /\ LockExclusive(p)
  /\ Goto(p, "locked")
  /\ UNCHANGED <<late, mem, file, committed>>

(* os.WriteFile: open with O_TRUNC, then one or more write calls.          *)
Truncate(p) ==
  /\ pc[p] = "locked"
  /\ Goto(p, "truncated")
  /\ file' = NoData
  /\ UNCHANGED <<lockVars, late, mem, committed>>

WritePart(p) ==
  /\ pc[p] = "truncated"
  /\ Goto(p, "torn")
  /\ file' = Unreadable
  /\ UNCHANGED <<lockVars, late, mem, committed>>

WriteAll(p) ==
  /\ Unfinished(p)
  /\ Goto(p, "idle")
  /\ file' = mem[p]
  /\ committed' = mem[p]
  /\ Unlock(p)
  /\ UNCHANGED <<late, mem>>

(* The write (or the open before it) fails: the error is returned and what *)
(* the file has become stays.                                              *)
WriteFails(p) ==
  /\ pc[p] \in Writing
  /\ Goto(p, "idle")
  /\ committed' = IF Unfinished(p) THEN Decode(file) ELSE committed
  /\ Unlock(p)
  /\ UNCHANGED <<late, mem, file>>

(* The execution ends: normally, by log.Fatal, or by osExit(1) on a signal *)
(* at any point.  The system releases its locks.                           *)
Exit(p) ==
  /\ pc[p] # "closed"
  /\ Forget(p)
  /\ committed' = IF Unfinished(p) THEN Decode(file) ELSE committed
  /\ Unlock(p)
  /\ UNCHANGED file

-----------------------------------------------------------------------------
(* What an execution does by itself once it has called the store.          *)
Step(p) ==
  \/ LockBusy(p) \/ Retry(p) \/ GiveUp(p)
  \/ OpenLocked(p) \/ ReadFile(p)
  \/ SaveLocked(p) \/ Truncate(p) \/ WritePart(p) \/ WriteAll(p) \/ WriteFails(p)

Call(p) ==
  \/ Open(p) \/ Exit(p)
  \/ \E k \in Key : Delete(p, k) \/ \E v \in Value : Save(p, k, v)

Next == \E p \in Proc : Step(p) \/ Deadline(p) \/ Call(p)

(* Runnable executions run, and time passes for those that wait.           *)
Fairness == \A p \in Proc : WF_vars(Step(p)) /\ WF_vars(Deadline(p))

Spec == Init /\ [][Next]_vars

FairSpec == Spec /\ Fairness

-----------------------------------------------------------------------------
(* Lock exclusion: an execution that may be writing store.json is alone on *)
(* it: nobody else writes, and nobody reads.                               *)
WriterExcludesAll ==
  \A p, q \in Proc :
    pc[p] \in Writing /\ p # q => pc[q] \notin Writing \union {"reading"}

(* No torn read: whatever the interleaving, an open that has got its lock  *)
(* finds the last completed save, or what an interrupted save left behind, *)
(* never the unfinished contents of a save in progress.                    *)
ReadersSeeCommitted ==
  \A p \in Proc : pc[p] = "reading" => Decode(file) = committed

(* The store refines the all-or-nothing document of SharedStore.           *)
Abstract == INSTANCE SharedStore WITH
  document <- committed,
  copy     <- mem,
  opened   <- {p \in Proc : pc[p] \in Saving \union {"idle"}}

RefinesSharedStore == Abstract!Spec

(* An open, Save* or Delete* never hangs: it is done, fails or the         *)
(* execution ends, however busy the other executions keep the lock, and    *)
(* storage.lock has been given back then.                                  *)
CallsReturn ==
  \A p \in Proc :
    pc[p] \notin {"idle", "closed"} ~>
      pc[p] \in {"idle", "closed"} /\ p \notin shared \union exclusive
=============================================================================
