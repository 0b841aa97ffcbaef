------------------------------ MODULE FileLock ------------------------------
(***************************************************************************)
(* The advisory lock file storage.lock, as the storage backends use it     *)
(* through the fslock library: WithSharedBlocking and WithBlocking take    *)
(* the lock in shared or exclusive mode, run a callback and release it.    *)
(* The operating system drops whatever a dead process held.                *)
(***************************************************************************)

CONSTANT Proc               \* executions of aws-sso on one machine

VARIABLES
  shared,                   \* executions that hold storage.lock in shared mode
  exclusive                 \* executions that hold it in exclusive mode

lockVars == <<shared, exclusive>>

LockTypeOK ==
  /\ shared \subseteq Proc
  /\ exclusive \subseteq Proc

LockInit ==
  /\ shared = {}
  /\ exclusive = {}

CanLockShared    == exclusive = {}
CanLockExclusive == exclusive = {} /\ shared = {}

LockShared(p) ==
  /\ CanLockShared
  /\ shared' = shared \union {p}
  /\ UNCHANGED exclusive

LockExclusive(p) ==
  /\ CanLockExclusive
  /\ exclusive' = exclusive \union {p}
  /\ UNCHANGED shared

Unlock(p) ==
  /\ shared' = shared \ {p}
  /\ exclusive' = exclusive \ {p}

=============================================================================
