-------------------------- MODULE OnePasswordStore --------------------------
(***************************************************************************)
(* The "1password" SecureStore shared by several executions of aws-sso.    *)
(* The service keeps items with a version; Put carries the version the     *)
(* caller knows and is refused unless it is the item's current one.  There *)
(* is no lock: an execution loads the item once and then edits its copy.   *)
(***************************************************************************)
EXTENDS StoreData, Naturals

CONSTANTS
  Proc,         \* executions of aws-sso that use the same vault
  ItemId,       \* IDs the service can give to items
  NoItem,       \* the empty itemID
  MaxVersion    \* bound: an item is written at most this many times

ASSUME NoItemAssumption == NoItem \notin ItemId
ASSUME MaxVersionAssumption == MaxVersion \in Nat \ {0}

VARIABLES
  pc,           \* where each execution is
  mem,          \* OnePasswordStore.cache of each execution
  itemID,       \* OnePasswordStore.itemID of each execution
  version,      \* OnePasswordStore.version of each execution
  items,        \* IDs of the vault's items titled aws-sso-cli
  current,      \* the service's version of each item
  data,         \* the document in each item
  touched       \* history: keys edited since the copy last matched the item

vars == <<pc, mem, itemID, version, items, current, data, touched>>
service == <<items, current, data>>
session == <<itemID, version>>

PC == {"closed", "listed", "idle", "saving"}

TypeOK ==
  /\ pc \in [Proc -> PC]
  /\ mem \in [Proc -> Snapshot]
  /\ itemID \in [Proc -> ItemId \union {NoItem}]
  /\ version \in [Proc -> Nat]
  /\ items \subseteq ItemId
  /\ current \in [ItemId -> Nat]
  /\ data \in [ItemId -> Snapshot]
  /\ touched \in [Proc -> SUBSET Key]

Init ==
  /\ pc = [p \in Proc |-> "closed"]
  /\ mem = [p \in Proc |-> NewStorageData]
  /\ itemID = [p \in Proc |-> NoItem]
  /\ version = [p \in Proc |-> 0]
  /\ items = {}
  /\ current = [i \in ItemId |-> 0]
  /\ data = [i \in ItemId |-> NewStorageData]
  /\ touched = [p \in Proc |-> {}]

Goto(p, l) == pc' = [pc EXCEPT ![p] = l]

-----------------------------------------------------------------------------
(* openOnePasswordStore: List, then Get of the first item with the title.  *)
(* The service promises no order, so any of them can be the first.         *)

List(p) ==
  /\ pc[p] = "closed"
  /\ \/ /\ items = {}
        /\ Goto(p, "idle")
        /\ UNCHANGED itemID
     \/ \E i \in items :
          /\ Goto(p, "listed")
          /\ itemID' = [itemID EXCEPT ![p] = i]
  /\ UNCHANGED <<service, mem, version, touched>>

(* A reading that takes what does not unmarshal for loaded.                *)
GetUnchecked(p) ==
  /\ pc[p] = "listed"
  /\ Goto(p, "idle")
  /\ \E bytes \in {data[itemID[p]], Unreadable} : mem' = [mem EXCEPT ![p] = bytes]
  /\ version' = [version EXCEPT ![p] = current[itemID[p]]]
  /\ UNCHANGED <<service, itemID, touched>>

Get(p) ==
  /\ pc[p] = "listed"
  /\ Goto(p, "idle")
  /\ mem' = [mem EXCEPT ![p] = data[itemID[p]]]
  /\ version' = [version EXCEPT ![p] = current[itemID[p]]]
  /\ UNCHANGED <<service, itemID, touched>>

(* Save* and Delete*: edit the cache, then saveStorageData.                *)
Edit(p, k, copy) ==
  /\ pc[p] = "idle"
  /\ Goto(p, "saving")
  /\ mem' = [mem EXCEPT ![p] = copy]
  /\ touched' = [touched EXCEPT ![p] = @ \union {k}]
  /\ UNCHANGED <<service, session>>

Save(p, k, v) == Edit(p, k, SaveEntry(mem[p], k, v))

Delete(p, k) == MayDelete(mem[p], k) /\ Edit(p, k, DeleteEntry(mem[p], k))

-----------------------------------------------------------------------------
(* saveStorageData.  The first call creates the item.                      *)

(* What the service does with a Create; the reply still has to arrive.     *)
ServiceCreate(p, i) ==
  /\ i \in ItemId \ items
  /\ items' = items \union {i}
  /\ current' = [current EXCEPT ![i] = 1]
  /\ data' = [data EXCEPT ![i] = mem[p]]

Create(p) ==
  /\ pc[p] = "saving" /\ itemID[p] = NoItem
  /\ \E i \in ItemId :
       /\ ServiceCreate(p, i)
       /\ itemID' = [itemID EXCEPT ![p] = i]
  /\ version' = [version EXCEPT ![p] = 1]
  /\ touched' = [touched EXCEPT ![p] = {}]
  /\ Goto(p, "idle")
  /\ UNCHANGED mem

(* A service that does not compare versions.                               *)
ServicePutUnversioned(p) ==
  LET i == itemID[p] IN
  /\ current[i] < MaxVersion
  /\ current' = [current EXCEPT ![i] = @ + 1]
  /\ data' = [data EXCEPT ![i] = mem[p]]
  /\ UNCHANGED items

(* What the service does with a Put that carries the current version.      *)
ServicePut(p) ==
  LET i == itemID[p] IN
  /\ version[p] = current[i]
  /\ current[i] < MaxVersion
  /\ current' = [current EXCEPT ![i] = @ + 1]
  /\ data' = [data EXCEPT ![i] = mem[p]]
  /\ UNCHANGED items

Put(p) ==
  /\ pc[p] = "saving" /\ itemID[p] # NoItem
  /\ ServicePut(p)
  /\ version' = [version EXCEPT ![p] = @ + 1]
  /\ touched' = [touched EXCEPT ![p] = {}]
  /\ Goto(p, "idle")
  /\ UNCHANGED <<mem, itemID>>

(* A refused Put after which the store adopts the item's version.          *)
ConflictAdopts(p) ==
  /\ pc[p] = "saving" /\ itemID[p] # NoItem
  /\ version[p] # current[itemID[p]]
  /\ version' = [version EXCEPT ![p] = current[itemID[p]]]
  /\ Goto(p, "idle")
  /\ UNCHANGED <<service, mem, itemID, touched>>

(* The service refuses a Put with an old version.  Memory keeps the edit   *)
(* and the store keeps the old version.                                    *)
Conflict(p) ==
  /\ pc[p] = "saving" /\ itemID[p] # NoItem
  /\ version[p] # current[itemID[p]]
  /\ Goto(p, "idle")
  /\ UNCHANGED <<service, session, mem, touched>>

(* The call fails: the service never saw it, or it did and the reply is    *)
(* lost.  Either way nothing in the store records the outcome.             *)
CallFails(p) ==
  /\ pc[p] = "saving"
  /\ Goto(p, "idle")
  /\ \/ UNCHANGED service
     \/ itemID[p] = NoItem /\ \E i \in ItemId : ServiceCreate(p, i)
     \/ itemID[p] # NoItem /\ ServicePut(p)
  /\ UNCHANGED <<session, mem, touched>>

(* The execution ends: normally, by an error or by a signal.               *)
Exit(p) ==
  /\ pc[p] # "closed"
  /\ Goto(p, "closed")
  /\ mem' = [mem EXCEPT ![p] = NewStorageData]
  /\ itemID' = [itemID EXCEPT ![p] = NoItem]
  /\ version' = [version EXCEPT ![p] = 0]
  /\ touched' = [touched EXCEPT ![p] = {}]
  /\ UNCHANGED service

Next ==
  \E p \in Proc :
    \/ List(p) \/ Get(p) \/ Create(p) \/ Put(p) \/ Conflict(p) \/ CallFails(p)
    \/ Exit(p)
    \/ \E k \in Key : Delete(p, k) \/ \E v \in Value : Save(p, k, v)

Spec == Init /\ [][Next]_vars

-----------------------------------------------------------------------------
Loaded(p) == pc[p] \in {"idle", "saving"} /\ itemID[p] # NoItem

Stale(p) == Loaded(p) /\ version[p] # current[itemID[p]]

(* The version stands for the contents: an execution that knows an item's  *)
(* current version has the item's contents in memory, but for the keys it  *)
(* has edited since.  This is what makes the versioned Put safe.           *)
CurrentCopyAgrees ==
  \A p \in Proc : Loaded(p) /\ ~Stale(p) =>
    \A k \in Key \ touched[p] : mem[p][k] = data[itemID[p]][k]

(* No lost update within an item: a write of an execution to an item that  *)
(* exists changes only the keys that the execution itself saved or         *)
(* deleted.                                                                *)
PutsOnlyOwnKeys ==
  [][\A p \in Proc :
       pc[p] = "saving" /\ pc'[p] = "idle" =>
         \A i \in items : \A k \in Key \ touched[p] : data'[i][k] = data[i][k]]_vars

(* A copy that has become stale never writes again: the store does not     *)
(* reload, so only a new execution gets past the conflict.                 *)
StaleUntilExit ==
  [][\A p \in Proc : Stale(p) =>
       /\ Stale(p)' \/ pc'[p] = "closed"
       /\ pc'[p] # pc[p] => UNCHANGED service]_vars

=============================================================================
