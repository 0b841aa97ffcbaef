----------------------------- MODULE RoleCreds -----------------------------
(***************************************************************************)
(* Role credentials live in two places that no lock covers together: the   *)
(* SecureStore holds them, the role cache only their expiry.  Every        *)
(* execution loads both files when it starts (LoadSettings, then           *)
(* loadSecureStore), works on its copies and writes a file back as a       *)
(* whole, so the two may disagree: after a failed write, an interrupt      *)
(* between two writes, or the writes of two executions.                    *)
(* GetRoleCredentials asks both, and `aws-sso logout` empties both.        *)
(***************************************************************************)
EXTENDS Naturals

CONSTANTS
  Execution,  \* runs of aws-sso that may overlap
  Role,       \* ARNs in the role cache
  MaxIssued,  \* bound: credentials issued by AWS
  MaxTime     \* bound: the clock

ASSUME CredsAssumption ==
  /\ Execution # {} /\ Role # {}
  /\ MaxIssued \in Nat \ {0} /\ MaxTime \in Nat

(* storage.RoleCredentials: exp is when they end; id 0 stands for none.    *)
NoCreds == [id |-> 0, exp |-> 0]
Creds == {NoCreds} \union [id : 1..MaxIssued, exp : 1..(MaxTime + 2)]

VARIABLES
  now,      \* the clock
  store,    \* role credentials in the SecureStore
  cache,    \* Expires of each role in the cache file (0: expired)
  phase,    \* where each execution is
  memory,   \* its copy of the SecureStore
  expires,  \* its copy of the cache
  role,     \* the role it works on
  todo,     \* logout: roles it still has to look at
  creds,    \* the credentials that GetRoleCredentials returns
  issued,   \* credentials issued so far
  flushed,  \* history: credentials that a logout has reported deleted
  undeleted,  \* history: credentials that a failed write has left in the store
  unrecorded, \* history: credentials whose expiry has not reached the cache file
  overlapped  \* history: two executions have been running at once

files == <<store, cache>>
mine == <<memory, expires, role, todo, creds>>
history == <<flushed, undeleted, unrecorded, overlapped>>
credsVars == <<now, files, phase, mine, issued, history>>

PC == {"off", "loading", "ready", "fetched", "stored", "returned", "flushing"}

CredsTypeOK ==
  /\ now \in 0..MaxTime
  /\ store \in [Role -> Creds]
  /\ cache \in [Role -> 0..(MaxTime + 2)]
  /\ phase \in [Execution -> PC]
  /\ memory \in [Execution -> [Role -> Creds]]
  /\ expires \in [Execution -> [Role -> 0..(MaxTime + 2)]]
  /\ role \in [Execution -> Role]
  /\ todo \in [Execution -> SUBSET Role]
  /\ creds \in [Execution -> Creds]
  /\ issued \in 0..MaxIssued
  /\ flushed \subseteq 1..issued
  /\ undeleted \subseteq 0..MaxIssued /\ unrecorded \subseteq 0..MaxIssued
  /\ overlapped \in BOOLEAN

NoRoles == [r \in Role |-> NoCreds]
AllExpired == [r \in Role |-> 0]
AnyRole == CHOOSE r \in Role : TRUE

CredsInit ==
  /\ now = 0
  /\ store = NoRoles
  /\ cache = AllExpired
  /\ phase = [e \in Execution |-> "off"]
  /\ memory = [e \in Execution |-> NoRoles]
  /\ expires = [e \in Execution |-> AllExpired]
  /\ role = [e \in Execution |-> AnyRole]
  /\ todo = [e \in Execution |-> {}]
  /\ creds = [e \in Execution |-> NoCreds]
  /\ issued = 0
  /\ flushed = {} /\ undeleted = {} /\ unrecorded = {}
  /\ overlapped = FALSE

Goto(e, l) == phase' = [phase EXCEPT ![e] = l]

(* The end of a process, and of what it has in memory.                     *)
Off(e) ==
  /\ Goto(e, "off")
  /\ memory' = [memory EXCEPT ![e] = NoRoles] /\ expires' = [expires EXCEPT ![e] = AllExpired]
  /\ role' = [role EXCEPT ![e] = AnyRole] /\ todo' = [todo EXCEPT ![e] = {}]
  /\ creds' = [creds EXCEPT ![e] = NoCreds]

(* AWSRoleFlat.IsExpired, on the cache; RoleCredentials.Expired, on the    *)
(* credentials, counts the last minute of their life as expired.           *)
IsExpired(e, r) == expires[e][r] <= now
Expired(c) == c.exp <= now + 1

(* Writing a file: what every holder of a copy wrote since it was loaded   *)
(* is overwritten.  A write that fails or is interrupted leaves the file   *)
(* as it was, or truncated, and then the next execution finds nothing in   *)
(* it.  (Half of a store that is a JSON file ends every execution, until   *)
(* it is removed: JsonStore.)                                              *)
WriteStore(m) == store' = m /\ UNCHANGED undeleted

StoreFails(m) ==
  /\ store' \in {store, NoRoles}
  /\ undeleted' = undeleted \union ({store[r].id : r \in {q \in Role : store[q] # m[q]}} \ {0})

SaveStore(m) == WriteStore(m) \/ StoreFails(m)

WriteCache(x) == cache' = x /\ UNCHANGED unrecorded

CacheFails(e, x) ==
  /\ cache' \in {cache, AllExpired}
  /\ unrecorded' = unrecorded \union
       ({c[r].id : c \in {store, memory[e]}, r \in {q \in Role : cache'[q] # x[q]}} \ {0})

SaveCache(e, x) == WriteCache(x) \/ CacheFails(e, x)

-----------------------------------------------------------------------------
LoadCache(e) ==
  /\ phase[e] = "off"
  /\ expires' = [expires EXCEPT ![e] = cache]
  /\ overlapped' = (overlapped \/ \E d \in Execution : phase[d] # "off")
  /\ Goto(e, "loading")
  /\ UNCHANGED <<now, files, memory, role, todo, creds, issued, flushed, undeleted, unrecorded>>

OpenStore(e) ==
  /\ phase[e] = "loading"
  /\ memory' = [memory EXCEPT ![e] = store]
  /\ Goto(e, "ready")
  /\ UNCHANGED <<now, files, expires, role, todo, creds, issued, history>>

(* execCmd, openConsoleAccessKey and ecsLoadCmd: AddHistory and Save, which *)
(* also writes the expiries back.                                          *)
SaveHistory(e) ==
  /\ phase[e] = "ready"
  /\ SaveCache(e, expires[e])
  /\ UNCHANGED <<now, store, phase, mine, issued, flushed, undeleted, overlapped>>

(* Credentials in the store, whatever the cache says of them.              *)
UseStoredAnyway(e, r) ==
  /\ phase[e] = "ready"
  /\ memory[e][r] # NoCreds /\ ~Expired(memory[e][r])
  /\ creds' = [creds EXCEPT ![e] = memory[e][r]]
  /\ Goto(e, "returned")
  /\ UNCHANGED <<now, files, memory, expires, role, todo, issued, history>>

UseStored(e, r) ==
  /\ phase[e] = "ready"
  /\ ~IsExpired(e, r) /\ memory[e][r] # NoCreds /\ ~Expired(memory[e][r])
  /\ creds' = [creds EXCEPT ![e] = memory[e][r]]
  /\ Goto(e, "returned")
  /\ UNCHANGED <<now, files, memory, expires, role, todo, issued, history>>

(* With --sts-refresh, or when the two files have nothing that is still    *)
(* good: ask AWS.  The credentials last for some time.                     *)
Fetch(e, r) ==
  /\ phase[e] = "ready" /\ issued < MaxIssued
  /\ issued' = issued + 1
  /\ \E x \in (now + 2)..(MaxTime + 2) : creds' = [creds EXCEPT ![e] = [id |-> issued', exp |-> x]]
  /\ role' = [role EXCEPT ![e] = r]
  /\ Goto(e, "fetched")
  /\ UNCHANGED <<now, files, memory, expires, todo, history>>

(* SaveRoleCredentials.  Its error is only logged, and leaves the          *)
(* credentials in the copy.                                                *)
SaveRoleCredentials(e) ==
  /\ phase[e] = "fetched"
  /\ memory' = [memory EXCEPT ![e][role[e]] = creds[e]]
  /\ SaveStore(memory'[e])
  /\ Goto(e, "stored")
  /\ UNCHANGED <<now, cache, expires, role, todo, creds, issued, flushed, unrecorded, overlapped>>

Unrecorded(e) == unrecorded' = unrecorded \union {creds[e].id}

(* The expiry that is set without the Save.                                *)
SetRoleExpiresInMemory(e) ==
  /\ phase[e] = "stored"
  /\ expires' = [expires EXCEPT ![e][role[e]] = creds[e].exp]
  /\ Goto(e, "returned")
  /\ UNCHANGED <<now, files, memory, role, todo, creds, issued, history>>

(* A cache that was cut short does not know the role; this error, too, is  *)
(* only logged.                                                            *)
SetRoleExpires(e) ==
  /\ phase[e] = "stored"
  /\ \/ /\ expires' = [expires EXCEPT ![e][role[e]] = creds[e].exp]
        /\ SaveCache(e, expires'[e])
     \/ UNCHANGED <<expires, cache>> /\ Unrecorded(e)
  /\ Goto(e, "returned")
  /\ UNCHANGED <<now, store, memory, role, todo, creds, issued, flushed, undeleted, overlapped>>

-----------------------------------------------------------------------------
(* aws-sso logout: flushSts.                                               *)

Logout(e) ==
  /\ phase[e] = "ready"
  /\ todo' = [todo EXCEPT ![e] = {r \in Role : ~IsExpired(e, r)}]
  /\ Goto(e, "flushing")
  /\ UNCHANGED <<now, files, memory, expires, role, creds, issued, history>>

DeleteRoleCredentials(e, r) ==
  /\ phase[e] = "flushing" /\ r \in todo[e]
  /\ memory' = [memory EXCEPT ![e][r] = NoCreds]
  /\ SaveStore(memory'[e])
  /\ todo' = [todo EXCEPT ![e] = @ \ {r}]
  /\ UNCHANGED <<now, cache, phase, expires, role, creds, issued, flushed, unrecorded, overlapped>>

(* Then logout says that it has deleted the credentials, or that it could  *)
(* not mark them.                                                          *)
MarkRolesExpired(e) ==
  /\ phase[e] = "flushing" /\ todo[e] = {}
  /\ \/ WriteCache(AllExpired) /\ flushed' = 1..issued
     \/ CacheFails(e, AllExpired) /\ UNCHANGED flushed
  /\ Off(e)
  /\ UNCHANGED <<now, store, issued, undeleted, overlapped>>

-----------------------------------------------------------------------------
(* `aws-sso credentials` and role chains go on with another role.          *)
Another(e) ==
  /\ phase[e] = "returned"
  /\ Goto(e, "ready")
  /\ UNCHANGED <<now, files, mine, issued, history>>

(* The end of an execution: done, out of luck with AWS, or interrupted.    *)
Exit(e) ==
  /\ phase[e] # "off"
  /\ Off(e)
  /\ IF phase[e] = "stored" THEN Unrecorded(e) ELSE UNCHANGED unrecorded
  /\ UNCHANGED <<now, files, issued, flushed, undeleted, overlapped>>

Tick ==
  /\ now < MaxTime
  /\ now' = now + 1
  /\ UNCHANGED <<files, phase, mine, issued, history>>

Step(e) ==
  \/ LoadCache(e) \/ OpenStore(e) \/ SaveHistory(e)
  \/ SaveRoleCredentials(e) \/ SetRoleExpires(e)
  \/ Logout(e) \/ MarkRolesExpired(e) \/ Another(e) \/ Exit(e)

RoleStep(e, r) == UseStored(e, r) \/ Fetch(e, r) \/ DeleteRoleCredentials(e, r)

CredsNext ==
  \/ \E e \in Execution : Step(e)
  \/ \E e \in Execution, r \in Role : RoleStep(e, r)
  \/ Tick

CredsSpec == CredsInit /\ [][CredsNext]_credsVars

-----------------------------------------------------------------------------
(* As long as executions come one after the other, interrupted wherever    *)
(* they are, what a logout has reported as deleted is not handed out       *)
(* again, whatever writes of the cache fail: but for credentials that a    *)
(* failed write of the store has left there.                               *)
FlushedNotUsedAgain ==
  ~overlapped =>
    \A e \in Execution :
      phase[e] = "returned" /\ creds[e].id \in flushed => creds[e].id \in undeleted

(* docs/commands.md: logout "removes all IAM Role Credentials cached in    *)
(* the `aws-sso` secure store".  They have expired if they are still       *)
(* there, as long as executions come one after the other, interrupted      *)
(* wherever they are: unless a failed write has left them there, or their  *)
(* expiry never reached the cache, by which logout goes.                   *)
FlushedIsGone ==
  ~overlapped =>
    \A r \in Role :
      store[r].id \in flushed \ (undeleted \union unrecorded) => store[r].exp <= now

(* The invariant of the two files: their values, and that a logout is not  *)
(* undone by what either of them still says.                               *)
CredsInv == CredsTypeOK /\ FlushedNotUsedAgain
=============================================================================
