----------------------------- MODULE RoleCache -----------------------------
(***************************************************************************)
(* The role cache of one SSO instance: the roles AWS grants, with what     *)
(* aws-sso itself knows of them (when their credentials expire, when they  *)
(* were last used) and the history list of recently used roles.  One       *)
(* execution after the other opens the file, uses and refreshes it; the    *)
(* user edits config.yaml and AWS grants and revokes roles in between.     *)
(***************************************************************************)
EXTENDS Naturals, Sequences, SequencesExt

CONSTANTS
  Role,            \* role ARNs that aws-sso may be asked to use
  GrantRole,       \* those AWS may grant
  ViaRole,         \* those config.yaml may reach through another one
  HistoryLimit,    \* settings: entries in the history list
  HistoryMinutes,  \* settings: how long an entry stays (0: for ever)
  FetchRole,       \* bound: roles whose credentials are fetched
  Lifetimes,       \* how long role credentials may be good for
  MaxTime          \* bound: the clock, in minutes

ASSUME CacheAssumption ==
  /\ GrantRole \subseteq Role /\ ViaRole \subseteq Role /\ FetchRole \subseteq Role
  /\ HistoryLimit \in Nat /\ HistoryMinutes \in Nat /\ MaxTime \in Nat \ {0}
  /\ Lifetimes \subseteq Nat \ {0}

Time == 1..MaxTime
Never == 0

(* SSOCache: Roles (with each role's Expires and History tag) and History. *)
Cache == [roles : SUBSET Role, expires : [Role -> Nat],
          tag : [Role -> Time \union {Never}], history : Seq(Role)]

VARIABLES
  now,        \* the clock
  granted,    \* roles that AWS grants
  via,        \* roles that config.yaml reaches through another one (Via)
  file,       \* the cache file
  cache,      \* the copy of the execution that runs
  running,    \* does one run?
  refreshed,  \* has it refreshed its copy?
  strangers   \* history: deleteOldHistory has met a role it does not know
              \* before the end of a list

environment == <<now, granted, via>>
vars == <<environment, file, cache, running, refreshed, strangers>>

TypeOK ==
  /\ now \in Time
  /\ granted \subseteq GrantRole /\ via \subseteq ViaRole
  /\ \A c \in {file, cache} :
       /\ c.roles \subseteq Role
       /\ \A r \in Role : c.expires[r] \in Nat /\ c.tag[r] \in 0..now
       /\ c.history \in Seq(Role) /\ Len(c.history) <= HistoryLimit
       /\ \A r \in Role \ c.roles : c.expires[r] = 0 /\ c.tag[r] = Never
  /\ running \in BOOLEAN /\ refreshed \in BOOLEAN /\ strangers \in BOOLEAN

NewCache == [roles |-> {}, expires |-> [r \in Role |-> 0],
             tag |-> [r \in Role |-> Never], history |-> <<>>]

Init ==
  /\ now = 1
  /\ granted \in SUBSET GrantRole
  /\ via \in SUBSET ViaRole
  /\ file = NewCache /\ cache = NewCache
  /\ running = FALSE /\ refreshed = FALSE /\ strangers = FALSE

-----------------------------------------------------------------------------
(* The history list.                                                       *)

(* deleteHistoryItem: the first occurrence, if any.                        *)
deleteHistoryItem(c, r) == [c EXCEPT !.history = RemoveFirst(@, r)]

(* deleteOldHistory.  The loop runs over the array as it is, while each    *)
(* deleteHistoryItem moves the rest of that array down by one: the item    *)
(* that follows a deleted one is passed over, and the last is seen twice.  *)
(* array is what the loop reads; the first len of it is the list.          *)
Forget(c, r) == [c EXCEPT !.tag[r] = Never]

MovedDown(array, len, r) ==
  LET list == RemoveFirst(SubSeq(array, 1, len), r) IN
  [array |-> list \o SubSeq(array, Len(list) + 1, Len(array)), len |-> Len(list)]

Unknown(c, r) == r \notin c.roles \/ c.tag[r] = Never
Old(c, r) == now - c.tag[r] >= HistoryMinutes

VisitItem(s, i) ==
  LET r == s.array[i]
      shorter == MovedDown(s.array, s.len, r)
      deleted == [s EXCEPT !.array = shorter.array, !.len = shorter.len]
  IN CASE Unknown(s.cache, r) -> deleted
       [] ~Unknown(s.cache, r) /\ Old(s.cache, r) -> [deleted EXCEPT !.cache = Forget(@, r)]
       [] OTHER -> [s EXCEPT !.kept = Append(@, r)]

(* An item that deleteOldHistory drops for a role it does not know, with   *)
(* others behind it.                                                       *)
HasStrangers(c) ==
  /\ HistoryMinutes > 0
  /\ \E i \in 1..Len(c.history) - 1 : Unknown(c, c.history[i])

(* The state of the loop after i items.                                    *)
Visited(c) ==
  LET n == Len(c.history)
      after[i \in 0..n] ==
        IF i = 0 THEN [array |-> c.history, len |-> n, kept |-> <<>>, cache |-> c]
                 ELSE VisitItem(after[i - 1], i)
  IN after

deleteOldHistory(c) ==
  IF HistoryMinutes = 0 THEN c
  ELSE LET end == Visited(c)[Len(c.history)] IN [end.cache EXCEPT !.history = end.kept]

(* r on top of the list, which is cut to its limit.                        *)
Push(c, r) == [c EXCEPT !.history = SubSeq(<<r>> \o @, 1,
                 IF Len(@) + 1 > HistoryLimit THEN HistoryLimit ELSE Len(@) + 1)]

(* The tag of r, if the cache knows r, and no tags but the list's.         *)
Listed(c) == ToSet(c.history)
Tagged(c, r) == IF r \in c.roles THEN [c EXCEPT !.tag[r] = now] ELSE c
OnlyListed(c) ==
  [c EXCEPT !.tag = [r \in Role |-> IF r \in Listed(c) THEN @[r] ELSE Never]]

(* A role that is pushed again and again.                                  *)
AddHistoryAgain(c, r) == OnlyListed(Tagged(Push(c, r), r))

AddHistory(c, r) == OnlyListed(Tagged(Push(deleteHistoryItem(c, r), r), r))

-----------------------------------------------------------------------------
(* Refresh.                                                                *)

(* NewRoles: fresh entries for what AWS grants.  RestoreManualRoles: fresh *)
(* entries for every Via role of config.yaml, granted or not.              *)
NewRoles(c) == [c EXCEPT !.roles = granted, !.expires = [r \in Role |-> 0],
                         !.tag = [r \in Role |-> Never]]

RestoreManualRoles(c) ==
  [c EXCEPT !.roles = @ \union via,
            !.expires = [r \in Role |-> IF r \in via THEN 0 ELSE @[r]],
            !.tag = [r \in Role |-> IF r \in via THEN Never ELSE @[r]]]

(* GetExpirationAndHistory takes what has not expired, and the tags of     *)
(* what the list names; RestoreMetadata puts it back.                      *)
RestoreMetadata(c, old) ==
  [c EXCEPT
     !.expires = [r \in Role |-> IF r \in c.roles /\ old.expires[r] > now THEN old.expires[r] ELSE @[r]],
     !.tag = [r \in Role |-> IF r \in c.roles /\ r \in ToSet(old.history) /\ old.tag[r] # Never
                             THEN old.tag[r] ELSE @[r]]]

(* Via roles that no longer count once AWS does not grant them.            *)
CalculateDiffAll(c) == [added |-> granted \ c.roles, deleted |-> c.roles \ granted]

(* CalculateDiff, which tells the caller of a refresh whether the profiles *)
(* of ~/.aws/config may have changed: before the Via roles are restored,   *)
(* and with the Via roles left out of the old ones.                        *)
CalculateDiff(c) ==
  [added |-> granted \ (c.roles \ via),
   deleted |-> (c.roles \ via) \ granted]

(* Metadata restored before the Via roles are.                             *)
RefreshedTooEarly(c) == RestoreManualRoles(RestoreMetadata(NewRoles(c), c))

Refreshed(c) == RestoreMetadata(RestoreManualRoles(NewRoles(c)), c)

-----------------------------------------------------------------------------
(* One execution.                                                          *)

OpenCache ==
  /\ ~running
  /\ running' = TRUE /\ refreshed' = FALSE
  /\ cache' = deleteOldHistory(file)
  /\ strangers' = (strangers \/ HasStrangers(file))
  /\ UNCHANGED <<environment, file>>

(* Cache.Save, which may fail; the execution goes on with its copy.        *)
Save == file' = cache' \/ UNCHANGED file

(* exec, console and ecs load record the role they are used with, which    *)
(* the cache need not know.                                                *)
UseRole(r) ==
  /\ running
  /\ cache' = AddHistory(cache, r)
  /\ Save
  /\ UNCHANGED <<environment, running, refreshed, strangers>>

SetRoleExpires(r) ==
  /\ running /\ r \in cache.roles
  /\ \E d \in Lifetimes : cache' = [cache EXCEPT !.expires[r] = now + d]
  /\ Save
  /\ UNCHANGED <<environment, running, refreshed, strangers>>

MarkRolesExpired ==
  /\ running
  /\ cache' = [cache EXCEPT !.expires = [r \in Role |-> 0]]
  /\ Save
  /\ UNCHANGED <<environment, running, refreshed, strangers>>

(* Refresh and Save(true): login when the cache has expired, and `cache`.  *)
(* AWS must grant something.                                               *)
Refresh ==
  /\ running /\ ~refreshed /\ granted # {}
  /\ refreshed' = TRUE
  /\ cache' = Refreshed(cache)
  /\ Save
  /\ UNCHANGED <<environment, running, strangers>>

(* A signal while os.WriteFile is at work: what is left of the file does   *)
(* not parse, and OpenCache takes it for an empty cache.                   *)
SaveInterrupted ==
  /\ running
  /\ running' = FALSE
  /\ file' = NewCache /\ cache' = NewCache
  /\ refreshed' = FALSE
  /\ UNCHANGED <<environment, strangers>>

(* The end of the execution; a refresh that fails ends it too, and saves   *)
(* nothing.                                                                *)
Exit ==
  /\ running
  /\ running' = FALSE
  /\ cache' = NewCache
  /\ refreshed' = FALSE
  /\ UNCHANGED <<environment, file, strangers>>

-----------------------------------------------------------------------------
(* What goes on around the executions.                                     *)

Tick ==
  /\ now < MaxTime
  /\ now' = now + 1
  /\ UNCHANGED <<granted, via, file, cache, running, refreshed, strangers>>

Administer ==
  /\ ~running
  /\ granted' \in SUBSET GrantRole
  /\ UNCHANGED <<now, via, file, cache, running, refreshed, strangers>>

EditConfig ==
  /\ ~running
  /\ via' \in SUBSET ViaRole
  /\ UNCHANGED <<now, granted, file, cache, running, refreshed, strangers>>

Next ==
  \/ OpenCache \/ MarkRolesExpired \/ Refresh \/ SaveInterrupted \/ Exit
  \/ \E r \in Role : UseRole(r)
  \/ \E r \in FetchRole : SetRoleExpires(r)
  \/ Tick \/ Administer \/ EditConfig

Spec == Init /\ [][Next]_vars

-----------------------------------------------------------------------------
(* docs/config.md: the history is a list of unique roles, most recent      *)
(* first, and a role carries the tag while it is in the list; one that has *)
(* left it with the tag on is too old for it.  Refreshes that drop and     *)
(* re-create the roles do not break it, nor does a list full of roles that *)
(* grew old together; a role that is no longer known does, once            *)
(* deleteOldHistory meets it before the end of the list.                   *)
HistoryInOrder ==
  ~strangers =>
  \A c \in {file, cache} :
    /\ IsInjective(c.history)
    /\ \A i, j \in DOMAIN c.history :
         i < j /\ c.tag[c.history[j]] # Never /\ c.tag[c.history[i]] # Never =>
           c.tag[c.history[i]] >= c.tag[c.history[j]]
    /\ \A r \in Role : c.tag[r] # Never => \/ r \in Listed(c)
                                          \/ (HistoryMinutes > 0 /\ Old(c, r))

(* A refresh keeps what aws-sso knows of every role that stays, whether    *)
(* AWS grants it or config.yaml defines it: credentials that are still     *)
(* good and the time of its last use.                                      *)
RefreshKeepsMetadata ==
  [][Refresh =>
       \A r \in cache.roles \intersect cache'.roles :
         /\ cache.expires[r] > now => cache'.expires[r] = cache.expires[r]
         /\ r \in Listed(cache) => cache'.tag[r] = cache.tag[r]]_vars

(* The difference that a refresh reports is what happens to the cache: a   *)
(* role reported as deleted is gone and not defined by config.yaml, and    *)
(* every role that comes or goes is reported, unless config.yaml defines   *)
(* it.                                                                     *)
DiffIsTrue ==
  [][Refresh =>
       LET diff == CalculateDiff(cache) IN
         /\ diff.deleted \intersect (cache'.roles \union via) = {}
         /\ cache'.roles \ cache.roles \subseteq diff.added \union via
         /\ cache.roles \ cache'.roles \subseteq diff.deleted]_vars

(* The invariant of the cache: the values of its parts, and the order of   *)
(* its history, which the tags of the roles repeat.                        *)
CacheInv == TypeOK /\ HistoryInOrder
=============================================================================
