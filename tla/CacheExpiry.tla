---------------------------- MODULE CacheExpiry ----------------------------
(***************************************************************************)
(* When the role cache is refreshed.  The cache file holds one entry per   *)
(* SSO instance, with its own LastUpdate, but a single Version and a       *)
(* single ConfigCreatedAt.  Executions load the file and config.yaml when  *)
(* they start, refresh the entry of the SSO they were started for when     *)
(* Cache.Expired says so, and write their whole copy back.                 *)
(***************************************************************************)
EXTENDS Naturals, FiniteSets

CONSTANTS
  Execution,          \* runs of aws-sso that may overlap
  SSO,                \* names of SSO instances
  TTL,                \* CacheRefresh (0: never refresh)
  MaxTime             \* bound: the clock

ASSUME ExpiryAssumption ==
  /\ Execution # {} /\ SSO # {}
  /\ TTL \in Nat /\ MaxTime \in Nat \ {0}

Time == 0..MaxTime

(* SSOCache: LastUpdate, and the config.yaml that its Roles were made of.  *)
Entry == [last : Time, config : Time]
NoEntry == [last |-> 0, config |-> 0]

(* The file; one that does not parse is an empty cache of Version 1.       *)
Cache == [version : {"old", "current"}, created : Time, sso : [SSO -> Entry]]
EmptyCache == [version |-> "old", created |-> 0, sso |-> [s \in SSO |-> NoEntry]]

VARIABLES
  now,         \* the clock
  modified,    \* when config.yaml was last modified; stands for its contents
  configured,  \* SSO instances in config.yaml
  file,        \* the cache file
  pc,          \* where each execution is
  sso,         \* the SSO instance it was started for
  config,      \* config.yaml as it has loaded it
  names,       \* the SSO instances in there
  cache,       \* its copy of the cache
  refreshed,   \* Cache.refreshed
  used,        \* history: SSO instances that executions were started for
  overlapped,  \* history: two executions have been running at once
  midEdit      \* history: config.yaml was modified while one was running

environment == <<now, modified, configured>>
history == <<used, overlapped, midEdit>>
mine == <<sso, config, names, cache, refreshed>>
vars == <<environment, file, pc, mine, history>>

TypeOK ==
  /\ now \in Time /\ modified \in 0..now
  /\ configured \in (SUBSET SSO) \ {{}}
  /\ file \in Cache
  /\ pc \in [Execution -> {"off", "started", "ready"}]
  /\ sso \in [Execution -> SSO]
  /\ config \in [Execution -> Time]
  /\ names \in [Execution -> SUBSET SSO]
  /\ cache \in [Execution -> Cache]
  /\ refreshed \in [Execution -> BOOLEAN]
  /\ used \subseteq SSO
  /\ overlapped \in BOOLEAN /\ midEdit \in BOOLEAN

AnySSO == CHOOSE s \in SSO : TRUE

(* No cache yet, or one that an earlier version of aws-sso has left.       *)
Init ==
  /\ now = 1 /\ modified = 1 /\ configured = SSO
  /\ \/ file = EmptyCache
     \/ file = [version |-> "old", created |-> 1, sso |->
                  [s \in SSO |-> [last |-> 1, config |-> 1]]]
  /\ pc = [e \in Execution |-> "off"]
  /\ sso = [e \in Execution |-> AnySSO]
  /\ config = [e \in Execution |-> 0]
  /\ names = [e \in Execution |-> {}]
  /\ cache = [e \in Execution |-> EmptyCache]
  /\ refreshed = [e \in Execution |-> FALSE]
  /\ used = {}
  /\ overlapped = FALSE /\ midEdit = FALSE

-----------------------------------------------------------------------------
(* Cache.Expired.                                                          *)
Expired(c, s) ==
  \/ c.version = "old"
  \/ TTL > 0 /\ (c.sso[s].last + TTL < now \/ modified > c.created)

(* Refresh that stamps the cache with the time and not with config.yaml's. *)
RefreshStampsNow(e, c) ==
  IF refreshed[e] THEN c
  ELSE [c EXCEPT !.created = now, !.sso[sso[e]].config = config[e]]

(* Cache.Refresh: at most once, from config.yaml as loaded, while          *)
(* ConfigCreatedAt is that of the file at this moment.                     *)
Refresh(e, c) ==
  IF refreshed[e] THEN c
  ELSE [c EXCEPT !.created = modified, !.sso[sso[e]].config = config[e]]

(* PruneSSO that keeps the active SSO only.                                *)
PruneOthers(e, c) ==
  [c EXCEPT !.sso = [s \in SSO |-> IF s = sso[e] THEN @[s] ELSE NoEntry]]

PruneSSO(e, c) ==
  [c EXCEPT !.sso = [s \in SSO |-> IF s \in names[e] THEN @[s] ELSE NoEntry]]

(* LastUpdate set to when the next refresh is due.                         *)
StampedAhead(e, c, updateTime) ==
  [c EXCEPT !.version = "current",
            !.sso[sso[e]].last = IF updateTime THEN now + TTL ELSE @]

(* Save stamps the version, and LastUpdate when asked to, and writes.      *)
Stamped(e, c, updateTime) ==
  [c EXCEPT !.version = "current",
            !.sso[sso[e]].last = IF updateTime THEN now ELSE @]

Save(e, c, updateTime) ==
  /\ cache' = [cache EXCEPT ![e] = Stamped(e, c, updateTime)]
  /\ file' = cache'[e]

Goto(e, l) == pc' = [pc EXCEPT ![e] = l]

-----------------------------------------------------------------------------
Running == {e \in Execution : pc[e] # "off"}

(* LoadSettings: config.yaml, then the cache.                              *)
Start(e, s) ==
  /\ pc[e] = "off" /\ s \in configured
  /\ Goto(e, "started")
  /\ sso' = [sso EXCEPT ![e] = s]
  /\ config' = [config EXCEPT ![e] = modified]
  /\ names' = [names EXCEPT ![e] = configured]
  /\ cache' = [cache EXCEPT ![e] = file]
  /\ refreshed' = [refreshed EXCEPT ![e] = FALSE]
  /\ used' = used \union {s}
  /\ overlapped' = (overlapped \/ Running # {})
  /\ UNCHANGED <<environment, file, midEdit>>

(* The SSO token is valid: no login, and no look at the cache.             *)
HasToken(e) ==
  /\ pc[e] = "started"
  /\ Goto(e, "ready")
  /\ UNCHANGED <<environment, file, mine, history>>

(* doAuth, once the user is authenticated.                                 *)
Login(e) ==
  /\ pc[e] = "started"
  /\ Goto(e, "ready")
  /\ IF Expired(cache[e], sso[e])
     THEN /\ \/ Save(e, Refresh(e, cache[e]), TRUE)
             \/ /\ cache' = [cache EXCEPT ![e] = Stamped(e, Refresh(e, @), TRUE)]
                /\ UNCHANGED file
          /\ refreshed' = [refreshed EXCEPT ![e] = TRUE]
     ELSE UNCHANGED <<file, cache, refreshed>>
  /\ UNCHANGED <<environment, sso, config, names, history>>

(* CacheCmd.Run: `aws-sso cache`, and the commands that find the cache     *)
(* expired.                                                                *)
CacheCmd(e) ==
  /\ pc[e] = "ready"
  /\ Save(e, PruneSSO(e, Refresh(e, cache[e])), TRUE)
  /\ refreshed' = [refreshed EXCEPT ![e] = TRUE]
  /\ UNCHANGED <<environment, pc, sso, config, names, history>>

(* exec, console, ecs load and logout: AddHistory, SetRoleExpires and      *)
(* MarkRolesExpired end with Save(false).                                  *)
UseRole(e) ==
  /\ pc[e] = "ready"
  /\ Save(e, cache[e], FALSE)
  /\ UNCHANGED <<environment, pc, sso, config, names, refreshed, history>>

(* The end: done, failed, or killed while it writes the file.              *)
Exit(e) ==
  /\ pc[e] # "off"
  /\ Goto(e, "off")
  /\ cache' = [cache EXCEPT ![e] = EmptyCache]
  /\ file' \in {file, EmptyCache}
  /\ UNCHANGED <<environment, sso, config, names, refreshed, history>>

-----------------------------------------------------------------------------
Tick ==
  /\ now < MaxTime
  /\ now' = now + 1
  /\ UNCHANGED <<modified, configured, file, pc, mine, history>>

(* Two edits in one second are not told apart by anybody.                  *)
EditConfig ==
  /\ modified < now
  /\ modified' = now
  /\ configured' \in (SUBSET SSO) \ {{}}
  /\ midEdit' = (midEdit \/ Running # {})
  /\ UNCHANGED <<now, file, pc, mine, used, overlapped>>

Next ==
  \/ \E e \in Execution : HasToken(e) \/ Login(e) \/ CacheCmd(e) \/ UseRole(e) \/ Exit(e)
  \/ \E e \in Execution, s \in SSO : Start(e, s)
  \/ Tick \/ EditConfig

Spec == Init /\ [][Next]_vars

-----------------------------------------------------------------------------
Mine(e) == cache[e].sso[sso[e]]

(* cache.go: the modification time of config.yaml "vs. the ConfigCreatedAt *)
(* to determine if the cache needs to be updated".  As long as there is    *)
(* one SSO instance in use, and config.yaml is edited only when nothing    *)
(* runs, a login that loaded config.yaml as it is now leaves roles that    *)
(* were built from it, whoever else refreshes, overwrites or loses the     *)
(* file meanwhile.                                                         *)
ConfigChangeSeen ==
  [][\A e \in Execution :
       /\ Login(e) /\ TTL > 0 /\ config[e] = modified
       /\ Cardinality(used) = 1 /\ ~midEdit
       => Mine(e)'.config = modified]_vars

(* What the file knows of one SSO instance is not touched by an execution  *)
(* for another one, as long as both are configured and executions do not   *)
(* overlap.                                                                *)
OthersKept ==
  [][\A e \in Execution :
       ~overlapped /\ cache'[e] # cache[e] /\ pc'[e] # "off" /\ file' # file =>
         \A s \in names[e] \ {sso[e]} : file'.sso[s] = file.sso[s]]_vars

============================================================================
