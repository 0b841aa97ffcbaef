------------------------- MODULE CacheExpiryProofs -------------------------
(***************************************************************************)
(* Proofs about the cache file of several SSO instances (CacheExpiry), for *)
(* any executions, instances and times: a login sees an edit of            *)
(* config.yaml, and instances do not disturb each other's entries.         *)
(***************************************************************************)
EXTENDS CacheExpiry, FiniteSetTheorems, TLAPS

(* As long as one SSO instance has been used, and config.yaml is edited    *)
(* only while nothing runs, its entry was built from the config.yaml that  *)
(* the cache has the stamp of.                                             *)
BuiltFromStamp(c) ==
  /\ c.created <= modified
  /\ ~midEdit => \A s \in SSO : used \subseteq {s} => c.sso[s].config = c.created

(* That goes for the file and for every copy, and an execution that has    *)
(* not refreshed yet knows config.yaml as it is.                           *)
ConfigInv ==
  /\ IsFiniteSet(used)
  /\ BuiltFromStamp(file)
  /\ \A e \in Execution : BuiltFromStamp(cache[e])
  /\ \A e \in Running : /\ sso[e] \in names[e] /\ sso[e] \in used
                        /\ ~midEdit => config[e] = modified
                        /\ pc[e] = "started" => ~refreshed[e]

(* An execution that is alone knows of the other instances what the file   *)
(* does.                                                                   *)
AloneInv ==
  ~overlapped =>
    /\ \A d, e \in Running : d = e
    /\ \A e \in Running : \A s \in SSO \ {sso[e]} : cache[e].sso[s] = file.sso[s]

(* The inductive invariant.                                                *)
IInv == TypeOK /\ ConfigInv /\ AloneInv

-----------------------------------------------------------------------------
(* A cache with nothing in it: what is left of one that does not parse.    *)
LEMMA EmptyIsCache ==
  /\ EmptyCache \in Cache /\ EmptyCache.created = 0
  /\ \A s \in SSO : EmptyCache.sso[s].config = 0
BY ExpiryAssumption DEF EmptyCache, NoEntry, Cache,
   Entry, Time

(* Save stamps an entry, and changes no role and no other entry.           *)
LEMMA Stamps ==
  ASSUME TypeOK, NEW e \in Execution, NEW c \in Cache, NEW b \in BOOLEAN
  PROVE  LET d == Stamped(e, c, b) IN
           /\ d \in Cache /\ d.created = c.created
           /\ \A s \in SSO : d.sso[s].config = c.sso[s].config
           /\ \A s \in SSO \ {sso[e]} : d.sso[s] = c.sso[s]
<1> DEFINE last == IF b THEN now ELSE c.sso[sso[e]].last
           d == Stamped(e, c, b)
           entry == [last |-> last, config |-> c.sso[sso[e]].config]
           old == c.sso
           new == [s \in SSO |-> IF s = sso[e] THEN entry ELSE old[s]]
<1>1. /\ sso[e] \in SSO /\ old \in [SSO -> Entry] /\ c.created \in Time
      /\ c = [version |-> c.version, created |-> c.created, sso |-> old]
      /\ now \in Time
  BY DEF TypeOK, Cache
<1>2. last \in Time /\ entry \in Entry /\ new \in [SSO -> Entry]
  BY <1>1 DEF Entry
<1>3. d = [c EXCEPT !.version = "current", !.sso = [old EXCEPT ![sso[e]] = [@ EXCEPT !.last = last]]]
  BY DEF Stamped
<1>4. [old EXCEPT ![sso[e]] = [@ EXCEPT !.last = last]] = new
  <2>1. [old[sso[e]] EXCEPT !.last = last] = entry
    BY <1>1 DEF Entry
  <2> HIDE DEF old, entry
  <2> QED
    BY <1>1, <2>1
<1> HIDE DEF new
<1>5. d = [version |-> "current", created |-> c.created, sso |-> new]
  <2> HIDE DEF old
  <2> QED
    BY <1>1, <1>3, <1>4
<1>6. d \in Cache
  BY <1>1, <1>2, <1>5 DEF Cache
<1> QED
  BY <1>1, <1>5, <1>6 DEF new

(* Refresh builds one entry from config.yaml, and only the first time.     *)
LEMMA Refreshes ==
  ASSUME TypeOK, NEW e \in Execution, NEW c \in Cache
  PROVE  LET d == Refresh(e, c) IN
           /\ d \in Cache
           /\ refreshed[e] => d = c
           /\ ~refreshed[e] => d.created = modified /\ d.sso[sso[e]].config = config[e]
           /\ \A s \in SSO \ {sso[e]} : d.sso[s] = c.sso[s]
<1>1. CASE refreshed[e]
  BY <1>1 DEF Refresh
<1>2. CASE ~refreshed[e]
  <2> DEFINE d == Refresh(e, c)
             entry == [last |-> c.sso[sso[e]].last, config |-> config[e]]
             old == c.sso
             new == [s \in SSO |-> IF s = sso[e] THEN entry ELSE old[s]]
  <2>1. /\ sso[e] \in SSO /\ old \in [SSO -> Entry] /\ modified \in Time /\ config[e] \in Time
        /\ c = [version |-> c.version, created |-> c.created, sso |-> old]
        /\ c.version \in {"old", "current"}
    BY ExpiryAssumption DEF TypeOK, Cache, Time
  <2>2. entry \in Entry /\ new \in [SSO -> Entry]
    BY <2>1 DEF Entry
  <2>3. d = [c EXCEPT !.created = modified, !.sso = [old EXCEPT ![sso[e]] = [@ EXCEPT !.config = config[e]]]]
    BY <1>2 DEF Refresh
  <2>4. [old EXCEPT ![sso[e]] = [@ EXCEPT !.config = config[e]]] = new
    <3>1. [old[sso[e]] EXCEPT !.config = config[e]] = entry
      BY <2>1 DEF Entry
    <3> HIDE DEF old, entry
    <3> QED
      BY <2>1, <3>1
  <2> HIDE DEF new
  <2>5. d = [version |-> c.version, created |-> modified, sso |-> new]
    <3> HIDE DEF old
    <3> QED
      BY <2>1, <2>3, <2>4
  <2>6. d \in Cache
    BY <2>1, <2>2, <2>5 DEF Cache
  <2> QED
    BY <1>2, <2>1, <2>5, <2>6 DEF new
<1> QED
  BY <1>1, <1>2

(* PruneSSO keeps the entries of the configured SSO instances.             *)
LEMMA Prunes ==
  ASSUME NEW e \in Execution, NEW c \in Cache
  PROVE  LET d == PruneSSO(e, c) IN
           /\ d \in Cache /\ d.created = c.created
           /\ \A s \in SSO : s \in names[e] => d.sso[s] = c.sso[s]
<1>1. NoEntry \in Entry
  BY ExpiryAssumption DEF NoEntry, Entry, Time
<1> QED
  BY <1>1 DEF PruneSSO, Cache

(* The invariant holds at first.                                           *)
LEMMA InvInit == Init => IInv
<1> SUFFICES ASSUME Init
             PROVE  IInv
  OBVIOUS
<1>1. AnySSO \in SSO
  BY ExpiryAssumption DEF AnySSO
<1>2. file \in Cache /\ file.created <= 1 /\ \A s \in SSO : file.sso[s].config = file.created
  BY EmptyIsCache, ExpiryAssumption DEF Init, Cache,
     Entry, Time
<1>3. TypeOK
  <2>1. now \in Time /\ modified \in 0..now
    BY ExpiryAssumption DEF Init, Time
  <2>3. configured \in (SUBSET SSO) \ {{}}
    BY ExpiryAssumption DEF Init
  <2>2. /\ pc \in [Execution -> {"off", "started", "ready"}]
        /\ sso \in [Execution -> SSO] /\ config \in [Execution -> Time]
        /\ names \in [Execution -> SUBSET SSO] /\ cache \in [Execution -> Cache]
        /\ refreshed \in [Execution -> BOOLEAN]
    BY <1>1, EmptyIsCache, ExpiryAssumption DEF Init, Time
  <2> QED
    BY <1>2, <2>1, <2>2, <2>3 DEF Init, TypeOK
<1>4. ConfigInv
  <2>1. IsFiniteSet(used)
    BY FS_EmptySet DEF Init
  <2>2. Running = {}
    BY DEF Init, Running
  <2> QED
    BY <1>2, <2>1, <2>2, EmptyIsCache DEF Init, ConfigInv, BuiltFromStamp
<1>5. AloneInv
  BY DEF Init, AloneInv, Running
<1> QED
  BY <1>3, <1>4, <1>5 DEF IInv

(* A save, or one that fails: the copy, and perhaps the file, is d.        *)
Saved(e, d) ==
  /\ cache' = [cache EXCEPT ![e] = d]
  /\ file' \in {file, d}
  /\ UNCHANGED <<environment, sso, config, names, history>>

(* Saving a copy that was built from its stamp keeps the invariant.        *)
LEMMA SavedKeeps ==
  ASSUME IInv, NEW e \in Running, NEW d \in Cache, Saved(e, d),
         pc' \in [Execution -> {"off", "started", "ready"}], Running' = Running,
         refreshed' \in [Execution -> BOOLEAN], pc'[e] # "started",
         \A f \in Execution \ {e} : pc'[f] = pc[f] /\ refreshed'[f] = refreshed[f],
         BuiltFromStamp(d),
         file' = d \/ \A s \in SSO \ {sso[e]} : d.sso[s] = cache[e].sso[s]
  PROVE  IInv'
<1>1. e \in Execution /\ cache \in [Execution -> Cache] /\ file \in Cache
  BY DEF Running, IInv, TypeOK
<1>2. \A f \in Execution : cache'[f] = IF f = e THEN d ELSE cache[f]
  BY <1>1 DEF Saved
<1>3. TypeOK'
  BY <1>1 DEF IInv, TypeOK, Saved, environment,
     history
<1>4. ConfigInv'
  <2>1. BuiltFromStamp(file) /\ \A f \in Execution : BuiltFromStamp(cache[f])
    BY DEF IInv, ConfigInv
  <2>2. BuiltFromStamp(file') /\ \A f \in Execution : BuiltFromStamp(cache'[f])
    BY <1>2, <2>1 DEF Saved
  <2>3. /\ modified' = modified /\ midEdit' = midEdit /\ used' = used
        /\ sso' = sso /\ names' = names /\ config' = config
    BY DEF Saved, environment, history
  <2>4. \A f \in Running : /\ sso[f] \in names[f] /\ sso[f] \in used
                           /\ ~midEdit => config[f] = modified
                           /\ pc'[f] = "started" => ~refreshed'[f]
    <3>1. \A f \in Running : f \in Execution
      BY DEF Running
    <3> QED
      BY <3>1 DEF IInv, ConfigInv
  <2>5. ASSUME NEW f \in Running'
        PROVE  /\ sso'[f] \in names'[f] /\ sso'[f] \in used'
               /\ ~midEdit' => config'[f] = modified'
               /\ pc'[f] = "started" => ~refreshed'[f]
    <3>1. f \in Running
      OBVIOUS
    <3>2. /\ sso[f] \in names[f] /\ sso[f] \in used
          /\ ~midEdit => config[f] = modified
      BY <2>4, <3>1
    <3>3. pc'[f] = "started" => ~refreshed'[f]
      BY <2>4, <3>1
    <3> QED
      BY <2>3, <3>2, <3>3
  <2>6. IsFiniteSet(used')
    BY <2>3 DEF IInv, ConfigInv
  <2> QED
    BY <2>2, <2>3, <2>5, <2>6 DEF ConfigInv, BuiltFromStamp
<1>5. AloneInv'
  <2> SUFFICES ASSUME ~overlapped
               PROVE  /\ \A a, f \in Running : a = f
                      /\ \A f \in Running : \A s \in SSO \ {sso[f]} : cache'[f].sso[s] = file'.sso[s]
    BY DEF AloneInv, Saved, history
  <2>1. /\ \A a, f \in Running : a = f
        /\ \A s \in SSO \ {sso[e]} : cache[e].sso[s] = file.sso[s]
    BY DEF IInv, AloneInv
  <2> QED
    BY <1>1, <1>2, <2>1 DEF Saved
<1> QED
  BY <1>3, <1>4, <1>5 DEF IInv

(* The invariant holds after each step.                                    *)
LEMMA InvNext == IInv /\ [Next]_vars => IInv'
<1> SUFFICES ASSUME IInv, [Next]_vars
             PROVE  IInv'
  OBVIOUS
<1> USE DEF environment, history, mine, Goto
<1>1. TypeOK /\ ConfigInv /\ AloneInv
  BY DEF IInv
<1>2. ASSUME NEW e \in Execution, pc[e] # "off", ConfigInv
      PROVE  /\ e \in Running /\ cache[e] \in Cache /\ sso[e] \in SSO /\ BuiltFromStamp(cache[e])
             /\ sso[e] \in names[e] /\ sso[e] \in used /\ (~midEdit => config[e] = modified)
             /\ pc[e] = "started" => ~refreshed[e]
  BY <1>1, <1>2 DEF Running, TypeOK, ConfigInv
<1>3. ASSUME NEW e \in Execution, HasToken(e)
      PROVE  IInv'
  <2>1. e \in Running
    BY <1>3 DEF HasToken, Running
  <2>2. TypeOK' /\ Running' = Running /\ pc' = [pc EXCEPT ![e] = "ready"]
    BY <1>1, <1>3 DEF HasToken, TypeOK, Running
  <2>3. ConfigInv'
    BY <1>1, <1>3, <2>2 DEF HasToken, TypeOK, ConfigInv,
       BuiltFromStamp, Running
  <2>4. AloneInv'
    BY <1>1, <1>3, <2>2 DEF HasToken, AloneInv
  <2> QED
    BY <2>2, <2>3, <2>4 DEF IInv
<1>4. ASSUME NEW e \in Execution, NEW c \in Cache,
             pc[e] # "off",
             c = cache[e] \/ c = Refresh(e, cache[e])
      PROVE  /\ BuiltFromStamp(c)
             /\ \A s \in SSO \ {sso[e]} : c.sso[s] = cache[e].sso[s]
  <2>1. CASE c = cache[e]
    BY <1>1, <1>2, <1>4, <2>1
  <2>2. CASE c = Refresh(e, cache[e]) /\ ~refreshed[e]
    <3>1. /\ c.created = modified /\ c.sso[sso[e]].config = config[e]
          /\ \A s \in SSO \ {sso[e]} : c.sso[s] = cache[e].sso[s]
      BY <1>1, <1>2, <1>4, <2>2, Refreshes
    <3>2. modified <= modified
      BY <1>1 DEF TypeOK
    <3>3. \A s \in SSO : used \subseteq {s} => s = sso[e]
      BY <1>1, <1>2, <1>4
    <3>4. ~midEdit => config[e] = modified
      BY <1>1, <1>2, <1>4
    <3> QED
      BY <3>1, <3>2, <3>3, <3>4 DEF BuiltFromStamp
  <2>3. CASE c = Refresh(e, cache[e]) /\ refreshed[e]
    BY <1>1, <1>2, <1>4, <2>3, Refreshes
  <2> QED
    BY <1>4, <2>1, <2>2, <2>3
<1>5. ASSUME NEW e \in Execution, Login(e)
      PROVE  IInv'
  <2>1. e \in Running /\ pc[e] = "started" /\ pc' = [pc EXCEPT ![e] = "ready"] /\ pc[e] # "off"
    BY <1>5 DEF Login, Running
  <2>2. Running' = Running /\ pc' \in [Execution -> {"off", "started", "ready"}]
    BY <1>1, <2>1 DEF Running, TypeOK
  <2>3. CASE Expired(cache[e], sso[e])
    <3> DEFINE c == Refresh(e, cache[e])
               d == Stamped(e, c, TRUE)
    <3>1. c \in Cache
      BY <1>1, <1>2, <2>1, Refreshes
    <3> HIDE DEF c
    <3>2. /\ d \in Cache /\ d.created = c.created
          /\ \A s \in SSO : d.sso[s].config = c.sso[s].config
          /\ \A s \in SSO \ {sso[e]} : d.sso[s] = c.sso[s]
      BY <1>1, <3>1, Stamps
    <3>3. BuiltFromStamp(c) /\ \A s \in SSO \ {sso[e]} : c.sso[s] = cache[e].sso[s]
      BY <1>1, <1>4, <2>1, <3>1 DEF c
    <3>4. BuiltFromStamp(d)
      BY <3>2, <3>3 DEF BuiltFromStamp
    <3>5. Saved(e, d)
      BY <1>1, <1>5, <2>3 DEF Login, Save, Saved, TypeOK, c
    <3>6. refreshed' = [refreshed EXCEPT ![e] = TRUE]
      BY <1>5, <2>3 DEF Login
    <3>7. /\ refreshed' \in [Execution -> BOOLEAN] /\ pc'[e] # "started"
          /\ \A f \in Execution \ {e} : pc'[f] = pc[f] /\ refreshed'[f] = refreshed[f]
      BY <1>1, <2>1, <3>6 DEF TypeOK
    <3> HIDE DEF d
    <3> QED
      BY <2>1, <2>2, <3>2, <3>3, <3>4, <3>5, <3>7, SavedKeeps
  <2>4. CASE ~Expired(cache[e], sso[e])
    <3>1. UNCHANGED <<environment, sso, config, names, history, file, cache, refreshed>>
      BY <1>5, <2>4 DEF Login
    <3>2. TypeOK'
      BY <1>1, <2>2, <3>1 DEF TypeOK
    <3>3. ConfigInv'
      BY <1>1, <2>1, <2>2, <3>1 DEF TypeOK, ConfigInv, BuiltFromStamp
    <3>4. AloneInv'
      BY <1>1, <2>2, <3>1 DEF AloneInv
    <3> QED
      BY <3>2, <3>3, <3>4 DEF IInv
  <2> QED
    BY <2>3, <2>4
<1>6. ASSUME NEW e \in Execution, CacheCmd(e)
      PROVE  IInv'
  <2> DEFINE c == Refresh(e, cache[e])
             p == PruneSSO(e, c)
             d == Stamped(e, p, TRUE)
  <2>1. e \in Running /\ pc[e] = "ready" /\ pc' = pc /\ pc[e] # "off" /\ Running' = Running
    BY <1>6 DEF CacheCmd, Running
  <2>2. c \in Cache
    BY <1>1, <1>2, <2>1, Refreshes
  <2>3. BuiltFromStamp(c)
    BY <1>1, <1>4, <2>1, <2>2
  <2> HIDE DEF c
  <2>4. p \in Cache /\ p.created = c.created /\ \A s \in SSO : s \in names[e] => p.sso[s] = c.sso[s]
    BY <2>2, Prunes
  <2>5. BuiltFromStamp(p)
    <3>1. \A s \in SSO : used \subseteq {s} => s \in names[e]
      BY <1>1, <1>2, <2>1
    <3> QED
      BY <2>3, <2>4, <3>1 DEF BuiltFromStamp
  <2> HIDE DEF p
  <2>6. /\ d \in Cache /\ d.created = p.created
        /\ \A s \in SSO : d.sso[s].config = p.sso[s].config
    BY <1>1, <2>4, Stamps
  <2>7. BuiltFromStamp(d)
    BY <2>5, <2>6 DEF BuiltFromStamp
  <2>8. Saved(e, d) /\ file' = d
    BY <1>1, <1>6 DEF CacheCmd, Save, Saved, TypeOK, c, p
  <2>9. refreshed' = [refreshed EXCEPT ![e] = TRUE]
    BY <1>6 DEF CacheCmd
  <2>10. /\ refreshed' \in [Execution -> BOOLEAN] /\ pc'[e] # "started"
         /\ \A f \in Execution \ {e} : pc'[f] = pc[f] /\ refreshed'[f] = refreshed[f]
         /\ pc' \in [Execution -> {"off", "started", "ready"}]
    BY <1>1, <2>1, <2>9 DEF TypeOK
  <2> HIDE DEF d
  <2> QED
    BY <2>1, <2>6, <2>7, <2>8, <2>10, SavedKeeps
<1>7. ASSUME NEW e \in Execution, UseRole(e)
      PROVE  IInv'
  <2> DEFINE d == Stamped(e, cache[e], FALSE)
  <2>1. e \in Running /\ pc[e] = "ready" /\ pc' = pc /\ pc[e] # "off" /\ Running' = Running
    BY <1>7 DEF UseRole, Running
  <2>2. cache[e] \in Cache /\ BuiltFromStamp(cache[e])
    BY <1>1, <1>2, <2>1
  <2>3. /\ d \in Cache /\ d.created = cache[e].created
        /\ \A s \in SSO : d.sso[s].config = cache[e].sso[s].config
    BY <1>1, <2>2, Stamps
  <2>4. BuiltFromStamp(d)
    BY <2>2, <2>3 DEF BuiltFromStamp
  <2>5. Saved(e, d) /\ file' = d
    BY <1>1, <1>7 DEF UseRole, Save, Saved, TypeOK
  <2>6. /\ refreshed' \in [Execution -> BOOLEAN] /\ pc'[e] # "started"
        /\ \A f \in Execution \ {e} : pc'[f] = pc[f] /\ refreshed'[f] = refreshed[f]
        /\ pc' \in [Execution -> {"off", "started", "ready"}]
    BY <1>1, <1>7, <2>1 DEF UseRole, TypeOK
  <2> HIDE DEF d
  <2> QED
    BY <2>1, <2>3, <2>4, <2>5, <2>6, SavedKeeps
<1>8. ASSUME NEW e \in Execution, Exit(e)
      PROVE  IInv'
  <2>1. /\ e \in Running /\ Running' = Running \ {e}
        /\ \A f \in Execution : cache'[f] = IF f = e THEN EmptyCache ELSE cache[f]
        /\ \A f \in Running' : pc'[f] = pc[f] /\ f # e
        /\ file' \in {file, EmptyCache}
        /\ UNCHANGED <<environment, sso, config, names, refreshed, history>>
    BY <1>1, <1>8 DEF Exit, Running, TypeOK
  <2>2. TypeOK'
    BY <1>1, <1>8, EmptyIsCache DEF Exit, TypeOK
  <2>3. modified \in Nat
    BY <1>1 DEF TypeOK
  <2>4. ConfigInv'
    <3>1. 0 <= modified
      BY <2>3
    <3> QED
      BY <1>1, <2>1, <3>1, EmptyIsCache DEF ConfigInv, BuiltFromStamp,
         Running
  <2>5. AloneInv'
    BY <1>1, <2>1 DEF AloneInv
  <2> QED
    BY <2>2, <2>4, <2>5 DEF IInv
<1>9. ASSUME NEW e \in Execution, NEW s \in SSO, Start(e, s)
      PROVE  IInv'
  <2>1. /\ e \notin Running /\ Running' = Running \union {e}
        /\ \A f \in Running : f # e /\ pc'[f] = pc[f] /\ sso'[f] = sso[f] /\ names'[f] = names[f]
                             /\ config'[f] = config[f] /\ refreshed'[f] = refreshed[f]
        /\ \A f \in Execution : cache'[f] = IF f = e THEN file ELSE cache[f]
        /\ sso'[e] = s /\ names'[e] = configured /\ config'[e] = modified /\ ~refreshed'[e]
        /\ s \in configured /\ used' = used \union {s}
        /\ overlapped' = (overlapped \/ Running # {})
        /\ UNCHANGED <<environment, file, midEdit>>
    BY <1>1, <1>9 DEF Start, Running, TypeOK
  <2>2. TypeOK'
    <3>1. modified \in Time /\ configured \in SUBSET SSO
      BY <1>1, ExpiryAssumption DEF TypeOK, Time
    <3> QED
      BY <1>1, <1>9, <3>1 DEF Start, TypeOK
  <2>3. ConfigInv'
    <3>1. IsFiniteSet(used')
      BY <1>1, <2>1, FS_AddElement DEF ConfigInv
    <3>2. \A t \in SSO : used' \subseteq {t} => used \subseteq {t}
      BY <2>1
    <3> QED
      BY <1>1, <2>1, <3>1, <3>2 DEF ConfigInv, BuiltFromStamp, Running
  <2>4. AloneInv'
    BY <1>1, <2>1 DEF AloneInv
  <2> QED
    BY <2>2, <2>3, <2>4 DEF IInv
<1>10. ASSUME Tick
       PROVE  IInv'
  <2>1. TypeOK'
    BY <1>1, <1>10, ExpiryAssumption DEF Tick, TypeOK,
       Time
  <2>2. ConfigInv' /\ AloneInv'
    BY <1>1, <1>10 DEF Tick, ConfigInv, BuiltFromStamp, Running,
       AloneInv
  <2> QED
    BY <2>1, <2>2 DEF IInv
<1>11. ASSUME EditConfig
       PROVE  IInv'
  <2>1. TypeOK'
    BY <1>1, <1>11, ExpiryAssumption DEF EditConfig, TypeOK,
       Time
  <2>2. /\ modified' = now /\ modified < modified' /\ modified \in Nat /\ now \in Nat
        /\ midEdit' = (midEdit \/ Running # {}) /\ Running' = Running
        /\ UNCHANGED <<file, pc, mine, used, overlapped>>
    BY <1>1, <1>11 DEF EditConfig, TypeOK, Time,
       Running
  <2>3. file.created \in Nat /\ \A e \in Execution : cache[e].created \in Nat
    BY <1>1 DEF TypeOK, Cache, Time
  <2>4. file.created <= modified' /\ \A e \in Execution : cache[e].created <= modified'
    BY <1>1, <2>2, <2>3 DEF ConfigInv, BuiltFromStamp
  <2>5. ConfigInv'
    BY <1>1, <2>2, <2>4 DEF ConfigInv, BuiltFromStamp
  <2>6. AloneInv'
    BY <1>1, <2>2 DEF AloneInv
  <2> QED
    BY <2>1, <2>5, <2>6 DEF IInv
<1>12. ASSUME UNCHANGED vars
       PROVE  IInv'
  BY <1>1, <1>12 DEF vars, IInv, TypeOK, ConfigInv,
     BuiltFromStamp, AloneInv, Running
<1> QED
  BY <1>3, <1>5, <1>6, <1>7, <1>8, <1>9, <1>10, <1>11, <1>12 DEF Next

(* It always holds.                                                        *)
LEMMA InvAlways == Spec => []IInv
BY InvInit, InvNext, PTL DEF Spec

(* Type correctness of the cache file and its copies, for any executions,  *)
(* SSO instances and times (cache.go: Cache, SSOCache).                    *)
THEOREM ExpiryTypes == Spec => []TypeOK
<1>1. IInv => TypeOK
  BY DEF IInv
<1> QED
  BY <1>1, InvAlways, PTL

(* Cache.Expired and doAuth: with one SSO instance in use, and config.yaml *)
(* edited only while nothing runs, a login leaves roles that were built    *)
(* from config.yaml as it is now, however many executions overlap and      *)
(* whoever loses the file.                                                 *)
THEOREM LoginSeesConfig == Spec => ConfigChangeSeen
<1>1. ASSUME IInv, [Next]_vars, NEW e \in Execution,
             Login(e), TTL > 0, config[e] = modified, Cardinality(used) = 1, ~midEdit
      PROVE  Mine(e)'.config = modified
  <2>1. /\ TypeOK /\ e \in Running /\ pc[e] = "started" /\ ~refreshed[e] /\ sso' = sso
        /\ cache[e] \in Cache /\ sso[e] \in SSO /\ sso[e] \in used
        /\ BuiltFromStamp(cache[e]) /\ cache \in [Execution -> Cache]
    BY <1>1 DEF IInv, TypeOK, ConfigInv, Login,
       Running
  <2>2. used \subseteq {sso[e]}
    BY <1>1, <2>1, FS_Singleton DEF IInv, ConfigInv
  <2>3. CASE Expired(cache[e], sso[e])
    <3> DEFINE c == Refresh(e, cache[e])
               d == Stamped(e, c, TRUE)
    <3>1. c \in Cache /\ c.sso[sso[e]].config = config[e]
      BY <2>1, Refreshes
    <3> HIDE DEF c
    <3>2. d.sso[sso[e]].config = c.sso[sso[e]].config
      BY <2>1, <3>1, Stamps
    <3>3. cache'[e] = d
      BY <1>1, <2>1, <2>3 DEF Login, Save, c
    <3> QED
      BY <1>1, <2>1, <3>1, <3>2, <3>3 DEF Mine
  <2>4. CASE ~Expired(cache[e], sso[e])
    <3>1. cache' = cache
      BY <1>1, <2>4 DEF Login
    <3>2. ~ (modified > cache[e].created) /\ cache[e].created <= modified
      BY <1>1, <2>1, <2>4 DEF Expired, BuiltFromStamp
    <3>3. cache[e].created \in Nat /\ modified \in Nat
      BY <2>1 DEF TypeOK, Cache, Time
    <3>4. cache[e].sso[sso[e]].config = cache[e].created
      BY <1>1, <2>1, <2>2 DEF BuiltFromStamp
    <3> QED
      BY <2>1, <3>1, <3>2, <3>3, <3>4 DEF Mine
  <2> QED
    BY <2>3, <2>4
<1>2. IInv /\ [Next]_vars =>
        [\A e \in Execution :
           /\ Login(e) /\ TTL > 0 /\ config[e] = modified
           /\ Cardinality(used) = 1 /\ ~midEdit
           => Mine(e)'.config = modified]_vars
  BY <1>1
<1> QED
  BY <1>2, InvAlways, PTL DEF ConfigChangeSeen, Spec

(* Cache.Save: an execution that is alone leaves the entries of other      *)
(* configured SSO instances in the file as they are.                       *)
THEOREM OthersAreKept == Spec => OthersKept
<1>1. ASSUME IInv, Next, NEW e \in Execution,
             ~overlapped, cache'[e] # cache[e], pc'[e] # "off", file' # file,
             NEW s \in names[e] \ {sso[e]}
      PROVE  file'.sso[s] = file.sso[s]
  <2>1. /\ TypeOK /\ names[e] \subseteq SSO /\ s \in SSO \ {sso[e]} /\ cache[e] \in Cache
        /\ cache \in [Execution -> Cache]
    BY <1>1 DEF IInv, TypeOK
  <2>2. Login(e) \/ CacheCmd(e) \/ UseRole(e)
    <3>1. ASSUME NEW f \in Execution, f # e
          PROVE  ~Login(f) /\ ~CacheCmd(f) /\ ~UseRole(f) /\ ~Exit(f)
      BY <1>1, <2>1, <3>1 DEF Login, CacheCmd, UseRole,
         Exit, Save
    <3>2. ~Exit(e)
      BY <1>1, <2>1 DEF Exit, Goto, TypeOK
    <3> QED
      BY <1>1, <3>1, <3>2 DEF Next, HasToken, Start,
         Tick, EditConfig, mine
  <2>3. cache[e].sso[s] = file.sso[s]
    <3>1. e \in Running
      BY <1>1, <2>2 DEF Login, CacheCmd, UseRole,
         Running
    <3> QED
      BY <1>1, <2>1, <3>1 DEF IInv, AloneInv
  <2> DEFINE c == Refresh(e, cache[e])
  <2>4. c \in Cache /\ c.sso[s] = cache[e].sso[s]
    BY <2>1, Refreshes
  <2>5. CASE Login(e)
    <3>1. file' = Stamped(e, c, TRUE)
      BY <1>1, <2>1, <2>5 DEF Login, Save
    <3> HIDE DEF c
    <3> QED
      BY <2>1, <2>3, <2>4, <3>1, Stamps
  <2>6. CASE CacheCmd(e)
    <3> DEFINE p == PruneSSO(e, c)
    <3>1. file' = Stamped(e, p, TRUE)
      BY <2>1, <2>6 DEF CacheCmd, Save
    <3> HIDE DEF c
    <3>2. p \in Cache /\ p.sso[s] = c.sso[s]
      BY <1>1, <2>1, <2>4, Prunes
    <3> HIDE DEF p
    <3> QED
      BY <2>1, <2>3, <2>4, <3>1, <3>2, Stamps
  <2>7. CASE UseRole(e)
    <3>1. file' = Stamped(e, cache[e], FALSE)
      BY <2>1, <2>7 DEF UseRole, Save
    <3> QED
      BY <2>1, <2>3, <3>1, Stamps
  <2> QED
    BY <2>2, <2>5, <2>6, <2>7
<1>2. IInv /\ [Next]_vars =>
        [\A e \in Execution :
           ~overlapped /\ cache'[e] # cache[e] /\ pc'[e] # "off" /\ file' # file =>
             \A s \in names[e] \ {sso[e]} : file'.sso[s] = file.sso[s]]_vars
  BY <1>1
<1> QED
  BY <1>2, InvAlways, PTL DEF OthersKept, Spec
=============================================================================
