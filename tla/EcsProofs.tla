----------------------------- MODULE EcsProofs -----------------------------
(***************************************************************************)
(* Proofs about the ECS server (EcsServer) and its deployment (EcsDeploy), *)
(* two specifications with theorems of their own.                          *)
(*                                                                         *)
(* The server, for any number of handlers, profiles and uploads,           *)
(* interleaved in any way the map of slots survives: no slot gives out     *)
(* what was uploaded for another, no report mixes two uploads, and what an *)
(* acknowledged request replaced or removed is not served to requests that *)
(* come in later.  The last of these rests on two facts that the           *)
(* properties do not mention: an upload that still is on its way has been  *)
(* acknowledged to nobody, and what a slot holds is never one of those     *)
(* that are gone.                                                          *)
(*                                                                         *)
(* The deployment, for any number of executions, tokens and restarts: what *)
(* the secrets of the server end in, who is let in, and what `ecs docker   *)
(* start` leaves behind, whatever stops, fails or is killed on the way.    *)
(* The secrets pass from the secure store to an execution, to the file, to *)
(* the container and to its server.  As long as no two executions overlap, *)
(* each of these holds what the one before it held; the invariant follows  *)
(* them from one to the next.                                              *)
(***************************************************************************)
EXTENDS EcsServer, EcsDeploy, TLAPS

-----------------------------------------------------------------------------
(* The server: the inductive invariant.                                    *)

History == [acked : SUBSET Load, gone : SUBSET Load]

ServerTypes ==
  /\ TypeOK
  /\ answer \in [Handler -> Answer]
  /\ before \in [Handler -> History]

(* What the place of a handler tells: only requests for named slots write  *)
(* to the map, and a report for /profile goes on only after an upload.     *)
Placed ==
  \A h \in Handler :
    /\ pc[h] \in {"write", "writing"} => req[h].op \in {"put", "delete"}
    /\ pc[h] = "writing" => req[h].slot # Default
    /\ pc[h] \in {"second", "third"} => DefaultCreds \in ClientRequest \union {Unloaded}

FiledByName == \A p \in DOMAIN slottedCreds : slottedCreds[p].name = p

(* An upload that a handler is still working on.                           *)
Pending(h) == pc[h] # "idle" /\ req[h].op = "put"
Uploaded(h) == req[h].load.creds.id

(* Nobody else has seen an upload that is on its way.                      *)
PendingIsNew ==
  /\ \A h \in Handler : Pending(h) => Uploaded(h) <= loads
  /\ \A l \in acked : l.id <= loads
  /\ \A h \in Handler : Pending(h) => \A l \in acked : l.id # Uploaded(h)
  /\ \A g, h \in Handler : Pending(g) /\ Pending(h) /\ g # h => Uploaded(g) # Uploaded(h)

(* What the slots hold has been neither replaced nor removed.              *)
HeldIsNotGone ==
  /\ DefaultCreds \in ClientRequest =>
       [id |-> DefaultCreds.creds.id, slot |-> Default] \notin gone
  /\ \A p \in DOMAIN slottedCreds :
       [id |-> slottedCreds[p].creds.id, slot |-> p] \notin gone

(* An answer of handler h that breaks no promise.                          *)
Kept(h, a) ==
  /\ a \in Answer
  /\ a.code = "creds" =>
       /\ a.slot # Default => a.load.name = a.slot
       /\ Loaded(a) \notin before[h].gone
  /\ a.code = "list" => \A q, r \in a.loads : q.name = r.name => q = r

AnswersKept == \A h \in Handler : Kept(h, answer[h])

ServerInv ==
  ServerTypes /\ Placed /\ FiledByName /\ PendingIsNew /\ HeldIsNotGone /\ AnswersKept

-----------------------------------------------------------------------------
(* The invariant has the three properties in it.                           *)
LEMMA ServerInvImplies == ServerInv => SlotsInv /\ NothingServedAgain /\ ReportsAreWhole
BY DEF ServerInv, ServerTypes, AnswersKept, Kept, SlotsInv, SlotHoldsItsProfile, NothingServedAgain,
       ReportsAreWhole, Given, Answer

(* Nothing is loaded and nobody has asked at first.                        *)
LEMMA ServerInvInit == Init => ServerInv
<1> SUFFICES ASSUME Init
             PROVE  ServerInv
  OBVIOUS
<1> USE ServerAssumption DEF Init
<1>1. TypeOK
  BY DEF TypeOK, Home, Query, Slot, None, Answer, NoHistory
<1>2. ServerTypes
  BY <1>1 DEF ServerTypes, None, Answer, NoHistory, History
<1>3. Placed /\ FiledByName /\ PendingIsNew
  BY DEF Placed, FiledByName, PendingIsNew, Pending, Home
<1>4. HeldIsNotGone /\ AnswersKept
  BY DEF HeldIsNotGone, AnswersKept, Kept, None, Answer
<1> QED
  BY <1>2, <1>3, <1>4 DEF ServerInv

-----------------------------------------------------------------------------
(* A reply that leaves slots and history alone.                            *)
LEMMA ReplyKeeps ==
  ASSUME ServerInv, NEW h \in Handler, NEW a, Reply(h, a), Kept(h, a),
         UNCHANGED <<rest, slots, history>>
  PROVE  ServerInv'
<1> USE DEF ServerInv, ServerTypes, Reply, rest, slots, history
<1>1. TypeOK'
  BY DEF TypeOK, AnswersKept, Kept
<1>2. ServerTypes'
  BY <1>1 DEF AnswersKept, Kept
<1>3. Placed' /\ FiledByName' /\ HeldIsNotGone'
  BY DEF TypeOK, Placed, FiledByName, HeldIsNotGone
<1>4. PendingIsNew'
  BY DEF TypeOK, PendingIsNew, Pending, Uploaded
<1>5. AnswersKept'
  BY DEF AnswersKept, Kept
<1> QED
  BY <1>2, <1>3, <1>4, <1>5

(* A handler that goes on, perhaps into a write of the map.                *)
LEMMA GotoKeeps ==
  ASSUME ServerInv, NEW h \in Handler, NEW l \in {"second", "third", "write", "writing"},
         pc[h] # "idle", Goto(h, l), UNCHANGED <<rest, DefaultCreds, slottedCreds>>,
         writing' \in SUBSET Handler,
         l \in {"write", "writing"} => req[h].op \in {"put", "delete"},
         l = "writing" => req[h].slot # Default,
         l \in {"second", "third"} => DefaultCreds \in ClientRequest \union {Unloaded}
  PROVE  ServerInv'
<1> USE DEF ServerInv, ServerTypes, Goto, rest, history
<1>1. TypeOK'
  BY DEF TypeOK
<1>2. Placed' /\ FiledByName' /\ HeldIsNotGone'
  BY DEF TypeOK, Placed, FiledByName, HeldIsNotGone
<1>3. PendingIsNew'
  BY DEF TypeOK, PendingIsNew, Pending, Uploaded
<1>4. AnswersKept'
  BY DEF AnswersKept, Kept
<1> QED
  BY <1>1, <1>2, <1>3, <1>4

(* A refusal is an answer that promises nothing.                           *)
LEMMA RefusalKept ==
  ASSUME NEW h, NEW c \in {"none", "ok", "not found", "unavailable", "error", "aborted"}
  PROVE  Kept(h, [code |-> c])
BY DEF Kept, Answer

(* An answer without credentials keeps every part.                         *)
LEMMA RefuseKeeps ==
  ASSUME ServerInv, NEW h \in Handler,
         NEW c \in {"not found", "unavailable", "error", "aborted"},
         Refuse(h, c), UNCHANGED <<rest, slots>>
  PROVE  ServerInv'
BY RefusalKept, ReplyKeeps DEF Refuse

(* Credentials of the slot that was asked for, while it holds them.        *)
LEMMA GiveKeeps ==
  ASSUME ServerInv, NEW h \in Handler, NEW s \in Profile \union {Default},
         NEW r \in ClientRequest, Give(h, s, r), UNCHANGED <<rest, slots>>,
         s # Default => r.name = s,
         [id |-> r.creds.id, slot |-> s] \notin gone
  PROVE  ServerInv'
<1>1. Kept(h, [code |-> "creds", slot |-> s, load |-> r])
  BY DEF Kept, Answer, Loaded, ServerInv, ServerTypes, TypeOK
<1> QED
  BY <1>1, ReplyKeeps DEF Give

(* The time is a number.                                                   *)
LEMMA ClockTyped == ServerInv => now \in Nat
BY ServerAssumption DEF ServerInv, ServerTypes, TypeOK

(* The credentials that the server starts with have always expired.        *)
LEMMA InitialExpired == ServerInv => Initial.creds.exp <= now
BY ClockTyped DEF Initial, ZeroCreds

(* WriteCreds on what a slot holds.                                        *)
LEMMA WriteCredsKeeps ==
  ASSUME ServerInv, NEW h \in Handler, NEW s \in Profile \union {Default},
         NEW r \in ClientRequest \union {Initial, Unloaded},
         NEW c \in {"not found", "unavailable"},
         WriteCreds(h, s, r, c), UNCHANGED <<rest, slots>>,
         s # Default => r.name = s,
         r \in ClientRequest => [id |-> r.creds.id, slot |-> s] \notin gone
  PROVE  ServerInv'
<1>1. CASE Refuse(h, "aborted") \/ Refuse(h, c)
  BY <1>1, RefuseKeeps
<1>2. CASE r.creds # NilCreds /\ ~Expired(r.creds) /\ Give(h, s, r)
  <2>1. r # Unloaded
    <3>1. Unloaded.creds = NilCreds
      BY DEF Unloaded
    <3> QED
      BY <1>2, <3>1
  <2>2. r # Initial
    BY <1>2, InitialExpired DEF Expired
  <2>3. r \in ClientRequest /\ Give(h, s, r)
    BY <1>2, <2>1, <2>2
  <2>4. [id |-> r.creds.id, slot |-> s] \notin gone
    BY <2>3
  <2> QED
    BY <2>3, <2>4, GiveKeeps
<1> QED
  BY <1>1, <1>2 DEF WriteCreds

-----------------------------------------------------------------------------
(* Queries: each reads one slot, or all names.                             *)
LEMMA QueriesKeep ==
  ASSUME ServerInv, NEW h \in Handler,
         GetDefault(h) \/ HealthDefault(h) \/ GetSlot(h) \/ HealthSlot(h) \/ ListSlots(h)
  PROVE  ServerInv'
<1> USE DEF ServerInv, ServerTypes
<1>1. CASE GetDefault(h)
  BY <1>1, WriteCredsKeeps DEF GetDefault, TypeOK, HeldIsNotGone
<1>2. CASE HealthDefault(h)
  BY <1>2, WriteCredsKeeps, RefuseKeeps DEF HealthDefault, TypeOK, HeldIsNotGone
<1>3. CASE GetSlot(h)
  BY <1>3, WriteCredsKeeps, RefuseKeeps DEF GetSlot, Used, TypeOK, FiledByName, HeldIsNotGone
<1>4. CASE HealthSlot(h)
  BY <1>4, WriteCredsKeeps, RefuseKeeps DEF HealthSlot, Used, TypeOK, FiledByName, HeldIsNotGone
<1>5. CASE ListSlots(h)
  <2> DEFINE Listed == {r \in {slottedCreds[p] : p \in DOMAIN slottedCreds} : ~Expired(r.creds)}
  <2>1. Listed \in SUBSET ClientRequest
    BY DEF TypeOK
  <2>2. \A q, r \in Listed : q.name = r.name => q = r
    BY DEF FiledByName
  <2>3. Kept(h, [code |-> "list", loads |-> Listed])
    BY <2>1, <2>2 DEF Kept, Answer
  <2> QED
    BY <1>5, <2>3, ReplyKeeps DEF ListSlots
<1> QED
  BY <1>1, <1>2, <1>3, <1>4, <1>5

(* /profile reads the default slot three times.  Nothing empties it again  *)
(* of what the first read saw but a DELETE, and that leaves Unloaded.      *)
LEMMA ProfileKeeps ==
  ASSUME ServerInv, NEW h \in Handler,
         ProfileLoaded(h) \/ ProfileExpired(h) \/ ProfileReport(h)
  PROVE  ServerInv'
<1> USE DEF ServerInv, ServerTypes, rest, slots
<1>1. CASE ProfileLoaded(h)
  <2>1. DefaultCreds.name # NoProfile => DefaultCreds \in ClientRequest \union {Unloaded}
    BY DEF TypeOK, Initial
  <2> QED
    BY <1>1, <2>1, RefuseKeeps, GotoKeeps DEF ProfileLoaded, At, TypeOK
<1>2. CASE ProfileExpired(h)
  <2>1. DefaultCreds \in ClientRequest \union {Unloaded}
    BY <1>2 DEF ProfileExpired, At, Placed
  <2> QED
    BY <1>2, <2>1, RefuseKeeps, GotoKeeps DEF ProfileExpired, At, TypeOK
<1>3. CASE ProfileReport(h)
  <2>1. DefaultCreds \in ClientRequest \union {Unloaded}
    BY <1>3 DEF ProfileReport, At, Placed
  <2>2. DefaultCreds.creds # NilCreds => DefaultCreds \in ClientRequest
    BY <2>1 DEF Unloaded
  <2> QED
    BY <1>3, <2>2, RefuseKeeps, GiveKeeps DEF ProfileReport, HeldIsNotGone
<1> QED
  BY <1>1, <1>2, <1>3

(* What comes before a slot is written.                                    *)
LEMMA ChecksKeep ==
  ASSUME ServerInv, NEW h \in Handler,
         CheckPut(h) \/ CheckDelete(h) \/ FindSlot(h) \/ BeginWrite(h)
  PROVE  ServerInv'
<1> USE DEF ServerInv, ServerTypes, rest, slots
<1>1. CASE CheckPut(h)
  <2>1. CASE Goto(h, "write")
    BY <1>1, <2>1, GotoKeeps DEF CheckPut, At, TypeOK
  <2>2. CASE \E c \in {"error", "not found"} : Refuse(h, c)
    BY <1>1, <2>2, RefuseKeeps DEF CheckPut
  <2> QED
    BY <1>1, <2>1, <2>2 DEF CheckPut
<1>2. CASE CheckDelete(h)
  BY <1>2, RefuseKeeps, GotoKeeps DEF CheckDelete, At, TypeOK
<1>3. CASE FindSlot(h)
  BY <1>3, RefuseKeeps, GotoKeeps DEF FindSlot, At, TypeOK
<1>4. CASE BeginWrite(h)
  <2>1. req[h].op \in {"put", "delete"}
    BY <1>4 DEF BeginWrite, Placed
  <2>2. writing' \in SUBSET Handler
    BY <1>4 DEF BeginWrite, TypeOK
  <2> QED
    BY <1>4, <2>1, <2>2, GotoKeeps DEF BeginWrite
<1> QED
  BY <1>1, <1>2, <1>3, <1>4

-----------------------------------------------------------------------------
(* What an upload is known by.                                             *)
LEMMA UploadTyped ==
  ASSUME ServerInv, NEW h \in Handler, req[h].op = "put"
  PROVE  /\ req[h].load \in ClientRequest
         /\ req[h].load.name \in Profile
         /\ req[h].load.creds.id \in 1..MaxLoads
         /\ req[h].slot \in Slot
BY DEF ServerInv, ServerTypes, TypeOK, Put, Query, ClientRequest, Creds

(* An OK moves the history on, and disturbs no one else's answer, place or *)
(* upload: new is h's own upload, or nothing.                              *)
LEMMA AcknowledgeKeeps ==
  ASSUME ServerInv, NEW h \in Handler, NEW s, NEW new \in SUBSET Load,
         pc[h] \in {"write", "writing"}, Acknowledge(h, s, new), UNCHANGED rest,
         \A l \in new : req[h].op = "put" /\ l.id = Uploaded(h),
         TypeOK', FiledByName', HeldIsNotGone',
         DefaultCreds' \in {DefaultCreds, Unloaded} \union ClientRequest
  PROVE  ServerInv'
<1> USE DEF ServerInv, ServerTypes, Acknowledge, Reply, rest
<1>1. ServerTypes'
  BY RefusalKept DEF AnswersKept, Kept
<1>2. Placed'
  BY DEF TypeOK, Placed
<1>3. PendingIsNew'
  BY DEF TypeOK, PendingIsNew, Pending, Uploaded
<1>4. AnswersKept'
  <2>1. /\ answer' = [answer EXCEPT ![h] = [code |-> "ok"]]
        /\ before' = before /\ AnswersKept
        /\ answer \in [Handler -> Answer]
    OBVIOUS
  <2> HIDE DEF ServerInv, ServerTypes, Acknowledge, Reply
  <2>2. Kept(h, [code |-> "ok"])'
    BY <2>1 DEF Kept, Answer
  <2>3. \A g \in Handler : g # h => Kept(g, answer[g])'
    BY <2>1 DEF AnswersKept, Kept
  <2> QED
    BY <2>1, <2>2, <2>3 DEF AnswersKept
<1> QED
  BY <1>1, <1>2, <1>3, <1>4

(* The handlers that load and unload.                                      *)
LEMMA WritesKeep ==
  ASSUME ServerInv, NEW h \in Handler,
         PutDefault(h) \/ DeleteDefault(h) \/ PutSlot(h) \/ DeleteSlot(h)
  PROVE  ServerInv'
<1> USE ServerAssumption DEF ServerInv, ServerTypes, rest, slots
<1>1. CASE PutDefault(h)
  <2> DEFINE new == {[id |-> req[h].load.creds.id, slot |-> Default]}
  <2> USE <1>1, UploadTyped DEF PutDefault, At
  <2>1. new \in SUBSET Load
    BY DEF Load
  <2>2. TypeOK'
    BY <2>1 DEF TypeOK, Acknowledge, Reply, Answer, Replaced
  <2>3. FiledByName'
    BY DEF FiledByName
  <2>4. HeldIsNotGone'
    <3>1. \A l \in gone : l.id # req[h].load.creds.id
      BY DEF PendingIsNew, Pending, Uploaded, TypeOK
    <3>2. gone' \subseteq gone \union {l \in Load : l.slot = Default /\ l \notin new}
      BY DEF Acknowledge, Replaced, TypeOK
    <3> QED
      BY <3>1, <3>2 DEF HeldIsNotGone, TypeOK
  <2> QED
    BY <2>1, <2>2, <2>3, <2>4, AcknowledgeKeeps DEF Uploaded
<1>2. CASE DeleteDefault(h)
  <2> USE <1>2 DEF DeleteDefault, At
  <2>1. TypeOK'
    BY DEF TypeOK, Acknowledge, Reply, Answer, Replaced
  <2>2. FiledByName'
    BY DEF FiledByName
  <2>3. HeldIsNotGone'
    <3>1. Unloaded \notin ClientRequest
      BY DEF Unloaded, ClientRequest
    <3>2. gone' \subseteq gone \union {l \in Load : l.slot = Default}
      BY DEF Acknowledge, Replaced, TypeOK
    <3> QED
      BY <3>1, <3>2 DEF HeldIsNotGone, TypeOK
  <2> QED
    BY <2>1, <2>2, <2>3, AcknowledgeKeeps
<1>3. CASE PutSlot(h)
  <2> DEFINE r == req[h].load
             new == {[id |-> r.creds.id, slot |-> r.name]}
  <2> USE <1>3, UploadTyped DEF PutSlot, At
  <2>1. new \in SUBSET Load
    BY DEF Load
  <2>2. /\ DOMAIN slottedCreds' = DOMAIN slottedCreds \union {r.name}
        /\ slottedCreds'[r.name] = r
        /\ \A p \in DOMAIN slottedCreds \ {r.name} : slottedCreds'[p] = slottedCreds[p]
    BY DEF WithSlot
  <2>3. TypeOK'
    BY <2>1, <2>2 DEF TypeOK, Acknowledge, Reply, Answer, Replaced
  <2>4. FiledByName'
    BY <2>2 DEF FiledByName
  <2>5. HeldIsNotGone'
    <3>1. \A l \in gone : l.id # r.creds.id
      BY DEF PendingIsNew, Pending, Uploaded, TypeOK
    <3>2. gone' \subseteq gone \union {l \in Load : l.slot = r.name /\ l \notin new}
      BY DEF Acknowledge, Replaced, TypeOK
    <3>3. DefaultCreds' = DefaultCreds /\ HeldIsNotGone /\ r.name # Default
      BY ServerAssumption
    <3>4. new = {[id |-> r.creds.id, slot |-> r.name]}
      OBVIOUS
    <3> HIDE <1>3 DEF ServerInv, ServerTypes, new, r, At, PutSlot
    <3>5. [id |-> DefaultCreds.creds.id, slot |-> Default] \notin {l \in Load : l.slot = r.name /\ l \notin new}
      BY <3>3
    <3>6. \A p \in DOMAIN slottedCreds' :
            [id |-> slottedCreds'[p].creds.id, slot |-> p] \notin gone'
      <4> SUFFICES ASSUME NEW p \in DOMAIN slottedCreds'
                   PROVE  [id |-> slottedCreds'[p].creds.id, slot |-> p] \notin gone'
        OBVIOUS
      <4>1. CASE p = r.name
        BY <2>2, <3>1, <3>2, <3>4, <4>1
      <4>2. CASE p # r.name
        BY <2>2, <3>2, <3>3, <4>2 DEF HeldIsNotGone
      <4> QED
        BY <4>1, <4>2
    <3> QED
      BY <3>2, <3>3, <3>5, <3>6 DEF HeldIsNotGone
  <2> QED
    BY <2>1, <2>3, <2>4, <2>5, AcknowledgeKeeps DEF Uploaded
<1>4. CASE DeleteSlot(h)
  <2> DEFINE s == req[h].slot
  <2> USE <1>4 DEF DeleteSlot, At
  <2>1. /\ DOMAIN slottedCreds' = DOMAIN slottedCreds \ {s}
        /\ \A p \in DOMAIN slottedCreds \ {s} : slottedCreds'[p] = slottedCreds[p]
    BY DEF WithoutSlot
  <2>2. TypeOK'
    BY <2>1 DEF TypeOK, Acknowledge, Reply, Answer, Replaced
  <2>3. FiledByName'
    BY <2>1 DEF FiledByName
  <2>4. HeldIsNotGone'
    <3>1. s # Default
      BY DEF Placed
    <3>2. gone' \subseteq gone \union {l \in Load : l.slot = s}
      BY DEF Acknowledge, Replaced, TypeOK
    <3> QED
      BY <2>1, <3>1, <3>2 DEF HeldIsNotGone, TypeOK
  <2> QED
    BY <2>2, <2>3, <2>4, AcknowledgeKeeps
<1> QED
  BY <1>1, <1>2, <1>3, <1>4

-----------------------------------------------------------------------------
(* Requests that come in.                                                  *)
LEMMA ReceiveKeeps ==
  ASSUME ServerInv, NEW h \in Handler, NEW r \in Query \union Put, Receive(h, r),
         \/ r \in Query /\ UNCHANGED loads
         \/ r \in Put /\ loads' = loads + 1 /\ loads' \in 0..MaxLoads /\ r.load.creds.id = loads'
  PROVE  ServerInv'
<1> USE ServerAssumption DEF ServerInv, ServerTypes, Receive, slots, history
<1>1. TypeOK'
  BY DEF TypeOK, None, Answer
<1>2. ServerTypes'
  BY <1>1 DEF TypeOK, None, Answer, History
<1>3. Placed' /\ FiledByName' /\ HeldIsNotGone'
  BY DEF TypeOK, Placed, FiledByName, HeldIsNotGone
<1>4. PendingIsNew'
  <2>1. CASE r \in Query
    <3>1. r.op # "put"
      BY <2>1 DEF Query
    <3> QED
      BY <2>1, <3>1 DEF TypeOK, PendingIsNew, Pending, Uploaded, Put
  <2>2. CASE r \in Put /\ loads' = loads + 1 /\ r.load.creds.id = loads'
    <3>1. \A l \in acked : l.id \in Nat /\ l.id <= loads
      BY DEF TypeOK, PendingIsNew, Load
    <3>2. \A g \in Handler \ {h} : Pending(g)' => Pending(g) /\ Uploaded(g)' = Uploaded(g)
      BY DEF TypeOK, Pending, Uploaded
    <3>3. \A g \in Handler : Pending(g) => Uploaded(g) \in Nat /\ Uploaded(g) <= loads
      BY UploadTyped DEF PendingIsNew, Pending, Uploaded
    <3>4. Uploaded(h)' = loads + 1
      BY <2>2 DEF TypeOK, Uploaded
    <3>5. acked' = acked
      OBVIOUS
    <3>6. loads \in Nat
      BY DEF TypeOK
    <3> HIDE DEF ServerInv, ServerTypes, Receive
    <3>7. PendingIsNew
      BY DEF ServerInv
    <3> QED
      BY <2>2, <3>1, <3>2, <3>3, <3>4, <3>5, <3>6, <3>7 DEF PendingIsNew
  <2> QED
    BY <2>1, <2>2 DEF Query, Put
<1>5. AnswersKept'
  <2>1. /\ answer' = [answer EXCEPT ![h] = None]
        /\ before' = [before EXCEPT ![h] = [acked |-> acked, gone |-> gone]]
        /\ answer \in [Handler -> Answer] /\ before \in [Handler -> History]
        /\ AnswersKept
    OBVIOUS
  <2> HIDE DEF ServerInv, ServerTypes, Receive
  <2>2. Kept(h, None)'
    BY DEF Kept, None, Answer
  <2>3. \A g \in Handler : g # h => Kept(g, answer[g])'
    BY <2>1 DEF AnswersKept, Kept
  <2> QED
    BY <2>1, <2>2, <2>3 DEF AnswersKept
<1> HIDE DEF Receive
<1> QED
  BY <1>2, <1>3, <1>4, <1>5

(* The process ends, is started again, or grows older.                     *)
LEMMA ProcessKeeps ==
  ASSUME ServerInv, (\E h \in Handler : FatalError(h)) \/ Restart \/ Tick
  PROVE  ServerInv'
<1> USE ServerAssumption DEF ServerInv, ServerTypes, slots, history
<1>1. CASE (\E h \in Handler : FatalError(h)) \/ Tick
  <2>1. TypeOK'
    <3>1. CASE \E h \in Handler : FatalError(h)
      BY <3>1 DEF TypeOK, FatalError
    <3>2. CASE Tick
      BY <3>2 DEF TypeOK, Tick
    <3> QED
      BY <1>1, <3>1, <3>2
  <2>2. UNCHANGED <<slots, pc, req, answer, loads, history, before>>
    BY <1>1 DEF FatalError, Tick
  <2>3. ServerTypes'
    BY <2>1, <2>2
  <2>4. Placed' /\ FiledByName' /\ PendingIsNew'
    BY <2>2 DEF Placed, FiledByName, PendingIsNew, Pending, Uploaded
  <2>5. HeldIsNotGone' /\ AnswersKept'
    BY <2>2 DEF HeldIsNotGone, AnswersKept, Kept
  <2> QED
    BY <2>3, <2>4, <2>5
<1>2. CASE Restart
  <2> USE <1>2 DEF Restart, StartServer
  <2>1. ServerTypes'
    BY DEF TypeOK, Home, Query, Slot, None, Answer, NoHistory, History
  <2>2. Placed' /\ FiledByName' /\ PendingIsNew'
    BY DEF Placed, FiledByName, PendingIsNew, Pending, Home
  <2>3. HeldIsNotGone' /\ AnswersKept'
    BY DEF HeldIsNotGone, AnswersKept, Kept, None, Answer, Initial, ClientRequest
  <2> QED
    BY <2>1, <2>2, <2>3
<1> QED
  BY <1>1, <1>2

(***************************************************************************)
(* Every step keeps the invariant.                                         *)
(***************************************************************************)
LEMMA ServerInvNext == ServerInv /\ [Next]_vars => ServerInv'
<1> SUFFICES ASSUME ServerInv, [Next]_vars
             PROVE  ServerInv'
  OBVIOUS
<1>1. ASSUME NEW h \in Handler, ReceiveQuery(h)
      PROVE  ServerInv'
  BY <1>1, ReceiveKeeps DEF ReceiveQuery
<1>2. ASSUME NEW h \in Handler, ReceivePut(h)
      PROVE  ServerInv'
  <2>1. PICK s \in Slot, p \in Profile, e \in 0..(MaxTime + 1) :
          Receive(h, [op |-> "put", slot |-> s,
                      load |-> [name |-> p, creds |-> [id |-> loads', exp |-> e]]])
    BY <1>2 DEF ReceivePut
  <2>2. loads' = loads + 1 /\ loads' \in 1..MaxLoads
    BY <1>2, ServerAssumption DEF ReceivePut, ServerInv, ServerTypes, TypeOK
  <2>3. [op |-> "put", slot |-> s, load |-> [name |-> p, creds |-> [id |-> loads', exp |-> e]]]
          \in Put
    BY <2>2 DEF Put, ClientRequest, Creds
  <2> QED
    BY <2>1, <2>2, <2>3, ReceiveKeeps
<1>3. ASSUME NEW h \in Handler, DefaultStep(h) \/ SlottedStep(h) \/ CheckPut(h)
      PROVE  ServerInv'
  BY <1>3, QueriesKeep, ProfileKeeps, ChecksKeep, WritesKeep DEF DefaultStep, SlottedStep
<1>4. CASE (\E h \in Handler : FatalError(h)) \/ Restart \/ Tick
  BY <1>4, ProcessKeeps
<1>5. CASE UNCHANGED vars
  <2>1. ServerTypes'
    BY <1>5 DEF ServerInv, ServerTypes, TypeOK, vars, slots, history
  <2> QED
    BY <1>5, <2>1
       DEF ServerInv, vars, slots, history, Placed, FiledByName, PendingIsNew, Pending, Uploaded,
           HeldIsNotGone, AnswersKept, Kept
<1> QED
  BY <1>1, <1>2, <1>3, <1>4, <1>5 DEF Next

(* The inductive invariant, for any handlers, profiles and uploads.        *)
THEOREM ServerCorrect == Spec => []ServerInv
BY ServerInvInit, ServerInvNext, PTL DEF Spec

(* The variables keep their types, and a named slot gives out only what    *)
(* was uploaded under its name (slotted.go), whatever the URL said.        *)
THEOREM SlotsKeepApart == Spec => []SlotsInv
BY ServerCorrect, ServerInvImplies, PTL

(* What PUT or DELETE has acknowledged as replaced or removed is given to  *)
(* no request that comes in afterwards (default.go, slotted.go).           *)
THEOREM GoneForGood == Spec => []NothingServedAgain
BY ServerCorrect, ServerInvImplies, PTL

(* /, /profile and the healthcheck report one upload as a whole.           *)
THEOREM WholeReports == Spec => []ReportsAreWhole
BY ServerCorrect, ServerInvImplies, PTL

-----------------------------------------------------------------------------
(* The deployment: the inductive invariant.                                *)

Writing == {"open", "write", "start"}
Starting == {"create", "failed", "wait", "load", "check", "stop", "cleanup"} \union Writing

(* Nobody is without a command and with a profile to load.                 *)
Fresh ==
  \A e \in Execution :
    /\ phase[e] \in {"off", "remove"} => ~default[e]
    /\ phase[e] # "off" => outcome[e] = "none"

Alone == ~overlapped => \A e, f \in Execution : phase[e] # "off" /\ phase[f] # "off" => e = f

(* An execution's own container does not run before it is started, and no  *)
(* more after it is stopped, unless Docker fails at either.                *)
OwnStopped ==
  \A e \in Execution : Mine(e) =>
    /\ phase[e] \in Writing => container.state = "created"
    /\ phase[e] \in {"failed", "cleanup"} => Removable \/ container.refused # "none"

(* A container serves while the server is the one in it.                   *)
Serving ==
  /\ container.state = "serving" <=> server.home = "container"
  /\ server.home = "container" => server.for = container.for /\ server.uses = container.uses

(* Who starts a container does so undisturbed ...                          *)
OwnContainer ==
  ~overlapped => \A e \in Execution :
    /\ phase[e] \in Writing => Mine(e) /\ container.state = "created"
    /\ phase[e] \in Writing => container.for = request[e] /\ container.retries = 0
    /\ phase[e] = "start" => file = Enabled(request[e])
    /\ phase[e] = "failed" => container.state = "created" \/ container.refused = "start"

(* ... and passes on to it what it asked for, once, but loses it when the  *)
(* start is reported as failed.                                            *)
Passing == container.retries = 0 /\ container.refused # "start"

PassedOn ==
  ~overlapped =>
    /\ container.state = "starting" =>
         file = NoFile \/ (container.retries = 0 /\ file = Enabled(container.for))
    /\ container.state = "starting" /\ Passing => file = Enabled(container.for)
    /\ container.state \in {"bare", "serving"} => file = NoFile
    /\ container.state \in {"bare", "configured", "serving"} /\ Passing =>
         container.uses = Enabled(container.for)

HostAsAsked == server.home = "host" => server.uses = Enabled(server.for)

(* While the secure store is what it was: who asked for what, and who was  *)
(* let in with it.                                                         *)
Asked == setups = 0 => \A e \in Execution : phase[e] \in Starting => request[e].stored = store
LoadedAsAsked == setups = 0 /\ server.loaded /\ server.for.disable = {} => server.uses = store

DeployedInv ==
  /\ DeployTypeOK /\ Fresh /\ Alone /\ OwnStopped /\ Serving /\ OwnContainer /\ PassedOn
  /\ HostAsAsked /\ Asked /\ LoadedAsAsked

Place == Starting \union {"off", "remove"}

Local ==
  /\ phase \in [Execution -> Place]
  /\ request \in [Execution -> Request]
  /\ default \in [Execution -> BOOLEAN]
  /\ outcome \in [Execution -> {"none", "ok", "error", "killed"}]

Container ==
  [state : {"none", "created", "starting", "bare", "configured", "serving", "exited"},
   id : Execution \union {"nobody"}, for : Request, retries : 0..MaximumRetryCount,
   uses : Security, refused : {"none", "start", "removal"}]

Server == [home : {"none", "host", "container"}, uses : Security, loaded : BOOLEAN, for : Request]

-----------------------------------------------------------------------------
(* Values.                                                                 *)

(* A missing and a torn security file are no contents of it.               *)
LEMMA NoFileIsNoSecurity ==
  NoFile \notin Security /\ Torn \notin Security /\ NoFile # Torn
BY NoTokenAssumption DEF NoFile, Torn, Security, NoToken

(* What is enabled of a request is what is stored, but for its flags.      *)
LEMMA EnabledTyped ==
  ASSUME NEW r \in Request
  PROVE  /\ Enabled(r) \in Security
         /\ r.disable = {} => Enabled(r) = r.stored
BY DEF Request, Security, Enabled

(* No security and no request are values like others.                      *)
LEMMA NothingTyped ==
  NoSecurity \in Security /\ NoRequest \in Request
BY DEF NoSecurity, Security, NoRequest, Request

(* No container is a value of the right type.                              *)
LEMMA ContainerTyped ==
  /\ NoContainer.state = "none"
  /\ NoContainer \in Container
BY EcsDeployAssumption, NothingTyped DEF NoContainer, Container

(* No server is a value of the right type.                                 *)
LEMMA ServerTyped ==
  /\ NoServer.home = "none" /\ ~NoServer.loaded
  /\ NoServer \in Server
BY NothingTyped DEF NoServer, Server

-----------------------------------------------------------------------------
(* Nothing is deployed at first.                                           *)
LEMMA DeployedInvInit == DeployInit => DeployedInv
<1> SUFFICES ASSUME DeployInit
             PROVE  DeployedInv
  OBVIOUS
<1> USE NothingTyped, ContainerTyped, ServerTyped DEF DeployInit
<1>1. DeployTypeOK
  <2>1. store \in Security
    BY DEF Security
  <2>2. setups \in 0..MaxSetups
    BY EcsDeployAssumption
  <2>3. container \in Container /\ server \in Server
    BY ContainerTyped, ServerTyped
  <2> QED
    BY <2>1, <2>2, <2>3 DEF DeployTypeOK, Container, Server
<1>2. Fresh /\ Alone /\ Asked /\ LoadedAsAsked
  BY DEF Fresh, Alone, Asked, LoadedAsAsked, Starting, Writing
<1>3. OwnStopped /\ Serving /\ OwnContainer /\ PassedOn /\ HostAsAsked
  BY DEF OwnStopped, Mine, Serving, OwnContainer, PassedOn, Passing, HostAsAsked, Writing
<1> QED
  BY <1>1, <1>2, <1>3 DEF DeployedInv

(* What an execution's own step leaves true of it and of the others.       *)
LEMMA ContinueKeeps ==
  ASSUME DeployedInv, NEW e \in Execution, NEW l \in Starting, phase[e] \in Starting,
         Continue(e, l), UNCHANGED host
  PROVE  /\ Local' /\ Fresh' /\ Alone' /\ Asked'
         /\ phase' = [phase EXCEPT ![e] = l]
<1> USE DEF DeployedInv, DeployTypeOK, Continue, Enter, host, Starting, Writing
<1>1. Local'
  BY DEF Local, Place
<1>2. Fresh' /\ Alone'
  BY DEF Fresh, Alone
<1>3. Asked'
  BY DEF Asked
<1> QED
  BY <1>1, <1>2, <1>3

(* An execution that ends takes nothing from the others.                   *)
LEMMA EndKeeps ==
  ASSUME DeployedInv, NEW e \in Execution, NEW o \in {"none", "ok", "error", "killed"},
         End(e, o), UNCHANGED <<store, setups>>, ~overlapped' => ~overlapped
  PROVE  /\ Local' /\ Fresh' /\ Alone' /\ Asked'
         /\ phase' = [phase EXCEPT ![e] = "off"]
         /\ \A f \in Execution \ {e} : request'[f] = request[f]
<1> USE DEF DeployedInv, DeployTypeOK, End, Enter, Starting, Writing
<1>1. Local'
  BY NothingTyped DEF Local, Place
<1>2. Fresh' /\ Alone'
  BY DEF Fresh, Alone
<1>3. Asked'
  BY DEF Asked
<1> QED
  BY <1>1, <1>2, <1>3

(* Docker fails at what was to clean the container up.                     *)
LEMMA RefusesTyped ==
  ASSUME NEW c \in Container
  PROVE  /\ Refuses(c) \in Container
         /\ Refuses(c).state = c.state /\ Refuses(c).id = c.id /\ Refuses(c).for = c.for
         /\ Refuses(c).retries = c.retries /\ Refuses(c).uses = c.uses
         /\ Refuses(c).refused # "none"
         /\ c.refused = "start" <=> Refuses(c).refused = "start"
BY DEF Refuses, Container

(* What only reads the container, the file and the server, or fails at     *)
(* cleaning up.                                                            *)
LEMMA LooksOnly ==
  ASSUME DeployedInv, NEW e \in Execution, UNCHANGED <<host, file, server>>,
         container' \in {container, Refuses(container)},
         Local', Fresh', Alone', Asked',
         \A f \in Execution \ {e} : phase'[f] = phase[f] /\ request'[f] = request[f],
         phase'[e] \notin Writing \union {"failed"},
         phase'[e] = "cleanup" /\ Mine(e) => Removable \/ container'.refused # "none"
  PROVE  DeployedInv'
<1> USE DEF DeployedInv, host
<1>1. container \in Container
  BY DEF DeployTypeOK, Container
<1>2. /\ container' \in Container
      /\ container'.state = container.state /\ container'.id = container.id
      /\ container'.for = container.for /\ container'.retries = container.retries
      /\ container'.uses = container.uses
      /\ container.refused # "none" => container'.refused # "none"
      /\ container.refused = "start" <=> container'.refused = "start"
  BY <1>1, RefusesTyped
<1>3. DeployTypeOK'
  BY <1>2 DEF DeployTypeOK, Local, Place, Starting, Writing, Container
<1>4. OwnStopped'
  BY <1>2 DEF OwnStopped, Mine, Removable, Writing
<1>5. OwnContainer'
  BY <1>2 DEF OwnContainer, Mine, Writing
<1>6. Serving' /\ PassedOn' /\ HostAsAsked' /\ LoadedAsAsked'
  BY <1>2 DEF Serving, PassedOn, Passing, HostAsAsked, LoadedAsAsked
<1> QED
  BY <1>3, <1>4, <1>5, <1>6

-----------------------------------------------------------------------------
(* `ecs docker start` begins: its request is what the store has now.       *)
LEMMA StartKeeps ==
  ASSUME DeployedInv, NEW e \in Execution, NEW disable \in SUBSET Flags, NEW d \in BOOLEAN,
         DockerStart(e, disable, d)
  PROVE  DeployedInv'
<1> USE DEF DeployedInv, DockerStart, Enter, NotesOverlap, Busy
<1>1. DeployTypeOK'
  <2>1. [stored |-> store, disable |-> disable] \in Request
    BY DEF DeployTypeOK, Request
  <2> QED
    BY <2>1 DEF DeployTypeOK
<1>2. Fresh' /\ Alone'
  <2>1. Fresh'
    BY DEF Fresh, DeployTypeOK
  <2>2. ASSUME ~overlapped', NEW f \in Execution, phase'[f] # "off"
        PROVE  f = e
    BY <2>2 DEF DeployTypeOK
  <2> QED
    BY <2>1, <2>2 DEF Alone
<1>3. OwnStopped'
  BY DEF OwnStopped, Mine, Removable, DeployTypeOK, Writing
<1>4. OwnContainer'
  BY DEF OwnContainer, Mine, DeployTypeOK, Writing
<1>5. Asked' /\ LoadedAsAsked'
  BY DEF Asked, LoadedAsAsked, DeployTypeOK, Starting, Writing
<1>6. Serving' /\ PassedOn' /\ HostAsAsked'
  BY DEF Serving, PassedOn, Passing, HostAsAsked
<1> QED
  BY <1>1, <1>2, <1>3, <1>4, <1>5, <1>6

(* ContainerCreate makes a container for the request, or fails.            *)
LEMMA CreateKeeps ==
  ASSUME DeployedInv, NEW e \in Execution, ContainerCreate(e)
  PROVE  DeployedInv'
<1>1. phase[e] = "create" /\ UNCHANGED <<host, file, server>>
  BY DEF ContainerCreate
<1>2. CASE End(e, "error") /\ container' = container
  <2>1. /\ Local' /\ Fresh' /\ Alone' /\ Asked'
        /\ phase' = [phase EXCEPT ![e] = "off"]
        /\ \A f \in Execution \ {e} : request'[f] = request[f]
    BY <1>1, <1>2, EndKeeps DEF host
  <2>2. /\ \A f \in Execution \ {e} : phase'[f] = phase[f]
        /\ phase'[e] = "off"
    BY <2>1 DEF DeployedInv, DeployTypeOK
  <2> QED
    BY <1>1, <1>2, <2>1, <2>2, LooksOnly DEF host, Writing
<1>3. CASE /\ container.state = "none"
           /\ container' = [NoContainer EXCEPT !.state = "created", !.id = e, !.for = request[e]]
           /\ Continue(e, "open")
  <2> USE <1>1, <1>3 DEF DeployedInv
  <2>1. /\ Local' /\ Fresh' /\ Alone' /\ Asked'
        /\ phase' = [phase EXCEPT ![e] = "open"] /\ request' = request
    BY ContinueKeeps DEF Starting, Writing, Continue
  <2>2. request[e] \in Request /\ phase \in [Execution -> Place]
    BY DEF DeployTypeOK, Place, Starting, Writing
  <2>3. /\ container' \in Container
        /\ container'.state = "created" /\ container'.id = e
        /\ container'.for = request[e] /\ container'.retries = 0
    BY <2>2, ContainerTyped DEF Container, NoContainer
  <2>4. DeployTypeOK'
    BY <2>1, <2>3 DEF DeployTypeOK, Local, Place, Starting, Writing, Container, host
  <2>5. OwnStopped'
    BY <2>1, <2>2, <2>3 DEF OwnStopped, Mine, Writing
  <2>6. OwnContainer'
    BY <2>1, <2>2, <2>3 DEF OwnContainer, Mine, Writing, Alone, host
  <2>7. Serving' /\ PassedOn' /\ HostAsAsked' /\ LoadedAsAsked'
    BY <2>3 DEF Serving, PassedOn, Passing, HostAsAsked, LoadedAsAsked, host
  <2> QED
    BY <2>1, <2>4, <2>5, <2>6, <2>7
<1> QED
  BY <1>2, <1>3 DEF ContainerCreate

(* The file changes hands while its writer's container does not run.       *)
LEMMA FileKeeps ==
  ASSUME DeployedInv, NEW e \in Execution, OpenSecurityFile(e) \/ WriteSecurityConfig(e)
  PROVE  DeployedInv'
<1> USE DEF DeployedInv, OpenSecurityFile, WriteSecurityConfig
<1>1. PICK l \in {"write", "start", "cleanup"} :
        /\ Continue(e, l)
        /\ l = "start" => file' = Enabled(request[e])
  OBVIOUS
<1>2. UNCHANGED <<host, container, server>> /\ phase[e] \in Writing /\ phase[e] # "start"
  BY DEF Writing
<1>3. /\ Local' /\ Fresh' /\ Alone' /\ Asked'
      /\ phase' = [phase EXCEPT ![e] = l] /\ request' = request
  BY <1>1, <1>2, ContinueKeeps DEF Starting, Writing, Continue
<1>4. phase \in [Execution -> Place] /\ Enabled(request[e]) \in Security
  BY EnabledTyped DEF DeployTypeOK, Place, Starting, Writing
<1>5. DeployTypeOK'
  BY <1>2, <1>3, <1>4 DEF DeployTypeOK, Local, Place, Starting, Writing, host
<1>6. OwnStopped'
  BY <1>2, <1>3, <1>4 DEF OwnStopped, Mine, Removable, Writing
<1>7. OwnContainer'
  BY <1>1, <1>2, <1>3, <1>4 DEF OwnContainer, Mine, Writing, Alone, host
<1>8. PassedOn'
  BY <1>2 DEF PassedOn, OwnContainer, host
<1>9. Serving' /\ HostAsAsked' /\ LoadedAsAsked'
  BY <1>2 DEF Serving, HostAsAsked, LoadedAsAsked, host
<1> QED
  BY <1>3, <1>5, <1>6, <1>7, <1>8, <1>9

(* ContainerStart lets the server come up, or fails, or both.              *)
LEMMA ContainerStartKeeps ==
  ASSUME DeployedInv, NEW e \in Execution, ContainerStart(e)
  PROVE  DeployedInv'
<1> USE DEF DeployedInv
<1>1. phase[e] = "start" /\ UNCHANGED <<host, file, server>>
  BY DEF ContainerStart
<1>2. phase \in [Execution -> Place] /\ container \in Container
  BY DEF DeployTypeOK, Container, Place, Starting, Writing
<1>3. CASE Continue(e, "failed") /\ container' = container
  <2> USE <1>1, <1>2, <1>3
  <2>1. /\ Local' /\ Fresh' /\ Alone' /\ Asked'
        /\ phase' = [phase EXCEPT ![e] = "failed"] /\ request' = request
    BY ContinueKeeps DEF Starting, Writing, Continue
  <2>2. DeployTypeOK'
    BY <2>1 DEF DeployTypeOK, Local, Place, Starting, Writing, host
  <2>3. OwnStopped'
    BY <2>1 DEF OwnStopped, Mine, Removable, Writing
  <2>4. OwnContainer'
    BY <2>1 DEF OwnContainer, Mine, Writing, Alone, host
  <2>5. Serving' /\ PassedOn' /\ HostAsAsked' /\ LoadedAsAsked'
    BY DEF Serving, PassedOn, Passing, HostAsAsked, LoadedAsAsked, host
  <2> QED
    BY <2>1, <2>2, <2>3, <2>4, <2>5
<1>4. CASE /\ Mine(e) /\ container.state = "created" /\ server.home = "none"
           /\ \/ /\ container' = [container EXCEPT !.state = "starting"]
                 /\ Continue(e, "wait") \/ End(e, "ok")
              \/ /\ container' = [container EXCEPT !.state = "starting", !.refused = "start"]
                 /\ Continue(e, "failed")
  <2> USE <1>1, <1>2, <1>4
  <2>1. /\ Local' /\ Fresh' /\ Alone' /\ Asked'
        /\ phase' \in {[phase EXCEPT ![e] = "wait"], [phase EXCEPT ![e] = "off"],
                       [phase EXCEPT ![e] = "failed"]}
        /\ \A f \in Execution \ {e} : request'[f] = request[f]
    BY ContinueKeeps, EndKeeps DEF Starting, Writing, Continue, host
  <2>2. /\ container' \in Container
        /\ container'.state = "starting" /\ container'.id = e
        /\ container'.retries = container.retries /\ container'.for = container.for
    BY DEF Container, Mine
  <2>3. phase'[e] = "failed" => container'.refused = "start"
    BY DEF Continue, End, Enter, Container
  <2>4. DeployTypeOK'
    BY <2>1, <2>2 DEF DeployTypeOK, Local, Place, Starting, Writing, Container, host
  <2>5. OwnStopped'
    BY <2>1, <2>2, <2>3 DEF OwnStopped, Mine, Writing
  <2>6. OwnContainer'
    BY <2>1, <2>2, <2>3 DEF OwnContainer, Mine, Writing, Alone, host
  <2>7. PassedOn'
    BY <2>2 DEF PassedOn, Passing, OwnContainer, Writing, host
  <2>8. Serving' /\ HostAsAsked' /\ LoadedAsAsked'
    BY <2>2 DEF Serving, HostAsAsked, LoadedAsAsked, host
  <2> QED
    BY <2>1, <2>4, <2>5, <2>6, <2>7, <2>8
<1> QED
  BY <1>3, <1>4 DEF ContainerStart

(* The file is removed while the container does not run, or runs although  *)
(* it was reported not to.                                                 *)
LEMMA RemoveFileKeeps ==
  ASSUME DeployedInv, NEW e \in Execution, RemoveFile(e)
  PROVE  DeployedInv'
<1> USE DEF DeployedInv, RemoveFile
<1>1. phase \in [Execution -> Place]
  BY DEF DeployTypeOK, Place, Starting, Writing
<1>2. /\ Local' /\ Fresh' /\ Alone' /\ Asked'
      /\ phase' = [phase EXCEPT ![e] = "cleanup"] /\ request' = request
  BY ContinueKeeps DEF Starting, Writing, Continue
<1>3. DeployTypeOK'
  BY <1>2 DEF DeployTypeOK, Local, Place, Starting, Writing, host
<1>4. OwnStopped'
  BY <1>1, <1>2 DEF OwnStopped, Mine, Removable, Writing
<1>5. OwnContainer'
  BY <1>1, <1>2 DEF OwnContainer, Mine, Writing, Alone, host
<1>6. PassedOn'
  BY DEF PassedOn, Passing, OwnContainer, host
<1>7. Serving' /\ HostAsAsked' /\ LoadedAsAsked'
  BY DEF Serving, HostAsAsked, LoadedAsAsked, host
<1> QED
  BY <1>2, <1>3, <1>4, <1>5, <1>6, <1>7

(* Waiting for the container, the healthcheck and a kill change no server. *)
LEMMA ClientStepsKeep ==
  ASSUME DeployedInv, NEW e \in Execution,
         WaitUp(e) \/ Healthcheck(e) \/ Killed(e)
  PROVE  DeployedInv'
<1>1. /\ UNCHANGED <<host, file, container, server>>
      /\ \/ phase[e] \in Starting /\ \E l \in {"load", "stop"} : Continue(e, l)
         \/ \E o \in {"ok", "killed"} : End(e, o)
  BY DEF WaitUp, Healthcheck, Killed, Starting
<1>2. /\ Local' /\ Fresh' /\ Alone' /\ Asked'
      /\ \E l \in {"load", "stop", "off"} : phase' = [phase EXCEPT ![e] = l]
      /\ \A f \in Execution \ {e} : request'[f] = request[f]
  BY <1>1, ContinueKeeps, EndKeeps DEF host, Starting, Continue
<1>3. /\ \A f \in Execution \ {e} : phase'[f] = phase[f]
      /\ phase'[e] \in {"load", "stop", "off"}
  BY <1>2 DEF DeployedInv, DeployTypeOK
<1> QED
  BY <1>1, <1>2, <1>3, LooksOnly DEF Writing

(* A client that is let in loads a profile.                                *)
LEMMA LoadsKeep ==
  ASSUME DeployedInv,
         server.home # "none", UNCHANGED <<host, file, container>>,
         \/ server' = server
         \/ /\ server' = [server EXCEPT !.loaded = TRUE]
            /\ setups = 0 => Accepts(server, store)
  PROVE  /\ server' \in Server
         /\ Serving' /\ PassedOn' /\ HostAsAsked' /\ LoadedAsAsked'
<1> USE DEF DeployedInv, host
<1>1. server \in Server /\ store \in Security
  BY DEF DeployTypeOK, Server
<1>2. /\ server' \in Server /\ server'.home = server.home
      /\ server'.uses = server.uses /\ server'.for = server.for
  BY <1>1 DEF Server
<1>3. Serving' /\ PassedOn' /\ HostAsAsked'
  BY <1>2 DEF Serving, PassedOn, Passing, HostAsAsked
<1>4. LoadedAsAsked'
  BY <1>1, <1>2 DEF LoadedAsAsked, Accepts, Authorized, Server, Security
<1> QED
  BY <1>2, <1>3, <1>4

(* The profile is loaded into a server that accepts this client.           *)
LEMMA LoadProfileKeeps ==
  ASSUME DeployedInv, NEW e \in Execution, LoadProfile(e)
  PROVE  DeployedInv'
<1> USE DEF DeployedInv
<1>1. PICK l \in {"check", "stop"} :
        /\ Continue(e, l) /\ UNCHANGED <<host, file, container>>
        /\ \/ server' = server
           \/ Accepts(server, request[e].stored) /\ server' = [server EXCEPT !.loaded = TRUE]
  BY DEF LoadProfile
<1>2. /\ Local' /\ Fresh' /\ Alone' /\ Asked'
      /\ phase' = [phase EXCEPT ![e] = l] /\ request' = request
  BY <1>1, ContinueKeeps DEF Starting, Continue, LoadProfile
<1>3. setups = 0 => request[e].stored = store
  BY DEF Asked, LoadProfile, Starting
<1>4. /\ server' \in Server
      /\ Serving' /\ PassedOn' /\ HostAsAsked' /\ LoadedAsAsked'
  <2>1. CASE server' = server
    BY <1>1, <2>1 DEF DeployTypeOK, Server, Serving, PassedOn, Passing, HostAsAsked, LoadedAsAsked, host
  <2>2. CASE server' # server
    BY <1>1, <1>3, <2>2, LoadsKeep DEF Accepts
  <2> QED
    BY <2>1, <2>2
<1>5. DeployTypeOK'
  BY <1>1, <1>2, <1>4 DEF DeployTypeOK, Local, Place, Starting, Writing, Server, host
<1>6. phase \in [Execution -> Place]
  BY DEF DeployTypeOK, Place, Starting, Writing
<1>7. OwnStopped' /\ OwnContainer'
  BY <1>1, <1>2, <1>6 DEF OwnStopped, OwnContainer, Mine, Removable, Writing, host
<1> QED
  BY <1>2, <1>4, <1>5, <1>7

-----------------------------------------------------------------------------
(* Stopping and removing.                                                  *)

(* A stopped container will not serve by itself.                           *)
LEMMA StoppedTyped ==
  ASSUME NEW c \in Container
  PROVE  /\ Stopped(c) \in Container /\ Stopped(c).state \in {"created", "exited"}
         /\ c.state = "created" => Stopped(c) = c
         /\ Stopped(c).id = c.id
BY NothingTyped DEF Stopped, Container

(* What ContainerStop leaves of container and server.                      *)
LEMMA StopKeeps ==
  ASSUME DeployedInv, UNCHANGED <<store, setups, file>>, Halt
  PROVE  /\ container' \in Container /\ server' \in Server
         /\ container'.state \in {"created", "exited"} /\ container'.id = container.id
         /\ container.state = "created" => container' = container
         /\ Serving' /\ PassedOn' /\ HostAsAsked' /\ LoadedAsAsked'
<1> USE DEF DeployedInv, Halt
<1>1. container \in Container /\ server \in Server
  BY DEF DeployTypeOK, Container, Server
<1>2. server' \in Server /\ server'.home # "container"
  BY <1>1, ServerTyped DEF Server
<1>3. /\ container' \in Container
      /\ container'.state \in {"created", "exited"} /\ container'.id = container.id
      /\ container.state = "created" => container' = container
  BY <1>1, StoppedTyped
<1>4. Serving' /\ PassedOn'
  BY <1>2, <1>3 DEF Serving, PassedOn
<1>5. HostAsAsked' /\ LoadedAsAsked'
  BY ServerTyped DEF HostAsAsked, LoadedAsAsked
<1> QED
  BY <1>2, <1>3, <1>4, <1>5

(* A container that was stopped is nobody's that runs.                     *)
LEMMA HaltKeepsOwn ==
  ASSUME DeployedInv, container.state # "none",
         container'.state \in {"created", "exited"}, container'.id = container.id,
         container.state = "created" => container' = container,
         \A f \in Execution : phase'[f] \in Writing => phase[f] \in Writing
  PROVE  OwnStopped'
BY DEF DeployedInv, OwnStopped, Mine, Removable

(* The clean-up of a start that failed stops its container, or Docker does *)
(* not.                                                                    *)
LEMMA StopOwnKeeps ==
  ASSUME DeployedInv, NEW e \in Execution, StopOwn(e)
  PROVE  DeployedInv'
<1> USE DEF DeployedInv
<1>1. /\ phase[e] = "stop" /\ Continue(e, "cleanup") /\ UNCHANGED <<host, file>>
  BY DEF StopOwn
<1>2. /\ Local' /\ Fresh' /\ Alone' /\ Asked'
      /\ phase' = [phase EXCEPT ![e] = "cleanup"] /\ request' = request
  BY <1>1, ContinueKeeps DEF Starting, Continue
<1>3. phase \in [Execution -> Place] /\ container \in Container
  BY DEF DeployTypeOK, Place, Starting, Writing, Container
<1>4. CASE Mine(e) /\ Halt
  <2>1. /\ container' \in Container /\ server' \in Server
        /\ container'.state \in {"created", "exited"} /\ container'.id = container.id
        /\ container.state = "created" => container' = container
        /\ Serving' /\ PassedOn' /\ HostAsAsked' /\ LoadedAsAsked'
    BY <1>1, <1>4, StopKeeps DEF host
  <2>2. DeployTypeOK'
    BY <1>1, <1>2, <2>1 DEF DeployTypeOK, Local, Place, Starting, Writing, Container, Server, host
  <2>3. OwnStopped'
    BY <1>2, <1>3, <1>4, <2>1, HaltKeepsOwn DEF Mine, Writing
  <2>4. OwnContainer'
    BY <1>1, <1>2, <1>3 DEF OwnContainer, Alone, Writing, host
  <2> QED
    BY <1>2, <2>1, <2>2, <2>3, <2>4
<1>5. CASE UNCHANGED server /\ container' = Refuses(container)
  BY <1>1, <1>2, <1>3, <1>5, LooksOnly, RefusesTyped DEF Writing
<1>6. CASE ~Mine(e) /\ UNCHANGED <<container, server>>
  BY <1>1, <1>2, <1>3, <1>6, LooksOnly DEF Writing
<1> QED
  BY <1>4, <1>5, <1>6 DEF StopOwn

(* `ecs docker stop` stops the container by its name, or Docker does not,  *)
(* or Docker says that it did not.                                         *)
LEMMA DockerStopKeeps ==
  ASSUME DeployedInv, NEW e \in Execution, DockerStop(e)
  PROVE  DeployedInv'
<1> USE DEF DeployedInv
<1>1. /\ phase[e] = "off" /\ UNCHANGED <<store, setups, file>>
      /\ overlapped' = (overlapped \/ Busy \ {e} # {})
  BY DEF DockerStop, NotesOverlap
<1>2. phase \in [Execution -> Place]
  BY DEF DeployTypeOK, Place, Starting, Writing
<1>3. ~overlapped' => ~overlapped /\ \A f \in Execution \ {e} : phase[f] = "off"
  BY <1>1 DEF Busy
<1>4. CASE End(e, "error") /\ UNCHANGED <<container, server>>
  <2>1. /\ Local' /\ Fresh' /\ Alone' /\ Asked'
        /\ phase' = [phase EXCEPT ![e] = "off"]
    BY <1>1, <1>3, <1>4, EndKeeps
  <2>2. phase' = phase
    BY <1>1, <1>2, <2>1
  <2>3. DeployTypeOK'
    BY <1>1, <1>4, <2>1 DEF DeployTypeOK, Local, Place, Starting, Writing
  <2>4. OwnStopped'
    BY <1>4, <2>2 DEF OwnStopped, Mine, Removable
  <2>5. OwnContainer'
    BY <1>1, <1>3, <2>2 DEF OwnContainer, Writing
  <2>6. Serving' /\ PassedOn' /\ HostAsAsked' /\ LoadedAsAsked'
    BY <1>1, <1>3, <1>4 DEF Serving, PassedOn, Passing, HostAsAsked, LoadedAsAsked
  <2> QED
    BY <2>1, <2>3, <2>4, <2>5, <2>6
<1>5. CASE /\ container.state # "none" /\ Halt
           /\ \/ /\ Enter(e, "remove") /\ outcome' = [outcome EXCEPT ![e] = "none"]
                 /\ UNCHANGED <<request, default>>
              \/ End(e, "error")
  <2>1. /\ container' \in Container /\ server' \in Server
        /\ container'.state \in {"created", "exited"} /\ container'.id = container.id
        /\ container.state = "created" => container' = container
        /\ Serving' /\ PassedOn' /\ HostAsAsked' /\ LoadedAsAsked'
    BY <1>1, <1>5, StopKeeps
  <2>2. PICK l \in {"remove", "off"} : phase' = [phase EXCEPT ![e] = l]
    BY <1>5 DEF Enter, End
  <2>3. Local' /\ Fresh' /\ Alone' /\ Asked'
    <3>1. CASE End(e, "error")
      BY <1>1, <1>3, <3>1, EndKeeps
    <3>2. CASE /\ Enter(e, "remove") /\ outcome' = [outcome EXCEPT ![e] = "none"]
               /\ UNCHANGED <<request, default>>
      <4>1. phase' = [phase EXCEPT ![e] = "remove"]
        BY <3>2 DEF Enter
      <4>2. Local'
        BY <3>2, <4>1 DEF Local, Place, DeployTypeOK, Starting, Writing
      <4>3. Fresh' /\ Asked'
        BY <1>1, <3>2, <4>1 DEF Fresh, Asked, DeployTypeOK, Starting, Writing
      <4>4. Alone'
        BY <1>2, <1>3, <4>1 DEF Alone
      <4> QED
        BY <4>2, <4>3, <4>4
    <3> QED
      BY <1>5, <3>1, <3>2
  <2>4. DeployTypeOK'
    BY <1>1, <2>1, <2>3 DEF DeployTypeOK, Local, Place, Starting, Writing, Container, Server
  <2>5. OwnStopped'
    BY <1>2, <1>5, <2>1, <2>2, HaltKeepsOwn DEF Writing
  <2>6. OwnContainer'
    BY <1>2, <1>3, <2>2 DEF OwnContainer, Writing
  <2> QED
    BY <2>1, <2>3, <2>4, <2>5, <2>6
<1> QED
  BY <1>4, <1>5 DEF DockerStop

(* Both ways to remove the container after it was stopped.                 *)
LEMMA RemovesKeep ==
  ASSUME DeployedInv, NEW e \in Execution, RemoveOwn(e) \/ RemoveNamed(e)
  PROVE  DeployedInv'
<1> USE DEF DeployedInv
<1>1. /\ phase[e] # "off" /\ UNCHANGED <<host, file, server>>
      /\ container' \in {container, Refuses(container)} \/ (Removable /\ container' = NoContainer)
      /\ End(e, "ok") \/ End(e, "error")
  BY DEF RemoveOwn, RemoveNamed
<1>2. /\ Local' /\ Fresh' /\ Alone' /\ Asked'
      /\ phase' = [phase EXCEPT ![e] = "off"]
      /\ \A f \in Execution \ {e} : request'[f] = request[f]
  BY <1>1, EndKeeps DEF host
<1>3. /\ phase'[e] = "off" /\ \A f \in Execution \ {e} : phase'[f] = phase[f]
  BY <1>2 DEF DeployTypeOK
<1>4. CASE container' \in {container, Refuses(container)}
  BY <1>1, <1>2, <1>3, <1>4, LooksOnly DEF Writing
<1>5. CASE Removable /\ container' = NoContainer
  <2>1. DeployTypeOK'
    BY <1>1, <1>2, <1>5, ContainerTyped DEF DeployTypeOK, Local, Place, Starting, Writing, Container, host
  <2>2. OwnStopped'
    BY <1>5, ContainerTyped DEF OwnStopped, Mine
  <2>3. OwnContainer'
    BY <1>1, <1>3 DEF OwnContainer, Alone, Writing, host
  <2>4. Serving' /\ PassedOn' /\ HostAsAsked' /\ LoadedAsAsked'
    BY <1>1, <1>5, ContainerTyped DEF Serving, PassedOn, Passing, HostAsAsked, LoadedAsAsked, Removable, host
  <2> QED
    BY <1>2, <2>1, <2>2, <2>3, <2>4
<1> QED
  BY <1>1, <1>4, <1>5

-----------------------------------------------------------------------------
(* Servers and containers by themselves.                                   *)

(* Executions do not see what a container that runs, or its server, does.  *)
LEMMA MachineKeeps ==
  ASSUME DeployedInv, UNCHANGED <<host, local>>,
         container' = container \/ (container.state # "created" /\ ~Removable),
         container' = container \/ file' = file \/ container.state = "configured",
         container'.state # "none" => container.state # "none" /\ container'.id = container.id,
         container'.refused = container.refused,
         ~overlapped /\ (\E e \in Execution : phase[e] \in Writing) => container' = container /\ file' = file,
         container' \in Container, server' \in Server, file' \in Security \union {NoFile, Torn},
         Serving', PassedOn', HostAsAsked', LoadedAsAsked'
  PROVE  DeployedInv'
<1> USE DEF DeployedInv, host, local
<1>1. DeployTypeOK'
  BY DEF DeployTypeOK, Container, Server
<1>2. Fresh' /\ Alone' /\ Asked'
  BY DEF Fresh, Alone, Asked
<1>3. OwnStopped'
  BY DEF OwnStopped, Mine, Removable
<1>4. OwnContainer'
  <2>1. ASSUME ~overlapped, NEW e \in Execution, phase[e] \in Writing
        PROVE  container' = container /\ file' = file
    BY <2>1
  <2>2. ASSUME ~overlapped, NEW e \in Execution, phase[e] = "failed"
        PROVE  container'.state = "created" \/ container'.refused = "start"
    BY <2>2 DEF OwnContainer, Removable
  <2> QED
    BY <2>1, <2>2 DEF OwnContainer, Mine, Writing
<1> QED
  BY <1>1, <1>2, <1>3, <1>4

(* A server that fails leaves its container restarting or exited.          *)
LEMMA FailTyped ==
  ASSUME NEW c \in Container
  PROVE  /\ Fail(c) \in Container /\ Fail(c).state \in {"starting", "exited"}
         /\ Fail(c).state = "starting" => Fail(c).retries # 0
         /\ Fail(c).id = c.id /\ Fail(c).refused = c.refused
<1>1. CASE c.retries < MaximumRetryCount
  <2>1. PICK n \in 0..MaximumRetryCount : n = c.retries + 1 /\ n # 0
    BY <1>1, EcsDeployAssumption DEF Container
  <2>2. Fail(c) = [c EXCEPT !.state = "starting", !.retries = n, !.uses = NoSecurity]
    BY <1>1, <2>1 DEF Fail, Container
  <2> QED
    BY <2>1, <2>2, NothingTyped DEF Container
<1>2. CASE ~(c.retries < MaximumRetryCount)
  BY <1>2, NothingTyped DEF Fail, Container
<1> QED
  BY <1>1, <1>2

(* While an execution writes the file alone, its container does not run.   *)
LEMMA WriterIsAlone ==
  ASSUME DeployedInv, container.state # "created", ~overlapped
  PROVE  \A e \in Execution : phase[e] \notin Writing
BY DEF DeployedInv, OwnContainer

(* The server in the container reads the security file, or finds none.     *)
LEMMA ReadKeeps ==
  ASSUME DeployedInv, ReadSecurityConfig
  PROVE  DeployedInv'
<1> USE DEF DeployedInv
<1>1. /\ container \in Container /\ container.state = "starting" /\ container.for \in Request
      /\ file \in Security \union {NoFile, Torn}
      /\ UNCHANGED <<host, file, server, local>>
  BY DEF ReadSecurityConfig, DeployTypeOK, Container
<1>2. server.home # "container"
  BY <1>1 DEF Serving
<1>3. CASE file = NoFile
  <2>1. container' = [container EXCEPT !.state = "bare", !.uses = NoSecurity]
    BY <1>3, NoFileIsNoSecurity DEF ReadSecurityConfig
  <2>2. /\ container' \in Container /\ container'.state = "bare"
        /\ container'.id = container.id /\ container'.retries = container.retries
        /\ container'.refused = container.refused
    BY <1>1, <2>1, NothingTyped DEF Container
  <2>3. ~overlapped => ~Passing
    BY <1>1, <1>3, EnabledTyped, NoFileIsNoSecurity DEF PassedOn
  <2>4. PassedOn'
    BY <1>1, <1>3, <2>2, <2>3 DEF PassedOn, Passing, host
  <2>5. Serving' /\ HostAsAsked' /\ LoadedAsAsked'
    BY <1>1, <1>2, <2>2 DEF Serving, HostAsAsked, LoadedAsAsked, host
  <2> QED
    BY <1>1, <2>2, <2>4, <2>5, WriterIsAlone, MachineKeeps DEF Removable, DeployTypeOK, Server
<1>4. CASE file = Torn
  <2>1. container' = Fail(container)
    BY <1>4, NoFileIsNoSecurity DEF ReadSecurityConfig
  <2>2. /\ container' \in Container /\ container'.state \in {"starting", "exited"}
        /\ container'.id = container.id /\ container'.refused = container.refused
    BY <1>1, <2>1, FailTyped
  <2>3. overlapped
    BY <1>1, <1>4, EnabledTyped, NoFileIsNoSecurity DEF PassedOn
  <2>4. PassedOn'
    BY <1>1, <2>3 DEF PassedOn, Passing, host
  <2>5. Serving' /\ HostAsAsked' /\ LoadedAsAsked'
    BY <1>1, <1>2, <2>2 DEF Serving, HostAsAsked, LoadedAsAsked, host
  <2> QED
    BY <1>1, <2>2, <2>4, <2>5, WriterIsAlone, MachineKeeps DEF Removable, DeployTypeOK, Server
<1>5. CASE file \in Security
  <2>1. container' = [container EXCEPT !.state = "configured", !.uses = file]
    BY <1>5, NoFileIsNoSecurity DEF ReadSecurityConfig
  <2>2. /\ container' \in Container /\ container'.state = "configured"
        /\ container'.id = container.id /\ container'.retries = container.retries
        /\ container'.refused = container.refused
        /\ container'.uses = file /\ container'.for = container.for
    BY <1>1, <1>5, <2>1 DEF Container
  <2>3. PassedOn'
    BY <1>1, <2>2 DEF PassedOn, Passing, host
  <2>4. Serving' /\ HostAsAsked' /\ LoadedAsAsked'
    BY <1>1, <1>2, <2>2 DEF Serving, HostAsAsked, LoadedAsAsked, host
  <2> QED
    BY <1>1, <2>2, <2>3, <2>4, WriterIsAlone, MachineKeeps DEF Removable, DeployTypeOK, Server
<1> QED
  BY <1>1, <1>3, <1>4, <1>5

(* The server removes the file that it has read and serves.                *)
LEMMA ServeKeeps ==
  ASSUME DeployedInv, RemoveFileAndServe
  PROVE  DeployedInv'
<1> USE DEF DeployedInv, RemoveFileAndServe
<1>1. /\ container \in Container
      /\ file' = IF container.state = "configured" THEN NoFile ELSE file
      /\ container' = [container EXCEPT !.state = "serving"]
      /\ server' = [home |-> "container", uses |-> container.uses, loaded |-> FALSE,
                    for |-> container.for]
      /\ UNCHANGED <<host, local>>
  BY DEF DeployTypeOK, Container
<1>2. /\ container' \in Container /\ container'.state = "serving"
      /\ container'.id = container.id /\ container'.retries = container.retries
      /\ container'.refused = container.refused
      /\ container'.uses = container.uses /\ container'.for = container.for
  BY <1>1 DEF Container
<1>3. server' \in Server
  BY <1>1 DEF Server, Container
<1>4. PassedOn'
  BY <1>1, <1>2 DEF PassedOn, Passing, host
<1>5. Serving' /\ HostAsAsked' /\ LoadedAsAsked'
  BY <1>1, <1>2 DEF Serving, HostAsAsked, LoadedAsAsked
<1> QED
  BY <1>1, <1>2, <1>3, <1>4, <1>5, WriterIsAlone, MachineKeeps DEF Removable, DeployTypeOK

(* A server that crashes is restarted by Docker some times.                *)
LEMMA CrashKeeps ==
  ASSUME DeployedInv, ServerCrash
  PROVE  DeployedInv'
<1> USE DEF DeployedInv, ServerCrash
<1>1. /\ container \in Container /\ server' = NoServer /\ UNCHANGED <<host, file, local>>
  BY DEF DeployTypeOK, Container
<1>2. HostAsAsked' /\ LoadedAsAsked'
  BY <1>1, ServerTyped DEF HostAsAsked, LoadedAsAsked
<1>3. CASE server.home = "container"
  <2>1. /\ container' \in Container /\ container'.state \in {"starting", "exited"}
        /\ container'.state = "starting" => container'.retries # 0
        /\ container'.id = container.id /\ container'.refused = container.refused
    BY <1>1, <1>3, FailTyped
  <2>2. container.state = "serving"
    BY <1>3 DEF Serving
  <2>3. Serving' /\ PassedOn'
    BY <1>1, <2>1, <2>2, ServerTyped DEF Serving, PassedOn, Passing, host
  <2> QED
    BY <1>1, <1>2, <2>1, <2>2, <2>3, ServerTyped, WriterIsAlone, MachineKeeps DEF Removable, DeployTypeOK
<1>4. CASE server.home # "container"
  <2>1. container' = container
    BY <1>4
  <2>2. Serving' /\ PassedOn'
    BY <1>1, <1>4, <2>1, ServerTyped DEF Serving, PassedOn, Passing, host
  <2> QED
    BY <1>1, <1>2, <2>1, <2>2, ServerTyped, MachineKeeps DEF DeployTypeOK, Container
<1> QED
  BY <1>3, <1>4

(* `ecs server` in the foreground, which uses no file.                     *)
LEMMA ForegroundKeeps ==
  ASSUME DeployedInv,
         ServerStop \/ \E disable \in SUBSET Flags, d \in BOOLEAN : ServerStart(disable, d)
  PROVE  DeployedInv'
<1> USE DEF DeployedInv
<1>1. /\ container \in Container /\ file \in Security \union {NoFile, Torn}
      /\ UNCHANGED <<host, file, container, local>>
      /\ server.home # "container" /\ server'.home # "container"
  <2>1. container \in Container /\ file \in Security \union {NoFile, Torn}
    BY DEF DeployTypeOK, Container
  <2>2. CASE ServerStop
    BY <2>1, <2>2, ServerTyped DEF ServerStop
  <2>3. ASSUME NEW disable \in SUBSET Flags, NEW d \in BOOLEAN, ServerStart(disable, d)
        PROVE  /\ UNCHANGED <<host, file, container, local>>
               /\ server.home # "container" /\ server'.home # "container"
    BY <2>3 DEF ServerStart
  <2> QED
    BY <2>1, <2>2, <2>3
<1>2. server' \in Server /\ HostAsAsked' /\ LoadedAsAsked'
  <2>1. CASE ServerStop
    BY <2>1, ServerTyped DEF ServerStop, HostAsAsked, LoadedAsAsked
  <2>2. ASSUME NEW disable \in SUBSET Flags, NEW d \in BOOLEAN, ServerStart(disable, d)
        PROVE  server' \in Server /\ HostAsAsked' /\ LoadedAsAsked'
    <3> DEFINE r == [stored |-> store, disable |-> disable]
    <3>1. r \in Request
      BY DEF DeployTypeOK, Request
    <3>2. server' = [home |-> "host", uses |-> Enabled(r), loaded |-> d, for |-> r]
      BY <2>2 DEF ServerStart
    <3> HIDE DEF r
    <3>3. Enabled(r) \in Security /\ (r.disable = {} => Enabled(r) = store)
      BY <3>1, EnabledTyped DEF r
    <3> QED
      BY <1>1, <3>1, <3>2, <3>3 DEF Server, HostAsAsked, LoadedAsAsked, host
  <2> QED
    BY <2>1, <2>2
<1>3. Serving' /\ PassedOn'
  BY <1>1 DEF Serving, PassedOn, Passing, host
<1> QED
  BY <1>1, <1>2, <1>3, MachineKeeps

(* `ecs load` by any execution that the server accepts.                    *)
LEMMA ClientLoadKeeps ==
  ASSUME DeployedInv, ClientLoad
  PROVE  DeployedInv'
<1>1. /\ container \in Container /\ file \in Security \union {NoFile, Torn}
      /\ UNCHANGED <<host, file, container, local>>
  BY DEF DeployedInv, DeployTypeOK, Container, ClientLoad
<1> QED
  BY <1>1, LoadsKeep, MachineKeeps DEF ClientLoad, Accepts, DeployedInv

(* `setup ecs` changes the store, which is counted.                        *)
LEMMA SetupKeeps ==
  ASSUME DeployedInv, Setup
  PROVE  DeployedInv'
<1> USE DEF DeployedInv, Setup, local
<1>1. setups' \in 0..MaxSetups /\ setups' # 0
  BY EcsDeployAssumption DEF DeployTypeOK
<1>2. store' \in Security
  BY DEF DeployTypeOK, Security
<1>3. DeployTypeOK'
  BY <1>1, <1>2 DEF DeployTypeOK
<1>4. Fresh' /\ Alone' /\ OwnStopped' /\ OwnContainer' /\ Serving' /\ PassedOn' /\ HostAsAsked'
  BY DEF Fresh, Alone, OwnStopped, Mine, Removable, OwnContainer, Serving, PassedOn, Passing, HostAsAsked
<1>5. Asked' /\ LoadedAsAsked'
  BY <1>1 DEF Asked, LoadedAsAsked
<1> QED
  BY <1>3, <1>4, <1>5

-----------------------------------------------------------------------------
(* The invariant holds after each step.                                    *)
LEMMA DeployedInvNext == DeployedInv /\ [DeployNext]_deployVars => DeployedInv'
<1> SUFFICES ASSUME DeployedInv, [DeployNext]_deployVars
             PROVE  DeployedInv'
  OBVIOUS
<1>1. ASSUME NEW e \in Execution,
             \/ \E disable \in SUBSET Flags, d \in BOOLEAN : DockerStart(e, disable, d)
             \/ ContainerCreate(e) \/ OpenSecurityFile(e) \/ WriteSecurityConfig(e)
             \/ ContainerStart(e) \/ RemoveFile(e)
      PROVE  DeployedInv'
  BY <1>1, StartKeeps, CreateKeeps, FileKeeps, ContainerStartKeeps, RemoveFileKeeps
<1>2. ASSUME NEW e \in Execution,
             \/ WaitUp(e) \/ LoadProfile(e) \/ Healthcheck(e)
             \/ StopOwn(e) \/ RemoveOwn(e) \/ DockerStop(e) \/ RemoveNamed(e) \/ Killed(e)
      PROVE  DeployedInv'
  BY <1>2, ClientStepsKeep, LoadProfileKeeps, StopOwnKeeps, DockerStopKeeps, RemovesKeep
<1>3. CASE \/ ReadSecurityConfig \/ RemoveFileAndServe \/ ServerCrash
           \/ \E disable \in SUBSET Flags, d \in BOOLEAN : ServerStart(disable, d)
           \/ ServerStop \/ Setup \/ ClientLoad
  BY <1>3, ReadKeeps, ServeKeeps, CrashKeeps, ForegroundKeeps, SetupKeeps, ClientLoadKeeps
<1>4. CASE UNCHANGED deployVars
  <2> USE <1>4 DEF deployVars, host, local, DeployedInv
  <2>1. DeployTypeOK' /\ Fresh' /\ Alone' /\ Asked' /\ LoadedAsAsked'
    BY DEF DeployTypeOK, Fresh, Alone, Asked, LoadedAsAsked
  <2>2. OwnStopped' /\ OwnContainer' /\ Serving' /\ PassedOn' /\ HostAsAsked'
    BY DEF OwnStopped, Mine, Removable, OwnContainer, Serving, PassedOn, Passing, HostAsAsked
  <2> QED
    BY <2>1, <2>2
<1> QED
  BY <1>1, <1>2, <1>3, <1>4 DEF DeployNext

(* The inductive invariant.                                                *)
LEMMA AlwaysDeployed == DeploySpec => []DeployedInv
BY DeployedInvInit, DeployedInvNext, PTL DEF DeploySpec

(* A deployment holds its secrets where its server is: what a container    *)
(* has read is not left in the file, and a server that was started without *)
(* --disable flags lets in the clients that share its secure store, for    *)
(* any number of executions, tokens and restarts of the container.         *)
THEOREM DeploymentCorrect == DeploySpec => []DeployInv
<1>1. DeployedInv => DeployInv
  <2> SUFFICES ASSUME DeployedInv
               PROVE  DeployInv
    OBVIOUS
  <2> USE DEF DeployedInv
  <2>1. FileConsumed
    BY DEF FileConsumed, PassedOn
  <2>2. ClientsAccepted
    <3> SUFFICES ASSUME server.home # "none", FirstLife, ~overlapped,
                        server.for.disable = {}, server.for.stored = store
                 PROVE  Accepts(server, store)
      BY DEF ClientsAccepted
    <3>1. server \in Server
      BY DEF DeployTypeOK, Server
    <3>2. server.uses = Enabled(server.for)
      BY <3>1 DEF FirstLife, HostAsAsked, Serving, PassedOn, Passing, Server
    <3>3. server.uses = store
      BY <3>1, <3>2, EnabledTyped DEF Server
    <3> QED
      BY <3>3 DEF Accepts, Authorized
  <2> QED
    BY <2>1, <2>2 DEF DeployInv
<1> QED
  BY <1>1, AlwaysDeployed, PTL

(* The steps that set how an execution ends are its own.                   *)
LEMMA OutcomeIsOwn ==
  ASSUME DeployedInv, DeployNext, NEW e \in Execution, outcome'[e] # outcome[e]
  PROVE  \/ ContainerCreate(e) /\ outcome'[e] = "error"
         \/ ContainerStart(e) /\ ~default[e]
         \/ Healthcheck(e) \/ RemoveOwn(e)
         \/ \E disable \in SUBSET Flags, d \in BOOLEAN : DockerStart(e, disable, d)
         \/ DockerStop(e) \/ RemoveNamed(e)
         \/ Killed(e) /\ outcome'[e] = "killed"
<1>1. outcome \in [Execution -> {"none", "ok", "error", "killed"}]
  BY DEF DeployedInv, DeployTypeOK
<1>2. ASSUME NEW f \in Execution \ {e}, NEW o, outcome' = [outcome EXCEPT ![f] = o]
      PROVE  FALSE
  BY <1>1, <1>2
<1>3. outcome' # outcome
  OBVIOUS
<1>4. PICK f \in Execution :
        \/ \E disable \in SUBSET Flags, d \in BOOLEAN : DockerStart(f, disable, d)
        \/ ContainerCreate(f) \/ ContainerStart(f) \/ Healthcheck(f)
        \/ RemoveOwn(f) \/ DockerStop(f) \/ RemoveNamed(f) \/ Killed(f)
  BY <1>3 DEF DeployNext, OpenSecurityFile, WriteSecurityConfig, RemoveFile, WaitUp, LoadProfile, StopOwn,
              ReadSecurityConfig, RemoveFileAndServe, ServerCrash, ServerStart, ServerStop,
              Setup, ClientLoad, Continue, local
<1>5. f = e
  BY <1>2, <1>3, <1>4 DEF DockerStart, ContainerCreate, ContainerStart, Healthcheck, RemoveOwn,
              DockerStop, RemoveNamed, Killed, End, Continue
<1>6. ContainerCreate(e) => outcome'[e] = "error"
  BY <1>1 DEF ContainerCreate, End, Continue
<1>7. ContainerStart(e) => ~default[e]
  BY DEF ContainerStart, Continue
<1>8. Killed(e) => outcome'[e] = "killed"
  BY <1>1 DEF Killed, End
<1> QED
  BY <1>4, <1>5, <1>6, <1>7, <1>8

(* `ecs docker start` that fails leaves no container of its own behind,    *)
(* whatever other executions and its server do meanwhile, but for one that *)
(* Docker started while it reported an error, or failed to stop or remove. *)
THEOREM FailureCleansUp == DeploySpec => FailureLeavesNothing
<1>1. DeployedInv /\ [DeployNext]_deployVars =>
        [\A e \in Execution :
           phase[e] = "cleanup" /\ outcome'[e] = "error" /\ Mine(e)' =>
             container'.refused # "none"]_deployVars
  <2> SUFFICES ASSUME DeployedInv, DeployNext, NEW e \in Execution,
                      phase[e] = "cleanup", outcome'[e] = "error", Mine(e)'
               PROVE  container'.refused # "none"
    OBVIOUS
  <2> USE DEF DeployedInv
  <2>1. outcome[e] = "none" /\ outcome \in [Execution -> {"none", "ok", "error", "killed"}]
    BY DEF Fresh, DeployTypeOK
  <2>2. RemoveOwn(e)
    BY <2>1, OutcomeIsOwn DEF ContainerCreate, ContainerStart, Healthcheck, DockerStart,
                DockerStop, RemoveNamed
  <2>3. CASE Mine(e) /\ Removable
    <3>1. container' = Refuses(container) /\ container \in Container
      BY <2>2, <2>3, ContainerTyped DEF RemoveOwn, Mine, DeployTypeOK, Container
    <3> QED
      BY <3>1, RefusesTyped
  <2>4. CASE ~(Mine(e) /\ Removable)
    BY <2>2, <2>4 DEF RemoveOwn, Mine, OwnStopped
  <2> QED
    BY <2>3, <2>4
<1> QED
  BY <1>1, AlwaysDeployed, PTL DEF DeploySpec, FailureLeavesNothing

(* `ecs docker start --default` without --disable flags that succeeds      *)
(* while the secure store stays what it was leaves a server that has the   *)
(* credentials and, if its flags were none either, the token and the key   *)
(* pair that were asked for.                                               *)
THEOREM SuccessMeansServed == DeploySpec => StartedAsAsked
<1>1. DeployedInv /\ [DeployNext]_deployVars =>
        [\A e \in Execution :
           default[e] /\ outcome'[e] = "ok" /\ request[e].disable = {} /\ setups = 0 =>
             /\ server'.loaded
             /\ server'.for.disable = {} => server'.uses = Enabled(request[e])]_deployVars
  <2> SUFFICES ASSUME DeployedInv, DeployNext, NEW e \in Execution,
                      default[e], outcome'[e] = "ok", request[e].disable = {}, setups = 0
               PROVE  /\ server'.loaded
                      /\ server'.for.disable = {} => server'.uses = Enabled(request[e])
    OBVIOUS
  <2> USE DEF DeployedInv
  <2>1. /\ outcome[e] = "none" /\ outcome \in [Execution -> {"none", "ok", "error", "killed"}]
        /\ phase[e] \in Starting /\ request[e] \in Request
    BY DEF Fresh, DeployTypeOK, Starting, Writing
  <2>2. Healthcheck(e)
    <3>1. phase[e] \notin {"off", "remove"}
      BY DEF Fresh
    <3>2. ~RemoveOwn(e)
      BY <2>1 DEF RemoveOwn, End
    <3> QED
      BY <2>1, <3>1, <3>2, OutcomeIsOwn DEF DockerStart, DockerStop, RemoveNamed
  <2>3. server' = server /\ server.loaded
    BY <2>1, <2>2 DEF Healthcheck, Continue
  <2>4. Enabled(request[e]) = store
    BY <2>1, EnabledTyped DEF Asked
  <2> QED
    BY <2>3, <2>4 DEF LoadedAsAsked
<1> QED
  BY <1>1, AlwaysDeployed, PTL DEF DeploySpec, StartedAsAsked
=============================================================================
