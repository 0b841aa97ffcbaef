----------------------------- MODULE EcsServer -----------------------------
(***************************************************************************)
(* The ECS server: role credentials loaded by `aws-sso ecs load` and       *)
(* served to AWS SDKs, kept in memory in a default slot and in named       *)
(* slots.  net/http runs each request in a goroutine of its own and        *)
(* nothing guards DefaultCreds or slottedCreds, so the handlers interleave *)
(* between their reads and writes.  A handler that panics aborts its       *)
(* connection; the Go runtime ends the process when it sees a map being    *)
(* used during a write.                                                    *)
(***************************************************************************)
EXTENDS Naturals, FiniteSets

CONSTANTS
  Handler,     \* goroutines that serve requests
  Profile,     \* profile names
  Default,     \* the route "/": the default slot
  NoProfile,   \* the empty ProfileName; the route "/slot"
  NilCreds,    \* a nil *RoleCredentials
  MaxLoads,    \* bound: uploads of credentials
  MaxTime      \* bound: the clock

ASSUME ServerAssumption ==
  /\ IsFiniteSet(Handler) /\ Handler # {}
  /\ Default # NoProfile /\ {Default, NoProfile} \intersect Profile = {}
  /\ MaxLoads \in Nat /\ MaxTime \in Nat

(* What an upload carries.  exp is the time from which Expired() is true,  *)
(* one minute before the credentials are of no more use.                   *)
Creds == [id : 1..MaxLoads, exp : 0..(MaxTime + 1)]
ZeroCreds == [id |-> 0, exp |-> 0]

(* An ECSClientRequest.  The server starts with empty credentials in the   *)
(* default slot; DELETE leaves a request without any.                      *)
ClientRequest == [name : Profile, creds : Creds]
Initial == [name |-> NoProfile, creds |-> ZeroCreds]
Unloaded == [name |-> NoProfile, creds |-> NilCreds]

(* What a client asks for: the route, and for a PUT the body, whose        *)
(* ProfileName need not be the name in the route.                          *)
Slot == Profile \union {Default, NoProfile}
Query == [op : {"get", "delete"}, slot : Slot]
           \union [op : {"health"}, slot : Slot \ {NoProfile}]
           \union [op : {"profile"}, slot : {Default}]
Put == [op : {"put"}, slot : Slot, load : ClientRequest]

(* An upload and the slot it is meant for.                                 *)
Load == [id : 1..MaxLoads, slot : Profile \union {Default}]

None == [code |-> "none"]
Answer == [code : {"none", "ok", "not found", "unavailable", "error", "aborted"}]
            \union [code : {"creds"}, slot : Profile \union {Default}, load : ClientRequest]
            \union [code : {"list"}, loads : SUBSET ClientRequest]

VARIABLES
  now,           \* the clock
  up,            \* is the process running?
  DefaultCreds,  \* the default slot
  slottedCreds,  \* the named slots: a function on the names in use
  writing,       \* handlers in the middle of a write to slottedCreds
  pc,            \* where each handler is
  req,           \* the request it serves
  answer,        \* what it answered last
  loads,         \* uploads sent so far
  acked,         \* history: uploads answered with OK
  gone,          \* history: uploads since replaced or removed
  before         \* history: acked and gone when each request came in

slots == <<DefaultCreds, slottedCreds, writing>>
history == <<acked, gone>>
vars == <<now, up, slots, pc, req, answer, loads, history, before>>

TypeOK ==
  /\ now \in 0..MaxTime
  /\ up \in BOOLEAN
  /\ DefaultCreds \in ClientRequest \union {Initial, Unloaded}
  /\ DOMAIN slottedCreds \subseteq Profile
  /\ \A p \in DOMAIN slottedCreds : slottedCreds[p] \in ClientRequest
  /\ writing \subseteq Handler
  /\ pc \in [Handler -> {"idle", "start", "second", "third", "write", "writing"}]
  /\ req \in [Handler -> Query \union Put]
  /\ \A h \in Handler : answer[h] \in Answer
  /\ loads \in 0..MaxLoads
  /\ acked \subseteq Load
  /\ gone \subseteq acked
  /\ \A h \in Handler : before[h].acked \subseteq acked /\ before[h].gone \subseteq gone

Home == [op |-> "get", slot |-> Default]
NoHistory == [acked |-> {}, gone |-> {}]

StartServer ==
  /\ up' = TRUE
  /\ DefaultCreds' = Initial
  /\ slottedCreds' = [p \in {} |-> Initial]
  /\ writing' = {}
  /\ pc' = [h \in Handler |-> "idle"]
  /\ req' = [h \in Handler |-> Home]
  /\ answer' = [h \in Handler |-> None]
  /\ before' = [h \in Handler |-> NoHistory]

Init ==
  /\ now = 0
  /\ up = TRUE
  /\ DefaultCreds = Initial
  /\ slottedCreds = [p \in {} |-> Initial]
  /\ writing = {}
  /\ pc = [h \in Handler |-> "idle"]
  /\ req = [h \in Handler |-> Home]
  /\ answer = [h \in Handler |-> None]
  /\ loads = 0
  /\ acked = {}
  /\ gone = {}
  /\ before = [h \in Handler |-> NoHistory]

Expired(c) == c.exp <= now

-----------------------------------------------------------------------------
(* Requests come in and are answered.                                      *)

Receive(h, r) ==
  /\ up /\ pc[h] = "idle"
  /\ pc' = [pc EXCEPT ![h] = "start"]
  /\ req' = [req EXCEPT ![h] = r]
  /\ answer' = [answer EXCEPT ![h] = None]
  /\ before' = [before EXCEPT ![h] = [acked |-> acked, gone |-> gone]]
  /\ UNCHANGED <<now, up, slots, history>>

ReceiveQuery(h) == (\E r \in Query : Receive(h, r)) /\ UNCHANGED loads

ReceivePut(h) ==
  /\ loads < MaxLoads
  /\ loads' = loads + 1
  /\ \E s \in Slot, p \in Profile, e \in 0..(MaxTime + 1) :
       Receive(h, [op |-> "put", slot |-> s,
                   load |-> [name |-> p, creds |-> [id |-> loads', exp |-> e]]])

At(h, l, op) == up /\ pc[h] = l /\ req[h].op = op

Goto(h, l) == pc' = [pc EXCEPT ![h] = l] /\ UNCHANGED <<req, answer, history, before>>

Reply(h, a) ==
  /\ pc' = [pc EXCEPT ![h] = "idle"]
  /\ answer' = [answer EXCEPT ![h] = a]
  /\ UNCHANGED <<req, before>>

Refuse(h, code) == Reply(h, [code |-> code]) /\ UNCHANGED history

Give(h, s, r) == Reply(h, [code |-> "creds", slot |-> s, load |-> r]) /\ UNCHANGED history

(* OK to a PUT or DELETE for slot s: what had been acknowledged for that   *)
(* slot before the request came in is gone.                                *)
Replaced(h, s) == {l \in before[h].acked : l.slot = s}

Acknowledge(h, s, new) ==
  /\ Reply(h, [code |-> "ok"])
  /\ acked' = acked \union new
  /\ gone' = gone \union (Replaced(h, s) \ new)

(* WriteCreds, and the healthcheck's answer; dereferencing nil panics.     *)
WriteCreds(h, s, r, refusal) ==
  \/ r.creds = NilCreds /\ Refuse(h, "aborted")
  \/ r.creds # NilCreds /\ Expired(r.creds) /\ Refuse(h, refusal)
  \/ r.creds # NilCreds /\ ~Expired(r.creds) /\ Give(h, s, r)

rest == <<now, up, loads>>

-----------------------------------------------------------------------------
(* DefaultHandler, ProfileHandler and the healthcheck of the default slot. *)

GetDefault(h) ==
  /\ At(h, "start", "get") /\ req[h].slot = Default
  /\ WriteCreds(h, Default, DefaultCreds, "not found")
  /\ UNCHANGED <<rest, slots>>

HealthDefault(h) ==
  /\ At(h, "start", "health") /\ req[h].slot = Default
  /\ IF DefaultCreds.name = NoProfile
     THEN Refuse(h, "unavailable")
     ELSE WriteCreds(h, Default, DefaultCreds, "unavailable")
  /\ UNCHANGED <<rest, slots>>

(* ReadClientRequest and the check of Expired come before the slot is      *)
(* touched; Validate refuses credentials without an expiration.            *)
CheckPut(h) ==
  /\ At(h, "start", "put")
  /\ LET c == req[h].load.creds IN
     CASE c.exp = 0 -> Refuse(h, "error")
       [] c.exp > 0 /\ Expired(c) ->
            Refuse(h, IF req[h].slot = Default THEN "not found" ELSE "error")
       [] OTHER -> Goto(h, "write")
  /\ UNCHANGED <<rest, slots>>

PutDefault(h) ==
  /\ At(h, "write", "put") /\ req[h].slot = Default
  /\ DefaultCreds' = req[h].load
  /\ Acknowledge(h, Default, {[id |-> req[h].load.creds.id, slot |-> Default]})
  /\ UNCHANGED <<rest, slottedCreds, writing>>

CheckDelete(h) ==
  /\ At(h, "start", "delete") /\ req[h].slot = Default
  /\ IF DefaultCreds.name = NoProfile THEN Refuse(h, "not found") ELSE Goto(h, "write")
  /\ UNCHANGED <<rest, slots>>

(* A DELETE that only marks the slot as empty.                             *)
DeleteDefaultName(h) ==
  /\ At(h, "write", "delete") /\ req[h].slot = Default
  /\ Acknowledge(h, Default, {})
  /\ UNCHANGED <<rest, slots>>

DeleteDefault(h) ==
  /\ At(h, "write", "delete") /\ req[h].slot = Default
  /\ DefaultCreds' = Unloaded
  /\ Acknowledge(h, Default, {})
  /\ UNCHANGED <<rest, slottedCreds, writing>>

(* ProfileHandler.Get reads DefaultCreds three times.                      *)
ProfileLoaded(h) ==
  /\ At(h, "start", "profile")
  /\ IF DefaultCreds.name = NoProfile THEN Refuse(h, "not found") ELSE Goto(h, "second")
  /\ UNCHANGED <<rest, slots>>

ProfileExpired(h) ==
  /\ At(h, "second", "profile")
  /\ CASE DefaultCreds.creds = NilCreds -> Refuse(h, "aborted")
       [] DefaultCreds.creds # NilCreds /\ Expired(DefaultCreds.creds) -> Refuse(h, "not found")
       [] OTHER -> Goto(h, "third")
  /\ UNCHANGED <<rest, slots>>

(* A report that trusts the checks of the first two reads.                 *)
ProfileReportUnchecked(h) ==
  /\ At(h, "third", "profile")
  /\ Give(h, Default, DefaultCreds)
  /\ UNCHANGED <<rest, slots>>

ProfileReport(h) ==
  /\ At(h, "third", "profile")
  /\ IF DefaultCreds.creds = NilCreds
     THEN Refuse(h, "aborted")
     ELSE Give(h, Default, DefaultCreds)
  /\ UNCHANGED <<rest, slots>>

-----------------------------------------------------------------------------
(* SlottedHandler and the healthcheck of a named slot.                     *)

Used(s) == s \in DOMAIN slottedCreds

GetSlot(h) ==
  /\ At(h, "start", "get") /\ req[h].slot \in Profile
  /\ IF Used(req[h].slot)
     THEN WriteCreds(h, req[h].slot, slottedCreds[req[h].slot], "not found")
     ELSE Refuse(h, "not found")
  /\ UNCHANGED <<rest, slots>>

HealthSlot(h) ==
  /\ At(h, "start", "health") /\ req[h].slot \in Profile
  /\ IF Used(req[h].slot)
     THEN WriteCreds(h, req[h].slot, slottedCreds[req[h].slot], "unavailable")
     ELSE Refuse(h, "unavailable")
  /\ UNCHANGED <<rest, slots>>

ListSlots(h) ==
  /\ At(h, "start", "get") /\ req[h].slot = NoProfile
  /\ Reply(h, [code |-> "list", loads |->
                 {r \in {slottedCreds[p] : p \in DOMAIN slottedCreds} : ~Expired(r.creds)}])
  /\ UNCHANGED <<rest, slots, history>>

(* DELETE /slot names no slot, so it never finds one.                      *)
FindSlot(h) ==
  /\ At(h, "start", "delete") /\ req[h].slot # Default
  /\ IF Used(req[h].slot) THEN Goto(h, "write") ELSE Refuse(h, "not found")
  /\ UNCHANGED <<rest, slots>>

(* A write to the map takes time, during which others may run.             *)
BeginWrite(h) ==
  /\ up /\ pc[h] = "write" /\ req[h].slot # Default
  /\ writing' = writing \union {h}
  /\ Goto(h, "writing")
  /\ UNCHANGED <<rest, DefaultCreds, slottedCreds>>

WithSlot(p, r) == [q \in DOMAIN slottedCreds \union {p} |-> IF q = p THEN r ELSE slottedCreds[q]]
WithoutSlot(p) == [q \in DOMAIN slottedCreds \ {p} |-> slottedCreds[q]]

(* Uploads filed under the name in the URL.                                *)
PutSlotByUrl(h) ==
  LET r == req[h].load IN
  /\ At(h, "writing", "put")
  /\ slottedCreds' = WithSlot(IF req[h].slot = NoProfile THEN r.name ELSE req[h].slot, r)
  /\ writing' = writing \ {h}
  /\ Acknowledge(h, r.name, {[id |-> r.creds.id, slot |-> r.name]})
  /\ UNCHANGED <<rest, DefaultCreds>>

(* The slot is the one the body names, whatever the URL.                   *)
PutSlot(h) ==
  LET r == req[h].load IN
  /\ At(h, "writing", "put")
  /\ slottedCreds' = WithSlot(r.name, r)
  /\ writing' = writing \ {h}
  /\ Acknowledge(h, r.name, {[id |-> r.creds.id, slot |-> r.name]})
  /\ UNCHANGED <<rest, DefaultCreds>>

DeleteSlot(h) ==
  /\ At(h, "writing", "delete")
  /\ slottedCreds' = WithoutSlot(req[h].slot)
  /\ writing' = writing \ {h}
  /\ Acknowledge(h, req[h].slot, {})
  /\ UNCHANGED <<rest, DefaultCreds>>

-----------------------------------------------------------------------------
(* The process.                                                            *)

UsesMap(h) ==
  /\ req[h].slot # Default
  /\ pc[h] = "write" \/ (pc[h] = "start" /\ req[h].op # "put")

(* fatal error: concurrent map read and map write, iteration and map       *)
(* write, or map writes.  The runtime may notice or not; when it does not, *)
(* the accesses take effect one after the other.                           *)
FatalError(h) ==
  /\ up /\ UsesMap(h) /\ writing \ {h} # {}
  /\ up' = FALSE
  /\ UNCHANGED <<now, slots, pc, req, answer, loads, history, before>>

(* The user starts the server again: nothing it held has survived.         *)
Restart ==
  /\ ~up
  /\ StartServer
  /\ gone' = acked
  /\ UNCHANGED <<now, loads, acked>>

Tick ==
  /\ now < MaxTime
  /\ now' = now + 1
  /\ UNCHANGED <<up, slots, pc, req, answer, loads, history, before>>

DefaultStep(h) ==
  \/ GetDefault(h) \/ HealthDefault(h) \/ PutDefault(h) \/ CheckDelete(h) \/ DeleteDefault(h)
  \/ ProfileLoaded(h) \/ ProfileExpired(h) \/ ProfileReport(h)

SlottedStep(h) ==
  \/ GetSlot(h) \/ HealthSlot(h) \/ ListSlots(h) \/ FindSlot(h) \/ BeginWrite(h)
  \/ PutSlot(h) \/ DeleteSlot(h)

Next ==
  \/ \E h \in Handler : ReceiveQuery(h) \/ ReceivePut(h) \/ CheckPut(h) \/ FatalError(h)
  \/ \E h \in Handler : DefaultStep(h) \/ SlottedStep(h)
  \/ Restart \/ Tick

Spec == Init /\ [][Next]_vars

-----------------------------------------------------------------------------
Given(h) == answer[h].code = "creds"
Loaded(l) == [id |-> l.load.creds.id, slot |-> l.slot]

(* Once an upload has been acknowledged as replaced or removed, no request *)
(* that comes in later is given it, whatever the handlers in between do to *)
(* the slots they read and check before they write.                        *)
NothingServedAgain ==
  \A h \in Handler : Given(h) => Loaded(answer[h]) \notin before[h].gone

(* A named slot only ever gives out credentials that were uploaded under   *)
(* the name of that slot, and lists no profile twice.                      *)
SlotHoldsItsProfile ==
  \A h \in Handler :
    /\ Given(h) /\ answer[h].slot # Default => answer[h].load.name = answer[h].slot
    /\ answer[h].code = "list" =>
         \A q, r \in answer[h].loads : q.name = r.name => q = r

(* A request for the default slot, /profile or the healthcheck reports one *)
(* upload as a whole: never a profile without its credentials, although a  *)
(* DELETE may come between two reads of DefaultCreds.                      *)
ReportsAreWhole ==
  \A h \in Handler : Given(h) => answer[h].load \in ClientRequest

(* The invariant of the slots: the values of all variables, and that no    *)
(* slot gives out what was uploaded for another.                           *)
SlotsInv == TypeOK /\ SlotHoldsItsProfile
=============================================================================
