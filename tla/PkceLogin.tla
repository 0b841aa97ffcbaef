------------------------------ MODULE PkceLogin ------------------------------
(***************************************************************************)
(* The browser login of one execution: reauthenticatePKCE binds a loopback *)
(* listener, opens the browser, and WaitForPKCECallback serves whatever    *)
(* requests reach the listener until one of them, or the five minutes of   *)
(* the context, ends the wait; the code it got is then exchanged.          *)
(*                                                                         *)
(* Three kinds of goroutine meet: main, the HTTP server that accepts, and  *)
(* one handler per request.  They talk through two channels of capacity    *)
(* one, into which the handlers send without ever waiting.                 *)
(***************************************************************************)
EXTENDS Naturals, FiniteSets

CONSTANTS Requests,   \* the requests that may reach the listener: the bound
          NoRequest   \* no code received yet

ASSUME NoRequestAssumption == NoRequest \notin Requests

VARIABLES
  main,       \* where reauthenticatePKCE is
  listener,   \* the loopback socket
  req,        \* how far each request has come
  kind,       \* what each request carries
  callbackCh, \* the requests whose codes are in callbackCh: one at most
  errCh,      \* is there an error in errCh?
  code,       \* the request whose code the wait returned
  expired     \* have the five minutes of pkceCtx passed?

pkceVars == <<main, listener, req, kind, callbackCh, errCh, code, expired>>

(***************************************************************************)
(* "redirect" carries the state of this login and a code, "denied" its     *)
(* state and no code, "foreign" the state and code of some other login,    *)
(* and "stray" neither: the handler is registered for "/", which also      *)
(* matches what a browser asks of its own accord, /favicon.ico say.        *)
(***************************************************************************)
Kinds == {"redirect", "denied", "foreign", "stray"}

Opened == {"opened", "waiting", "shutdown", "exchange", "token", "error"}

Ended == {"token", "error"}

(* Accepted requests whose handler has not returned.                       *)
Running == {r \in Requests : req[r] \in {"accepted", "welcomed", "rejected"}}

PkceInit ==
  /\ main = "start"
  /\ listener = "none"
  /\ req = [r \in Requests |-> "unsent"]
  /\ kind = [r \in Requests |-> "stray"]
  /\ callbackCh = {}
  /\ errCh = FALSE
  /\ code = NoRequest
  /\ expired = FALSE

-----------------------------------------------------------------------------
(* reauthenticatePKCE                                                      *)

BindLater ==
  /\ main = "start"
  /\ main' = "bound"
  /\ UNCHANGED <<listener, req, kind, callbackCh, errCh, code, expired>>

Bind ==
  /\ main = "start"
  /\ main' = "bound"
  /\ listener' = "queueing"
  /\ UNCHANGED <<req, kind, callbackCh, errCh, code, expired>>

BindFails ==
  /\ main = "start"
  /\ main' = "error"
  /\ UNCHANGED <<listener, req, kind, callbackCh, errCh, code, expired>>

OpenBrowser ==
  /\ main = "bound"
  /\ main' = "opened"
  /\ UNCHANGED <<listener, req, kind, callbackCh, errCh, code, expired>>

(* What a closed socket does to the connections nobody has accepted.       *)
Refuse ==
  req' = [r \in Requests |-> IF req[r] = "queued" THEN "refused" ELSE req[r]]

(* No endpoint, no flow, or no browser: the deferred function closes the   *)
(* listener that was not handed over yet.                                  *)
OpenFails ==
  /\ main = "bound"
  /\ main' = "error"
  /\ listener' = "closed"
  /\ Refuse
  /\ UNCHANGED <<kind, callbackCh, errCh, code, expired>>

(* WaitForPKCECallback listens itself if its caller gave it no listener.   *)
Wait ==
  /\ main = "opened"
  /\ main' = "waiting"
  /\ listener' = IF listener = "none" THEN "queueing" ELSE listener
  /\ UNCHANGED <<req, kind, callbackCh, errCh, code, expired>>

TakeCode ==
  /\ main = "waiting"
  /\ code' \in callbackCh
  /\ callbackCh' = callbackCh \ {code'}
  /\ main' = "shutdown"
  /\ UNCHANGED <<listener, req, kind, errCh, expired>>

TakeError ==
  /\ main = "waiting"
  /\ errCh
  /\ errCh' = FALSE
  /\ main' = "shutdown"
  /\ UNCHANGED <<listener, req, kind, callbackCh, code, expired>>

Expire ==
  /\ main = "waiting"
  /\ ~expired
  /\ expired' = TRUE
  /\ UNCHANGED <<main, listener, req, kind, callbackCh, errCh, code>>

TimesOutAfterError ==
  /\ main = "waiting"
  /\ expired /\ errCh
  /\ main' = "shutdown"
  /\ UNCHANGED <<listener, req, kind, callbackCh, errCh, code, expired>>

TimesOut ==
  /\ main = "waiting"
  /\ expired
  /\ main' = "shutdown"
  /\ UNCHANGED <<listener, req, kind, callbackCh, errCh, code, expired>>

(***************************************************************************)
(* Shutdown closes the listener first, then waits for the handlers, five   *)
(* seconds at most.                                                        *)
(***************************************************************************)
StopListening ==
  /\ main = "shutdown"
  /\ listener # "closed"
  /\ listener' = "closed"
  /\ Refuse
  /\ UNCHANGED <<main, kind, callbackCh, errCh, code, expired>>

(* With handlers still running this is the end of the five seconds.        *)
ShutdownEnds ==
  /\ main = "shutdown"
  /\ listener = "closed"
  /\ main' = IF code = NoRequest THEN "error" ELSE "exchange"
  /\ UNCHANGED <<listener, req, kind, callbackCh, errCh, code, expired>>

(* The service takes the code for a token, or the call fails; saveToken    *)
(* reports no error.                                                       *)
Exchange ==
  /\ main = "exchange"
  /\ main' \in Ended
  /\ UNCHANGED <<listener, req, kind, callbackCh, errCh, code, expired>>

-----------------------------------------------------------------------------
(* The browser, and whatever else connects to the port                     *)

Send(r) ==
  /\ main # "start"
  /\ req[r] = "unsent"
  /\ kind' \in {[kind EXCEPT ![r] = k] :
                  k \in IF main \in Opened THEN Kinds ELSE {"foreign", "stray"}}
  /\ req' = [req EXCEPT ![r] = IF listener \in {"queueing", "serving"}
                               THEN "queued" ELSE "refused"]
  /\ UNCHANGED <<main, listener, callbackCh, errCh, code, expired>>

-----------------------------------------------------------------------------
(* The server goroutine                                                    *)

Serve ==
  /\ main = "waiting"
  /\ listener = "queueing"
  /\ listener' = "serving"
  /\ UNCHANGED <<main, req, kind, callbackCh, errCh, code, expired>>

Accept(r) ==
  /\ listener = "serving"
  /\ req[r] = "queued"
  /\ req' = [req EXCEPT ![r] = "accepted"]
  /\ UNCHANGED <<main, listener, kind, callbackCh, errCh, code, expired>>

(* Serve returns an error of Accept: it closes the socket and reports.     *)
ServeFails ==
  /\ listener = "serving"
  /\ listener' = "broken"
  /\ Refuse
  /\ errCh' = TRUE
  /\ UNCHANGED <<main, kind, callbackCh, code, expired>>

-----------------------------------------------------------------------------
(* The handler of a request: it answers first and reports afterwards       *)

(* ValidatePKCEState, then the code: the kinds parsePKCECallback accepts.  *)
Valid(k) == k = "redirect"

Answer(r) ==
  /\ req[r] = "accepted"
  /\ req' = [req EXCEPT ![r] = IF Valid(kind[r]) THEN "welcomed" ELSE "rejected"]
  /\ UNCHANGED <<main, listener, kind, callbackCh, errCh, code, expired>>

(* select with a default: a full channel drops what is sent to it.         *)
ReportCode(r) ==
  /\ req[r] = "welcomed"
  /\ req' = [req EXCEPT ![r] = "served"]
  /\ callbackCh' = IF callbackCh = {} THEN {r} ELSE callbackCh
  /\ UNCHANGED <<main, listener, kind, errCh, code, expired>>

ReportErrorBlocks(r) ==
  /\ req[r] = "rejected" /\ ~errCh
  /\ req' = [req EXCEPT ![r] = "failed"]
  /\ errCh' = TRUE
  /\ UNCHANGED <<main, listener, kind, callbackCh, code, expired>>

ReportError(r) ==
  /\ req[r] = "rejected"
  /\ req' = [req EXCEPT ![r] = "failed"]
  /\ errCh' = TRUE
  /\ UNCHANGED <<main, listener, kind, callbackCh, code, expired>>

-----------------------------------------------------------------------------
PkceMain ==
  \/ Bind \/ BindFails \/ OpenBrowser \/ OpenFails \/ Wait
  \/ TakeCode \/ TakeError \/ TimesOut
  \/ StopListening \/ ShutdownEnds \/ Exchange

Handler(r) == Answer(r) \/ ReportCode(r) \/ ReportError(r)

(* The timer, the server goroutine, the handlers, and the browser.         *)
PkceOthers ==
  \/ Expire \/ Serve \/ ServeFails
  \/ \E r \in Requests : Send(r) \/ Accept(r) \/ Handler(r)

PkceNext == PkceMain \/ PkceOthers

PkceSpec == PkceInit /\ [][PkceNext]_pkceVars

-----------------------------------------------------------------------------
(* The values the variables take.                                          *)
PkceTypeOK ==
  /\ main \in {"start", "bound"} \cup Opened
  /\ listener \in {"none", "queueing", "serving", "broken", "closed"}
  /\ req \in [Requests -> {"unsent", "refused", "queued", "accepted",
                           "welcomed", "rejected", "served", "failed"}]
  /\ kind \in [Requests -> Kinds]
  /\ callbackCh \subseteq Requests /\ Cardinality(callbackCh) <= 1
  /\ code \in Requests \cup {NoRequest}
  /\ errCh \in BOOLEAN
  /\ expired \in BOOLEAN

(***************************************************************************)
(* The login that ends in an exchange uses a code that came with its own   *)
(* state, whatever else reached the port before, between and after.        *)
(***************************************************************************)
CodeIsOwn == code # NoRequest => kind[code] = "redirect"

(***************************************************************************)
(* From the moment the browser opens until the wait ends no connection is  *)
(* refused, be it sent before the server goroutine runs: why the listener  *)
(* is bound before the browser is opened.                                  *)
(***************************************************************************)
EarlyRedirectServed ==
  \A r \in Requests : req[r] = "refused" /\ listener # "broken"
                      => main \notin {"opened", "waiting"}

(***************************************************************************)
(* However the login ends, the port is given back: by the deferred Close   *)
(* before the listener is handed over, by WaitForPKCECallback afterwards.  *)
(***************************************************************************)
PortGivenBack == main \in Ended => listener \in {"none", "closed"}

(* The invariant of the listener: the values of all variables, which code  *)
(* it may pass on, and when it is there for the browser.                   *)
ListenerInv == PkceTypeOK /\ CodeIsOwn /\ EarlyRedirectServed /\ PortGivenBack
=============================================================================
