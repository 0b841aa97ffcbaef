------------------------------ MODULE SsoLogin ------------------------------
(***************************************************************************)
(* The SSO session of one user: executions of aws-sso, one after another,  *)
(* check, refresh, obtain and invalidate the access token, which they keep *)
(* in the SecureStore beside the OIDC client registration it was obtained  *)
(* with.  An execution may be interrupted anywhere, the store may refuse a *)
(* write, AWS may refuse or lose a call, and tokens and registrations      *)
(* expire.  The user may change AuthWorkflow between executions.           *)
(***************************************************************************)
EXTENDS Naturals

CONSTANTS
  MaxTokens,    \* bound: access tokens that AWS issues
  MaxClients    \* bound: client registrations that AWS makes

ASSUME BoundsAssumption == MaxTokens \in Nat \ {0} /\ MaxClients \in Nat \ {0}

None == 0                   \* no token, no registration, nothing stored
Tokens == 1..MaxTokens
Clients == 1..MaxClients
Workflow == {"device_code", "pkce"}

(* A command that needs a session, login, login --force, logout.           *)
Command == {"use", "login", "force", "logout"}

VARIABLES
  pc,           \* where the execution is
  cmd,          \* the command it runs
  workflow,     \* getAuthWorkflow()
  token,        \* as.Token
  client,       \* as.ClientData
  store,        \* the execution's SecureStore: its token and its registration
  disk,         \* what the SecureStore has persisted
  issued,       \* number of tokens issued so far
  refresh,      \* tokens that came with a refresh token
  clientOf,     \* the registration each token was obtained with
  registered,   \* number of registrations made so far
  grants,       \* the workflow a registration was made for ("old": for neither)
  expired,      \* tokens whose ExpiresAt has passed
  lapsed,       \* registrations whose ClientSecretExpiresAt has passed
  loggedOut,    \* tokens that AWS has invalidated on our request
  spoilt        \* history: a write or a logout was lost and not yet made good

session == <<token, client>>
aws == <<issued, refresh, clientOf, registered, grants, loggedOut>>
clock == <<expired, lapsed>>
vars == <<pc, cmd, workflow, session, store, disk, aws, clock, spoilt>>

LoggingIn == {"authorize", "reregister", "code", "save"}

PC == LoggingIn \union {"none", "check", "recheck", "renewed", "endSession", "endDelete",
                        "register", "run", "logout", "logoutCall"}

Stored == [token : Tokens \union {None}, client : Clients \union {None}]

TypeOK ==
  /\ pc \in PC /\ cmd \in Command /\ workflow \in Workflow
  /\ token \in Tokens \union {None}
  /\ client \in Clients \union {None}
  /\ store \in Stored /\ disk \in Stored
  /\ issued \in 0..MaxTokens /\ registered \in 0..MaxClients
  /\ refresh \subseteq 1..issued
  /\ clientOf \in [Tokens -> Clients \union {None}]
  /\ grants \in [Clients -> Workflow \union {"old"}]
  /\ expired \subseteq 1..issued /\ lapsed \subseteq 1..registered
  /\ loggedOut \subseteq 1..issued
  /\ spoilt \in BOOLEAN

(* A new installation, or one whose last login was by a version that       *)
(* registered for other grant types and got no refresh token.              *)
Init ==
  /\ pc = "none" /\ cmd = "use" /\ workflow = "pkce"
  /\ token = None /\ client = None
  /\ \/ issued = 0 /\ registered = 0 /\ disk = [token |-> None, client |-> None]
     \/ issued = 1 /\ registered = 1 /\ disk = [token |-> 1, client |-> 1]
  /\ store = disk
  /\ refresh = {}
  /\ clientOf = [t \in Tokens |-> IF t = issued THEN 1 ELSE None]
  /\ grants = [c \in Clients |-> "old"]
  /\ expired = {} /\ lapsed = {} /\ loggedOut = {}
  /\ spoilt = FALSE

(* Save* and Delete* edit the execution's copy and persist it; callers log *)
(* a failure and go on.  A persisted token entry makes earlier losses good.*)
Persist(s) ==
  /\ store' = s
  /\ \/ disk' = s /\ spoilt' = (spoilt /\ s.token = store.token)
     \/ disk' = disk /\ spoilt' = TRUE

(* The execution ends and its memory is gone.                              *)
End ==
  /\ pc' = "none" /\ token' = None /\ client' = None /\ store' = disk
  /\ cmd' = "use" /\ workflow' = "pkce"

-----------------------------------------------------------------------------
(* ValidAuthToken.  Once it has an answer:                                 *)
(*   main's check of a command that needs a session: run, or log in by     *)
(*     itself (AutoLogin), or stop with "Must run `aws-sso login`"         *)
(*   doAuth's own check: already logged in, or log in                      *)
(*   endCurrentSession's check: end the session, or just log in            *)

Valid ==
  pc' = CASE cmd = "use"   -> "run"
          [] cmd = "login" -> "run"
          [] cmd = "force" -> "endSession"

NotValid == pc' = IF pc = "check" /\ cmd = "use" THEN "recheck" ELSE "register"

(* The next execution: any command, under the AuthWorkflow of the moment.  *)
Start(c) ==
  /\ pc = "none"
  /\ cmd' = c
  /\ workflow' \in Workflow
  /\ pc' = CASE c = "use"    -> "check"
             [] c = "login"  -> "recheck"
             [] c = "force"  -> "check"
             [] c = "logout" -> "logout"
  /\ UNCHANGED <<session, store, disk, aws, clock, spoilt>>

StaleRegistration == store.client # None /\ grants[store.client] # workflow

(* The registration lacks a grant type: it is deleted.                     *)
CheckGrants ==
  /\ pc \in {"check", "recheck"}
  /\ StaleRegistration
  /\ Persist([store EXCEPT !.client = None])
  /\ NotValid
  /\ UNCHANGED <<cmd, workflow, session, aws, clock>>

(* No token, or one that has expired and that AWS does not renew; or a     *)
(* token that, for all the clock says, is good.                            *)
CheckToken ==
  /\ pc \in {"check", "recheck"}
  /\ ~StaleRegistration
  /\ \/ store.token \in expired \union {None} /\ NotValid /\ UNCHANGED token
     \/ store.token \in Tokens \ expired /\ Valid /\ token' = store.token
  /\ UNCHANGED <<cmd, workflow, client, store, disk, aws, clock, spoilt>>

(* AWS issues a token to registration c, with or without a refresh token.  *)
Issue(c, withRefresh) ==
  /\ issued < MaxTokens
  /\ issued' = issued + 1
  /\ token' = issued + 1
  /\ clientOf' = [clientOf EXCEPT ![issued + 1] = c]
  /\ refresh' = IF withRefresh THEN refresh \union {issued + 1} ELSE refresh
  /\ UNCHANGED <<registered, grants, loggedOut>>

(* tryRefreshToken.  AWS wants the registration that the refresh token was *)
(* given to; when it returns no new refresh token the old one is kept.     *)
RefreshToken ==
  /\ pc \in {"check", "recheck"}
  /\ ~StaleRegistration
  /\ store.token \in expired \intersect refresh
  /\ store.client \in Clients \ lapsed
  /\ clientOf[store.token] = store.client
  /\ Issue(store.client, TRUE)
  /\ pc' = "renewed"
  /\ UNCHANGED <<cmd, workflow, client, store, disk, clock, spoilt>>

SaveRenewed ==
  /\ pc = "renewed"
  /\ Persist([store EXCEPT !.token = token])
  /\ Valid
  /\ UNCHANGED <<cmd, workflow, session, aws, clock>>

-----------------------------------------------------------------------------
(* endCurrentSession.                                                      *)

(* Logout; AWS may have obeyed although the call fails.                    *)
EndSession ==
  /\ pc = "endSession"
  /\ \/ /\ loggedOut' = loggedOut \union {token}
        /\ pc' = "endDelete"
        /\ UNCHANGED spoilt
     \/ /\ loggedOut' \in {loggedOut, loggedOut \union {token}}
        /\ pc' = "register"
        /\ spoilt' = TRUE
  /\ UNCHANGED <<cmd, workflow, session, store, disk, issued, refresh, clientOf,
                 registered, grants, clock>>

(* A session that is ended without deleting its token.                     *)
EndDelete ==
  /\ pc = "endDelete"
  /\ Persist([store EXCEPT !.token = None])
  /\ pc' = "register"
  /\ UNCHANGED <<cmd, workflow, session, aws, clock>>

-----------------------------------------------------------------------------
(* reauthenticate.                                                         *)

NewClient ==
  /\ registered < MaxClients
  /\ registered' = registered + 1
  /\ client' = registered + 1
  /\ grants' = [grants EXCEPT ![registered + 1] = workflow]
  /\ UNCHANGED <<issued, refresh, clientOf, loggedOut>>

UseRegistration ==
  /\ pc = "register"
  /\ store.client \in Clients \ lapsed
  /\ client' = store.client
  /\ pc' = "authorize"
  /\ UNCHANGED <<cmd, workflow, token, store, disk, aws, clock, spoilt>>

(* A forced registration that is not saved.                                *)
RegisterOnly ==
  /\ \/ pc = "register" /\ store.client \notin Clients \ lapsed
     \/ pc = "reregister"
  /\ NewClient
  /\ IF pc = "register" THEN Persist([store EXCEPT !.client = registered + 1])
                        ELSE UNCHANGED <<store, disk, spoilt>>
  /\ pc' = IF pc = "register" THEN "authorize" ELSE "code"
  /\ UNCHANGED <<cmd, workflow, token, clock>>

(* registerClient: nothing usable in the store, or forced.                 *)
Register ==
  /\ \/ pc = "register" /\ store.client \notin Clients \ lapsed
     \/ pc = "reregister"
  /\ NewClient
  /\ Persist([store EXCEPT !.client = registered + 1])
  /\ pc' = IF pc = "register" THEN "authorize" ELSE "code"
  /\ UNCHANGED <<cmd, workflow, token, clock>>

(* StartDeviceAuthorization, or the authorization URL of PKCE.             *)
Authorize ==
  /\ pc = "authorize"
  /\ pc' = "code"
  /\ UNCHANGED <<cmd, workflow, session, store, disk, aws, clock, spoilt>>

AuthorizeFails ==
  /\ pc = "authorize" /\ workflow = "device_code"
  /\ pc' = "reregister"
  /\ UNCHANGED <<cmd, workflow, session, store, disk, aws, clock, spoilt>>

(* The user agrees in the browser; AWS gives a token for the code.         *)
CreateToken ==
  /\ pc = "code"
  /\ \E withRefresh \in BOOLEAN : Issue(client, withRefresh)
  /\ pc' = "save"
  /\ UNCHANGED <<cmd, workflow, client, store, disk, clock, spoilt>>

SaveToken ==
  /\ pc = "save"
  /\ Persist([store EXCEPT !.token = token])
  /\ pc' = "run"
  /\ UNCHANGED <<cmd, workflow, session, aws, clock>>

(* AWS rejects the token of a running command: it logs in again.           *)
Unauthorized ==
  /\ pc = "run"
  /\ pc' = "register"
  /\ UNCHANGED <<cmd, workflow, session, store, disk, aws, clock, spoilt>>

-----------------------------------------------------------------------------
(* LogoutCmd, whose AWSSSO object is new and holds no token.               *)

LogoutKeepsToken ==
  /\ pc = "logout"
  /\ store.token # None
  /\ token' = store.token
  /\ pc' = "logoutCall"
  /\ UNCHANGED <<cmd, workflow, client, store, disk, aws, clock, spoilt>>

LogoutDelete ==
  /\ pc = "logout"
  /\ store.token # None
  /\ token' = store.token
  /\ Persist([store EXCEPT !.token = None])
  /\ pc' = "logoutCall"
  /\ UNCHANGED <<cmd, workflow, client, aws, clock>>

LogoutCall ==
  /\ pc = "logoutCall"
  /\ loggedOut' \in {loggedOut, loggedOut \union {token}}
  /\ End
  /\ UNCHANGED <<disk, issued, refresh, clientOf, registered, grants,
                 clock, spoilt>>

-----------------------------------------------------------------------------
(* The command returns, an error stops it (log.Fatal), the user declines   *)
(* to log in, or a signal arrives.  Ended between the logout of a session  *)
(* and the deletion of its token, or between a registration and its first  *)
(* token, it leaves the store in need of repair.                           *)
Exit ==
  /\ pc # "none"
  /\ End
  /\ spoilt' = (spoilt \/ pc \in LoggingIn \union {"endDelete"})
  /\ UNCHANGED <<disk, aws, clock>>

(* The clock passes the expiry of a token or a registration that is stored *)
(* or in use.                                                              *)
Expire ==
  /\ \/ /\ \E t \in {store.token, token} \ (expired \union {None}) :
             expired' = expired \union {t}
        /\ UNCHANGED lapsed
     \/ /\ \E c \in {store.client, client} \ (lapsed \union {None}) :
             lapsed' = lapsed \union {c}
        /\ UNCHANGED expired
  /\ UNCHANGED <<pc, cmd, workflow, session, store, disk, aws, spoilt>>

Next ==
  \/ \E c \in Command : Start(c)
  \/ CheckGrants \/ CheckToken \/ RefreshToken \/ SaveRenewed
  \/ EndSession \/ EndDelete
  \/ UseRegistration \/ Register \/ Authorize \/ AuthorizeFails
  \/ CreateToken \/ SaveToken \/ Unauthorized
  \/ LogoutDelete \/ LogoutCall
  \/ Exit \/ Expire

Spec == Init /\ [][Next]_vars

-----------------------------------------------------------------------------
(* "don't leave behind a token that looks valid locally but is dead server *)
(* side": between executions, whatever commands were run and whatever AWS  *)
(* refused, the stored token is none that was logged out, unless a write   *)
(* or a logout's reply was lost or the execution was cut short.            *)
DeadTokensForgotten ==
  pc = "none" /\ ~spoilt => disk.token \notin loggedOut

(* Silent renewal stays possible: the token and the registration stored    *)
(* beside it belong together, so that the refresh token is presented by    *)
(* the registration it was given to, whatever re-registrations, logins and *)
(* changes of AuthWorkflow there were.                                     *)
RenewalPairMatches ==
  pc = "none" /\ ~spoilt /\ disk.token # None /\ disk.client # None =>
    clientOf[disk.token] = disk.client

(* The invariant of the stored session: its values, that what is stored    *)
(* together belongs together, and that nothing dead stays stored.          *)
TokenInv == TypeOK /\ RenewalPairMatches /\ DeadTokensForgotten
=============================================================================
