--------------------------- MODULE SsoLoginProofs ---------------------------
(***************************************************************************)
(* For any number of tokens and registrations: what is stored together     *)
(* belongs together, and nothing dead stays stored, unless a write or a    *)
(* logout was lost or an execution was cut short.                          *)
(*                                                                         *)
(* The properties speak of the time between executions.  What makes them   *)
(* true is what an execution knows while it runs: the registration in use  *)
(* is the stored one from registration to login, a token about to be saved *)
(* was obtained with it and is not dead, and memory and disk agree.        *)
(***************************************************************************)
EXTENDS SsoLogin, TLAPS

-----------------------------------------------------------------------------
(* The inductive invariant.                                                *)

(* Numbers are given out in order.                                         *)
InOrder ==
  /\ token <= issued /\ store.token <= issued /\ disk.token <= issued
  /\ client <= registered /\ store.client <= registered /\ disk.client <= registered

(* What the place of an execution tells.                                   *)
Placed ==
  /\ pc \in {"check", "recheck", "renewed"} => cmd # "logout"
  /\ pc \in {"renewed", "endSession", "endDelete", "save", "logoutCall"} => token # None
  /\ pc \in LoggingIn => client # None /\ store.client = client
  /\ pc \in {"renewed", "save"} =>
       clientOf[token] = store.client /\ token \notin loggedOut
  /\ pc = "logoutCall" => store.token = None

(* The execution's copy is the stored one, but for a lost write.           *)
InSync == ~spoilt \/ pc = "none" => store = disk

(* The pair in the store matches, but between a registration and the login *)
(* with it.                                                                *)
PairHeld ==
  ~spoilt /\ pc \notin LoggingIn /\ store.token # None /\ store.client # None =>
    clientOf[store.token] = store.client

(* The stored token lives, but between the logout and its deletion.        *)
LiveHeld == ~spoilt /\ pc # "endDelete" => store.token \notin loggedOut

SessionInv == TypeOK /\ InOrder /\ Placed /\ InSync /\ PairHeld /\ LiveHeld

-----------------------------------------------------------------------------
(* It says of the time between executions what the properties say.         *)
LEMMA SessionInvImplies == SessionInv => TokenInv
BY DEF SessionInv, InSync, PairHeld, LiveHeld, TokenInv, RenewalPairMatches, DeadTokensForgotten,
       LoggingIn

(* The store may hold a session that belongs together.                     *)
LEMMA SessionInvInit == Init => SessionInv
<1> SUFFICES ASSUME Init
             PROVE  SessionInv
  OBVIOUS
<1> USE BoundsAssumption DEF Init, None, Tokens, Clients, Stored
<1>1. disk \in Stored /\ issued \in 0..MaxTokens /\ registered \in 0..MaxClients
  OBVIOUS
<1>2. TypeOK
  <2>1. issued <= 1 /\ registered = issued /\ issued \in {None} \union Tokens
    OBVIOUS
  <2>2. /\ clientOf \in [Tokens -> Clients \union {None}]
        /\ grants \in [Clients -> Workflow \union {"old"}]
    OBVIOUS
  <2> QED
    BY <1>1, <2>1, <2>2 DEF TypeOK, Workflow, Command, PC, LoggingIn
<1>3. InOrder /\ InSync
  BY DEF InOrder, InSync
<1>4. Placed /\ PairHeld /\ LiveHeld
  BY DEF Placed, PairHeld, LiveHeld, LoggingIn
<1> QED
  BY <1>2, <1>3, <1>4 DEF SessionInv

-----------------------------------------------------------------------------
(* What a save leaves: the execution's copy is the one given, and the disk *)
(* holds it too unless a loss is on record.  A record of a loss goes away  *)
(* only with another token.                                                *)
LEMMA Persisted ==
  ASSUME TypeOK, NEW s \in Stored, Persist(s)
  PROVE  /\ store' = s
         /\ disk' \in {disk, s}
         /\ disk' \in Stored
         /\ spoilt' \in BOOLEAN
         /\ ~spoilt' => disk' = s
         /\ ~spoilt' => ~spoilt \/ s.token # store.token
<1>1. CASE disk' = s /\ spoilt' = (spoilt /\ s.token = store.token)
  <2>1. spoilt' \in BOOLEAN /\ (~spoilt' => ~spoilt \/ s.token # store.token)
    BY <1>1 DEF TypeOK
  <2> QED
    BY <1>1, <2>1 DEF Persist
<1>2. CASE disk' = disk /\ spoilt' = TRUE
  BY <1>2 DEF Persist, TypeOK
<1> QED
  BY <1>1, <1>2 DEF Persist

(* Edits of one half of the pair.                                          *)
LEMMA TokenEdited ==
  ASSUME store \in Stored, NEW t \in Tokens \union {None}
  PROVE  /\ [store EXCEPT !.token = t] \in Stored
         /\ [store EXCEPT !.token = t].token = t
         /\ [store EXCEPT !.token = t].client = store.client
BY DEF Stored

(* Setting the registration in the store leaves the token.                 *)
LEMMA ClientEdited ==
  ASSUME store \in Stored, NEW c \in Clients \union {None}
  PROVE  /\ [store EXCEPT !.client = c] \in Stored
         /\ [store EXCEPT !.client = c].client = c
         /\ [store EXCEPT !.client = c].token = store.token
BY DEF Stored

-----------------------------------------------------------------------------
(* Three kinds of steps.                                                   *)

(* The execution goes on; what is stored and what AWS knows stay.          *)
LEMMA MoveKeeps ==
  ASSUME SessionInv, UNCHANGED <<store, disk, aws, clock, spoilt>>,
         cmd' \in Command, workflow' \in Workflow,
         token' \in {token, store.token}, client' \in {client, store.client},
         pc' \in PC \ {"none"}, pc # "endDelete", pc \in LoggingIn => pc' \in LoggingIn,
         Placed'
  PROVE  SessionInv'
<1> USE BoundsAssumption DEF SessionInv, aws, clock
<1>1. TypeOK'
  BY DEF TypeOK, Stored
<1>2. InOrder'
  BY DEF InOrder
<1>3. InSync' /\ PairHeld' /\ LiveHeld'
  BY DEF InSync, PairHeld, LiveHeld
<1> QED
  BY <1>1, <1>2, <1>3

(* AWS gives a token to the registration in the store.                     *)
LEMMA IssueKeeps ==
  ASSUME SessionInv, NEW b \in BOOLEAN, Issue(store.client, b), store.client # None,
         UNCHANGED <<cmd, workflow, client, store, disk, clock, spoilt>>,
         \/ pc' = "renewed" /\ pc \in {"check", "recheck"}
         \/ pc' = "save" /\ pc = "code"
  PROVE  SessionInv'
<1> USE BoundsAssumption DEF None, Tokens, Clients
<1>1. /\ issued \in Nat /\ issued' = issued + 1 /\ issued' \in 1..MaxTokens /\ token' = issued'
      /\ store.client \in Clients
      /\ clientOf' \in [Tokens -> Clients \union {None}]
      /\ clientOf'[token'] = store.client
      /\ \A t \in Tokens : t <= issued => clientOf'[t] = clientOf[t]
      /\ refresh' \subseteq 1..issued'
      /\ UNCHANGED <<registered, grants, loggedOut>>
  BY DEF SessionInv, TypeOK, Issue, Stored
<1>2. loggedOut' \subseteq 1..issued /\ expired' \subseteq 1..issued
  BY <1>1 DEF SessionInv, TypeOK, clock
<1>3. TypeOK'
  BY <1>1, <1>2 DEF SessionInv, TypeOK, clock, PC, LoggingIn
<1>4. InOrder'
  BY <1>1 DEF SessionInv, TypeOK, InOrder, Stored
<1>5. Placed'
  BY <1>1, <1>2 DEF SessionInv, Placed, LoggingIn
<1>6. InSync' /\ LiveHeld'
  BY <1>1 DEF SessionInv, InSync, LiveHeld
<1>7. PairHeld'
  BY <1>1 DEF SessionInv, TypeOK, InOrder, PairHeld, LoggingIn, Stored
<1> QED
  BY <1>3, <1>4, <1>5, <1>6, <1>7 DEF SessionInv

(* The execution saves s: the pair without its registration, or without    *)
(* its token, or the new token of the registration in the store.           *)
LEMMA SaveKeeps ==
  ASSUME SessionInv, NEW s \in Stored, Persist(s),
         UNCHANGED <<cmd, workflow, client, aws, clock>>, token' \in {token, store.token},
         pc' \in PC \ {"none", "endDelete"},
         \/ s.token = store.token /\ s.client = None /\ pc # "endDelete" /\ pc \notin LoggingIn
         \/ s.token = None /\ s.client = store.client
         \/ /\ s.token = token /\ s.client = store.client
            /\ clientOf[token] = store.client /\ token \notin loggedOut,
         Placed'
  PROVE  SessionInv'
<1> USE DEF SessionInv, aws, clock
<1>1. /\ store' = s /\ disk' \in {disk, s} /\ disk' \in Stored /\ spoilt' \in BOOLEAN
      /\ ~spoilt' => disk' = s /\ (~spoilt \/ s.token # store.token)
  BY Persisted
<1>2. TypeOK'
  BY <1>1 DEF TypeOK, Stored
<1>3. InOrder'
  BY <1>1, BoundsAssumption DEF TypeOK, InOrder, None, Stored
<1>4. InSync'
  BY <1>1 DEF InSync
<1>5. PairHeld'
  BY <1>1 DEF PairHeld
<1>6. LiveHeld'
  <2>1. None \notin loggedOut
    BY BoundsAssumption DEF TypeOK, None
  <2> QED
    BY <1>1, <2>1 DEF LiveHeld
<1> QED
  BY <1>2, <1>3, <1>4, <1>5, <1>6

-----------------------------------------------------------------------------
(* The steps that only go on to another call.                              *)
LEMMA MovesKeep ==
  ASSUME SessionInv,
         \/ \E c \in Command : Start(c)
         \/ CheckToken \/ UseRegistration \/ Authorize \/ AuthorizeFails \/ Unauthorized
  PROVE  SessionInv'
<1> USE DEF session, Workflow, Command, PC, LoggingIn
<1>1. ASSUME NEW c \in Command, Start(c)
      PROVE  SessionInv'
  BY <1>1, MoveKeeps DEF Start, SessionInv, TypeOK, Placed
<1>2. CASE CheckToken
  BY <1>2, MoveKeeps DEF CheckToken, Valid, NotValid, SessionInv, TypeOK, Placed, None, Tokens
<1>3. CASE UseRegistration
  BY <1>3, MoveKeeps, BoundsAssumption
     DEF UseRegistration, SessionInv, TypeOK, Placed, None, Clients, aws
<1>4. CASE Authorize \/ AuthorizeFails \/ Unauthorized
  BY <1>4, MoveKeeps DEF Authorize, AuthorizeFails, Unauthorized, SessionInv, TypeOK, Placed
<1> QED
  BY <1>1, <1>2, <1>3, <1>4

(* AWS gives out a token, renewed or new.                                  *)
LEMMA IssuesKeep ==
  ASSUME SessionInv, RefreshToken \/ CreateToken
  PROVE  SessionInv'
<1>1. CASE RefreshToken
  <2>1. store.client # None
    BY <1>1, BoundsAssumption DEF RefreshToken, None, Clients
  <2>2. Issue(store.client, TRUE)
    BY <1>1 DEF RefreshToken
  <2> QED
    BY <1>1, <2>1, <2>2, IssueKeeps DEF RefreshToken
<1>2. CASE CreateToken
  <2>1. store.client = client /\ client # None
    BY <1>2 DEF CreateToken, SessionInv, Placed, LoggingIn
  <2> QED
    BY <1>2, <2>1, IssueKeeps DEF CreateToken
<1> QED
  BY <1>1, <1>2

(* The steps that write the store.                                         *)
LEMMA SavesKeep ==
  ASSUME SessionInv, CheckGrants \/ SaveRenewed \/ EndDelete \/ SaveToken \/ LogoutDelete
  PROVE  SessionInv'
<1> USE DEF session, PC, LoggingIn
<1>1. store \in Stored /\ token \in Tokens \union {None} /\ cmd \in Command
  BY DEF SessionInv, TypeOK
<1>2. CASE CheckGrants
  <2>1. Placed'
    BY <1>2, <1>1 DEF CheckGrants, NotValid, SessionInv, Placed
  <2> QED
    BY <1>2, <1>1, <2>1, ClientEdited, SaveKeeps DEF CheckGrants, NotValid
<1>3. CASE SaveRenewed
  <2>1. /\ clientOf[token] = store.client /\ token \notin loggedOut /\ token # None
        /\ cmd # "logout"
    BY <1>3 DEF SaveRenewed, SessionInv, Placed
  <2>2. pc' \in {"run", "endSession"}
    BY <1>3, <1>1, <2>1 DEF SaveRenewed, Valid, Command
  <2>3. Placed'
    BY <1>3, <2>1, <2>2 DEF SaveRenewed, Placed
  <2> QED
    BY <1>3, <1>1, <2>1, <2>2, <2>3, TokenEdited, SaveKeeps DEF SaveRenewed
<1>4. CASE EndDelete
  <2>1. Placed'
    BY <1>4 DEF EndDelete, Placed
  <2> QED
    BY <1>4, <1>1, <2>1, TokenEdited, SaveKeeps DEF EndDelete
<1>5. CASE SaveToken
  <2>1. /\ clientOf[token] = store.client /\ token \notin loggedOut
    BY <1>5 DEF SaveToken, SessionInv, Placed
  <2>2. Placed'
    BY <1>5 DEF SaveToken, Placed
  <2> QED
    BY <1>5, <1>1, <2>1, <2>2, TokenEdited, SaveKeeps DEF SaveToken
<1>6. CASE LogoutDelete
  <2>1. store'.token = None
    BY <1>6, <1>1, TokenEdited DEF LogoutDelete, Persist
  <2>2. Placed'
    BY <1>6, <2>1 DEF LogoutDelete, Placed
  <2> QED
    BY <1>6, <1>1, <2>2, TokenEdited, SaveKeeps DEF LogoutDelete
<1> QED
  BY <1>2, <1>3, <1>4, <1>5, <1>6

(* A new registration, which is saved.                                     *)
LEMMA RegisterKeeps ==
  ASSUME SessionInv, Register
  PROVE  SessionInv'
<1> USE BoundsAssumption DEF SessionInv, None, Clients
<1>1. /\ registered' = registered + 1 /\ registered' \in Clients
      /\ client' = registered'
      /\ grants' = [grants EXCEPT ![registered'] = workflow]
      /\ UNCHANGED <<cmd, workflow, token, issued, refresh, clientOf, loggedOut, clock>>
      /\ pc \in {"register", "reregister"} /\ pc' \in {"authorize", "code"}
  BY DEF Register, NewClient, TypeOK
<1>2. /\ disk' \in {disk, store'} /\ disk' \in Stored /\ spoilt' \in BOOLEAN
      /\ store' \in Stored /\ store'.client = client' /\ store'.token = store.token
      /\ ~spoilt' => disk' = store' /\ ~spoilt
  <2>1. [store EXCEPT !.client = registered + 1] \in Stored
        /\ [store EXCEPT !.client = registered + 1].client = registered + 1
        /\ [store EXCEPT !.client = registered + 1].token = store.token
    BY <1>1, ClientEdited DEF TypeOK
  <2> QED
    BY <1>1, <2>1, Persisted DEF Register
<1>3. TypeOK' /\ InOrder'
  BY <1>1, <1>2 DEF TypeOK, InOrder, PC, LoggingIn, Stored, clock
<1>4. Placed' /\ InSync'
  BY <1>1, <1>2 DEF TypeOK, Placed, InSync, LoggingIn
<1>5. PairHeld' /\ LiveHeld'
  BY <1>1, <1>2 DEF PairHeld, LiveHeld, LoggingIn
<1> QED
  BY <1>3, <1>4, <1>5

(* A logout that succeeds is followed by the deletion, one that fails is   *)
(* on record.                                                              *)
LEMMA EndSessionKeeps ==
  ASSUME SessionInv, EndSession
  PROVE  SessionInv'
<1> USE BoundsAssumption DEF SessionInv, EndSession, session, clock, None
<1>1. TypeOK'
  <2>1. token \in 1..issued
    BY DEF TypeOK, InOrder, Placed, Tokens
  <2>2. loggedOut' \subseteq loggedOut \union {token} /\ spoilt' \in BOOLEAN
    BY DEF TypeOK
  <2> QED
    BY <2>1, <2>2 DEF TypeOK, PC, LoggingIn
<1>2. InOrder' /\ InSync'
  BY DEF TypeOK, InOrder, InSync
<1>3. Placed'
  BY DEF TypeOK, InOrder, Placed, LoggingIn
<1>4. PairHeld' /\ LiveHeld'
  BY DEF TypeOK, InOrder, InSync, Placed, PairHeld, LiveHeld, LoggingIn
<1> QED
  BY <1>1, <1>2, <1>3, <1>4

(* What LogoutDelete has deleted is no longer stored.                      *)
LEMMA LogoutCallKeeps ==
  ASSUME SessionInv, LogoutCall
  PROVE  SessionInv'
<1> USE BoundsAssumption DEF SessionInv, LogoutCall, clock, End, None
<1>1. TypeOK'
  <2>1. token \in 1..issued
    BY DEF TypeOK, InOrder, Placed, Tokens
  <2>2. loggedOut' \subseteq loggedOut \union {token}
    OBVIOUS
  <2> QED
    BY <2>1, <2>2 DEF TypeOK, PC, Command, Workflow
<1>2. InOrder' /\ InSync'
  BY DEF TypeOK, InOrder, InSync
<1>3. Placed'
  BY DEF TypeOK, InOrder, Placed, LoggingIn
<1>4. PairHeld' /\ LiveHeld'
  BY DEF TypeOK, InOrder, InSync, Placed, PairHeld, LiveHeld, LoggingIn
<1> QED
  BY <1>1, <1>2, <1>3, <1>4

(* An execution may end anywhere; where that is harmful it is on record.   *)
LEMMA ExitKeeps ==
  ASSUME SessionInv, Exit
  PROVE  SessionInv'
<1> USE BoundsAssumption DEF SessionInv, Exit, aws, clock, End, None
<1>1. TypeOK'
  BY DEF TypeOK, PC, Command, Workflow, LoggingIn
<1>2. InOrder' /\ InSync'
  BY DEF TypeOK, InOrder, InSync
<1>3. Placed'
  BY DEF TypeOK, InOrder, Placed, LoggingIn
<1>4. PairHeld' /\ LiveHeld'
  BY DEF TypeOK, InOrder, InSync, Placed, PairHeld, LiveHeld, LoggingIn
<1> QED
  BY <1>1, <1>2, <1>3, <1>4

(* Time passes.                                                            *)
LEMMA ExpireKeeps ==
  ASSUME SessionInv, Expire
  PROVE  SessionInv'
<1> USE BoundsAssumption DEF SessionInv, Expire, session, aws, None
<1>1. TypeOK'
  <2>1. expired' \subseteq expired \union ({store.token, token} \ {None})
    OBVIOUS
  <2>2. lapsed' \subseteq lapsed \union ({store.client, client} \ {None})
    OBVIOUS
  <2>3. {store.token, token} \ {None} \subseteq 1..issued
    BY DEF TypeOK, InOrder, Stored, Tokens
  <2>4. {store.client, client} \ {None} \subseteq 1..registered
    BY DEF TypeOK, InOrder, Stored, Clients
  <2> QED
    BY <2>1, <2>2, <2>3, <2>4 DEF TypeOK
<1>2. InOrder' /\ InSync'
  BY DEF TypeOK, InOrder, InSync
<1>3. Placed'
  BY DEF TypeOK, InOrder, Placed, LoggingIn
<1>4. PairHeld' /\ LiveHeld'
  BY DEF TypeOK, InOrder, InSync, Placed, PairHeld, LiveHeld, LoggingIn
<1> QED
  BY <1>1, <1>2, <1>3, <1>4

-----------------------------------------------------------------------------
(* The invariant holds after each step.                                    *)
LEMMA SessionInvNext == SessionInv /\ [Next]_vars => SessionInv'
<1> SUFFICES ASSUME SessionInv, [Next]_vars
             PROVE  SessionInv'
  OBVIOUS
<1>1. CASE Next
  BY <1>1, MovesKeep, IssuesKeep, SavesKeep, RegisterKeeps, EndSessionKeeps, LogoutCallKeeps,
     ExitKeeps, ExpireKeeps
     DEF Next
<1>2. CASE UNCHANGED vars
  BY <1>2 DEF SessionInv, TypeOK, InOrder, Placed, InSync, PairHeld, LiveHeld, vars, session,
              aws, clock
<1> QED
  BY <1>1, <1>2

(* What the store, the copies of an execution and the flow of its commands *)
(* say of each other, after any commands (awssso_auth.go).                 *)
THEOREM SessionCorrect == Spec => []SessionInv
BY SessionInvInit, SessionInvNext, PTL DEF Spec

(* The stored token and registration belong together and nothing that was  *)
(* logged out stays stored, whatever commands are run and wherever they    *)
(* are cut short, unless a loss is on record (awssso_auth.go).             *)
THEOREM StoredSessionLives == Spec => []TokenInv
BY SessionCorrect, SessionInvImplies, PTL
=============================================================================
