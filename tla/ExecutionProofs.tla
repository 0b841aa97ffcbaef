--------------------------- MODULE ExecutionProofs ---------------------------
(***************************************************************************)
(* Logins, settings and roles, alone and in an execution.                  *)
(*                                                                         *)
(* By device code: for every lifetime of a code and every interval that a  *)
(* service may ask for, the polls are as far apart as it demands.  By the  *)
(* browser: for any number of requests, of any kind and in any order, no   *)
(* code is used but the login's own, the listener is there for the         *)
(* browser, and the port is given back.                                    *)
(*                                                                         *)
(* What a login promises alone it keeps in an execution, in whatever       *)
(* situation it is: whatever settings decide on the workflow and on the    *)
(* page, and whether the login ends, fails or panics there, the next one   *)
(* starts afresh.                                                          *)
(*                                                                         *)
(* The settings: for every set of files, of accounts and of spellings of   *)
(* them, LoadSettings keeps the accounts in whatever order it visits them, *)
(* reads back what the wizard saved, and the wizard adds no fault.  The    *)
(* roles: for all grants, the cache agrees with the config.yaml that it    *)
(* was made from.                                                          *)
(***************************************************************************)
EXTENDS Execution, FiniteSetTheorems, TLAPS

-----------------------------------------------------------------------------
(* Login by device code.  PollsApart speaks of the moment of a poll.  What *)
(* makes it inductive is what holds between two of them: the client and    *)
(* the service agree on the interval, and the service has waited for as    *)
(* long as the client slept.                                               *)

(* A sleep begins after the poll it follows, and ends before the next one. *)
SleptSince == dev = "sleep" => slept <= since /\ slept <= interval

IntervalAgreed == interval = demanded

(* The first poll may be made at once, however short the page was open.    *)
FirstPollFree == dev = "open" => since >= demanded

DeviceInv ==
  /\ DeviceTypeOK
  /\ IntervalAgreed
  /\ SleptSince
  /\ FirstPollFree
  /\ PollsApart

-----------------------------------------------------------------------------
(* DeviceInit establishes the invariant.                                   *)
LEMMA DeviceInvInit == DeviceInit => DeviceInv
BY DeviceAssumption
   DEF DeviceInit, DeviceInv, DeviceTypeOK, IntervalAgreed, SleptSince, FirstPollFree, PollsApart,
       RetryInterval, DeviceEnded

(***************************************************************************)
(* Every step of the login, of the service and of time keeps it.           *)
(***************************************************************************)
LEMMA DeviceInvNext == DeviceInv /\ [DeviceNext]_deviceVars => DeviceInv'
<1> USE DeviceAssumption
    DEF DeviceInv, DeviceTypeOK, IntervalAgreed, SleptSince, FirstPollFree, PollsApart,
        DeviceEnded, RetryInterval, SlowDown
<1> SUFFICES ASSUME DeviceInv, [DeviceNext]_deviceVars
             PROVE  DeviceInv'
  OBVIOUS
<1>1. CASE StartDevice
  BY <1>1 DEF StartDevice
<1>2. CASE Authorized
  BY <1>2 DEF Authorized
<1>3. CASE AuthorizationFails
  BY <1>3 DEF AuthorizationFails
<1>4. ASSUME NEW opens \in BOOLEAN, OpenPage(opens)
      PROVE  DeviceInv'
  BY <1>4 DEF OpenPage
<1>5. CASE Poll
  BY <1>5 DEF Poll
<1>6. CASE Answered
  BY <1>6 DEF Answered, GetToken, PollFails, Pending, SlowedDown
<1>7. CASE Wake
  BY <1>7 DEF Wake
<1>8. CASE Tick
  BY <1>8 DEF Tick
<1>9. CASE UNCHANGED deviceVars
  BY <1>9 DEF deviceVars
<1> QED
  BY <1>1, <1>2, <1>3, <1>4, <1>5, <1>6, <1>7, <1>8, <1>9 DEF DeviceNext, DeviceStep

-----------------------------------------------------------------------------
(***************************************************************************)
(* The variables of a login by device code keep their types.               *)
(***************************************************************************)
THEOREM DeviceTypeCorrect == DeviceSpec => []DeviceTypeOK
<1>1. DeviceInv => DeviceTypeOK
  BY DEF DeviceInv
<1> QED
  BY DeviceInvInit, DeviceInvNext, <1>1, PTL DEF DeviceSpec

(***************************************************************************)
(* No poll comes sooner than the service demands by its interval and all   *)
(* of its slow_downs together (PollDeviceCodeToken).                       *)
(***************************************************************************)
THEOREM PollsKeepDistance == DeviceSpec => []PollsApart
<1>1. DeviceInv => PollsApart
  BY DEF DeviceInv
<1> QED
  BY DeviceInvInit, DeviceInvNext, <1>1, PTL DEF DeviceSpec

-----------------------------------------------------------------------------
(* Login by the browser.                                                   *)

PkceTypes ==
  /\ main \in {"start", "bound"} \cup Opened
  /\ listener \in {"none", "queueing", "serving", "broken", "closed"}
  /\ req \in [Requests -> {"unsent", "refused", "queued", "accepted",
                           "welcomed", "rejected", "served", "failed"}]
  /\ kind \in [Requests -> Kinds]
  /\ callbackCh = {} \/ \E r \in Requests : callbackCh = {r}
  /\ code \in Requests \cup {NoRequest}
  /\ errCh \in BOOLEAN
  /\ expired \in BOOLEAN

(* What a handler welcomes, and only that, it reports; and the kind of a   *)
(* request that was sent is settled.                                       *)
CodesAreOwn ==
  /\ \A r \in Requests : req[r] \in {"welcomed", "served"} => kind[r] = "redirect"
  /\ \A r \in callbackCh \cup ({code} \ {NoRequest}) : req[r] = "served"

NothingRefused == \A r \in Requests : req[r] # "refused"

(* The socket through the stages of main.                                  *)
ListenerOfMain ==
  /\ main = "start" => listener = "none" /\ \A r \in Requests : req[r] = "unsent"
  /\ main \in {"bound", "opened"} => listener = "queueing"
  /\ main = "waiting" => listener \in {"queueing", "serving", "broken"}
  /\ main \in {"bound", "opened", "waiting"} /\ listener # "broken" => NothingRefused
  /\ main = "exchange" \/ main \in Ended => listener \in {"none", "closed"}

PkceInv == PkceTypes /\ CodesAreOwn /\ ListenerOfMain

-----------------------------------------------------------------------------
(* A channel of capacity one holds one value at most.                      *)
LEMMA PkceInvImplies == PkceInv => ListenerInv
<1> SUFFICES ASSUME PkceInv
             PROVE  ListenerInv
  OBVIOUS
<1> USE DEF PkceInv, PkceTypes
<1>1. Cardinality(callbackCh) <= 1
  <2>1. CASE callbackCh = {}
    BY <2>1, FS_EmptySet
  <2>2. ASSUME NEW r \in Requests, callbackCh = {r}
        PROVE  Cardinality(callbackCh) <= 1
    BY <2>2, FS_Singleton
  <2> QED
    BY <2>1, <2>2
<1>2. PkceTypeOK
  BY <1>1 DEF PkceTypeOK
<1>3. CodeIsOwn
  BY NoRequestAssumption DEF CodeIsOwn, CodesAreOwn
<1>4. EarlyRedirectServed
  BY DEF EarlyRedirectServed, ListenerOfMain, NothingRefused
<1>5. PortGivenBack
  BY DEF PortGivenBack, ListenerOfMain
<1> QED
  BY <1>2, <1>3, <1>4, <1>5 DEF ListenerInv

(* Nothing is bound, sent or received when the login begins.               *)
LEMMA PkceInvInit == PkceInit => PkceInv
BY NoRequestAssumption
   DEF PkceInit, PkceInv, PkceTypes, CodesAreOwn, ListenerOfMain, Kinds, Opened, Ended

(***************************************************************************)
(* Every step of reauthenticatePKCE and WaitForPKCECallback keeps the      *)
(* invariant.                                                              *)
(***************************************************************************)
LEMMA PkceInvMain == PkceInv /\ PkceMain => PkceInv'
<1> SUFFICES ASSUME PkceInv, PkceMain
             PROVE  PkceInv'
  OBVIOUS
<1> USE NoRequestAssumption
    DEF PkceInv, PkceTypes, CodesAreOwn, ListenerOfMain, NothingRefused, Opened, Ended
<1>1. CASE Bind
  BY <1>1 DEF Bind
<1>2. CASE BindFails
  BY <1>2 DEF BindFails
<1>3. CASE OpenBrowser
  BY <1>3 DEF OpenBrowser
<1>4. CASE OpenFails
  BY <1>4 DEF OpenFails, Refuse
<1>5. CASE Wait
  BY <1>5 DEF Wait
<1>6. CASE TakeCode
  BY <1>6 DEF TakeCode
<1>7. CASE TakeError
  BY <1>7 DEF TakeError
<1>8. CASE TimesOut
  BY <1>8 DEF TimesOut
<1>9. CASE StopListening
  BY <1>9 DEF StopListening, Refuse
<1>10. CASE ShutdownEnds
  BY <1>10 DEF ShutdownEnds
<1>11. CASE Exchange
  BY <1>11 DEF Exchange
<1> QED
  BY <1>1, <1>2, <1>3, <1>4, <1>5, <1>6, <1>7, <1>8, <1>9, <1>10, <1>11 DEF PkceMain

(***************************************************************************)
(* And so does every step of the timer, the server goroutine, the handlers *)
(* and the browser.                                                        *)
(***************************************************************************)
LEMMA PkceInvOthers == PkceInv /\ PkceOthers => PkceInv'
<1> SUFFICES ASSUME PkceInv, PkceOthers
             PROVE  PkceInv'
  OBVIOUS
<1> USE NoRequestAssumption
    DEF PkceInv, PkceTypes, CodesAreOwn, ListenerOfMain, NothingRefused, Opened, Ended
<1>1. CASE Expire
  BY <1>1 DEF Expire
<1>2. CASE Serve
  BY <1>2 DEF Serve
<1>3. CASE ServeFails
  BY <1>3 DEF ServeFails, Refuse
<1>4. ASSUME NEW r \in Requests, Send(r)
      PROVE  PkceInv'
  BY <1>4 DEF Send, Kinds
<1>5. ASSUME NEW r \in Requests, Accept(r)
      PROVE  PkceInv'
  BY <1>5 DEF Accept
<1>6. ASSUME NEW r \in Requests, Answer(r)
      PROVE  PkceInv'
  BY <1>6 DEF Answer, Valid
<1>7. ASSUME NEW r \in Requests, ReportCode(r)
      PROVE  PkceInv'
  BY <1>7 DEF ReportCode
<1>8. ASSUME NEW r \in Requests, ReportError(r)
      PROVE  PkceInv'
  BY <1>8 DEF ReportError
<1> QED
  BY <1>1, <1>2, <1>3, <1>4, <1>5, <1>6, <1>7, <1>8 DEF PkceOthers, Handler

(* A step that changes nothing changes no part of the invariant.           *)
LEMMA PkceInvStutter == PkceInv /\ UNCHANGED pkceVars => PkceInv'
BY DEF PkceInv, PkceTypes, CodesAreOwn, ListenerOfMain, NothingRefused, pkceVars

-----------------------------------------------------------------------------
(***************************************************************************)
(* The values of the variables; the code of a login is one that came with  *)
(* its own state; from the moment the browser opens until the wait ends no *)
(* connection is refused; and the port is given back however the login     *)
(* ends (reauthenticatePKCE, WaitForPKCECallback).                         *)
(***************************************************************************)
THEOREM ListenerCorrect == PkceSpec => []ListenerInv
<1>1. PkceInv /\ [PkceNext]_pkceVars => PkceInv'
  BY PkceInvMain, PkceInvOthers, PkceInvStutter DEF PkceNext
<1> QED
  BY PkceInvInit, <1>1, PkceInvImplies, PTL DEF PkceSpec

-----------------------------------------------------------------------------
(* The two in an execution.                                                *)

LoginInv == DeviceInv /\ PkceInv

(* No execution has begun.                                                 *)
LEMMA LoginInvInit == Init => LoginInv
BY DeviceInvInit, PkceInvInit DEF Init, LoginInv

(* Nothing is left of a login that is over.                                *)
LEMMA LoginOverResets == LoginOver => LoginInv'
<1>1. LoginOver => DeviceInit' /\ PkceInit'
  BY DEF LoginOver, DeviceInit, PkceInit
<1> QED
  BY <1>1, DeviceInvInit, PkceInvInit, PTL DEF LoginInv

(***************************************************************************)
(* What goes on while Authenticate runs is a step of one of the workflows, *)
(* or ends it.                                                             *)
(***************************************************************************)
LEMMA LoginInvLogin ==
  LoginInv /\ (LoginStep \/ Network \/ RegisterFails \/ PanicsAtPage) => LoginInv'
<1> SUFFICES ASSUME LoginInv, LoginStep \/ Network \/ RegisterFails \/ PanicsAtPage
             PROVE  LoginInv'
  OBVIOUS
<1>1. ASSUME [DeviceNext]_deviceVars, [PkceNext]_pkceVars
      PROVE  LoginInv'
  BY <1>1, DeviceInvNext, PkceInvMain, PkceInvOthers, PkceInvStutter DEF LoginInv, PkceNext
<1>2. CASE Register
  BY <1>1, <1>2 DEF Register, DeviceNext
<1>3. CASE RegisterFails
  BY <1>1, <1>3 DEF RegisterFails
<1>4. CASE ByDevice
  <2>1. CanOpen(LoginAction) \in BOOLEAN
    BY DEF CanOpen
  <2> QED
    BY <1>1, <1>4, <2>1 DEF ByDevice, DeviceNext
<1>5. CASE TimePasses
  BY <1>1, <1>5 DEF TimePasses, DeviceNext
<1>6. CASE ByPkce
  BY <1>1, <1>6 DEF ByPkce, PkceNext
<1>7. CASE Goroutines
  BY <1>1, <1>7 DEF Goroutines, PkceNext, PkceOthers
<1>8. CASE Network
  BY <1>1, <1>8 DEF Network, PkceNext, PkceOthers
<1>9. CASE Authenticated
  BY <1>9, LoginOverResets DEF Authenticated
<1>10. CASE PanicsAtPage
  BY <1>10, LoginOverResets DEF PanicsAtPage
<1> QED
  BY <1>2, <1>3, <1>4, <1>5, <1>6, <1>7, <1>8, <1>9, <1>10 DEF LoginStep

(* Nothing else in an execution touches what a login works with.           *)
LEMMA LoginInvNext == LoginInv /\ [Next]_vars => LoginInv'
<1> SUFFICES ASSUME LoginInv, [Next]_vars
             PROVE  LoginInv'
  OBVIOUS
<1>1. ASSUME UNCHANGED <<pkceVars, deviceVars>>
      PROVE  LoginInv'
  BY <1>1, DeviceInvNext, PkceInvStutter DEF LoginInv
<1>2. CASE UNCHANGED vars
  BY <1>1, <1>2 DEF vars
<1>3. CASE LoginStep \/ Network \/ RegisterFails \/ PanicsAtPage
  BY <1>3, LoginInvLogin
<1>4. CASE Start
  BY <1>1, <1>4 DEF Start
<1>5. CASE LoadSettings
  BY <1>1, <1>5 DEF LoadSettings
<1>6. CASE FirstRun
  BY <1>1, <1>6 DEF FirstRun, Over
<1>7. CASE Wizard \/ End
  BY <1>1, <1>7 DEF Wizard, End, Over
<1>8. CASE CheckAuth
  BY <1>1, <1>8 DEF CheckAuth
<1>9. CASE RefreshAfterLogin \/ CacheCmd \/ RefreshForPrompt \/ ConsoleCmd
  BY <1>1, <1>9 DEF RefreshAfterLogin, CacheCmd, RefreshForPrompt, ConsoleCmd
<1> QED
  BY <1>2, <1>3, <1>4, <1>5, <1>6, <1>7, <1>8, <1>9 DEF Next

-----------------------------------------------------------------------------
(* What the settings are made of, in every execution.                      *)

(* The inductive invariant of the settings.                                *)

(* An account that is as Refresh leaves it.                                *)
Complete(a, id) == id \in AccountId /\ Refreshed(a, id) = a

GivenTo(i) == file.SSO[i].accounts

(* An account that Refresh has not come to: then it has not come to any    *)
(* other spelling of it either, if it is spelt like the ID.                *)
Untouched(i, k) ==
  /\ k \in DOMAIN GivenTo(i) /\ Accounts(i)[k] = GivenTo(i)[k]
  /\ <<i, k>> \in todo
  /\ IdOf[k] = k => \A j \in DOMAIN GivenTo(i) : IdOf[j] = k => <<i, j>> \in todo

(* An account that is where it belongs: it came from a key of its ID, and  *)
(* from the ID itself only if the other spellings are still to come.       *)
Arrived(i, k) ==
  /\ k \in AccountId
  /\ \E j \in DOMAIN GivenTo(i) :
       /\ IdOf[j] = k /\ Accounts(i)[k] = Refreshed(GivenTo(i)[j], k)
       /\ j = k => \A l \in DOMAIN GivenTo(i) \ {k} : IdOf[l] = k => <<i, l>> \in todo

Visiting ==
  loading = "refresh" =>
    /\ \A p \in todo : \E i \in DOMAIN s.SSO : \E k \in DOMAIN Accounts(i) : p = <<i, k>>
    /\ \A i \in DOMAIN s.SSO :
         /\ {IdOf[k] : k \in DOMAIN Accounts(i)} = {IdOf[k] : k \in DOMAIN GivenTo(i)}
         /\ \A k \in DOMAIN Accounts(i) : Untouched(i, k) \/ Arrived(i, k)

(* The options that applyDeprecations and what follows may change.         *)
Migrated ==
  {"UrlAction", "ConfigProfilesUrlAction", "ConfigUrlAction", "FirefoxOpenUrlInContainer"}

Parsed == WithWorkflow(Layered(file), file)

(* What comes from the file as it is, once it is read.                     *)
Read ==
  /\ IsFile(file) /\ IsSettings(s)
  /\ \A o \in Options \ (Migrated \cup {"DefaultSSO"}) : s[o] = Parsed[o]
  /\ s.DefaultSSO \in DOMAIN s.SSO
  /\ override = "" /\ Layered(file).DefaultSSO \in DOMAIN s.SSO =>
       s.DefaultSSO = Layered(file).DefaultSSO
  /\ DOMAIN s.SSO = DOMAIN file.SSO
  /\ \A i \in DOMAIN s.SSO :
       s.SSO[i].action = IF file.SSO[i].action # "" THEN file.SSO[i].action
                         ELSE Layered(file).UrlAction

(* And what has become of the rest, in the end.                            *)
MigratedFrom(c) ==
  /\ ~s.FirefoxOpenUrlInContainer
  /\ s.UrlAction = IF c.FirefoxOpenUrlInContainer THEN "container" ELSE c.UrlAction
  /\ c.ConfigProfilesUrlAction # "" =>
       /\ s.ConfigProfilesUrlAction = c.ConfigProfilesUrlAction
       /\ s.ConfigUrlAction = c.ConfigUrlAction

AllComplete(c) ==
  \A i \in DOMAIN c.SSO : \A id \in DOMAIN c.SSO[i].accounts :
    Complete(c.SSO[i].accounts[id], id)

Loaded ==
  /\ loading \in {"off", "no config", "load"} => s = Nil /\ todo = {}
  /\ loading = "load" => file # Nil
  /\ loading \in {"refresh", "ready"} => Read
  /\ loading = "refresh" => \A o \in Migrated : s[o] = Parsed[o]
  /\ loading = "ready" => MigratedFrom(Layered(file)) /\ Validate(s) /\ AllComplete(s)

(* What the wizard saves: settings that are valid, migrated and complete,  *)
(* with an instance to choose.                                             *)
Sound(c) ==
  /\ IsSettings(c) /\ Validate(c) /\ ~c.FirefoxOpenUrlInContainer
  /\ AllComplete(c)
  /\ \/ c.DefaultSSO \in DOMAIN c.SSO
     \/ c.DefaultSSO = "" /\ Cardinality(DOMAIN c.SSO) = 1

Written ==
  wrote # Nil =>
    /\ Sound(wrote) /\ file = Saved(wrote)
    /\ override = "" => loading # "failed"

SettingsInv == SettingsTypeOK /\ AccountsKept /\ Visiting /\ Loaded /\ Written

-----------------------------------------------------------------------------
(* What is laid under a file.                                              *)
Beneath(o) == IF o \in DOMAIN Defaults THEN Defaults[o] ELSE Zero[o]

(* The options, which of them have a default, and what is none.            *)
LEMMA OptionNames ==
  /\ Options = {"DefaultSSO", "UrlAction", "ConfigProfilesUrlAction", "ConfigUrlAction",
                "FirefoxOpenUrlInContainer", "UrlExecCommand", "AuthWorkflow", "CacheRefresh",
                "DefaultRegion", "ProfileFormat", "AutoLogin"}
  /\ DOMAIN Defaults \subseteq Options
  /\ "SSO" \notin Options
BY DEF Options, Zero, Defaults

(* Files, settings and accounts are something.                             *)
LEMMA NilApart ==
  /\ \A f : "SSO" \in DOMAIN f => f # Nil /\ f # Broken
  /\ NoAccount # Nil /\ NoRole # Nil /\ Nil # Broken
  /\ \A f : "roles" \in DOMAIN f \/ "arn" \in DOMAIN f => f # Nil
<1>1. DOMAIN Nil = {"nil"} /\ DOMAIN Broken = {"broken"}
  BY DEF Nil, Broken
<1>2. "roles" \in DOMAIN NoAccount /\ "arn" \in DOMAIN NoRole
  BY DEF NoAccount, NoRole
<1> QED
  BY <1>1, <1>2

(* The file over the defaults over the zeros, option by option.            *)
LEMMA LayeredFields ==
  ASSUME NEW f, "SSO" \in DOMAIN f
  PROVE  /\ IsMap(Layered(f))
         /\ DOMAIN Layered(f) = DOMAIN f \cup Options
         /\ Layered(f).SSO = f.SSO
         /\ \A o \in Options : Layered(f)[o] = IF o \in DOMAIN f THEN f[o] ELSE Beneath(o)
<1>1. DOMAIN Overlay(Defaults, Zero) = Options
  BY OptionNames DEF Overlay, Options
<1>2. \A o \in Options : Overlay(Defaults, Zero)[o] = Beneath(o)
  BY OptionNames DEF Overlay, Options, Beneath
<1>3. DOMAIN Layered(f) = DOMAIN f \cup Options
  BY <1>1 DEF Layered, Overlay
<1>4. IsMap(Layered(f))
  BY DEF Layered, Overlay, IsMap
<1> QED
  BY <1>1, <1>2, <1>3, <1>4 DEF Layered, Overlay

(* The accounts in a file are accounts.                                    *)
LEMMA FileTyped ==
  ASSUME NEW f, IsFile(f)
  PROVE  /\ \A i \in DOMAIN f.SSO : IsInstance(f.SSO[i])
         /\ \A i \in DOMAIN f.SSO : \A k \in DOMAIN f.SSO[i].accounts :
              IsAccount(f.SSO[i].accounts[k])
<1>1. \A i \in DOMAIN f.SSO : IsInstance(f.SSO[i])
  BY LayeredFields DEF IsFile, IsSettings
<1> QED
  BY <1>1 DEF IsInstance

(* A map of nothing.                                                       *)
LEMMA EmptyMap ==
  /\ IsMap(<<>>) /\ DOMAIN <<>> = {}
<1>1. DOMAIN <<>> = {} /\ [x \in {} |-> <<>>[x]] = <<>>
  OBVIOUS
<1> QED
  BY <1>1 DEF IsMap

(* A second visit of an account changes nothing.                           *)
LEMMA RefreshedTwice ==
  ASSUME NEW a, IsAccount(a), NEW id
  PROVE  /\ Refreshed(a, id) # Nil
         /\ IsAccount(Refreshed(a, id))
         /\ Refreshed(Refreshed(a, id), id) = Refreshed(a, id)
<1> DEFINE b == Refreshed(a, id)
           complete(r) == [(IF r = Nil THEN NoRole ELSE r) EXCEPT !.arn = <<id, "x">>]
<1>1. CASE a = Nil
  <2>1. b = NoAccount
    BY <1>1 DEF Refreshed
  <2>2. NoAccount.roles = <<>> /\ DOMAIN NoAccount = {"region", "name", "roles"}
    BY DEF NoAccount
  <2>3. Refreshed(NoAccount, id) = NoAccount
    <3>1. [r \in DOMAIN NoAccount.roles |->
             [(IF NoAccount.roles[r] = Nil THEN NoRole ELSE NoAccount.roles[r])
                EXCEPT !.arn = <<id, r>>]]
            = NoAccount.roles
      BY <2>2
    <3> QED
      BY <2>2, <3>1, NilApart DEF Refreshed, NoAccount
  <2>4. IsMap(NoAccount) /\ IsMap(NoAccount.roles) /\ DOMAIN NoAccount.roles = {}
    <3>1. IsMap(NoAccount)
      BY DEF NoAccount, IsMap
    <3> QED
      BY <2>2, <3>1, EmptyMap
  <2>5. IsAccount(NoAccount)
    BY <2>4 DEF IsAccount
  <2> QED
    BY <2>1, <2>3, <2>5, NilApart
<1>2. CASE a # Nil
  <2>1. /\ DOMAIN a = {"region", "name", "roles"} /\ IsMap(a) /\ IsMap(a.roles)
        /\ \A r \in DOMAIN a.roles : IsRole(a.roles[r])
    BY <1>2 DEF IsAccount, NoAccount
  <2> DEFINE R == [r \in DOMAIN a.roles |->
                     [(IF a.roles[r] = Nil THEN NoRole ELSE a.roles[r]) EXCEPT !.arn = <<id, r>>]]
  <2>2. b = [a EXCEPT !.roles = R] /\ DOMAIN b = DOMAIN a /\ b.roles = R /\ DOMAIN R = DOMAIN a.roles
    BY <1>2, <2>1 DEF Refreshed
  <2>3. ASSUME NEW r \in DOMAIN R
        PROVE  IsRole(R[r]) /\ R[r] # Nil /\ [R[r] EXCEPT !.arn = <<id, r>>] = R[r]
    <3> DEFINE q == IF a.roles[r] = Nil THEN NoRole ELSE a.roles[r]
    <3>1. DOMAIN q = DOMAIN NoRole /\ "arn" \in DOMAIN q
      BY <2>1, <2>2, <2>3 DEF IsRole, NoRole
    <3>2. R[r] = [q EXCEPT !.arn = <<id, r>>]
      BY <2>2, <2>3
    <3> HIDE DEF q, R
    <3> QED
      BY <3>1, <3>2, NilApart DEF IsRole, IsMap
  <2>4. b # Nil
    BY <2>1, <2>2, NilApart
  <2>5. Refreshed(b, id) = [b EXCEPT !.roles = [r \in DOMAIN R |->
          [(IF R[r] = Nil THEN NoRole ELSE R[r]) EXCEPT !.arn = <<id, r>>]]]
    <3> HIDE DEF R, b
    <3> QED
      BY <2>2, <2>4 DEF Refreshed
  <2>6. [r \in DOMAIN R |-> [(IF R[r] = Nil THEN NoRole ELSE R[r]) EXCEPT !.arn = <<id, r>>]] = R
    <3>1. R = [r \in DOMAIN R |-> R[r]]
      OBVIOUS
    <3> HIDE DEF R
    <3> QED
      BY <2>3, <3>1
  <2>7. [b EXCEPT !.roles = R] = b
    <3> HIDE DEF R
    <3> QED
      BY <2>1, <2>2
  <2>8. IsAccount(b)
    <3>1. IsMap(b) /\ IsMap(b.roles)
      BY <2>2 DEF IsMap
    <3> HIDE DEF R, b
    <3> QED
      BY <2>1, <2>2, <2>3, <3>1 DEF IsAccount, NoAccount
  <2> HIDE DEF R, b
  <2> QED
    BY <2>4, <2>5, <2>6, <2>7, <2>8 DEF b
<1> QED
  BY <1>1, <1>2

-----------------------------------------------------------------------------
(* What is beneath a file has the right types.                             *)
LEMMA BeneathTyped ==
  /\ Beneath("UrlAction") = "open" /\ Beneath("ConfigProfilesUrlAction") = "open"
  /\ Beneath("ConfigUrlAction") = "" /\ Beneath("UrlExecCommand") = "none"
  /\ Beneath("FirefoxOpenUrlInContainer") = FALSE
BY DEF Beneath, Defaults, Zero

(* Of what is saved only the zeros are lost.                               *)
LEMMA SavedFields ==
  ASSUME NEW c, IsSettings(c)
  PROVE  /\ IsFile(Saved(c))
         /\ Saved(c).SSO = c.SSO
         /\ \A o \in Options : Layered(Saved(c))[o] =
              IF o = "UrlAction" \/ c[o] # Zero[o] THEN c[o] ELSE Beneath(o)
<1> DEFINE f == Saved(c)
           l == Layered(f)
<1>1. DOMAIN c = Options \cup {"SSO"} /\ AlwaysWritten = {"UrlAction", "SSO"}
  BY DEF IsSettings, AlwaysWritten
<1>2. /\ IsMap(f) /\ DOMAIN f \subseteq Options \cup {"SSO"}
      /\ "SSO" \in DOMAIN f /\ f.SSO = c.SSO
      /\ \A o \in DOMAIN f : f[o] = c[o]
      /\ \A o \in Options : o \in DOMAIN f <=> o = "UrlAction" \/ c[o] # Zero[o]
  BY <1>1, OptionNames DEF Saved, IsMap
<1> HIDE DEF f
<1>3. /\ IsMap(l) /\ DOMAIN l = Options \cup {"SSO"} /\ l.SSO = c.SSO
      /\ \A o \in Options : l[o] = IF o = "UrlAction" \/ c[o] # Zero[o] THEN c[o] ELSE Beneath(o)
  <2>1. /\ IsMap(l) /\ DOMAIN l = DOMAIN f \cup Options /\ l.SSO = f.SSO
        /\ \A o \in Options : l[o] = IF o \in DOMAIN f THEN f[o] ELSE Beneath(o)
    BY <1>2, LayeredFields
  <2> HIDE DEF l
  <2> QED
    BY <1>2, <2>1
<1> HIDE DEF l
<1>4. /\ {l.UrlAction, l.ConfigProfilesUrlAction, l.ConfigUrlAction} \subseteq Actions
      /\ l.UrlExecCommand \in Commands
      /\ l.FirefoxOpenUrlInContainer \in BOOLEAN
  <2>1. \A o \in Options : l[o] \in {c[o], Beneath(o)}
    BY <1>3
  <2>2. /\ l.UrlAction \in {c.UrlAction, "open"}
        /\ l.ConfigProfilesUrlAction \in {c.ConfigProfilesUrlAction, "open"}
        /\ l.ConfigUrlAction \in {c.ConfigUrlAction, ""}
        /\ l.UrlExecCommand \in {c.UrlExecCommand, "none"}
        /\ l.FirefoxOpenUrlInContainer \in {c.FirefoxOpenUrlInContainer, FALSE}
    BY <2>1, OptionNames, BeneathTyped
  <2> QED
    BY <2>2 DEF IsSettings, Actions, Commands
<1>5. IsSettings(l)
  BY <1>3, <1>4 DEF IsSettings
<1> QED
  BY <1>2, <1>3, <1>5 DEF IsFile, f, l

-----------------------------------------------------------------------------
(* LoadSettings.                                                           *)

(* Load: what was laid over what, with no account refreshed so far.        *)
LEMMA LoadKeeps ==
  ASSUME SettingsInv, Load
  PROVE  SettingsInv'
<1> DEFINE l == Layered(file)
           c == WithWorkflow(Overridden(l), file)
<1>1. /\ loading = "load" /\ loading' = "refresh" /\ UNCHANGED <<file, remote, override, wrote>>
      /\ todo' = UNION {{i} \X DOMAIN c.SSO[i].accounts : i \in DOMAIN c.SSO}
  BY DEF Load
<1>2. PICK n \in Selected(c) : s' = WithParams([c EXCEPT !.DefaultSSO = n])
  BY DEF Load
<1>3. IsFile(file)
  BY <1>1 DEF SettingsInv, SettingsTypeOK, Loaded, Load
<1>4. /\ IsSettings(l) /\ l.SSO = file.SSO
      /\ DOMAIN l = Options \cup {"SSO"}
  BY <1>3, LayeredFields DEF IsFile, IsSettings
<1>5. /\ IsMap(c) /\ DOMAIN c = Options \cup {"SSO"} /\ c.SSO = file.SSO
      /\ \A o \in Options \ {"DefaultSSO"} : c[o] = Parsed[o]
      /\ \A o \in Options \ {"DefaultSSO", "AuthWorkflow"} : c[o] = l[o]
      /\ override = "" => c.DefaultSSO = l.DefaultSSO
  <2> HIDE DEF l
  <2> QED
    BY <1>4, OptionNames DEF WithWorkflow, Overridden, IsMap, Parsed, l, IsSettings
<1> HIDE DEF l, c
<1>6. n \in DOMAIN c.SSO /\ (c.DefaultSSO \in DOMAIN c.SSO => n = c.DefaultSSO)
  BY DEF Selected
<1>7. /\ IsMap(s') /\ DOMAIN s' = Options \cup {"SSO"}
      /\ s'.DefaultSSO = n
      /\ \A o \in Options \ {"DefaultSSO"} : s'[o] = c[o]
      /\ s'.SSO = [i \in DOMAIN c.SSO |-> WithAction(c.SSO[i], c.UrlAction)]
  <2> DEFINE d == [c EXCEPT !.DefaultSSO = n]
             e == [i \in DOMAIN d.SSO |-> WithAction(d.SSO[i], d.UrlAction)]
  <2>1. /\ DOMAIN d = Options \cup {"SSO"} /\ d.DefaultSSO = n
        /\ \A o \in (Options \cup {"SSO"}) \ {"DefaultSSO"} : d[o] = c[o]
        /\ d.SSO = c.SSO /\ d.UrlAction = c.UrlAction
    BY <1>5, OptionNames
  <2> HIDE DEF d
  <2>2. s' = [d EXCEPT !.SSO = e]
    BY <1>2 DEF WithParams, d
  <2>3. e = [i \in DOMAIN c.SSO |-> WithAction(c.SSO[i], c.UrlAction)]
    BY <2>1
  <2> HIDE DEF e
  <2>4. IsMap(s')
    BY <2>2 DEF IsMap
  <2>5. DOMAIN s' = DOMAIN d /\ s'.SSO = e /\ \A o \in DOMAIN d \ {"SSO"} : s'[o] = d[o]
    BY <2>1, <2>2
  <2> QED
    BY <2>1, <2>3, <2>4, <2>5, OptionNames
<1>8. \A i \in DOMAIN c.SSO :
        /\ IsInstance(c.SSO[i])
        /\ IsInstance(s'.SSO[i])
        /\ s'.SSO[i].accounts = file.SSO[i].accounts
        /\ s'.SSO[i].action = IF file.SSO[i].action = "" THEN l.UrlAction ELSE file.SSO[i].action
  <2> SUFFICES ASSUME NEW i \in DOMAIN c.SSO
               PROVE  /\ IsInstance(c.SSO[i])
                      /\ IsInstance(s'.SSO[i])
                      /\ s'.SSO[i].accounts = file.SSO[i].accounts
                      /\ s'.SSO[i].action = IF file.SSO[i].action = "" THEN l.UrlAction
                                            ELSE file.SSO[i].action
    OBVIOUS
  <2>1. IsInstance(c.SSO[i]) /\ c.UrlAction = l.UrlAction /\ l.UrlAction \in Actions
    BY <1>4, <1>5, OptionNames DEF IsSettings
  <2>2. s'.SSO[i] = WithAction(c.SSO[i], c.UrlAction)
    BY <1>7
  <2> DEFINE r == c.SSO[i]
             a == IF r.action = "" THEN c.UrlAction ELSE r.action
  <2>3. s'.SSO[i] = [r EXCEPT !.action = a] /\ DOMAIN r = {"action", "region", "accounts"}
    BY <2>1, <2>2 DEF IsInstance, WithAction
  <2>4. a \in Actions
    BY <2>1 DEF IsInstance
  <2> HIDE DEF a
  <2>5. /\ IsMap(s'.SSO[i]) /\ DOMAIN s'.SSO[i] = {"action", "region", "accounts"}
        /\ s'.SSO[i].action = a /\ s'.SSO[i].accounts = r.accounts
    BY <2>3 DEF IsMap
  <2>6. IsInstance(s'.SSO[i])
    BY <2>1, <2>4, <2>5 DEF IsInstance
  <2> QED
    BY <1>5, <2>1, <2>5, <2>6 DEF a
<1>9. IsSettings(s')
  <2>1. IsMap(s'.SSO) /\ DOMAIN s'.SSO = DOMAIN c.SSO
    BY <1>7 DEF IsMap
  <2>2. /\ s'.UrlAction = l.UrlAction /\ s'.ConfigProfilesUrlAction = l.ConfigProfilesUrlAction
        /\ s'.ConfigUrlAction = l.ConfigUrlAction /\ s'.UrlExecCommand = l.UrlExecCommand
        /\ s'.FirefoxOpenUrlInContainer = l.FirefoxOpenUrlInContainer
    BY <1>5, <1>7, OptionNames
  <2>3. "" \notin DOMAIN s'.SSO /\ \A i \in DOMAIN s'.SSO : IsInstance(s'.SSO[i])
    BY <1>4, <1>5, <1>8, <2>1 DEF IsSettings
  <2> QED
    BY <1>4, <1>7, <2>1, <2>2, <2>3 DEF IsSettings
<1>10. s' # Nil
  BY <1>7, NilApart
<1>11. Parsed' = Parsed /\ Layered(file)' = l
  BY <1>1 DEF Parsed, WithWorkflow, defaultAuthWorkflow, Layered, Overlay, l
<1>12. DOMAIN s'.SSO = DOMAIN file.SSO
  BY <1>5, <1>7
<1>13. Read'
  BY <1>1, <1>3, <1>5, <1>6, <1>7, <1>8, <1>9, <1>11, <1>12 DEF Read, Migrated
<1>14. Loaded'
  BY <1>1, <1>5, <1>7, <1>11, <1>13, OptionNames DEF Loaded, Migrated
<1>15. Visiting'
  <2>1. \A i, k : <<i, k>> \in todo' <=> i \in DOMAIN c.SSO /\ k \in DOMAIN c.SSO[i].accounts
    BY <1>1
  <2>2. \A p \in todo' : \E i \in DOMAIN c.SSO : \E k \in DOMAIN c.SSO[i].accounts : p = <<i, k>>
    BY <1>1
  <2>3. \A i \in DOMAIN c.SSO : Accounts(i)' = GivenTo(i)' /\ GivenTo(i)' = c.SSO[i].accounts
    BY <1>1, <1>5, <1>8 DEF Accounts, GivenTo
  <2>4. \A i \in DOMAIN s'.SSO : \A k \in DOMAIN Accounts(i)' : Untouched(i, k)'
    BY <1>5, <1>12, <2>1, <2>3 DEF Untouched
  <2>5. \A p \in todo' : \E i \in DOMAIN s'.SSO : \E k \in DOMAIN Accounts(i)' : p = <<i, k>>
    BY <1>5, <1>12, <2>2, <2>3
  <2> QED
    BY <1>5, <1>12, <2>3, <2>4, <2>5 DEF Visiting
<1>16. SettingsTypeOK'
  BY <1>1, <1>9, <1>10 DEF SettingsInv, SettingsTypeOK
<1>17. Written' /\ AccountsKept'
  BY <1>1 DEF SettingsInv, Written, AccountsKept
<1> QED
  BY <1>14, <1>15, <1>16, <1>17 DEF SettingsInv

(* One account: whichever the loop visits next, all are still accounted    *)
(* for.                                                                    *)
LEMMA RefreshKeeps ==
  ASSUME SettingsInv, NEW i, NEW k, RefreshAccount(i, k)
  PROVE  SettingsInv'
<1> DEFINE id == IdOf[k]
           m == Accounts(i)
           a == Refreshed(m[k], id)
           m2 == Renamed(m, k, id, a)
<1>1. /\ loading = "refresh" /\ <<i, k>> \in todo /\ id # NoId
      /\ UNCHANGED <<file, loading, remote, override, wrote>>
      /\ \/ todo' = todo \ {<<i, k>>}
         \/ id \notin DOMAIN m /\ todo' = (todo \ {<<i, k>>}) \cup {<<i, id>>}
  BY DEF RefreshAccount
<1>2. s' = [s EXCEPT !.SSO[i].accounts = m2]
  BY DEF RefreshAccount, Accounts
<1>3. Read /\ Visiting /\ IsSettings(s)
  BY <1>1 DEF SettingsInv, Loaded, Read
<1>4. /\ i \in DOMAIN s.SSO /\ k \in DOMAIN m
      /\ {IdOf[x] : x \in DOMAIN m} = {IdOf[x] : x \in DOMAIN GivenTo(i)}
      /\ \A x \in DOMAIN m : Untouched(i, x) \/ Arrived(i, x)
  <2>1. \E j \in DOMAIN s.SSO : \E x \in DOMAIN Accounts(j) : <<i, k>> = <<j, x>>
    BY <1>1, <1>3 DEF Visiting
  <2>2. i \in DOMAIN s.SSO /\ k \in DOMAIN m
    BY <2>1
  <2> QED
    BY <1>1, <1>3, <2>2 DEF Visiting
<1>5. /\ IsInstance(s.SSO[i]) /\ m = s.SSO[i].accounts
      /\ IsMap(m) /\ DOMAIN m \subseteq Key /\ \A x \in DOMAIN m : IsAccount(m[x])
  BY <1>3, <1>4 DEF IsSettings, IsInstance, Accounts
<1>6. id \in AccountId /\ id \in Key /\ IdOf[id] = id
  BY <1>1, <1>4, <1>5, SettingsAssumption
<1>7. IsAccount(a) /\ Refreshed(a, id) = a
  BY <1>4, <1>5, RefreshedTwice
<1>8. /\ IsMap(m2) /\ DOMAIN m2 = (DOMAIN m \ {k}) \cup {id}
      /\ m2[id] = a /\ \A x \in DOMAIN m2 \ {id} : m2[x] = m[x]
  BY DEF Renamed, IsMap
<1> HIDE DEF a, m2
<1>9. /\ IsMap(s') /\ DOMAIN s' = Options \cup {"SSO"} /\ \A o \in Options : s'[o] = s[o]
      /\ IsMap(s'.SSO) /\ DOMAIN s'.SSO = DOMAIN s.SSO
      /\ \A j \in DOMAIN s.SSO \ {i} : s'.SSO[j] = s.SSO[j]
      /\ IsMap(s'.SSO[i]) /\ DOMAIN s'.SSO[i] = DOMAIN s.SSO[i]
      /\ s'.SSO[i].action = s.SSO[i].action /\ s'.SSO[i].accounts = m2
  <2>1. DOMAIN s = Options \cup {"SSO"} /\ "SSO" \notin Options
    BY <1>3, OptionNames DEF IsSettings
  <2>2. DOMAIN s.SSO[i] = {"action", "region", "accounts"}
    BY <1>5 DEF IsInstance
  <2> QED
    BY <1>2, <1>4, <2>1, <2>2 DEF IsMap
<1>10. IsInstance(s'.SSO[i])
  <2>1. DOMAIN m2 \subseteq Key /\ \A x \in DOMAIN m2 : IsAccount(m2[x])
    BY <1>5, <1>6, <1>7, <1>8
  <2> QED
    BY <1>5, <1>8, <1>9, <2>1 DEF IsInstance
<1>11. IsSettings(s')
  <2>1. \A j \in DOMAIN s'.SSO : IsInstance(s'.SSO[j])
    BY <1>3, <1>9, <1>10 DEF IsSettings
  <2>2. \A o \in Options : s'[o] = s[o]
    BY <1>9
  <2> QED
    BY <1>3, <1>9, <2>1, <2>2, OptionNames DEF IsSettings
<1>12. Read'
  <2>1. Parsed' = Parsed /\ Layered(file)' = Layered(file)
    BY <1>1 DEF Parsed, WithWorkflow, defaultAuthWorkflow
  <2>2. s'.DefaultSSO = s.DefaultSSO
    BY <1>9, OptionNames
  <2>3. \A j \in DOMAIN s.SSO : s'.SSO[j].action = s.SSO[j].action
    BY <1>9
  <2> QED
    BY <1>1, <1>3, <1>9, <1>11, <2>1, <2>2, <2>3 DEF Read
<1>13. Loaded'
  <2>1. Parsed' = Parsed
    BY <1>1 DEF Parsed, WithWorkflow, defaultAuthWorkflow
  <2> QED
    BY <1>1, <1>9, <1>12, <2>1, OptionNames DEF SettingsInv, Loaded, Migrated
<1>14. GivenTo(i)' = GivenTo(i) /\ Accounts(i)' = m2
  BY <1>1, <1>9 DEF GivenTo, Accounts
<1>15. \A x \in DOMAIN GivenTo(i) : x # k /\ <<i, x>> \in todo => <<i, x>> \in todo'
  BY <1>1
<1>16. Arrived(i, id)'
  <2>1. CASE Untouched(i, k)
    <3>1. k \in DOMAIN GivenTo(i) /\ a = Refreshed(GivenTo(i)[k], id)
      BY <2>1 DEF Untouched, a
    <3>2. k = id => \A l \in DOMAIN GivenTo(i) \ {id} : IdOf[l] = id => <<i, l>> \in todo'
      BY <1>15, <2>1 DEF Untouched
    <3> QED
      BY <1>6, <1>8, <1>14, <3>1, <3>2 DEF Arrived
  <2>2. CASE Arrived(i, k)
    <3>1. k = id
      BY <1>6, <2>2, SettingsAssumption DEF Arrived
    <3>2. PICK j \in DOMAIN GivenTo(i) :
            /\ IdOf[j] = k /\ m[k] = Refreshed(GivenTo(i)[j], k)
            /\ j = k => \A l \in DOMAIN GivenTo(i) \ {k} : IdOf[l] = k => <<i, l>> \in todo
      BY <2>2 DEF Arrived
    <3>3. IsAccount(GivenTo(i)[j])
      BY <1>3, <1>4, <3>2, FileTyped DEF Read, GivenTo
    <3>4. a = m[k]
      <4>1. Refreshed(Refreshed(GivenTo(i)[j], k), k) = Refreshed(GivenTo(i)[j], k)
        BY <3>3, RefreshedTwice
      <4> QED
        BY <3>1, <3>2, <4>1 DEF a
    <3> QED
      BY <1>6, <1>8, <1>14, <1>15, <3>1, <3>2, <3>4 DEF Arrived
  <2> QED
    BY <1>4, <2>1, <2>2
<1>17. ASSUME NEW x \in DOMAIN m2, x # id
       PROVE  Untouched(i, x)' \/ Arrived(i, x)'
  <2>1. x \in DOMAIN m /\ x # k /\ m2[x] = m[x]
    BY <1>8, <1>17
  <2>2. CASE Untouched(i, x)
    <3>1. <<i, x>> \in todo'
      BY <1>15, <2>1, <2>2 DEF Untouched
    <3>2. IdOf[x] = x => \A j \in DOMAIN GivenTo(i) : IdOf[j] = x => <<i, j>> \in todo'
      BY <1>15, <1>17, <2>2 DEF Untouched
    <3> QED
      BY <1>14, <2>1, <2>2, <3>1, <3>2 DEF Untouched
  <2>3. CASE Arrived(i, x)
    <3>1. PICK j \in DOMAIN GivenTo(i) :
            /\ IdOf[j] = x /\ m[x] = Refreshed(GivenTo(i)[j], x)
            /\ j = x => \A l \in DOMAIN GivenTo(i) \ {x} : IdOf[l] = x => <<i, l>> \in todo
      BY <2>3 DEF Arrived
    <3>2. j = x => \A l \in DOMAIN GivenTo(i) \ {x} : IdOf[l] = x => <<i, l>> \in todo'
      BY <1>15, <1>17, <3>1
    <3> QED
      BY <1>14, <2>1, <2>3, <3>1, <3>2 DEF Arrived
  <2> QED
    BY <1>4, <2>1, <2>2, <2>3
<1>18. {IdOf[x] : x \in DOMAIN m2} = {IdOf[x] : x \in DOMAIN m}
  BY <1>4, <1>6, <1>8
<1>19. ASSUME NEW j \in DOMAIN s.SSO, j # i
       PROVE  /\ GivenTo(j)' = GivenTo(j) /\ Accounts(j)' = Accounts(j)
              /\ \A x \in DOMAIN Accounts(j) : Untouched(j, x)' \/ Arrived(j, x)'
  <2>1. GivenTo(j)' = GivenTo(j) /\ Accounts(j)' = Accounts(j)
    BY <1>1, <1>9, <1>19 DEF GivenTo, Accounts
  <2>2. \A x : <<j, x>> \in todo' <=> <<j, x>> \in todo
    BY <1>1, <1>19
  <2>3. \A x \in DOMAIN Accounts(j) : Untouched(j, x) \/ Arrived(j, x)
    BY <1>1, <1>3, <1>19 DEF Visiting
  <2> QED
    BY <2>1, <2>2, <2>3 DEF Untouched, Arrived
<1>20. \A p \in todo' : \E j \in DOMAIN s'.SSO : \E x \in DOMAIN Accounts(j)' : p = <<j, x>>
  <2> SUFFICES ASSUME NEW p \in todo'
               PROVE  \E j \in DOMAIN s'.SSO : \E x \in DOMAIN Accounts(j)' : p = <<j, x>>
    OBVIOUS
  <2>1. CASE p = <<i, id>>
    BY <1>4, <1>8, <1>9, <1>14, <2>1
  <2>2. CASE p # <<i, id>>
    <3>1. p \in todo /\ p # <<i, k>>
      BY <1>1, <2>2
    <3>2. PICK j, x : j \in DOMAIN s.SSO /\ x \in DOMAIN Accounts(j) /\ p = <<j, x>>
      BY <1>1, <1>3, <3>1 DEF Visiting
    <3>3. j = i => x \in DOMAIN m2
      BY <1>8, <3>1, <3>2
    <3>4. x \in DOMAIN Accounts(j)'
      BY <1>14, <1>19, <3>2, <3>3
    <3> QED
      BY <1>9, <3>2, <3>4
  <2> QED
    BY <2>1, <2>2
<1>21. Visiting'
  <2>1. ASSUME NEW j \in DOMAIN s.SSO
        PROVE  /\ {IdOf[x] : x \in DOMAIN Accounts(j)'} = {IdOf[x] : x \in DOMAIN GivenTo(j)'}
               /\ \A x \in DOMAIN Accounts(j)' : Untouched(j, x)' \/ Arrived(j, x)'
    <3>1. CASE j = i
      BY <1>4, <1>14, <1>16, <1>17, <1>18, <3>1
    <3>2. CASE j # i
      <4>1. {IdOf[x] : x \in DOMAIN Accounts(j)} = {IdOf[x] : x \in DOMAIN GivenTo(j)}
        BY <1>1, <1>3 DEF Visiting
      <4> QED
        BY <1>19, <3>2, <4>1
    <3> QED
      BY <3>1, <3>2
  <2>2. IdOf' = IdOf
    OBVIOUS
  <2> QED
    BY <1>9, <1>20, <2>1 DEF Visiting
<1>22. s' # Nil
  BY <1>9, NilApart
<1>23. SettingsTypeOK' /\ Written' /\ AccountsKept'
  BY <1>1, <1>11, <1>22 DEF SettingsInv, SettingsTypeOK, Written, AccountsKept
<1> QED
  BY <1>13, <1>21, <1>23 DEF SettingsInv

(* What the old options turn into; the rest stays as it is.                *)
LEMMA MigrationTyped ==
  ASSUME NEW c, IsSettings(c), NEW d, d = Tracking(applyDeprecations(c))
  PROVE  /\ IsSettings(d) /\ d.SSO = c.SSO
         /\ \A o \in Options \ Migrated : d[o] = c[o]
         /\ d.FirefoxOpenUrlInContainer = FALSE
         /\ d.UrlAction = IF c.FirefoxOpenUrlInContainer THEN "container" ELSE c.UrlAction
         /\ c.ConfigProfilesUrlAction # "" =>
              /\ d.ConfigProfilesUrlAction = c.ConfigProfilesUrlAction
              /\ d.ConfigUrlAction = c.ConfigUrlAction
<1> DEFINE old == c.ConfigUrlAction # "" /\ c.ConfigProfilesUrlAction = ""
           p == IF old THEN NewProfilesAction(c.ConfigUrlAction) ELSE c.ConfigProfilesUrlAction
           u == IF c.FirefoxOpenUrlInContainer THEN "container" ELSE c.UrlAction
           v == IF old THEN "" ELSE c.ConfigUrlAction
           e == [c EXCEPT !.ConfigProfilesUrlAction = p, !.ConfigUrlAction = v,
                          !.UrlAction = u, !.FirefoxOpenUrlInContainer = FALSE]
           q == IF p = "" THEN ProfilesAction(u) ELSE p
<1>1. /\ DOMAIN c = Options \cup {"SSO"} /\ IsMap(c)
      /\ c.UrlAction \in Actions /\ c.ConfigProfilesUrlAction \in Actions
      /\ c.ConfigUrlAction \in Actions
  BY DEF IsSettings
<1>2. p \in Actions /\ u \in Actions /\ v \in Actions /\ q \in Actions
  BY <1>1 DEF Actions, NewProfilesAction, ProfilesAction
<1>3. c.ConfigProfilesUrlAction # "" => q = c.ConfigProfilesUrlAction /\ v = c.ConfigUrlAction
  OBVIOUS
<1>4. applyDeprecations(c) = e
  BY DEF applyDeprecations
<1> HIDE DEF p, u, v
<1>5. /\ DOMAIN e = DOMAIN c /\ e.ConfigProfilesUrlAction = p /\ e.ConfigUrlAction = v
      /\ e.UrlAction = u /\ e.FirefoxOpenUrlInContainer = FALSE
      /\ \A o \in DOMAIN c \ Migrated : e[o] = c[o]
  BY <1>1, OptionNames DEF Migrated
<1> HIDE DEF e
<1>6. d = [e EXCEPT !.ConfigProfilesUrlAction = q]
  BY <1>4, <1>5 DEF Tracking
<1> HIDE DEF q
<1>7. /\ IsMap(d) /\ DOMAIN d = DOMAIN c
      /\ d.ConfigProfilesUrlAction = q /\ d.ConfigUrlAction = v
      /\ d.UrlAction = u /\ d.FirefoxOpenUrlInContainer = FALSE
      /\ \A o \in DOMAIN c \ Migrated : d[o] = c[o]
  BY <1>1, <1>5, <1>6, OptionNames DEF Migrated, IsMap
<1>8. d.SSO = c.SSO /\ d.UrlExecCommand = c.UrlExecCommand
  BY <1>1, <1>7, OptionNames DEF Migrated
<1>9. IsSettings(d)
  BY <1>1, <1>2, <1>7, <1>8 DEF IsSettings
<1> QED
  BY <1>1, <1>3, <1>7, <1>8, <1>9, OptionNames DEF u

(* Keys that are IDs.                                                      *)
LEMMA UnderTheirIds ==
  ASSUME NEW S, \A k \in S : IdOf[k] = k
  PROVE  {IdOf[k] : k \in S} = S
OBVIOUS

(* When every account was visited they are as AccountsKept says.           *)
LEMMA AllArrived ==
  ASSUME SettingsInv, loading = "refresh", todo = {}, NEW i \in DOMAIN s.SSO
  PROVE  /\ DOMAIN Accounts(i) = {IdOf[k] : k \in DOMAIN GivenTo(i)}
         /\ \A id \in DOMAIN Accounts(i) :
              /\ Complete(Accounts(i)[id], id)
              /\ LET spelt == {k \in DOMAIN GivenTo(i) : IdOf[k] = id}
                 IN \E k \in IF spelt = {id} THEN spelt ELSE spelt \ {id} :
                      Accounts(i)[id] = Refreshed(GivenTo(i)[k], id)
<1>1. Read /\ Visiting
  BY DEF SettingsInv, Loaded
<1>2. \A id \in DOMAIN Accounts(i) : Arrived(i, id)
  BY <1>1 DEF Visiting, Untouched
<1>3. {IdOf[k] : k \in DOMAIN Accounts(i)} = {IdOf[k] : k \in DOMAIN GivenTo(i)}
  BY <1>1 DEF Visiting
<1>4. \A id \in DOMAIN Accounts(i) : id \in AccountId /\ IdOf[id] = id
  BY <1>2, SettingsAssumption DEF Arrived
<1>5. DOMAIN Accounts(i) = {IdOf[k] : k \in DOMAIN Accounts(i)}
  BY <1>4
<1>6. ASSUME NEW id \in DOMAIN Accounts(i)
      PROVE  /\ Complete(Accounts(i)[id], id)
             /\ LET spelt == {k \in DOMAIN GivenTo(i) : IdOf[k] = id}
                IN \E k \in IF spelt = {id} THEN spelt ELSE spelt \ {id} :
                     Accounts(i)[id] = Refreshed(GivenTo(i)[k], id)
  <2>1. PICK j \in DOMAIN GivenTo(i) :
          /\ IdOf[j] = id /\ Accounts(i)[id] = Refreshed(GivenTo(i)[j], id)
          /\ j = id => \A l \in DOMAIN GivenTo(i) \ {id} : IdOf[l] # id
    BY <1>2 DEF Arrived
  <2>2. IsAccount(GivenTo(i)[j])
    BY <1>1, FileTyped DEF Read, GivenTo
  <2>3. Complete(Accounts(i)[id], id)
    <3>1. Refreshed(Refreshed(GivenTo(i)[j], id), id) = Refreshed(GivenTo(i)[j], id)
      BY <2>2, RefreshedTwice
    <3> QED
      BY <1>4, <2>1, <3>1 DEF Complete
  <2> DEFINE spelt == {k \in DOMAIN GivenTo(i) : IdOf[k] = id}
  <2>4. j \in spelt /\ (j = id => spelt = {id})
    BY <2>1
  <2>5. j \in IF spelt = {id} THEN spelt ELSE spelt \ {id}
    BY <2>4
  <2> QED
    BY <2>1, <2>3, <2>5
<1> QED
  BY <1>3, <1>5, <1>6

(* What is left of LoadSettings, which refuses nothing that was saved.     *)
LEMMA LoadEndsKeeps ==
  ASSUME SettingsInv, LoadEnds
  PROVE  SettingsInv'
<1> DEFINE l == Layered(file)
<1>1. /\ loading = "refresh" /\ todo = {} /\ s' = Tracking(applyDeprecations(s))
      /\ loading' = (IF Validate(s') THEN "ready" ELSE "failed")
      /\ UNCHANGED <<file, todo, remote, override, wrote>>
  BY DEF LoadEnds
<1>2. Read /\ IsFile(file) /\ IsSettings(s) /\ \A o \in Migrated : s[o] = Parsed[o]
  BY <1>1 DEF SettingsInv, Loaded, Read
<1>3. /\ IsSettings(s') /\ s'.SSO = s.SSO
      /\ \A o \in Options \ Migrated : s'[o] = s[o]
      /\ s'.FirefoxOpenUrlInContainer = FALSE
      /\ s'.UrlAction = IF s.FirefoxOpenUrlInContainer THEN "container" ELSE s.UrlAction
      /\ s.ConfigProfilesUrlAction # "" =>
           /\ s'.ConfigProfilesUrlAction = s.ConfigProfilesUrlAction
           /\ s'.ConfigUrlAction = s.ConfigUrlAction
  BY <1>1, <1>2, MigrationTyped
<1>4. Parsed' = Parsed /\ Layered(file)' = l
  BY <1>1 DEF Parsed, WithWorkflow, defaultAuthWorkflow
<1>5. /\ \A o \in Migrated : s[o] = l[o]
      /\ Parsed.AuthWorkflow = defaultAuthWorkflow(l.AuthWorkflow, "AuthWorkflow" \in DOMAIN file)
  <2>1. IsMap(l) /\ DOMAIN l = Options \cup {"SSO"}
    BY <1>2 DEF IsFile, IsSettings
  <2> HIDE DEF l
  <2>2. Parsed = WithWorkflow(l, file)
    BY DEF Parsed, l
  <2> QED
    BY <1>2, <2>1, <2>2, OptionNames DEF Migrated, WithWorkflow
<1> HIDE DEF l
<1>6. Read'
  <2>1. \A o \in Options \ (Migrated \cup {"DefaultSSO"}) : s'[o] = Parsed[o]
    BY <1>2, <1>3 DEF Read
  <2>2. s'.DefaultSSO = s.DefaultSSO
    BY <1>3, OptionNames DEF Migrated
  <2> QED
    BY <1>1, <1>2, <1>3, <1>4, <2>1, <2>2 DEF Read, l
<1>7. MigratedFrom(l)'
  <2>1. /\ s.FirefoxOpenUrlInContainer = l.FirefoxOpenUrlInContainer
        /\ s.UrlAction = l.UrlAction
        /\ s.ConfigProfilesUrlAction = l.ConfigProfilesUrlAction
        /\ s.ConfigUrlAction = l.ConfigUrlAction
    BY <1>5 DEF Migrated
  <2>2. l' = l
    BY <1>4 DEF l
  <2> QED
    BY <1>3, <2>1, <2>2 DEF MigratedFrom
<1>8. /\ AccountsKept' /\ AllComplete(s)'
  <2>1. \A i \in DOMAIN s'.SSO : i \in DOMAIN s.SSO /\ Accounts(i)' = Accounts(i)
    BY <1>3 DEF Accounts
  <2>2. ASSUME NEW i \in DOMAIN s.SSO
        PROVE  /\ \A id \in DOMAIN s'.SSO[i].accounts : Complete(s'.SSO[i].accounts[id], id)
               /\ DOMAIN Accounts(i)' = {IdOf[k] : k \in DOMAIN file'.SSO[i].accounts}
               /\ \A id \in DOMAIN Accounts(i)' :
                    LET spelt == {k \in DOMAIN file'.SSO[i].accounts : IdOf[k] = id}
                    IN \E k \in IF spelt = {id} THEN spelt ELSE spelt \ {id} :
                         Accounts(i)'[id] = Refreshed(file'.SSO[i].accounts[k], id)
    <3>1. Accounts(i)' = Accounts(i) /\ s'.SSO[i].accounts = Accounts(i)
      BY <1>3 DEF Accounts
    <3>2. file'.SSO[i].accounts = GivenTo(i)
      BY <1>1 DEF GivenTo
    <3>3. /\ DOMAIN Accounts(i) = {IdOf[k] : k \in DOMAIN GivenTo(i)}
          /\ \A id \in DOMAIN Accounts(i) :
               /\ Complete(Accounts(i)[id], id)
               /\ LET spelt == {k \in DOMAIN GivenTo(i) : IdOf[k] = id}
                  IN \E k \in IF spelt = {id} THEN spelt ELSE spelt \ {id} :
                       Accounts(i)[id] = Refreshed(GivenTo(i)[k], id)
      BY <1>1, AllArrived
    <3> QED
      BY <3>1, <3>2, <3>3, Zenon
  <2>3. AllComplete(s)'
    BY <1>3, <2>2 DEF AllComplete, Complete, Refreshed
  <2>4. AccountsKept'
    BY <1>3, <2>2 DEF AccountsKept, Refreshed
  <2> QED
    BY <2>3, <2>4
<1>9. Loaded'
  BY <1>1, <1>4, <1>6, <1>7, <1>8 DEF Loaded, l
<1>10. wrote # Nil /\ override = "" => Validate(s')
  <2> SUFFICES ASSUME wrote # Nil, override = "" PROVE Validate(s')
    OBVIOUS
  <2>1. Sound(wrote) /\ file = Saved(wrote) /\ IsSettings(wrote)
    BY DEF SettingsInv, Written, Sound
  <2>2. \A o \in Options : l[o] = IF o = "UrlAction" \/ wrote[o] # Zero[o] THEN wrote[o]
                                  ELSE Beneath(o)
    BY <2>1, SavedFields DEF l
  <2>3. /\ l.UrlAction = wrote.UrlAction
        /\ l.ConfigProfilesUrlAction =
             IF wrote.ConfigProfilesUrlAction # "" THEN wrote.ConfigProfilesUrlAction ELSE "open"
        /\ l.FirefoxOpenUrlInContainer = FALSE
        /\ l.AuthWorkflow = wrote.AuthWorkflow
    <3>1. /\ Zero.ConfigProfilesUrlAction = "" /\ Zero.AuthWorkflow = ""
          /\ Beneath("AuthWorkflow") = ""
      BY DEF Zero, Beneath, Defaults
    <3>2. wrote.FirefoxOpenUrlInContainer = FALSE
      BY <2>1 DEF Sound, IsSettings
    <3>3. Zero.FirefoxOpenUrlInContainer = FALSE
      BY DEF Zero
    <3> QED
      BY <2>2, <3>1, <3>2, <3>3, OptionNames, BeneathTyped
  <2>4. /\ s'.UrlAction = wrote.UrlAction
        /\ s'.ConfigProfilesUrlAction = l.ConfigProfilesUrlAction
    <3>1. /\ s.FirefoxOpenUrlInContainer = l.FirefoxOpenUrlInContainer
          /\ s.UrlAction = l.UrlAction
          /\ s.ConfigProfilesUrlAction = l.ConfigProfilesUrlAction
      BY <1>5 DEF Migrated
    <3> QED
      BY <1>3, <2>3, <3>1
  <2>5. s'.AuthWorkflow \in {"pkce", "device_code"}
    <3>1. s'.AuthWorkflow = Parsed.AuthWorkflow
      BY <1>2, <1>3, OptionNames DEF Read, Migrated
    <3>2. l.AuthWorkflow \in {"", "pkce", "device_code"}
      BY <2>1, <2>3 DEF Sound, Validate
    <3> QED
      BY <1>5, <3>1, <3>2 DEF defaultAuthWorkflow
  <2>6. IsContainer(wrote.UrlAction) # IsContainer(wrote.ConfigProfilesUrlAction)
          => "exec" \notin {wrote.UrlAction, wrote.ConfigProfilesUrlAction}
    BY <2>1 DEF Sound, Validate
  <2> QED
    BY <2>3, <2>4, <2>5, <2>6 DEF Validate, IsContainer
<1>11. Written'
  BY <1>1, <1>10 DEF SettingsInv, Written
<1>12. s' # Nil
  BY <1>3, NilApart DEF IsSettings
<1>13. SettingsTypeOK' /\ Visiting'
  BY <1>1, <1>3, <1>12 DEF SettingsInv, SettingsTypeOK, Visiting
<1> QED
  BY <1>8, <1>9, <1>11, <1>13 DEF SettingsInv

(* The only instance there is.                                             *)
LEMMA OneIsSome ==
  ASSUME NEW S, Cardinality(S) = 1
  PROVE  S # {}
BY FS_EmptySet

(* What was saved can be read, and has an instance to choose.              *)
LEMMA LoadFailsKeeps ==
  ASSUME SettingsInv, LoadFails
  PROVE  SettingsInv'
<1> DEFINE l == Layered(file)
<1>1. /\ loading = "load" /\ loading' = "failed"
      /\ UNCHANGED <<file, s, todo, remote, override, wrote>>
      /\ file = Broken \/ Selected(Overridden(l)) = {}
  BY DEF LoadFails
<1>2. ~(wrote # Nil /\ override = "")
  <2> SUFFICES ASSUME wrote # Nil, override = "" PROVE FALSE
    OBVIOUS
  <2>1. Sound(wrote) /\ file = Saved(wrote) /\ IsSettings(wrote)
    BY DEF SettingsInv, Written, Sound
  <2>2. /\ file # Broken /\ l.SSO = wrote.SSO
        /\ l.DefaultSSO = IF wrote.DefaultSSO # "" THEN wrote.DefaultSSO ELSE "Default"
    <3>1. IsFile(file) /\ file.SSO = wrote.SSO
      BY <2>1, SavedFields
    <3>2. Zero.DefaultSSO = "" /\ Beneath("DefaultSSO") = "Default"
      BY DEF Zero, Beneath, Defaults
    <3>3. l.DefaultSSO = IF wrote.DefaultSSO # "" THEN wrote.DefaultSSO ELSE "Default"
      BY <2>1, <3>2, SavedFields, OptionNames
    <3> QED
      BY <3>1, <3>3, LayeredFields, NilApart DEF IsFile
  <2>3. Selected(l) = {}
    BY <1>1, <2>2 DEF Overridden
  <2> HIDE DEF l
  <2>4. l.DefaultSSO \notin DOMAIN wrote.SSO
    BY <2>2, <2>3 DEF Selected
  <2>5. CASE wrote.DefaultSSO \in DOMAIN wrote.SSO
    BY <2>1, <2>2, <2>4, <2>5 DEF IsSettings
  <2>6. CASE Cardinality(DOMAIN wrote.SSO) = 1
    <3>1. DOMAIN wrote.SSO = {}
      BY <2>2, <2>3, <2>4, <2>6 DEF Selected
    <3> QED
      BY <2>6, <3>1, OneIsSome, Zenon
  <2> QED
    BY <2>1, <2>5, <2>6 DEF Sound
<1>3. Written'
  BY <1>1, <1>2 DEF SettingsInv, Written
<1> QED
  BY <1>1, <1>3 DEF SettingsInv, SettingsTypeOK, AccountsKept, Visiting, Loaded

(* Its accounts are all under their IDs.                                   *)
LEMMA RefreshFailsKeeps ==
  ASSUME SettingsInv, RefreshFails
  PROVE  SettingsInv'
<1>1. /\ loading = "refresh" /\ loading' = "failed"
      /\ UNCHANGED <<file, s, todo, remote, override, wrote>>
      /\ \E p \in todo : IdOf[p[2]] = NoId
  BY DEF RefreshFails
<1>2. ~(wrote # Nil /\ override = "")
  <2> SUFFICES ASSUME wrote # Nil, override = "" PROVE FALSE
    OBVIOUS
  <2>1. Sound(wrote) /\ file = Saved(wrote) /\ IsSettings(wrote)
    BY DEF SettingsInv, Written, Sound
  <2>2. Read /\ Visiting
    BY <1>1 DEF SettingsInv, Loaded
  <2>3. PICK i, k : i \in DOMAIN s.SSO /\ k \in DOMAIN Accounts(i) /\ IdOf[k] = NoId
    <3>1. PICK p \in todo : IdOf[p[2]] = NoId
      BY <1>1
    <3>2. PICK i, k : i \in DOMAIN s.SSO /\ k \in DOMAIN Accounts(i) /\ p = <<i, k>>
      BY <1>1, <2>2 DEF Visiting
    <3> QED
      BY <3>1, <3>2
  <2>4. k \in AccountId
    <3>1. CASE Untouched(i, k)
      <4>1. file.SSO = wrote.SSO
        BY <2>1, SavedFields
      <4>2. i \in DOMAIN wrote.SSO /\ k \in DOMAIN wrote.SSO[i].accounts
        BY <2>2, <2>3, <3>1, <4>1 DEF Untouched, GivenTo, Read
      <4> QED
        BY <2>1, <4>2 DEF Sound, AllComplete, Complete
    <3>2. CASE Arrived(i, k)
      BY <3>2 DEF Arrived
    <3> QED
      BY <1>1, <2>2, <2>3, <3>1, <3>2 DEF Visiting
  <2> QED
    BY <2>3, <2>4, SettingsAssumption
<1>3. Written'
  BY <1>1, <1>2 DEF SettingsInv, Written
<1> QED
  BY <1>1, <1>3 DEF SettingsInv, SettingsTypeOK, AccountsKept, Visiting, Loaded

(* Each step of LoadSettings.                                              *)
LEMMA LoadStepKeeps ==
  ASSUME SettingsInv, LoadStep
  PROVE  SettingsInv'
BY LoadKeeps, LoadFailsKeeps, RefreshFailsKeeps, LoadEndsKeeps, RefreshKeeps DEF LoadStep

-----------------------------------------------------------------------------
(* From one execution to the next.                                         *)

(* main, before it loads anything.                                         *)
LEMMA StartKeeps ==
  ASSUME SettingsInv, NEW host \in BOOLEAN, NEW instance \in Instances \cup {""},
         StartSettings(host, instance)
  PROVE  SettingsInv'
<1>1. /\ loading = "off" /\ loading' = (IF file = Nil THEN "no config" ELSE "load")
      /\ remote' = host /\ override' = instance /\ UNCHANGED <<file, s, todo, wrote>>
  BY DEF StartSettings
<1>2. Written'
  BY <1>1 DEF SettingsInv, Written
<1> QED
  BY <1>1, <1>2 DEF SettingsInv, SettingsTypeOK, AccountsKept, Visiting, Loaded

(* An end that leaves the file alone, or saves what can be loaded.         *)
LEMMA EndKeeps ==
  ASSUME SettingsInv, EndSettings,
         \/ UNCHANGED <<file, wrote>>
         \/ \E c : Sound(c) /\ Save(c)
  PROVE  SettingsInv'
<1>1. loading' = "off" /\ s' = Nil /\ todo' = {} /\ remote' = FALSE /\ override' = ""
  BY DEF EndSettings
<1>2. AccountsKept' /\ Visiting' /\ Loaded'
  BY <1>1 DEF AccountsKept, Visiting, Loaded
<1>3. CASE UNCHANGED <<file, wrote>>
  BY <1>1, <1>2, <1>3 DEF SettingsInv, SettingsTypeOK, Written
<1>4. ASSUME NEW c, Sound(c), Save(c)
      PROVE  SettingsInv'
  <2>1. (file \in {Nil, Broken} \/ IsFile(file))' /\ (wrote = Nil \/ IsSettings(wrote))'
    BY <1>4, SavedFields DEF Save, Sound
  <2>2. Written'
    <3>1. CASE file' = Saved(c) /\ wrote' = c
      BY <1>1, <1>4, <3>1 DEF Written
    <3>2. CASE wrote' = Nil
      BY <3>2 DEF Written
    <3> QED
      BY <1>4, <3>1, <3>2 DEF Save
  <2> QED
    BY <1>1, <1>2, <2>1, <2>2 DEF SettingsInv, SettingsTypeOK
<1> QED
  BY <1>3, <1>4

(* A command is missing where the action is to run one.                    *)
Faulty(c) ==
  c.UrlExecCommand = "none" /\ (c.UrlAction \in {"exec", "container"} \/ c.FirefoxOpenUrlInContainer)

(* The wizard leaves most of it alone, and asks for the command that an    *)
(* action needs whenever it asks for the action.                           *)
LEMMA PromptedKeeps ==
  ASSUME NEW c, IsSettings(c), NEW advanced \in BOOLEAN, NEW d \in Prompted(c, advanced)
  PROVE  /\ IsSettings(d) /\ d.SSO = c.SSO
         /\ d.DefaultSSO = c.DefaultSSO /\ d.AuthWorkflow = c.AuthWorkflow
         /\ d.FirefoxOpenUrlInContainer = c.FirefoxOpenUrlInContainer
         /\ Faulty(d) /\ ~c.FirefoxOpenUrlInContainer => Faulty(c)
<1>1. IsMap(c) /\ DOMAIN c = Options \cup {"SSO"}
  BY DEF IsSettings
<1>2. PICK e, f, h :
        /\ e = c \/ e \in promptOpen(c)
        /\ d = WithFormat(e, f, h)
  <2> DEFINE opens == IF remote \/ advanced THEN promptOpen(c) ELSE {c}
             refreshes == IF advanced THEN promptCacheRefresh(c.CacheRefresh) ELSE {c.CacheRefresh}
  <2>1. d \in {WithFormat(e, f, h) :
                e \in opens, f \in promptProfileFormat(c.ProfileFormat), h \in refreshes}
    BY DEF Prompted
  <2>2. \A e \in opens : e = c \/ e \in promptOpen(c)
    OBVIOUS
  <2> HIDE DEF opens, refreshes
  <2>3. PICK e, f, h : e \in opens /\ d = WithFormat(e, f, h)
    BY <2>1
  <2> QED
    BY <2>2, <2>3
<1>3. /\ IsMap(e) /\ DOMAIN e = DOMAIN c
      /\ \A o \in DOMAIN c \ {"UrlAction", "ConfigProfilesUrlAction", "UrlExecCommand"} : e[o] = c[o]
      /\ e.UrlAction \in Actions /\ e.ConfigProfilesUrlAction \in Actions
      /\ e.UrlExecCommand \in Commands
      /\ \/ e = c
         \/ e.UrlAction \in {"exec", "container"} => e.UrlExecCommand # "none"
  <2>1. CASE e = c
    BY <1>1, <2>1 DEF IsSettings
  <2>2. CASE e \in promptOpen(c)
    <3> DEFINE profiles(u) == IF remote THEN {c.ConfigProfilesUrlAction}
                              ELSE promptConfigProfilesUrlAction(u)
               opened(u) ==
                 {Opening(c, u, p, x) : p \in profiles(u), x \in UrlCommands(u)}
    <3>1. PICK u \in promptUrlAction : e \in opened(u)
      <4>1. e \in UNION {opened(u) : u \in promptUrlAction}
        BY <2>2 DEF promptOpen
      <4> HIDE DEF opened
      <4> QED
        BY <4>1
    <3>2. PICK p \in profiles(u), x \in UrlCommands(u) : e = Opening(c, u, p, x)
      BY <3>1
    <3>3. u \in Actions /\ p \in Actions
      BY DEF promptUrlAction, promptConfigProfilesUrlAction, Actions, IsSettings
    <3>4. x \in Commands /\ (u \in {"exec", "container"} => x # "none")
      BY DEF UrlCommands, promptUrlExecCommand, promptUseFirefox, Commands, IsContainer
    <3> QED
      BY <1>1, <3>2, <3>3, <3>4, OptionNames DEF IsMap, Opening
  <2> QED
    BY <1>2, <2>1, <2>2
<1>4. /\ IsMap(d) /\ DOMAIN d = DOMAIN e
      /\ \A o \in DOMAIN e \ {"ProfileFormat", "CacheRefresh"} : d[o] = e[o]
  BY <1>2, <1>3 DEF IsMap, WithFormat
<1>5. /\ d.SSO = c.SSO
      /\ d.DefaultSSO = c.DefaultSSO /\ d.AuthWorkflow = c.AuthWorkflow
      /\ d.FirefoxOpenUrlInContainer = c.FirefoxOpenUrlInContainer
      /\ d.ConfigUrlAction = c.ConfigUrlAction
      /\ d.UrlAction = e.UrlAction /\ d.ConfigProfilesUrlAction = e.ConfigProfilesUrlAction
      /\ d.UrlExecCommand = e.UrlExecCommand
  BY <1>1, <1>3, <1>4, OptionNames
<1>6. IsSettings(d)
  BY <1>1, <1>3, <1>4, <1>5 DEF IsSettings
<1>7. Faulty(d) /\ ~c.FirefoxOpenUrlInContainer => Faulty(c)
  BY <1>3, <1>5 DEF Faulty
<1> QED
  BY <1>5, <1>6, <1>7

(* What the first wizard starts from can be used.                          *)
LEMMA FreshTyped ==
  ASSUME NEW n, n # ""
  PROVE  /\ IsSettings(Fresh(n)) /\ ~Fresh(n).FirefoxOpenUrlInContainer
         /\ Fresh(n).DefaultSSO = "" /\ Cardinality(DOMAIN Fresh(n).SSO) = 1
         /\ AllComplete(Fresh(n)) /\ ~Faulty(Fresh(n))
<1> DEFINE instance == [action |-> "", region |-> "", accounts |-> <<>>]
           sso == [i \in {n} |-> instance]
           top == [UrlAction |-> "open", CacheRefresh |-> "168",
                   ProfileFormat |-> "default", SSO |-> sso]
           c == Fresh(n)
<1>1. IsMap(instance) /\ DOMAIN instance.accounts = {} /\ IsMap(instance.accounts)
      /\ DOMAIN instance = {"action", "region", "accounts"} /\ instance.action = ""
  <2>1. /\ IsMap(instance) /\ DOMAIN instance = {"action", "region", "accounts"}
        /\ instance.action = "" /\ instance.accounts = <<>>
    BY DEF IsMap
  <2> HIDE DEF instance
  <2> QED
    BY <2>1, EmptyMap
<1>2. IsInstance(instance)
  <2> HIDE DEF instance
  <2> QED
    BY <1>1 DEF IsInstance, Actions
<1> HIDE DEF instance
<1>3. IsMap(sso) /\ DOMAIN sso = {n} /\ sso[n] = instance
  BY DEF IsMap
<1> HIDE DEF sso
<1>4. /\ DOMAIN top = {"UrlAction", "CacheRefresh", "ProfileFormat", "SSO"}
      /\ top.UrlAction = "open" /\ top.SSO = sso
  OBVIOUS
<1>5. c = Overlay(top, Zero)
  BY DEF Fresh, instance, sso
<1> HIDE DEF c, top
<1>6. /\ IsMap(c) /\ DOMAIN c = Options \cup {"SSO"}
      /\ c.UrlAction = "open" /\ c.SSO = sso
      /\ \A o \in Options \ DOMAIN top : c[o] = Zero[o]
  <2>1. DOMAIN c = DOMAIN top \cup Options
    BY <1>5 DEF Overlay, Options
  <2>2. DOMAIN c = Options \cup {"SSO"}
    BY <1>4, <2>1, OptionNames
  <2> QED
    BY <1>4, <1>5, <2>1, <2>2 DEF Overlay, Options, IsMap
<1>7. /\ c.ConfigProfilesUrlAction = "" /\ c.ConfigUrlAction = "" /\ c.UrlExecCommand = "none"
      /\ c.FirefoxOpenUrlInContainer = FALSE /\ c.DefaultSSO = ""
  <2>1. /\ Zero.ConfigProfilesUrlAction = "" /\ Zero.ConfigUrlAction = ""
        /\ Zero.UrlExecCommand = "none" /\ Zero.FirefoxOpenUrlInContainer = FALSE
        /\ Zero.DefaultSSO = ""
    BY DEF Zero
  <2> QED
    BY <1>4, <1>6, <2>1, OptionNames
<1>8. IsSettings(c)
  BY <1>2, <1>3, <1>6, <1>7 DEF IsSettings, Actions, Commands
<1>9. AllComplete(c)
  BY <1>1, <1>3, <1>6 DEF AllComplete
<1>10. Cardinality({n}) = 1
  BY FS_Singleton
<1>11. ~Faulty(c)
  BY <1>6, <1>7 DEF Faulty
<1> QED
  BY <1>3, <1>6, <1>7, <1>8, <1>9, <1>10, <1>11 DEF c

(* The wizard of a first run, and the one that starts from the settings.   *)
LEMMA FirstWizardKeeps ==
  ASSUME SettingsInv, NEW advanced \in BOOLEAN, NEW only \in BOOLEAN,
         FirstWizard(advanced, only)
  PROVE  /\ SettingsInv'
         /\ file' = Broken \/ wrote' # Nil
         /\ wrote' # Nil => ~Faulty(wrote')
<1>1. /\ loading = "no config"
      /\ IF only THEN EndSettings ELSE loading' = "load" /\ UNCHANGED <<s, todo, remote, override>>
  BY DEF FirstWizard
<1>2. PICK n \in Instances \cup {"Default"} :
        \E c \in Prompted(Fresh(n), advanced) : Validate(c) /\ Save(c)
  BY DEF FirstWizard
<1>3. PICK c \in Prompted(Fresh(n), advanced) : Validate(c) /\ Save(c)
  BY <1>2
<1>4. n # ""
  BY SettingsAssumption
<1>5. Sound(c) /\ ~Faulty(c)
  <2>1. /\ IsSettings(Fresh(n)) /\ ~Fresh(n).FirefoxOpenUrlInContainer
        /\ Fresh(n).DefaultSSO = "" /\ Cardinality(DOMAIN Fresh(n).SSO) = 1
        /\ AllComplete(Fresh(n)) /\ ~Faulty(Fresh(n))
    BY <1>4, FreshTyped
  <2>2. /\ IsSettings(c) /\ c.SSO = Fresh(n).SSO /\ c.DefaultSSO = Fresh(n).DefaultSSO
        /\ c.FirefoxOpenUrlInContainer = Fresh(n).FirefoxOpenUrlInContainer
        /\ Faulty(c) /\ ~Fresh(n).FirefoxOpenUrlInContainer => Faulty(Fresh(n))
    BY <1>3, <2>1, PromptedKeeps
  <2> QED
    BY <1>3, <2>1, <2>2 DEF Sound, AllComplete
<1>6. (file' = Broken \/ wrote' # Nil) /\ (wrote' # Nil => ~Faulty(wrote'))
  BY <1>3, <1>5, NilApart DEF Save, Sound, IsSettings
<1>7. CASE only
  BY <1>1, <1>3, <1>5, <1>6, <1>7, EndKeeps
<1>8. CASE ~only
  <2>1. loading' = "load" /\ UNCHANGED <<s, todo, remote, override>> /\ s = Nil /\ todo = {}
    BY <1>1, <1>8 DEF SettingsInv, Loaded
  <2>2. /\ (file' = Broken \/ IsFile(file')) /\ file' # Nil
        /\ wrote' = Nil \/ (wrote' = c /\ file' = Saved(c))
    BY <1>3, <1>5, SavedFields, NilApart DEF Save, Sound, IsFile
  <2>3. Written'
    BY <1>5, <2>1, <2>2 DEF Written
  <2>4. SettingsTypeOK'
    BY <1>5, <2>1, <2>2 DEF SettingsInv, SettingsTypeOK, Sound
  <2>5. Loaded'
    BY <2>1, <2>2, NilApart DEF Loaded
  <2> QED
    BY <1>6, <2>1, <2>3, <2>4, <2>5 DEF SettingsInv, AccountsKept, Visiting
<1> QED
  BY <1>7, <1>8

(***************************************************************************)
(* The wizard on the settings that were loaded.  What it saves has no fault*)
(* that they had not.                                                      *)
(***************************************************************************)
LEMMA ReconfigureKeeps ==
  ASSUME SettingsInv, NEW advanced \in BOOLEAN, Reconfigure(advanced)
  PROVE  /\ SettingsInv'
         /\ \/ UNCHANGED <<file, wrote>>
            \/ file' = Broken /\ wrote' = Nil
            \/ wrote' # Nil /\ (Faulty(wrote') => Faulty(s))
<1>1. loading = "ready" /\ EndSettings
  BY DEF Reconfigure
<1>2. PICK c \in Prompted(s, advanced) : IF Validate(c) THEN Save(c) ELSE UNCHANGED <<file, wrote>>
  BY DEF Reconfigure
<1>3. /\ IsSettings(s) /\ s.DefaultSSO \in DOMAIN s.SSO
      /\ ~s.FirefoxOpenUrlInContainer /\ AllComplete(s)
  BY <1>1 DEF SettingsInv, Loaded, Read, MigratedFrom
<1>4. /\ IsSettings(c) /\ c.SSO = s.SSO /\ c.DefaultSSO = s.DefaultSSO
      /\ c.FirefoxOpenUrlInContainer = s.FirefoxOpenUrlInContainer
      /\ Faulty(c) => Faulty(s)
  BY <1>2, <1>3, PromptedKeeps
<1>5. CASE Validate(c)
  <2>1. Sound(c)
    BY <1>3, <1>4, <1>5 DEF Sound, AllComplete
  <2>2. SettingsInv'
    BY <1>1, <1>2, <1>5, <2>1, EndKeeps
  <2>3. c # Nil
    BY <1>4, NilApart DEF IsSettings
  <2> QED
    BY <1>2, <1>4, <1>5, <2>2, <2>3 DEF Save
<1>6. CASE ~Validate(c)
  BY <1>1, <1>2, <1>6, EndKeeps
<1> QED
  BY <1>5, <1>6

-----------------------------------------------------------------------------
(* What the invariant says when the settings are there.                    *)

(* Loaded settings are what LoadSettings promises.                         *)
LEMMA ReadyIsLoaded ==
  ASSUME SettingsInv
  PROVE  LoadedInv
<1>1. ASSUME loading = "ready" PROVE LoginPageAsConfigured
  BY <1>1 DEF SettingsInv, Loaded, Read, MigratedFrom, LoginPageAsConfigured
<1> QED
  BY <1>1 DEF SettingsInv, LoadedInv, LoginPageAsConfigured

(***************************************************************************)
(* What was saved comes back: an option that is not zero is in the file, no*)
(* migration is left to do, and the accounts are under their IDs already.  *)
(***************************************************************************)
LEMMA ReadyIsSaved ==
  ASSUME SettingsInv
  PROVE  SavedIsLoaded
<1> SUFFICES ASSUME wrote # Nil, override = "", loading = "ready"
             PROVE  /\ \A o \in Options : wrote[o] \in {Zero[o], s[o]}
                    /\ \A i \in DOMAIN wrote.SSO :
                         /\ s.SSO[i].accounts = wrote.SSO[i].accounts
                         /\ wrote.SSO[i].action \in {"", s.SSO[i].action}
  BY DEF SavedIsLoaded, SettingsInv, Written
<1> DEFINE l == Layered(file)
<1>1. Sound(wrote) /\ IsSettings(wrote) /\ file = Saved(wrote) /\ IsFile(file) /\ Read
      /\ MigratedFrom(l)
  BY SavedFields DEF SettingsInv, Written, Sound, Loaded, Read
<1>2. /\ file.SSO = wrote.SSO
      /\ IsMap(l) /\ DOMAIN l = Options \cup {"SSO"}
      /\ \A o \in Options : l[o] = IF o = "UrlAction" \/ wrote[o] # Zero[o] THEN wrote[o]
                                  ELSE Beneath(o)
  BY <1>1, SavedFields DEF IsFile, IsSettings
<1> HIDE DEF l
<1>3. /\ wrote.FirefoxOpenUrlInContainer = FALSE /\ l.FirefoxOpenUrlInContainer = FALSE
      /\ Zero.FirefoxOpenUrlInContainer = FALSE
      /\ l.UrlAction = wrote.UrlAction /\ l.ConfigProfilesUrlAction # ""
      /\ Zero.DefaultSSO = "" /\ Zero.AuthWorkflow = ""
  <2>1. /\ Zero.FirefoxOpenUrlInContainer = FALSE /\ Zero.ConfigProfilesUrlAction = ""
        /\ Zero.DefaultSSO = "" /\ Zero.AuthWorkflow = ""
    BY DEF Zero
  <2>2. wrote.FirefoxOpenUrlInContainer = FALSE
    BY <1>1 DEF Sound, IsSettings
  <2> QED
    BY <1>2, <2>1, <2>2, OptionNames, BeneathTyped
<1>4. ASSUME NEW o \in Options, wrote[o] # Zero[o]
      PROVE  wrote[o] = s[o]
  <2>1. l[o] = wrote[o]
    BY <1>2, <1>4
  <2>2. CASE o \notin Migrated \cup {"DefaultSSO", "AuthWorkflow"}
    <3>1. s[o] = Parsed[o]
      BY <1>1, <2>2 DEF Read
    <3>2. Parsed[o] = l[o]
      <4>1. Parsed = WithWorkflow(l, file)
        BY DEF Parsed, l
      <4> QED
        BY <1>2, <2>2, <4>1 DEF WithWorkflow
    <3> QED
      BY <2>1, <3>1, <3>2
  <2>3. CASE o = "AuthWorkflow"
    <3>1. s.AuthWorkflow = Parsed.AuthWorkflow
      BY <1>1, OptionNames DEF Read, Migrated
    <3>2. Parsed.AuthWorkflow = defaultAuthWorkflow(l.AuthWorkflow, "AuthWorkflow" \in DOMAIN file)
      <4>1. Parsed = WithWorkflow(l, file)
        BY DEF Parsed, l
      <4> QED
        BY <1>2, <4>1, OptionNames DEF WithWorkflow
    <3> QED
      BY <1>3, <1>4, <2>1, <2>3, <3>1, <3>2 DEF defaultAuthWorkflow
  <2>4. CASE o = "DefaultSSO"
    <3>1. wrote.DefaultSSO \in DOMAIN s.SSO
      BY <1>1, <1>2, <1>3, <1>4, <2>4 DEF Sound, Read
    <3> QED
      BY <1>1, <2>1, <2>4, <3>1 DEF Read, l
  <2>5. CASE o \in Migrated
    BY <1>1, <1>3, <1>4, <2>1, <2>5 DEF Migrated, MigratedFrom
  <2> QED
    BY <2>2, <2>3, <2>4, <2>5
<1>5. ASSUME NEW i \in DOMAIN wrote.SSO
      PROVE  /\ s.SSO[i].accounts = wrote.SSO[i].accounts
             /\ wrote.SSO[i].action \in {"", s.SSO[i].action}
  <2>1. /\ i \in DOMAIN s.SSO /\ GivenTo(i) = wrote.SSO[i].accounts
        /\ s.SSO[i].action = IF wrote.SSO[i].action # "" THEN wrote.SSO[i].action ELSE l.UrlAction
    BY <1>1, <1>2 DEF Read, GivenTo, l
  <2>2. IsMap(Accounts(i)) /\ IsMap(GivenTo(i)) /\ s.SSO[i].accounts = Accounts(i)
    BY <1>1, <2>1 DEF Read, IsSettings, IsInstance, Accounts
  <2>3. \A k \in DOMAIN GivenTo(i) :
          IdOf[k] = k /\ Refreshed(GivenTo(i)[k], k) = GivenTo(i)[k]
    <3>1. \A k \in DOMAIN GivenTo(i) : Complete(GivenTo(i)[k], k)
      BY <1>1, <2>1 DEF Sound, AllComplete
    <3> QED
      BY <3>1, SettingsAssumption DEF Complete
  <2>4. /\ DOMAIN Accounts(i) = {IdOf[k] : k \in DOMAIN GivenTo(i)}
        /\ \A id \in DOMAIN Accounts(i) :
             \E k \in DOMAIN GivenTo(i) :
               IdOf[k] = id /\ Accounts(i)[id] = Refreshed(GivenTo(i)[k], id)
    <3>1. LET config == file.SSO[i].accounts
          IN /\ DOMAIN Accounts(i) = {IdOf[k] : k \in DOMAIN config}
             /\ \A id \in DOMAIN Accounts(i) :
                  LET spelt == {k \in DOMAIN config : IdOf[k] = id}
                  IN \E k \in IF spelt = {id} THEN spelt ELSE spelt \ {id} :
                       Accounts(i)[id] = Refreshed(config[k], id)
      BY <2>1 DEF SettingsInv, AccountsKept
    <3> QED
      BY <3>1 DEF GivenTo
  <2>5. DOMAIN Accounts(i) = DOMAIN GivenTo(i)
    BY <2>3, <2>4, UnderTheirIds
  <2>6. \A k \in DOMAIN Accounts(i) : Accounts(i)[k] = GivenTo(i)[k]
    BY <2>3, <2>4
  <2>7. Accounts(i) = GivenTo(i)
    BY <2>2, <2>5, <2>6 DEF IsMap
  <2>8. s.SSO[i].accounts = wrote.SSO[i].accounts
    BY <2>1, <2>2, <2>7
  <2>9. wrote.SSO[i].action # "" => s.SSO[i].action = wrote.SSO[i].action
    BY <2>1
  <2> QED
    BY <2>8, <2>9
<1> QED
  BY <1>4, <1>5

(* A fault that the settings have their file had.                          *)
LEMMA FaultIsRead ==
  ASSUME SettingsInv, loading = "ready"
  PROVE  /\ s.UrlExecCommand = Layered(file).UrlExecCommand
         /\ s.FirefoxOpenUrlInContainer = FALSE
         /\ Faulty(s) => Faulty(Layered(file))
<1> DEFINE l == Layered(file)
<1>1. Read /\ MigratedFrom(l) /\ IsFile(file)
  BY DEF SettingsInv, Loaded, Read
<1>2. DOMAIN l = Options \cup {"SSO"} /\ Parsed = WithWorkflow(l, file)
  BY <1>1 DEF IsFile, IsSettings, Parsed
<1> HIDE DEF l
<1>3. s.UrlExecCommand = Parsed.UrlExecCommand /\ Parsed.UrlExecCommand = l.UrlExecCommand
  BY <1>1, <1>2, OptionNames DEF Read, Migrated, WithWorkflow
<1>4. s.FirefoxOpenUrlInContainer = FALSE
  BY <1>1 DEF MigratedFrom, Read, IsSettings
<1> QED
  BY <1>1, <1>3, <1>4 DEF Faulty, MigratedFrom, l

(* Saving mends no fault and makes none.                                   *)
LEMMA FaultIsSaved ==
  ASSUME NEW c, IsSettings(c), ~c.FirefoxOpenUrlInContainer
  PROVE  /\ Layered(Saved(c)).UrlExecCommand = c.UrlExecCommand
         /\ Layered(Saved(c)).UrlAction = c.UrlAction
         /\ Faulty(Layered(Saved(c))) => Faulty(c)
<1> DEFINE l == Layered(Saved(c))
<1>1. \A o \in Options : l[o] = IF o = "UrlAction" \/ c[o] # Zero[o] THEN c[o] ELSE Beneath(o)
  BY SavedFields
<1> HIDE DEF l
<1>2. Zero.UrlExecCommand = "none" /\ Zero.FirefoxOpenUrlInContainer = FALSE
  BY DEF Zero
<1>3. l.UrlExecCommand = c.UrlExecCommand /\ l.UrlAction = c.UrlAction
      /\ l.FirefoxOpenUrlInContainer = FALSE
  <2>1. c.FirefoxOpenUrlInContainer = FALSE
    BY DEF IsSettings
  <2> QED
    BY <1>1, <1>2, <2>1, OptionNames, BeneathTyped
<1> QED
  BY <1>3 DEF Faulty, l

(* The login is done one way or the other.                                 *)
LEMMA WorkflowIsRead ==
  ASSUME SettingsInv, loading = "ready"
  PROVE  s.AuthWorkflow \in {"pkce", "device_code"}
<1> DEFINE l == Layered(file)
<1>1. Read /\ Validate(s) /\ DOMAIN l = Options \cup {"SSO"} /\ Parsed = WithWorkflow(l, file)
  BY DEF SettingsInv, Loaded, Read, IsFile, IsSettings, Parsed
<1> HIDE DEF l
<1>2. Parsed.AuthWorkflow = defaultAuthWorkflow(l.AuthWorkflow, "AuthWorkflow" \in DOMAIN file)
  BY <1>1, OptionNames DEF WithWorkflow
<1>3. s.AuthWorkflow = Parsed.AuthWorkflow
  BY <1>1, OptionNames DEF Read, Migrated
<1>4. s.AuthWorkflow # ""
  BY <1>2, <1>3 DEF defaultAuthWorkflow
<1> QED
  BY <1>1, <1>4 DEF Validate

(* Nothing else concerns the settings.                                     *)
LEMMA SettingsStutter ==
  ASSUME SettingsInv, UNCHANGED settingsVars
  PROVE  SettingsInv'
<1> USE DEF settingsVars
<1>1. SettingsTypeOK' /\ Written'
  BY DEF SettingsInv, SettingsTypeOK, Written
<1>2. AccountsKept'
  BY DEF SettingsInv, AccountsKept, Accounts
<1>3. Visiting'
  <2>1. \A i, k : /\ Accounts(i)' = Accounts(i) /\ GivenTo(i)' = GivenTo(i)
                  /\ Untouched(i, k)' <=> Untouched(i, k)
                  /\ Arrived(i, k)' <=> Arrived(i, k)
    BY DEF Untouched, Arrived, Accounts, GivenTo
  <2> QED
    BY <2>1 DEF SettingsInv, Visiting
<1>4. Loaded'
  BY DEF SettingsInv, Loaded, Read, MigratedFrom, Parsed, WithWorkflow, defaultAuthWorkflow
<1> QED
  BY <1>1, <1>2, <1>3, <1>4 DEF SettingsInv

(* No execution has loaded anything.                                       *)
LEMMA SettingsStart == SettingsInit => SettingsInv
<1> SUFFICES ASSUME SettingsInit PROVE SettingsInv
  OBVIOUS
<1>1. loading = "off" /\ s = Nil /\ todo = {} /\ remote = FALSE /\ override = "" /\ wrote = Nil
      /\ (file = Nil \/ IsFile(file))
  BY SettingsAssumption DEF SettingsInit
<1> QED
  BY <1>1 DEF SettingsInv, SettingsTypeOK, AccountsKept, Visiting, Loaded, Written

-----------------------------------------------------------------------------
(* The roles in the cache.                                                 *)

(* The cache is what a refresh made of some grants.                        *)
CachedRefreshed ==
  cached # Nil => \E g :
    LET r == addConfigRoles(SSORoles(g), cached.config.accounts)
    IN /\ CheckProfiles(r, cached.format)
       /\ cached.roles = RestoreManualRoles(r, cached.config.accounts)
       /\ cached.granted = DOMAIN g

(* What Cache.Refresh checks, and what it then keeps.                      *)
Decoration(g, accounts) == addConfigRoles(SSORoles(g), accounts)

HasRoles(r) == \A a \in DOMAIN r : "roles" \in DOMAIN r[a]

DecoratedAs(r, g, accounts, a) ==
  /\ "roles" \in DOMAIN r[a]
  /\ r[a].region = IF a \in DOMAIN accounts THEN accounts[a].region ELSE ""
  /\ \A x \in DOMAIN r[a].roles :
       r[a].roles[x].region =
         IF a \in DOMAIN accounts /\ x \in DOMAIN accounts[a].roles
         THEN IF accounts[a].roles[x].region # "" THEN accounts[a].roles[x].region
              ELSE accounts[a].region
         ELSE ""

IsRestored(R, r, accounts) == R = RestoreManualRoles(r, accounts) /\ HasRoles(r)

RestoredAs(R, r, accounts, a, x) ==
  /\ R[a].region = IF a \in DOMAIN r THEN r[a].region ELSE ""
  /\ R[a].alias = IF a \in DOMAIN r THEN r[a].alias ELSE ""
  /\ R[a].name = IF a \in DOMAIN r THEN r[a].name ELSE ""
  /\ \/ /\ a \in DOMAIN accounts /\ x \in DOMAIN accounts[a].roles
        /\ R[a].roles[x].region = accounts[a].roles[x].region
        /\ R[a].roles[x].via # ""
     \/ /\ a \in DOMAIN r /\ x \in DOMAIN r[a].roles
        /\ R[a].roles[x] = r[a].roles[x]

IsManual(R, p) == RoleOf(R, p).via # ""

(* The roles in a cache, account by account.                               *)
LEMMA Paired ==
  ASSUME NEW r, NEW p
  PROVE  p \in InCache(r) <=> \E a \in DOMAIN r : \E x \in DOMAIN r[a].roles : p = <<a, x>>
BY DEF InCache

(* What config.yaml makes of the roles of an account that AWS grants.      *)
LEMMA Decorated ==
  ASSUME NEW g, NEW accounts, NEW a \in DOMAIN g,
         NEW r, r = addConfigRoles(SSORoles(g), accounts)
  PROVE  DecoratedAs(r, g, accounts, a)
<1> USE DEF DecoratedAs
<1> DEFINE q == [alias |-> g[a].alias, name |-> "", region |-> "",
                 roles |-> [x \in g[a].roles |-> [region |-> "", profile |-> <<>>, via |-> ""]]]
           R == [x \in DOMAIN q.roles |->
                   IF x \notin DOMAIN accounts[a].roles THEN q.roles[x]
                   ELSE LET c == accounts[a].roles[x]
                        IN [region |-> IF c.region # "" THEN c.region ELSE accounts[a].region,
                            profile |-> c.profile, via |-> c.via]]
<1>1. SSORoles(g)[a] = q /\ DOMAIN SSORoles(g) = DOMAIN g
  BY DEF SSORoles
<1>2. /\ DOMAIN q = {"alias", "name", "region", "roles"} /\ q.region = ""
      /\ \A x \in DOMAIN q.roles : q.roles[x].region = ""
  OBVIOUS
<1>3. r[a] = IF a \notin DOMAIN accounts THEN q
             ELSE [q EXCEPT !.region = accounts[a].region, !.name = accounts[a].name, !.roles = R]
  <2> HIDE DEF q
  <2> QED
    BY <1>1 DEF addConfigRoles
<1> HIDE DEF q
<1>4. CASE a \notin DOMAIN accounts
  BY <1>2, <1>3, <1>4
<1>5. CASE a \in DOMAIN accounts
  <2>1. DOMAIN R = DOMAIN q.roles
    OBVIOUS
  <2>2. \A x \in DOMAIN R : R[x].region =
          IF x \in DOMAIN accounts[a].roles
          THEN IF accounts[a].roles[x].region # "" THEN accounts[a].roles[x].region
               ELSE accounts[a].region
          ELSE ""
    BY <1>2
  <2> HIDE DEF R
  <2>3. /\ DOMAIN r[a] = DOMAIN q /\ r[a].region = accounts[a].region /\ r[a].roles = R
    BY <1>2, <1>3, <1>5
  <2> QED
    BY <1>2, <1>5, <2>2, <2>3
<1> QED
  BY <1>4, <1>5

(* The roles with a Via are added to the rest.                             *)
LEMMA Restored ==
  ASSUME NEW r, NEW accounts, NEW R, IsRestored(R, r, accounts),
         NEW a \in DOMAIN R, NEW x \in DOMAIN R[a].roles
  PROVE  RestoredAs(R, r, accounts, a, x)
<1> USE DEF RestoredAs, IsRestored
<1> DEFINE M == IF a \notin DOMAIN accounts THEN {}
                ELSE {y \in DOMAIN accounts[a].roles : accounts[a].roles[y].via # ""}
           A == IF a \in DOMAIN r THEN r[a]
                ELSE [alias |-> "", name |-> "", region |-> "", roles |-> <<>>]
           role(y) == [region |-> accounts[a].roles[y].region,
                       profile |-> accounts[a].roles[y].profile, via |-> accounts[a].roles[y].via]
           roles == [y \in M |-> role(y)]
<1>1. R[a] = [A EXCEPT !.roles = Overlay(roles, A.roles)]
  BY DEF RestoreManualRoles
<1>2. "roles" \in DOMAIN A /\ (a \notin DOMAIN r => DOMAIN A.roles = {})
  BY EmptyMap DEF HasRoles
<1>3. /\ A.region = IF a \in DOMAIN r THEN r[a].region ELSE ""
      /\ A.alias = IF a \in DOMAIN r THEN r[a].alias ELSE ""
      /\ A.name = IF a \in DOMAIN r THEN r[a].name ELSE ""
      /\ a \in DOMAIN r => A.roles = r[a].roles
  OBVIOUS
<1>4. \A y \in M : /\ a \in DOMAIN accounts /\ y \in DOMAIN accounts[a].roles
                   /\ roles[y].region = accounts[a].roles[y].region
                   /\ roles[y].via = accounts[a].roles[y].via
                   /\ accounts[a].roles[y].via # ""
  OBVIOUS
<1>5. DOMAIN roles = M
  OBVIOUS
<1> HIDE DEF M, A, roles
<1>6. /\ R[a].roles = Overlay(roles, A.roles)
      /\ R[a].region = A.region /\ R[a].alias = A.alias /\ R[a].name = A.name
  BY <1>1, <1>2
<1>7. /\ x \in M \/ x \in DOMAIN A.roles
      /\ R[a].roles[x] = IF x \in M THEN roles[x] ELSE A.roles[x]
  BY <1>5, <1>6 DEF Overlay
<1> QED
  BY <1>2, <1>3, <1>4, <1>6, <1>7

(* A role without a Via was there when the names were checked.             *)
LEMMA NotManual ==
  ASSUME NEW r, NEW accounts, NEW R, IsRestored(R, r, accounts),
         NEW format, NEW t \in InCache(R)
  PROVE  ~IsManual(R, t) =>
           t \in InCache(r) /\ ProfileName(r, format, t) = ProfileName(R, format, t)
<1>1. PICK a \in DOMAIN R : \E x \in DOMAIN R[a].roles : t = <<a, x>>
  BY Paired
<1>2. PICK x \in DOMAIN R[a].roles : t = <<a, x>>
  BY <1>1
<1>3. RestoredAs(R, r, accounts, a, x)
  BY Restored
<1>4. t[1] = a /\ t[2] = x
  BY <1>2
<1>5. ASSUME ~IsManual(R, t)
      PROVE  a \in DOMAIN r /\ x \in DOMAIN r[a].roles /\ R[a].roles[x] = r[a].roles[x]
  BY <1>3, <1>4, <1>5 DEF RoleOf, RestoredAs, IsManual
<1>6. ASSUME a \in DOMAIN r, x \in DOMAIN r[a].roles, R[a].roles[x] = r[a].roles[x]
      PROVE  t \in InCache(r) /\ ProfileName(r, format, t) = ProfileName(R, format, t)
  <2>1. t \in InCache(r)
    BY <1>2, <1>6, Paired
  <2>2. ProfileName(r, format, t) = ProfileName(R, format, t)
    BY <1>3, <1>4, <1>6 DEF ProfileName, RoleOf, RestoredAs
  <2> QED
    BY <2>1, <2>2
<1> QED
  BY <1>5, <1>6

(* The names were checked before the roles with a Via came.                *)
LEMMA CheckedIsUnambiguous ==
  ASSUME NEW r, NEW accounts, NEW R, IsRestored(R, r, accounts),
         NEW format, CheckProfiles(r, format),
         NEW p \in InCache(R), NEW q \in InCache(R)
  PROVE  /\ ~IsManual(R, p) /\ ~IsManual(R, q)
         /\ ProfileName(R, format, p) = ProfileName(R, format, q)
         => p = q
<1>1. \A t \in InCache(R) : ~IsManual(R, t) =>
        t \in InCache(r) /\ ProfileName(r, format, t) = ProfileName(R, format, t)
  BY NotManual
<1> QED
  BY <1>1 DEF CheckProfiles

(* The region of a role, in the list and in the shell.                     *)
LEMMA RefreshedAgree ==
  ASSUME NEW g, NEW acc, acc = Config.accounts, NEW r, r = addConfigRoles(SSORoles(g), acc),
         NEW R, R = cached.roles, R = RestoreManualRoles(r, acc),
         cached.config = Config, cached.granted = DOMAIN g
  PROVE  RegionsAgree
<1>1. DOMAIN r = DOMAIN g /\ HasRoles(r)
  <2>1. DOMAIN r = DOMAIN g
    BY DEF addConfigRoles, SSORoles
  <2>2. \A a \in DOMAIN g : DecoratedAs(r, g, acc, a)
    BY Decorated
  <2> QED
    BY <2>1, <2>2 DEF DecoratedAs, HasRoles
<1> SUFFICES ASSUME NEW p \in InCache(R)
             PROVE  LET shown == FlatRegion(R, Config.region, p)
                        used == ConfiguredRegion(p)
                    IN \/ shown = used
                       \/ shown = "" /\ used = s.DefaultRegion
                       \/ p[1] \notin DOMAIN g /\ used = acc[p[1]].region
  BY DEF RegionsAgree
<1>4. PICK a \in DOMAIN R : \E x \in DOMAIN R[a].roles : p = <<a, x>>
  BY Paired
<1>5. PICK x \in DOMAIN R[a].roles : p = <<a, x>>
  BY <1>4
<1>6. p[1] = a /\ p[2] = x
  BY <1>5
<1> DEFINE given1 == IF a \in DOMAIN acc THEN acc[a].region ELSE ""
           given2 == IF a \in DOMAIN acc /\ x \in DOMAIN acc[a].roles
                     THEN acc[a].roles[x].region ELSE ""
<1>7. ConfiguredRegion(p) = IF given2 # "" THEN given2
                            ELSE IF given1 # "" THEN given1
                            ELSE IF Config.region # "" THEN Config.region
                            ELSE s.DefaultRegion
  <2>1. NoAccount.region = "" /\ DOMAIN NoAccount.roles = {} /\ NoRole.region = ""
    BY EmptyMap DEF NoAccount, NoRole
  <2> DEFINE account == IF a \in DOMAIN acc THEN acc[a] ELSE NoAccount
             role == IF x \in DOMAIN account.roles THEN account.roles[x] ELSE NoRole
  <2>2. account.region = given1 /\ role.region = given2
    BY <2>1
  <2>3. ConfiguredRegion(p) =
          CASE role.region # "" -> role.region
            [] role.region = "" /\ account.region # "" -> account.region
            [] role.region = "" /\ account.region = "" /\ Config.region # "" -> Config.region
            [] OTHER -> s.DefaultRegion
    BY <1>6 DEF ConfiguredRegion
  <2> HIDE DEF account, role, given1, given2
  <2> QED
    BY <2>2, <2>3
<1>8. RestoredAs(R, r, acc, a, x)
  BY <1>1, Restored DEF IsRestored
<1>9. a \in DOMAIN g => DecoratedAs(r, g, acc, a)
  BY Decorated
<1>10. a \in DOMAIN g => r[a].region = given1
  BY <1>9 DEF DecoratedAs
<1>11. a \in DOMAIN g /\ x \in DOMAIN r[a].roles =>
         r[a].roles[x].region \in {given2, IF given2 # "" THEN given2 ELSE given1}
  BY <1>9 DEF DecoratedAs
<1>12. /\ R[a].roles[x].region = given2
          \/ (a \in DOMAIN g /\ R[a].roles[x].region = IF given2 # "" THEN given2 ELSE given1)
       /\ R[a].region = IF a \in DOMAIN g THEN given1 ELSE ""
  BY <1>1, <1>8, <1>10, <1>11 DEF RestoredAs
<1>13. FlatRegion(R, Config.region, p) = IF R[a].roles[x].region # "" THEN R[a].roles[x].region
                                         ELSE IF R[a].region # "" THEN R[a].region
                                         ELSE Config.region
  BY <1>6 DEF FlatRegion, RoleOf
<1>14. given1 # "" => given1 = acc[a].region
  OBVIOUS
<1> HIDE DEF given1, given2
<1> QED
  BY <1>6, <1>7, <1>12, <1>13, <1>14

(* A cache that was refreshed from this config.yaml agrees with it.        *)
LEMMA CachedIsRight == CachedRefreshed => RolesInv
<1> SUFFICES ASSUME CachedRefreshed, Current
             PROVE  ProfilesUnambiguous /\ RegionsAgree
  BY DEF RolesInv
<1>1. cached # Nil /\ cached.config = Config /\ cached.format = s.ProfileFormat
  BY DEF Current
<1> DEFINE acc == Config.accounts
           R == cached.roles
<1>2. PICK g : LET r == addConfigRoles(SSORoles(g), acc)
               IN /\ CheckProfiles(r, s.ProfileFormat)
                  /\ R = RestoreManualRoles(r, acc)
                  /\ cached.granted = DOMAIN g
  BY <1>1 DEF CachedRefreshed
<1> DEFINE r == addConfigRoles(SSORoles(g), acc)
<1>3. CheckProfiles(r, s.ProfileFormat) /\ R = RestoreManualRoles(r, acc) /\ cached.granted = DOMAIN g
  BY <1>2
<1>4. HasRoles(r)
  <2>1. DOMAIN r = DOMAIN g
    BY DEF addConfigRoles, SSORoles
  <2>2. \A a \in DOMAIN g : DecoratedAs(r, g, acc, a)
    BY Decorated
  <2> QED
    BY <2>1, <2>2 DEF DecoratedAs, HasRoles
<1>5. RegionsAgree
  BY <1>1, <1>3, RefreshedAgree
<1> HIDE DEF r, R, acc
<1>6. ASSUME NEW p \in InCache(R), RoleOf(R, p).via = "",
             NEW q \in GetRoleByProfile(R, s.ProfileFormat, ProfileName(R, s.ProfileFormat, p)),
             RoleOf(R, q).via = ""
      PROVE  p = q
  <2>1. q \in InCache(R) /\ ProfileName(R, s.ProfileFormat, p) = ProfileName(R, s.ProfileFormat, q)
    BY <1>6 DEF GetRoleByProfile
  <2> QED
    BY <1>3, <1>4, <1>6, <2>1, CheckedIsUnambiguous DEF IsRestored, IsManual
<1>7. ProfilesUnambiguous
  BY <1>6 DEF ProfilesUnambiguous, R
<1> QED
  BY <1>5, <1>7

(* Only Cache.Refresh writes the cache, all of it at once.                 *)
LEMMA CachedNext == CachedRefreshed /\ [Next]_vars => CachedRefreshed'
<1> SUFFICES ASSUME CachedRefreshed, [Next]_vars PROVE CachedRefreshed'
  OBVIOUS
<1>1. ASSUME UNCHANGED cached
      PROVE  CachedRefreshed'
  BY <1>1 DEF CachedRefreshed
<1>2. ASSUME NEW g, RefreshRoles(g)
      PROVE  CachedRefreshed'
  <2> DEFINE r == addConfigRoles(SSORoles(g), Config.accounts)
  <2>1. /\ CheckProfiles(r, s.ProfileFormat)
        /\ cached' = MadeFrom(g, RestoreManualRoles(r, Config.accounts))
    BY <1>2 DEF RefreshRoles
  <2>2. /\ cached'.config = Config /\ cached'.format = s.ProfileFormat
        /\ cached'.granted = DOMAIN g /\ cached'.roles = RestoreManualRoles(r, Config.accounts)
    BY <2>1 DEF MadeFrom
  <2> QED
    BY <2>1, <2>2 DEF CachedRefreshed
<1>3. ASSUME NEW next, Refresh(next)
      PROVE  CachedRefreshed'
  BY <1>1, <1>2, <1>3 DEF Refresh, RefreshRolesFails
<1>4. CASE UNCHANGED vars
  BY <1>1, <1>4 DEF vars
<1>5. CASE RefreshAfterLogin \/ CacheCmd \/ RefreshForPrompt
  BY <1>1, <1>3, <1>5 DEF RefreshAfterLogin, CacheCmd, RefreshForPrompt
<1>6. CASE ConsoleCmd \/ CheckAuth \/ Start \/ LoadSettings \/ FirstRun \/ Wizard \/ End
  BY <1>1, <1>6 DEF ConsoleCmd, CheckAuth, Start, LoadSettings, FirstRun, Wizard, End, Over
<1>7. CASE LoginStep \/ Network \/ RegisterFails \/ PanicsAtPage
  BY <1>1, <1>7 DEF LoginStep, Network, RegisterFails, PanicsAtPage, Register, ByDevice, TimePasses,
                    ByPkce, Goroutines, Authenticated
<1> QED
  BY <1>4, <1>5, <1>6, <1>7 DEF Next

-----------------------------------------------------------------------------
(* Executions.                                                             *)

(* The invariant of executions: where each of them may be.                 *)
Situated ==
  /\ situation \in Situations
  /\ command \in situation.commands \cup {""}
  /\ urlFlag \in Actions
  /\ step \in Steps
  /\ refreshed \in BOOLEAN
  /\ dev # "idle" => step = "device_code"
  /\ main # "start" => step = "pkce"

(* Settings are there from when they are loaded until the end, and it is   *)
(* one of the three actions that panics.                                   *)
Placed ==
  /\ step = "off" <=> loading = "off"
  /\ step \notin {"off", "settings"} => loading = "ready"
  /\ step = "panic" => Panics(urlFlag) \/ Panics(Config.action) \/ Panics(s.UrlAction)

(* A command is missing only where it was to begin with.                   *)
FaultsFound ==
  /\ file = situation.file \/ file = Broken \/ wrote # Nil
  /\ wrote # Nil /\ Faulty(wrote) => situation.file # Nil /\ Faulty(Layered(situation.file))

ExecutionIInv == LoginInv /\ SettingsInv /\ Situated /\ Placed /\ FaultsFound

(* The settings are as they were, and so is what is said of them.          *)
LEMMA SettingsAside ==
  ASSUME SettingsInv, FaultsFound, UNCHANGED <<settingsVars, situation>>
  PROVE  SettingsInv' /\ FaultsFound'
<1>1. SettingsInv'
  BY SettingsStutter
<1>2. FaultsFound'
  BY DEF FaultsFound, Faulty, settingsVars
<1> QED
  BY <1>1, <1>2

(* Before the first execution.                                             *)
LEMMA ExecutionInit == Init => ExecutionIInv
<1> SUFFICES ASSUME Init PROVE ExecutionIInv
  OBVIOUS
<1>1. LoginInv /\ SettingsInv
  BY LoginInvInit, SettingsStart DEF Init
<1>2. Situated
  BY DEF Init, Situated, Actions, Steps, PkceInit, DeviceInit
<1>3. Placed /\ FaultsFound
  BY DEF Init, SettingsInit, Placed, FaultsFound
<1> QED
  BY <1>1, <1>2, <1>3 DEF ExecutionIInv

-----------------------------------------------------------------------------
(* Loading, the wizards, and the end.                                      *)

(* main begins.                                                            *)
LEMMA StartKeepsAll ==
  ASSUME ExecutionIInv, Start
  PROVE  SettingsInv' /\ Situated' /\ Placed' /\ FaultsFound'
<1>1. PICK host \in situation.hosts, instance \in situation.instances : StartSettings(host, instance)
  BY DEF Start
<1>2. /\ situation \in Situations /\ situation' = situation
      /\ situation.hosts \subseteq BOOLEAN /\ situation.instances \subseteq Instances \cup {""}
      /\ situation.flags \subseteq Actions
  BY SituationsAssumption DEF ExecutionIInv, Situated, Start
<1>3. SettingsInv'
  BY <1>1, <1>2, StartKeeps DEF ExecutionIInv
<1>4. Situated'
  BY <1>2 DEF ExecutionIInv, Situated, Start, Steps, pkceVars, deviceVars
<1>5. step' = "settings" /\ loading' \in {"no config", "load"} /\ UNCHANGED <<file, wrote>>
  BY <1>1 DEF Start, StartSettings
<1>6. Placed' /\ FaultsFound'
  BY <1>2, <1>5 DEF ExecutionIInv, Placed, FaultsFound
<1> QED
  BY <1>3, <1>4, <1>6

(* While the settings are loaded.                                          *)
LEMMA LoadSettingsKeepsAll ==
  ASSUME ExecutionIInv, LoadSettings
  PROVE  SettingsInv' /\ Situated' /\ Placed' /\ FaultsFound'
<1>1. SettingsInv'
  BY LoadStepKeeps DEF ExecutionIInv, LoadSettings
<1>2. /\ UNCHANGED <<file, wrote, situation, command, urlFlag, step, refreshed, dev, main>>
      /\ step = "settings" /\ loading' # "off"
  BY DEF LoadSettings, LoadStep, Load, LoadFails, RefreshAccount, RefreshFails, LoadEnds,
         executionVars, given, pkceVars, deviceVars
<1>3. Situated'
  BY <1>2 DEF ExecutionIInv, Situated
<1>4. Placed' /\ FaultsFound'
  BY <1>2 DEF ExecutionIInv, Placed, FaultsFound
<1> QED
  BY <1>1, <1>3, <1>4

(* Nothing is left of an execution.                                        *)
LEMMA OverKeeps ==
  ASSUME ExecutionIInv, Over, EndSettings, step \notin LoginSteps
  PROVE  Situated' /\ Placed'
<1>1. Situated'
  BY DEF ExecutionIInv, Situated, Over, Steps, Actions, LoginSteps, pkceVars, deviceVars
<1>2. step' = "off" /\ loading' = "off"
  BY DEF Over, EndSettings
<1> QED
  BY <1>1, <1>2 DEF Placed

(* The first wizard; what it saves has no fault.                           *)
LEMMA FirstRunKeepsAll ==
  ASSUME ExecutionIInv, FirstRun
  PROVE  SettingsInv' /\ Situated' /\ Placed' /\ FaultsFound'
<1> DEFINE advanced == command = "wizard --advanced"
           only == command \in Wizards
<1>1. step = "settings" /\ FirstWizard(advanced, only) /\ situation' = situation
  BY DEF FirstRun, Over, executionVars, given
<1>2. advanced \in BOOLEAN /\ only \in BOOLEAN
  OBVIOUS
<1>3. SettingsInv' /\ (file' = Broken \/ wrote' # Nil) /\ (wrote' # Nil => ~Faulty(wrote'))
  BY <1>1, <1>2, FirstWizardKeeps DEF ExecutionIInv
<1>4. FaultsFound'
  BY <1>1, <1>3 DEF FaultsFound, Faulty
<1>5. CASE only
  BY <1>1, <1>3, <1>4, <1>5, OverKeeps DEF FirstRun, FirstWizard, LoginSteps
<1>6. CASE ~only
  <2>1. /\ loading' = "load" /\ step' = "settings"
        /\ UNCHANGED <<situation, command, urlFlag, step, refreshed, dev, main>>
    BY <1>1, <1>6 DEF FirstRun, FirstWizard, executionVars, given, pkceVars, deviceVars
  <2>2. Situated' /\ Placed'
    BY <2>1 DEF ExecutionIInv, Situated, Placed
  <2> QED
    BY <1>3, <1>4, <2>2
<1> QED
  BY <1>5, <1>6

(* A fault that was saved was found in the file of before.                 *)
LEMMA WizardKeepsAll ==
  ASSUME ExecutionIInv, Wizard
  PROVE  SettingsInv' /\ Situated' /\ Placed' /\ FaultsFound'
<1> DEFINE advanced == command = "wizard --advanced"
           found == situation.file # Nil /\ Faulty(Layered(situation.file))
<1>1. step = "settings" /\ Reconfigure(advanced) /\ Over /\ situation' = situation
  BY DEF Wizard, Over
<1>2. advanced \in BOOLEAN
  OBVIOUS
<1>3. /\ SettingsInv'
      /\ \/ UNCHANGED <<file, wrote>>
         \/ file' = Broken /\ wrote' = Nil
         \/ wrote' # Nil /\ (Faulty(wrote') => Faulty(s))
  BY <1>1, <1>2, ReconfigureKeeps DEF ExecutionIInv
<1>4. loading = "ready" /\ EndSettings
  BY <1>1 DEF Reconfigure
<1>5. Faulty(s) => found
  <2>1. Faulty(s) => Faulty(Layered(file))
    BY <1>4, FaultIsRead DEF ExecutionIInv
  <2>2. IsFile(file) /\ file # Nil /\ file # Broken
    BY <1>4, NilApart DEF ExecutionIInv, SettingsInv, Loaded, Read, IsFile
  <2>3. CASE file = situation.file
    BY <2>1, <2>2, <2>3
  <2>4. CASE wrote # Nil
    <3>1. Sound(wrote) /\ file = Saved(wrote)
      BY <2>4 DEF ExecutionIInv, SettingsInv, Written
    <3>2. Faulty(Layered(file)) => Faulty(wrote)
      BY <3>1, FaultIsSaved DEF Sound
    <3> QED
      BY <2>1, <2>4, <3>2 DEF ExecutionIInv, FaultsFound
  <2> QED
    BY <2>2, <2>3, <2>4 DEF ExecutionIInv, FaultsFound
<1>6. FaultsFound'
  <2>1. (file = situation.file \/ file = Broken \/ wrote # Nil)'
    BY <1>1, <1>3 DEF ExecutionIInv, FaultsFound
  <2>2. wrote' # Nil /\ Faulty(wrote') => found
    BY <1>3, <1>5 DEF ExecutionIInv, FaultsFound
  <2> QED
    BY <1>1, <2>1, <2>2 DEF FaultsFound, Faulty
<1>7. Situated' /\ Placed'
  BY <1>1, <1>4, OverKeeps DEF LoginSteps
<1> QED
  BY <1>3, <1>6, <1>7

(* The end, wherever the execution got to.                                 *)
LEMMA EndKeepsAll ==
  ASSUME ExecutionIInv, End
  PROVE  SettingsInv' /\ Situated' /\ Placed' /\ FaultsFound'
<1>1. EndSettings /\ Over /\ UNCHANGED <<file, wrote, situation>> /\ step \notin LoginSteps
  BY DEF End, Over, LoginSteps
<1>2. SettingsInv'
  BY <1>1, EndKeeps DEF ExecutionIInv
<1>3. FaultsFound'
  BY <1>1 DEF ExecutionIInv, FaultsFound, Faulty
<1> QED
  BY <1>1, <1>2, <1>3, OverKeeps

-----------------------------------------------------------------------------
(* With the settings as they are.                                          *)

(***************************************************************************)
(* Authenticate: it runs with settings that are there, by the workflow that*)
(* they name, and panics over an action that it would have used.           *)
(***************************************************************************)
LEMMA LoginKeepsAll ==
  ASSUME ExecutionIInv, LoginStep \/ Network \/ RegisterFails \/ PanicsAtPage
  PROVE  Situated' /\ Placed' /\ UNCHANGED <<settingsVars, situation>>
<1> USE DEF ExecutionIInv, Situated, given, executionVars, pkceVars, deviceVars
<1>1. step \in {"register", "device_code", "pkce"} => loading = "ready"
  BY DEF Placed
<1>2. CASE Register
  <2>1. step' = s.AuthWorkflow /\ s.AuthWorkflow \in {"pkce", "device_code"}
    BY <1>1, <1>2, WorkflowIsRead DEF Register
  <2>2. main' = "start" /\ (dev' # "idle" => step' = "device_code")
    BY <1>2, <2>1 DEF Register
  <2>3. Situated'
    BY <1>2, <2>1, <2>2 DEF Register, Steps, LoginSteps
  <2>4. UNCHANGED <<settingsVars, situation>> /\ step' # "off" /\ step' # "panic"
    BY <1>2, <2>1 DEF Register
  <2> QED
    BY <1>1, <1>2, <2>3, <2>4 DEF Placed, Register, settingsVars
<1>3. ASSUME UNCHANGED <<settingsVars, situation, command, urlFlag, refreshed, step>>,
             dev' = dev \/ step = "device_code", main' = main \/ step = "pkce"
      PROVE  Situated' /\ Placed' /\ UNCHANGED <<settingsVars, situation>>
  <2>1. Situated'
    BY <1>3
  <2>2. Placed'
    BY <1>3 DEF Placed, settingsVars, Panics, Config
  <2> QED
    BY <1>3, <2>1, <2>2
<1>4. CASE ByDevice \/ TimePasses
  BY <1>3, <1>4 DEF ByDevice, TimePasses
<1>5. CASE ByPkce \/ Goroutines \/ Network
  BY <1>3, <1>5 DEF ByPkce, Goroutines, Network
<1>6. CASE Authenticated
  <2>1. /\ UNCHANGED <<settingsVars, situation, command, urlFlag, refreshed>>
        /\ dev' = "idle" /\ main' = "start"
        /\ step \in {"device_code", "pkce"} /\ step' \in {"refresh", "done"}
    BY <1>6 DEF Authenticated, LoginOver
  <2> QED
    BY <1>1, <2>1 DEF Placed, Steps, settingsVars
<1>7. CASE RegisterFails
  BY <1>1, <1>7 DEF RegisterFails, Placed, Steps, settingsVars
<1>8. CASE PanicsAtPage
  <2>1. /\ UNCHANGED <<settingsVars, situation, command, urlFlag, refreshed>>
        /\ dev' = "idle" /\ main' = "start"
        /\ step \in {"device_code", "pkce"} /\ step' = "panic"
    BY <1>8 DEF PanicsAtPage, LoginOver
  <2>2. Panics(urlFlag) \/ Panics(Config.action) \/ Panics(s.UrlAction)
    BY <1>8 DEF PanicsAtPage, LoginAction
  <2>3. Placed'
    BY <1>1, <2>1, <2>2 DEF Placed, settingsVars, Panics, Config
  <2> QED
    BY <2>1, <2>3 DEF Steps
<1> QED
  BY <1>2, <1>4, <1>5, <1>6, <1>7, <1>8 DEF LoginStep

(* checkAuth, the refreshes of the roles, and the console.                 *)
LEMMA CommandKeepsAll ==
  ASSUME ExecutionIInv,
         CheckAuth \/ RefreshAfterLogin \/ CacheCmd \/ RefreshForPrompt \/ ConsoleCmd
  PROVE  Situated' /\ Placed' /\ UNCHANGED <<settingsVars, situation>>
<1> USE DEF ExecutionIInv, Situated, given, pkceVars, deviceVars
<1>1. step \notin {"off", "settings"} => loading = "ready"
  BY DEF Placed
<1>2. ASSUME UNCHANGED <<settingsVars, situation, command, urlFlag, dev, main>>,
             refreshed' \in BOOLEAN, step \notin LoginSteps, loading = "ready",
             step' \in {"command", "done", "register"}
      PROVE  Situated' /\ Placed' /\ UNCHANGED <<settingsVars, situation>>
  BY <1>2 DEF Placed, Steps, settingsVars, LoginSteps
<1>3. CASE CheckAuth
  BY <1>2, <1>3 DEF CheckAuth, LoginSteps
<1>4. CASE RefreshAfterLogin \/ CacheCmd \/ RefreshForPrompt
  BY <1>1, <1>2, <1>4
     DEF RefreshAfterLogin, CacheCmd, RefreshForPrompt, Refresh, AfterLogin, LoginSteps
<1>5. CASE ConsoleCmd
  <2>1. UNCHANGED <<settingsVars, situation, command, urlFlag, dev, main, refreshed>>
        /\ step = "command" /\ loading = "ready"
    BY <1>1, <1>5 DEF ConsoleCmd
  <2>2. CASE step' = "done"
    BY <1>2, <2>1, <2>2 DEF LoginSteps
  <2>3. CASE Panics(ConsoleAction) /\ step' = "panic"
    <3>1. Panics(urlFlag) \/ Panics(s.UrlAction)
      BY <2>3 DEF ConsoleAction
    <3> QED
      BY <2>1, <2>3, <3>1 DEF Placed, Steps, settingsVars, Panics, Config
  <2> QED
    BY <1>5, <2>2, <2>3 DEF ConsoleCmd
<1> QED
  BY <1>3, <1>4, <1>5

(* Every step of every execution keeps the invariant.                      *)
LEMMA ExecutionNext == ExecutionIInv /\ [Next]_vars => ExecutionIInv'
<1> SUFFICES ASSUME ExecutionIInv, [Next]_vars
             PROVE  SettingsInv' /\ Situated' /\ Placed' /\ FaultsFound'
  BY LoginInvNext DEF ExecutionIInv
<1>1. CASE Start \/ LoadSettings \/ FirstRun \/ Wizard \/ End
  BY <1>1, StartKeepsAll, LoadSettingsKeepsAll, FirstRunKeepsAll, WizardKeepsAll, EndKeepsAll
<1>2. ASSUME Situated', Placed', UNCHANGED <<settingsVars, situation>>
      PROVE  SettingsInv' /\ Situated' /\ Placed' /\ FaultsFound'
  BY <1>2, SettingsAside DEF ExecutionIInv
<1>3. CASE LoginStep \/ Network \/ RegisterFails \/ PanicsAtPage
  BY <1>2, <1>3, LoginKeepsAll
<1>4. CASE CheckAuth \/ RefreshAfterLogin \/ CacheCmd \/ RefreshForPrompt \/ ConsoleCmd
  BY <1>2, <1>4, CommandKeepsAll
<1>5. CASE UNCHANGED vars
  <2>1. Situated' /\ Placed'
    BY <1>5 DEF ExecutionIInv, Situated, Placed, vars, settingsVars, executionVars, given,
                pkceVars, deviceVars, Panics, Config
  <2> QED
    BY <1>2, <1>5, <2>1 DEF vars, executionVars, given
<1> QED
  BY <1>1, <1>3, <1>4, <1>5 DEF Next

-----------------------------------------------------------------------------
(***************************************************************************)
(* A panic over a fault that the wizard wrote is over one that it found, or*)
(* over the action that an instance pins.                                  *)
(***************************************************************************)
LEMMA ExecutionIInvImplies == ExecutionIInv => ExecutionInv
<1> SUFFICES ASSUME ExecutionIInv PROVE ExecutionInv
  OBVIOUS
<1>1. TypeOK
  BY DEF ExecutionIInv, Situated, LoginInv, DeviceInv, TypeOK
<1>2. ASSUME step = "panic", wrote # Nil
      PROVE  \/ urlFlag \in NeedsCommand
             \/ situation.file # Nil /\ Faulty(Layered(situation.file))
             \/ \E i \in DOMAIN wrote.SSO : wrote.SSO[i].action \in NeedsCommand
  <2>1. loading = "ready"
    BY <1>2 DEF ExecutionIInv, Placed
  <2>2. Read /\ MigratedFrom(Layered(file)) /\ Sound(wrote) /\ file = Saved(wrote)
    BY <1>2, <2>1 DEF ExecutionIInv, SettingsInv, Loaded, Written
  <2>3. /\ file.SSO = wrote.SSO /\ wrote.FirefoxOpenUrlInContainer = FALSE
        /\ Layered(file).UrlAction = wrote.UrlAction
        /\ Layered(file).UrlExecCommand = wrote.UrlExecCommand
    BY <2>2, SavedFields, FaultIsSaved DEF Sound, IsSettings
  <2>4. /\ s.UrlExecCommand = wrote.UrlExecCommand
        /\ s.FirefoxOpenUrlInContainer = FALSE
        /\ Faulty(s) => Faulty(Layered(file))
    BY <2>1, <2>3, FaultIsRead DEF ExecutionIInv
  <2>5. Faulty(Layered(file)) => Faulty(wrote)
    BY <2>2, FaultIsSaved DEF Sound
  <2>6. Faulty(wrote) => situation.file # Nil /\ Faulty(Layered(situation.file))
    BY <1>2 DEF ExecutionIInv, FaultsFound
  <2>7. CASE Panics(urlFlag)
    BY <2>7 DEF Panics
  <2>8. CASE Panics(s.UrlAction)
    <3>1. Faulty(s)
      BY <2>8 DEF Panics, Faulty, NeedsCommand
    <3> QED
      BY <2>4, <2>5, <2>6, <3>1
  <2>9. CASE Panics(Config.action)
    <3>1. Config.action \in NeedsCommand /\ wrote.UrlExecCommand = "none"
      BY <2>4, <2>9 DEF Panics
    <3>2. /\ s.DefaultSSO \in DOMAIN wrote.SSO
          /\ Config.action = IF wrote.SSO[s.DefaultSSO].action # ""
                             THEN wrote.SSO[s.DefaultSSO].action ELSE wrote.UrlAction
      BY <2>2, <2>3 DEF Read, Config
    <3>3. CASE wrote.SSO[s.DefaultSSO].action # ""
      BY <3>1, <3>2, <3>3
    <3>4. CASE wrote.SSO[s.DefaultSSO].action = ""
      <4>1. Faulty(wrote)
        BY <3>1, <3>2, <3>4 DEF Faulty, NeedsCommand
      <4> QED
        BY <2>6, <4>1
    <3> QED
      BY <3>3, <3>4
  <2> QED
    BY <1>2, <2>7, <2>8, <2>9 DEF ExecutionIInv, Placed
<1>3. WizardNeverPanics
  BY <1>2 DEF WizardNeverPanics, Faulty, NeedsCommand
<1> QED
  BY <1>1, <1>3 DEF ExecutionInv

-----------------------------------------------------------------------------
(***************************************************************************)
(* In executions of aws-sso, one after another: no poll comes sooner than  *)
(* the service demands (PollDeviceCodeToken).                              *)
(***************************************************************************)
THEOREM ExecutionsPollApart == Spec => []PollsApart
<1>1. LoginInv => PollsApart
  BY DEF LoginInv, DeviceInv
<1> QED
  BY LoginInvInit, LoginInvNext, <1>1, PTL DEF Spec

(***************************************************************************)
(* And the listener of a login is there for its browser, gives it its own  *)
(* code, and gives the port back (reauthenticatePKCE,                      *)
(* WaitForPKCECallback).                                                   *)
(***************************************************************************)
THEOREM ExecutionsListen == Spec => []ListenerInv
<1>1. LoginInv => ListenerInv
  BY PkceInvImplies DEF LoginInv
<1> QED
  BY LoginInvInit, LoginInvNext, <1>1, PTL DEF Spec

(***************************************************************************)
(* Each part of an execution is where it may be; and with a file that the  *)
(* wizard wrote, no login and no console panics for want of an             *)
(* UrlExecCommand, but over a flag, a fault that the wizard found, or the  *)
(* action of an instance (promptUrlExecCommand, NewHandleUrl).             *)
(***************************************************************************)
THEOREM ExecutionsSafe == Spec => []ExecutionInv
BY ExecutionInit, ExecutionNext, ExecutionIInvImplies, PTL DEF Spec

(***************************************************************************)
(* Whatever the file says and in whatever order the loop of Refresh visits *)
(* the accounts: all end up under their IDs and complete, none is lost or  *)
(* made up, and the login page goes where the file says (LoadSettings,     *)
(* SSOConfig.Refresh, applyDeprecations).                                  *)
(***************************************************************************)
THEOREM SettingsLoaded == Spec => []LoadedInv
<1>1. ExecutionIInv => LoadedInv
  BY ReadyIsLoaded DEF ExecutionIInv
<1> QED
  BY ExecutionInit, ExecutionNext, <1>1, PTL DEF Spec

(***************************************************************************)
(* What Settings.Save wrote LoadSettings accepts, and gives back: all but  *)
(* the zeros, and what the command line overrides.                         *)
(***************************************************************************)
THEOREM SavedIsRead == Spec => []SavedIsLoaded
<1>1. ExecutionIInv => SavedIsLoaded
  BY ReadyIsSaved DEF ExecutionIInv
<1> QED
  BY ExecutionInit, ExecutionNext, <1>1, PTL DEF Spec

(***************************************************************************)
(* As long as config.yaml is what the cache was made from, a profile name  *)
(* stands for one role, but for those with a Via, and list and shell agree *)
(* on the region of a role (Cache.Refresh, CheckProfiles,                  *)
(* RestoreManualRoles, Settings.GetDefaultRegion).                         *)
(***************************************************************************)
THEOREM RolesAgree == Spec => []RolesInv
<1>1. Init => CachedRefreshed
  BY DEF Init, CachedRefreshed
<1> QED
  BY <1>1, CachedNext, CachedIsRight, PTL DEF Spec
=============================================================================
