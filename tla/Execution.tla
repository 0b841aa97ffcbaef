------------------------------ MODULE Execution ------------------------------
(***************************************************************************)
(* Executions of aws-sso, one after another, from start to end: main loads *)
(* the settings, or has the wizard make some, checks the token, logs in by *)
(* the workflow that the settings and the host call for, refreshes the     *)
(* roles, and runs the command.  Each part is the module of its name; here *)
(* is what main and doAuth do with them, and the pages that they open with *)
(* what the settings say of it.                                            *)
(***************************************************************************)
EXTENDS RoleData, PkceLogin, DeviceLogin

CONSTANT
  Situations   \* what the executions may meet: the bound

ASSUME SituationsAssumption == \A t \in Situations :
  /\ t.file \in Files
  /\ t.hosts \subseteq BOOLEAN
  /\ t.instances \subseteq Instances \cup {""}
  /\ t.flags \subseteq Actions

VARIABLES
  situation,   \* which of the Situations this is
  command,     \* the command of the execution
  urlFlag,     \* its --url-action
  step,        \* what main is at
  refreshed    \* Cache.refreshed: roles are refreshed once an execution

given == <<situation, command, urlFlag>>

executionVars == <<given, step, refreshed>>

vars == <<settingsVars, cached, pkceVars, deviceVars, executionVars>>

LoginSteps == {"register", "device_code", "pkce"}

Steps == {"off", "settings", "refresh", "command", "done", "panic"} \cup LoginSteps

Wizards == {"wizard", "wizard --advanced"}

(* A situation is a file, the hosts it is used on, what the user types,    *)
(* whether a stored token may be valid, and what AWS may grant.            *)
Init ==
  /\ situation \in Situations
  /\ file = situation.file /\ SettingsInit
  /\ cached = Nil
  /\ PkceInit /\ DeviceInit
  /\ command = "" /\ urlFlag = ""
  /\ step = "off"
  /\ refreshed = FALSE

-----------------------------------------------------------------------------
(* NewHandleUrl and HandleUrl.Open                                         *)

NeedsCommand == {"exec", "container"}

(* NewHandleUrl does not return.                                           *)
Panics(action) == action \in NeedsCommand /\ s.UrlExecCommand = "none"

(* commandBuilder's checks; printing cannot fail, nor be refused.          *)
CanOpen(action) == action \in NeedsCommand => s.UrlExecCommand = "good"

(* doAuth: the flag, else the action of this instance, else the settings'. *)
LoginAction ==
  IF urlFlag # "" THEN urlFlag
  ELSE IF Config.action # "" THEN Config.action ELSE s.UrlAction

(* openConsoleAccessKey                                                    *)
ConsoleAction == IF urlFlag # "" THEN urlFlag ELSE s.UrlAction

-----------------------------------------------------------------------------
(* main                                                                    *)

Start ==
  /\ step = "off"
  /\ step' = "settings"
  /\ command' \in situation.commands
  /\ urlFlag' \in situation.flags
  /\ \E host \in situation.hosts, instance \in situation.instances :
       StartSettings(host, instance)
  /\ UNCHANGED <<cached, pkceVars, deviceVars, situation, refreshed>>

LoadSettings ==
  /\ step = "settings"
  /\ LoadStep
  /\ UNCHANGED <<cached, pkceVars, deviceVars, executionVars>>

(* The execution is over: nothing of it stays but its files.               *)
Over ==
  /\ step' = "off"
  /\ command' = "" /\ urlFlag' = ""
  /\ refreshed' = FALSE
  /\ UNCHANGED <<cached, pkceVars, deviceVars, situation>>

(* No config.yaml: any command runs the wizard first.                      *)
FirstRun ==
  /\ step = "settings"
  /\ FirstWizard(command = "wizard --advanced", command \in Wizards)
  /\ IF command \in Wizards THEN Over
     ELSE UNCHANGED <<cached, pkceVars, deviceVars, executionVars>>

Wizard ==
  /\ step = "settings"
  /\ command \in Wizards
  /\ Reconfigure(command = "wizard --advanced")
  /\ Over

End ==
  /\ step \in {"done", "panic"} \/ (step = "settings" /\ loading = "failed")
  /\ EndSettings
  /\ Over
  /\ UNCHANGED <<file, wrote>>

(* checkAuth; only `login` and AutoLogin go on without a valid token.      *)
CheckAuth ==
  /\ step = "settings"
  /\ loading = "ready"
  /\ command \notin Wizards
  /\ \E valid \in situation.tokens :
       step' = IF valid THEN (IF command = "login" THEN "done" ELSE "command")
               ELSE IF command = "login" \/ s.AutoLogin THEN "register" ELSE "done"
  /\ UNCHANGED <<settingsVars, cached, pkceVars, deviceVars, given, refreshed>>

-----------------------------------------------------------------------------
(* Authenticate                                                            *)

RegisterFails ==
  /\ step = "register"
  /\ step' = "done"
  /\ UNCHANGED <<settingsVars, cached, pkceVars, deviceVars, given, refreshed>>

Register ==
  /\ step = "register"
  /\ step' = s.AuthWorkflow
  /\ IF s.AuthWorkflow = "device_code" THEN StartDevice ELSE UNCHANGED deviceVars
  /\ UNCHANGED <<settingsVars, cached, pkceVars, given, refreshed>>

ByDevice ==
  /\ step = "device_code"
  /\ DeviceStep \/ OpenPage(CanOpen(LoginAction))
  /\ UNCHANGED <<settingsVars, cached, pkceVars, executionVars>>

TimePasses ==
  /\ step = "device_code"
  /\ Tick
  /\ UNCHANGED <<settingsVars, cached, pkceVars, executionVars>>

(* OpenBrowser is the one step that the settings have a say in.            *)
ByPkce ==
  /\ step = "pkce"
  /\ PkceMain
  /\ main' = "opened" => CanOpen(LoginAction)
  /\ UNCHANGED <<settingsVars, cached, deviceVars, executionVars>>

(* What Authenticate leaves behind: nothing, not even its listener.        *)
LoginOver ==
  /\ main' = "start" /\ listener' = "none"
  /\ req' = [r \in Requests |-> "unsent"] /\ kind' = [r \in Requests |-> "stray"]
  /\ callbackCh' = {} /\ errCh' = FALSE /\ code' = NoRequest /\ expired' = FALSE
  /\ dev' = "idle" /\ interval' = RetryInterval /\ slept' = 0
  /\ demanded' = RetryInterval /\ since' = RetryInterval /\ age' = 0

(* NewHandleUrl, in either workflow; the deferred Close comes after all.   *)
PanicsAtPage ==
  /\ \/ step = "device_code" /\ dev = "open"
     \/ step = "pkce" /\ main = "bound"
  /\ Panics(LoginAction)
  /\ step' = "panic"
  /\ LoginOver
  /\ UNCHANGED <<settingsVars, cached, given, refreshed>>

(* The timer, the server goroutine and its handlers.                       *)
Goroutines ==
  /\ step = "pkce"
  /\ Expire \/ Serve \/ \E r \in Requests : Accept(r) \/ Handler(r)
  /\ UNCHANGED <<settingsVars, cached, deviceVars, executionVars>>

(* What connects to the port, and what breaks it.                          *)
Network ==
  /\ step = "pkce"
  /\ ServeFails \/ \E r \in Requests : Send(r)
  /\ UNCHANGED <<settingsVars, cached, deviceVars, executionVars>>

(***************************************************************************)
(* Authenticate returns.  Handlers that are still running are waited for,  *)
(* which main does for five seconds at most: what they have left to do     *)
(* touches nothing but channels that are garbage by now.                   *)
(***************************************************************************)
Authenticated ==
  /\ \/ step = "device_code" /\ dev \in DeviceEnded
     \/ step = "pkce" /\ main \in Ended /\ Running = {}
  /\ step' = IF "token" \in {dev, main} THEN "refresh" ELSE "done"
  /\ LoginOver
  /\ UNCHANGED <<settingsVars, cached, given, refreshed>>

-----------------------------------------------------------------------------
(* Roles                                                                   *)

(* Cache.Refresh and what follows.                                         *)
Refresh(next) ==
  /\ refreshed' = TRUE
  /\ \E granted \in situation.grants :
       \/ RefreshRoles(granted) /\ step' = next
       \/ RefreshRolesFails(granted) /\ step' = "done"

AfterLogin == IF command = "login" THEN "done" ELSE "command"

(* The end of doAuth: is the cache of this instance expired?               *)
RefreshAfterLogin ==
  /\ step = "refresh"
  /\ \/ Refresh(AfterLogin)
     \/ cached # Nil /\ step' = AfterLogin /\ UNCHANGED <<cached, refreshed>>
  /\ UNCHANGED <<settingsVars, pkceVars, deviceVars, given>>

CacheCmd ==
  /\ step = "command"
  /\ command = "cache"
  /\ IF refreshed THEN step' = "done" /\ UNCHANGED <<cached, refreshed>>
     ELSE Refresh("done")
  /\ UNCHANGED <<settingsVars, pkceVars, deviceVars, given>>

-----------------------------------------------------------------------------
(* ConsoleCmd.Run                                                          *)

(* PromptExec, where the cache has expired.                                *)
RefreshForPrompt ==
  /\ step = "command"
  /\ command = "console"
  /\ ~refreshed
  /\ Refresh("command")
  /\ UNCHANGED <<settingsVars, pkceVars, deviceVars, given>>

(***************************************************************************)
(* The page is opened, or an error ends the command: no such role, no      *)
(* credentials, no federation, no browser.  NewHandleUrl comes last, when  *)
(* the history is saved and the credentials are fetched.                   *)
(***************************************************************************)
ConsoleCmd ==
  /\ step = "command"
  /\ command = "console"
  /\ \/ step' = "done"
     \/ Panics(ConsoleAction) /\ step' = "panic"
  /\ UNCHANGED <<settingsVars, cached, pkceVars, deviceVars, given, refreshed>>

-----------------------------------------------------------------------------
LoginStep ==
  Register \/ ByDevice \/ TimePasses \/ ByPkce \/ Goroutines \/ Authenticated

Next ==
  \/ Start \/ LoadSettings \/ FirstRun \/ Wizard \/ End \/ CheckAuth
  \/ LoginStep \/ RegisterFails \/ Network \/ PanicsAtPage
  \/ RefreshAfterLogin \/ CacheCmd \/ RefreshForPrompt \/ ConsoleCmd

(***************************************************************************)
(* A login does not stand still where it can go on: goroutines are         *)
(* scheduled, timers fire, and the service answers or the call fails.      *)
(* Which of its steps is next is nobody's promise, and each can be taken   *)
(* so many times only.  Nothing makes the user confirm a code, a request   *)
(* arrive, or a command be typed.                                          *)
(***************************************************************************)
Fairness == WF_vars(LoginStep)

Spec == Init /\ [][Next]_vars /\ Fairness

-----------------------------------------------------------------------------
TypeOK ==
  /\ command \in situation.commands \cup {""}
  /\ urlFlag \in Actions
  /\ step \in Steps
  /\ refreshed \in BOOLEAN
  /\ DeviceTypeOK
  /\ dev # "idle" => step = "device_code"
  /\ main # "start" => step = "pkce"

(***************************************************************************)
(* A login that is begun ends, by whichever workflow: when its listener    *)
(* has waited for five minutes, or the device code has expired, even if    *)
(* nobody ever confirms it.                                                *)
(***************************************************************************)
LoginEnds == step \in LoginSteps ~> step \notin LoginSteps

(***************************************************************************)
(* Neither login nor console panics for want of an UrlExecCommand, given   *)
(* what the wizard has written: unless --url-action asks for it, the file  *)
(* that the wizard found had that fault, or it pins the action of a login  *)
(* to one that needs a command.                                            *)
(***************************************************************************)
WizardNeverPanics ==
  LET faulty(c) == /\ c.UrlExecCommand = "none"
                   /\ c.UrlAction \in NeedsCommand \/ c.FirefoxOpenUrlInContainer
  IN step = "panic" /\ wrote # Nil =>
       \/ urlFlag \in NeedsCommand
       \/ situation.file # Nil /\ faulty(Layered(situation.file))
       \/ \E i \in DOMAIN wrote.SSO : wrote.SSO[i].action \in NeedsCommand

(* The invariant of executions: where each part may be, and that what the  *)
(* wizard wrote can be used.                                               *)
ExecutionInv == TypeOK /\ WizardNeverPanics
=============================================================================
