------------------------------ MODULE Settings ------------------------------
(***************************************************************************)
(* config.yaml and the settings an execution makes out of it.  LoadSettings *)
(* lays the file over the defaults and the command line over both, picks   *)
(* the SSO instance, and hands its settings to every instance, whose       *)
(* Refresh rewrites the map of accounts while it ranges over it; only then *)
(* come deprecated options and validation.  `setup wizard` changes what    *)
(* was loaded and writes it all back.                                      *)
(*                                                                         *)
(* A file is a function from the names of the options it has to their      *)
(* values.  The settings have every option: Zero where nobody set it.      *)
(***************************************************************************)
EXTENDS FiniteSets

CONSTANTS
  AccountId,   \* account IDs, as AccountIdToString writes them
  Key,         \* the keys of Accounts: account IDs and other spellings of them
  IdOf,        \* the account ID that a key stands for
  NoId,        \* of a key that is no account ID
  Files,       \* the files to start from
  Instances    \* names of SSO instances that wizard or command line may give

(* Nothing where an account, a role, a file or settings would be; and a    *)
(* file that was cut short while it was written.                           *)
Nil == [nil |-> TRUE]
Broken == [broken |-> TRUE]

(* Copying to the clipboard, by either protocol, is "clip"; printing, with *)
(* or without a message, "print"; both Firefox plugins are "container".    *)
Actions == {"", "open", "exec", "clip", "print", "container"}

(* UrlExecCommand: not given, too short, without a %s, as it should be.    *)
Commands == {"none", "short", "no url", "good"}

Zero ==
  [DefaultSSO |-> "", UrlAction |-> "", ConfigProfilesUrlAction |-> "",
   ConfigUrlAction |-> "", FirefoxOpenUrlInContainer |-> FALSE,
   UrlExecCommand |-> "none", AuthWorkflow |-> "", CacheRefresh |-> "0",
   DefaultRegion |-> "", ProfileFormat |-> "", AutoLogin |-> FALSE]

(* DEFAULT_CONFIG                                                          *)
Defaults ==
  [DefaultSSO |-> "Default", UrlAction |-> "open", ConfigProfilesUrlAction |-> "open",
   FirefoxOpenUrlInContainer |-> FALSE, CacheRefresh |-> "168",
   DefaultRegion |-> "us-east-1", ProfileFormat |-> "friendly", AutoLogin |-> FALSE]

Options == DOMAIN Zero

(* UrlAction has no omitempty, and there is always an instance.            *)
AlwaysWritten == {"UrlAction", "SSO"}

NoAccount == [region |-> "", name |-> "", roles |-> <<>>]

NoRole == [arn |-> <<>>, region |-> "", profile |-> <<>>, via |-> ""]

VARIABLES
  file,      \* config.yaml
  loading,   \* how far this execution is
  s,         \* its settings
  todo,      \* the keys that Refresh has yet to visit, by instance
  remote,    \* does prompt.IsRemoteHost say so?
  override,  \* the SSO instance of the command line
  wrote      \* history: what the wizard saved last, if config.yaml has it

settingsVars == <<file, loading, s, todo, remote, override, wrote>>

SettingsInit ==
  /\ file \in Files
  /\ loading = "off"
  /\ s = Nil
  /\ todo = {}
  /\ remote = FALSE
  /\ override = ""
  /\ wrote = Nil

-----------------------------------------------------------------------------
(* What f says of x, or else g: like TLC's @@.                             *)
Overlay(f, g) == [x \in DOMAIN f \cup DOMAIN g |-> IF x \in DOMAIN f THEN f[x] ELSE g[x]]

(* confmap.Provider(defaults), then file.Provider, then Unmarshal.         *)
Layered(f) == Overlay(f, Overlay(Defaults, Zero))

IsMap(f) == f = [x \in DOMAIN f |-> f[x]]

IsRole(r) == r = Nil \/ (IsMap(r) /\ DOMAIN r = DOMAIN NoRole)

IsAccount(a) ==
  \/ a = Nil
  \/ /\ IsMap(a) /\ DOMAIN a = DOMAIN NoAccount
     /\ IsMap(a.roles)
     /\ \A r \in DOMAIN a.roles : IsRole(a.roles[r])

IsInstance(i) ==
  /\ IsMap(i) /\ DOMAIN i = {"action", "region", "accounts"}
  /\ i.action \in Actions
  /\ IsMap(i.accounts) /\ DOMAIN i.accounts \subseteq Key
  /\ \A k \in DOMAIN i.accounts : IsAccount(i.accounts[k])

IsSettings(c) ==
  /\ IsMap(c) /\ DOMAIN c = Options \cup {"SSO"}
  /\ {c.UrlAction, c.ConfigProfilesUrlAction, c.ConfigUrlAction} \subseteq Actions
  /\ c.UrlExecCommand \in Commands
  /\ c.FirefoxOpenUrlInContainer \in BOOLEAN
  /\ IsMap(c.SSO) /\ "" \notin DOMAIN c.SSO
  /\ \A i \in DOMAIN c.SSO : IsInstance(c.SSO[i])

(* A file that Unmarshal reads; without instances its SSO is empty.        *)
IsFile(f) ==
  /\ IsMap(f) /\ "SSO" \in DOMAIN f
  /\ IsSettings(Layered(f))

ASSUME SettingsAssumption ==
  /\ AccountId \subseteq Key
  /\ NoId \notin AccountId
  /\ IdOf \in [Key -> AccountId \cup {NoId}]
  /\ \A id \in AccountId : IdOf[id] = id
  /\ \A f \in Files : f = Nil \/ IsFile(f)
  /\ "" \notin Instances

-----------------------------------------------------------------------------
(* main, up to LoadSettings                                                *)

StartSettings(host, instance) ==
  /\ loading = "off"
  /\ loading' = IF file = Nil THEN "no config" ELSE "load"
  /\ remote' = host
  /\ override' = instance
  /\ UNCHANGED <<file, s, todo, wrote>>

EndSettings ==
  /\ loading' = "off"
  /\ s' = Nil
  /\ todo' = {}
  /\ remote' = FALSE
  /\ override' = ""

(* setOverrides; Browser, LogLevel and Threads are treated alike.          *)
Overridden(c) == IF override = "" THEN c ELSE [c EXCEPT !.DefaultSSO = override]

(* A workflow given as "" on a remote host is pkce, a missing one is not.  *)
defaultAuthWorkflow(workflow, configured) ==
  IF workflow # "" THEN workflow
  ELSE IF remote /\ ~configured THEN "device_code" ELSE "pkce"

WithWorkflow(c, f) ==
  [c EXCEPT !.AuthWorkflow = defaultAuthWorkflow(@, "AuthWorkflow" \in DOMAIN f)]

(* The only instance is used whatever DefaultSSO says.                     *)
Selected(c) ==
  IF c.DefaultSSO \in DOMAIN c.SSO THEN {c.DefaultSSO}
  ELSE IF Cardinality(DOMAIN c.SSO) = 1 THEN DOMAIN c.SSO ELSE {}

(* What SSOConfig.Refresh copies before it turns to the accounts.          *)
WithAction(instance, action) == [instance EXCEPT !.action = IF @ = "" THEN action ELSE @]

WithParams(c) == [c EXCEPT !.SSO = [n \in DOMAIN @ |-> WithAction(@[n], c.UrlAction)]]

Load ==
  /\ loading = "load"
  /\ file # Broken
  /\ LET c == WithWorkflow(Overridden(Layered(file)), file)
     IN \E n \in Selected(c) :
          /\ s' = WithParams([c EXCEPT !.DefaultSSO = n])
          /\ todo' = UNION {{i} \X DOMAIN c.SSO[i].accounts : i \in DOMAIN c.SSO}
  /\ loading' = "refresh"
  /\ UNCHANGED <<file, remote, override, wrote>>

LoadFails ==
  /\ loading = "load"
  /\ \/ file = Broken
     \/ file # Broken /\ Selected(Overridden(Layered(file))) = {}
  /\ loading' = "failed"
  /\ UNCHANGED <<file, s, todo, remote, override, wrote>>

-----------------------------------------------------------------------------
(* SSOConfig.Refresh: the loop over the accounts                           *)

Accounts(i) == s.SSO[i].accounts

(* The old key goes, and the account is stored under its ID.               *)
Renamed(m, k, id, a) == [x \in (DOMAIN m \ {k}) \cup {id} |-> IF x = id THEN a ELSE m[x]]

(* No entry is nil, and every role has the ARN of its account.             *)
Refreshed(a, id) ==
  IF a = Nil THEN NoAccount
  ELSE [a EXCEPT !.roles = [r \in DOMAIN @ |->
          [(IF @[r] = Nil THEN NoRole ELSE @[r]) EXCEPT !.arn = <<id, r>>]]]

(* An ID that the map has already keeps the account it has.                *)
RefreshAccountKept(i, k) ==
  /\ loading = "refresh"
  /\ <<i, k>> \in todo
  /\ IdOf[k] # NoId
  /\ LET id == IdOf[k]
         a == Refreshed(Accounts(i)[k], id)
     IN s' = [s EXCEPT !.SSO[i].accounts =
                IF id \in DOMAIN @ /\ id # k THEN Renamed(@, k, id, @[id])
                ELSE Renamed(@, k, id, a)]
  /\ todo' = todo \ {<<i, k>>}
  /\ UNCHANGED <<file, loading, remote, override, wrote>>

(***************************************************************************)
(* range over a map: any key that was not visited and is still there.  An  *)
(* ID that is new to the map may be visited or not; one that was in it is  *)
(* visited with what it holds by then.                                     *)
(***************************************************************************)
RefreshAccount(i, k) ==
  /\ loading = "refresh"
  /\ <<i, k>> \in todo
  /\ IdOf[k] # NoId
  /\ LET id == IdOf[k]
     IN /\ s' = [s EXCEPT !.SSO[i].accounts =
                   Renamed(@, k, id, Refreshed(@[k], id))]
        /\ \/ todo' = todo \ {<<i, k>>}
           \/ /\ id \notin DOMAIN Accounts(i)
              /\ todo' = (todo \ {<<i, k>>}) \cup {<<i, id>>}
  /\ UNCHANGED <<file, loading, remote, override, wrote>>

RefreshFails ==
  /\ loading = "refresh"
  /\ \E k \in todo : IdOf[k[2]] = NoId
  /\ loading' = "failed"
  /\ UNCHANGED <<file, s, todo, remote, override, wrote>>

-----------------------------------------------------------------------------
(* The rest of LoadSettings                                                *)

IsContainer(action) == action = "container"

(* GetConfigProfilesAction                                                 *)
ProfilesAction(action) == IF action \in {"", "print"} THEN "open" ELSE action

(* NewConfigProfilesAction: what is not valid becomes "open".              *)
NewProfilesAction(action) == IF action = "print" THEN "open" ELSE action

applyDeprecationsKept(c) ==
  LET old == c.ConfigUrlAction # "" /\ c.ConfigProfilesUrlAction = ""
  IN [c EXCEPT !.ConfigProfilesUrlAction = IF old THEN NewProfilesAction(c.ConfigUrlAction) ELSE @,
               !.ConfigUrlAction = IF old THEN "" ELSE @,
               !.UrlAction = IF c.FirefoxOpenUrlInContainer THEN "container" ELSE @]

(* Each migration also resets the old option, or it would be saved again.  *)
applyDeprecations(c) ==
  LET old == c.ConfigUrlAction # "" /\ c.ConfigProfilesUrlAction = ""
  IN [c EXCEPT !.ConfigProfilesUrlAction = IF old THEN NewProfilesAction(c.ConfigUrlAction) ELSE @,
               !.ConfigUrlAction = IF old THEN "" ELSE @,
               !.UrlAction = IF c.FirefoxOpenUrlInContainer THEN "container" ELSE @,
               !.FirefoxOpenUrlInContainer = FALSE]

(* ConfigProfilesUrlAction tracks UrlAction unless it is set.              *)
Tracking(c) ==
  [c EXCEPT !.ConfigProfilesUrlAction = IF @ = "" THEN ProfilesAction(c.UrlAction) ELSE @]

Validate(c) ==
  /\ IsContainer(c.UrlAction) # IsContainer(c.ConfigProfilesUrlAction)
     => "exec" \notin {c.UrlAction, c.ConfigProfilesUrlAction}
  /\ c.AuthWorkflow \in {"", "pkce", "device_code"}

LoadEnds ==
  /\ loading = "refresh"
  /\ todo = {}
  /\ s' = Tracking(applyDeprecations(s))
  /\ loading' = IF Validate(s') THEN "ready" ELSE "failed"
  /\ UNCHANGED <<file, todo, remote, override, wrote>>

-----------------------------------------------------------------------------
(* setup wizard                                                            *)

(* Settings.Save: the encoder leaves out what is zero, unless told not to. *)
Saved(c) == [o \in {o \in DOMAIN c : o \in AlwaysWritten \/ c[o] # Zero[o]} |-> c[o]]

(* What the prompts let the user choose.                                   *)
promptUrlAction ==
  {"exec", "print"} \cup IF remote THEN {} ELSE {"clip", "open", "container"}

promptConfigProfilesUrlAction(u) ==
  {"clip", "open", IF IsContainer(u) THEN "container" ELSE "exec"}

promptUrlExecCommand == Commands \ {"none"}

promptUseFirefox == {"good"}

promptProfileFormat(format) == {"default", "friendly", format}

promptCacheRefresh(hours) == {"0", hours}

UrlCommandsOfExec(u) == IF u = "exec" THEN promptUrlExecCommand ELSE {"none"}

(* UrlAction alone decides on UrlExecCommand.                              *)
UrlCommands(u) ==
  IF u = "exec" THEN promptUrlExecCommand
  ELSE IF IsContainer(u) THEN promptUseFirefox ELSE {"none"}

Opening(c, u, p, x) ==
  [c EXCEPT !.UrlAction = u, !.ConfigProfilesUrlAction = p, !.UrlExecCommand = x]

(* A remote host is not asked for ConfigProfilesUrlAction.                 *)
promptOpen(c) ==
  LET profiles(u) == IF remote THEN {c.ConfigProfilesUrlAction}
                     ELSE promptConfigProfilesUrlAction(u)
  IN UNION {{Opening(c, u, p, x) : p \in profiles(u), x \in UrlCommands(u)} : u \in promptUrlAction}

WithFormat(c, format, hours) == [c EXCEPT !.ProfileFormat = format, !.CacheRefresh = hours]

Prompted(c, advanced) ==
  LET refreshes == IF advanced THEN promptCacheRefresh(c.CacheRefresh) ELSE {c.CacheRefresh}
      opens == IF remote \/ advanced THEN promptOpen(c) ELSE {c}
  IN {WithFormat(d, f, h) :
        d \in opens, f \in promptProfileFormat(c.ProfileFormat), h \in refreshes}

(* The settings a first run starts from.                                   *)
Fresh(instance) ==
  Overlay([UrlAction |-> "open", CacheRefresh |-> "168", ProfileFormat |-> "default",
           SSO |-> [i \in {instance} |-> [action |-> "", region |-> "", accounts |-> <<>>]]],
          Zero)

(* os.WriteFile truncates the file first; it may be all that it does.      *)
Save(c) ==
  \/ /\ file' = Saved(c)
     /\ wrote' = c
  \/ /\ file' = Broken
     /\ wrote' = Nil

(* Without a config.yaml every command starts with the wizard and goes on  *)
(* with the file it wrote; `setup wizard` itself is done then.             *)
FirstWizard(advanced, only) ==
  /\ loading = "no config"
  /\ \E n \in IF advanced THEN Instances ELSE {"Default"} :
       \E c \in Prompted(Fresh(n), advanced) : Validate(c) /\ Save(c)
  /\ IF only THEN EndSettings
     ELSE loading' = "load" /\ UNCHANGED <<s, todo, remote, override>>

(* The wizard on the settings as they were loaded, command line and        *)
(* defaults included.                                                      *)
Reconfigure(advanced) ==
  /\ loading = "ready"
  /\ \E c \in Prompted(s, advanced) :
       IF Validate(c) THEN Save(c) ELSE UNCHANGED <<file, wrote>>
  /\ EndSettings

-----------------------------------------------------------------------------
LoadStep ==
  \/ Load \/ LoadFails \/ RefreshFails \/ LoadEnds
  \/ \E p \in todo : RefreshAccount(p[1], p[2])

SettingsNext ==
  \/ \E host \in BOOLEAN, instance \in Instances \cup {""} : StartSettings(host, instance)
  \/ LoadStep
  \/ \E advanced \in BOOLEAN : Reconfigure(advanced) \/ FirstWizard(advanced, FALSE)
  \/ loading \in {"ready", "failed"} /\ EndSettings /\ UNCHANGED <<file, wrote>>

SettingsSpec == SettingsInit /\ [][SettingsNext]_settingsVars

-----------------------------------------------------------------------------
SettingsTypeOK ==
  /\ file \in {Nil, Broken} \/ IsFile(file)
  /\ loading \in {"off", "no config", "load", "refresh", "ready", "failed"}
  /\ s = Nil \/ IsSettings(s)
  /\ s = Nil => todo = {}
  /\ remote \in BOOLEAN
  /\ override \in Instances \cup {""}
  /\ wrote = Nil \/ IsSettings(wrote)

(***************************************************************************)
(* In whatever order Refresh visits them, the accounts end up under their  *)
(* IDs, none is lost or made up, and each is complete.  Of several         *)
(* spellings of an ID one wins, and never the one spelt like the ID.       *)
(***************************************************************************)
AccountsKept ==
  loading = "ready" => \A i \in DOMAIN s.SSO :
    LET given == file.SSO[i].accounts
    IN /\ DOMAIN Accounts(i) = {IdOf[k] : k \in DOMAIN given}
       /\ \A id \in DOMAIN Accounts(i) :
            LET spelt == {k \in DOMAIN given : IdOf[k] = id}
            IN \E k \in IF spelt = {id} THEN spelt ELSE spelt \ {id} :
                 Accounts(i)[id] = Refreshed(given[k], id)

(***************************************************************************)
(* The login page goes where AuthUrlAction says, or UrlAction where it is  *)
(* not given, and never into a container because of the old                *)
(* FirefoxOpenUrlInContainer, which is for the console alone: Refresh must *)
(* have handed out UrlAction before applyDeprecations changes it.          *)
(***************************************************************************)
LoginPageAsConfigured ==
  loading = "ready" =>
    /\ s.UrlAction = IF Layered(file).FirefoxOpenUrlInContainer THEN "container"
                     ELSE Layered(file).UrlAction
    /\ \A i \in DOMAIN s.SSO :
         s.SSO[i].action = IF file.SSO[i].action # "" THEN file.SSO[i].action
                           ELSE Layered(file).UrlAction

(* What LoadSettings makes out of a file.                                  *)
LoadedInv == SettingsTypeOK /\ AccountsKept /\ LoginPageAsConfigured

(***************************************************************************)
(* What the wizard saves LoadSettings accepts, and gives back: but for     *)
(* what was zero, which is as if it had not been saved, and for what the   *)
(* command line overrides.                                                 *)
(***************************************************************************)
SavedIsLoaded ==
  wrote # Nil /\ override = "" =>
    /\ loading # "failed"
    /\ loading = "ready" =>
         /\ \A o \in Options : wrote[o] \in {Zero[o], s[o]}
         /\ \A i \in DOMAIN wrote.SSO :
              /\ s.SSO[i].accounts = wrote.SSO[i].accounts
              /\ wrote.SSO[i].action \in {"", s.SSO[i].action}
=============================================================================
