----------------------------- MODULE MCExecution -----------------------------
(***************************************************************************)
(* Situations that between them meet every branch: spellings of account    *)
(* IDs, roles that clash, regions at every level, every pair of URL        *)
(* actions, the wizard from scratch and on what it finds, and both logins. *)
(***************************************************************************)
EXTENDS Execution, TLC

CONSTANTS A, B,        \* two accounts,
          a1, a2,      \* two more spellings of A,
          bad          \* and a key that is no account ID

MCIdOf == A :> A @@ B :> B @@ a1 :> A @@ a2 :> A @@ bad :> NoId

Role(region, profile, via) == [NoRole EXCEPT !.region = region, !.profile = profile, !.via = via]

Account(region, name, roles) == [region |-> region, name |-> name, roles |-> roles]

File(options, action, region, accounts) ==
  options @@ ("SSO" :> ("Main" :> [action |-> action, region |-> region, accounts |-> accounts]))

Grant(alias, roles) == [alias |-> alias, roles |-> roles]

OneRole == A :> Grant("x", {"Admin"})

(* One command on one host, with nothing on its command line.              *)
Plain == [hosts |-> {FALSE}, instances |-> {""}, commands |-> {"cache"}, flags |-> {""},
          tokens |-> {TRUE}, grants |-> {OneRole}]

On(files, plain) == {plain @@ [file |-> f] : f \in files}

-----------------------------------------------------------------------------
(* Keys of accounts, in every combination.                                 *)
Keys ==
  On({File(<<>>, "", "", m) :
        m \in UNION {[k -> {Nil, Account("r1", "", "Admin" :> Nil)}] : k \in SUBSET {A, B, a1, a2}}
              \cup {bad :> Nil @@ A :> Nil}},
     Plain)

(* Roles that clash by name, by alias or by Profile, and regions.          *)
Roles ==
  On({File([ProfileFormat |-> t], "", i,
           A :> Account(r, n, "Admin" :> Role(q, p, v)) @@
           B :> Account(r, n, "Admin" :> Role("", <<>>, w))) :
        t \in {"default", "friendly"}, i \in {"", "r0"}, r \in {"", "r1"}, n \in {"", "y"},
        q \in {"", "r2"}, p \in {<<>>, <<"x", "User">>}, v \in {"", "via"}, w \in {"", "via"}},
     [Plain EXCEPT !.grants =
        {<<>>, A :> Grant("x", {"Admin", "User"}),
         A :> Grant("x", {"Admin"}) @@ B :> Grant("x", {"Admin"}),
         A :> Grant("x", {"User"}) @@ B :> Grant("z", {"Admin"})}])

(* URL actions, and what UrlExecCommand is there for them.                 *)
Urls ==
  On({File([UrlAction |-> u, ConfigProfilesUrlAction |-> p, ConfigUrlAction |-> d,
            FirefoxOpenUrlInContainer |-> c, UrlExecCommand |-> x], "", "", <<>>) :
        u \in {"open", "exec", "container", "print"}, p \in {"", "open", "exec", "container"},
        d \in {"", "print"}, c \in BOOLEAN, x \in {"none", "no url", "good"}},
     [Plain EXCEPT !.commands = {"console"}, !.flags = {"", "exec"}, !.grants = {<<>>, OneRole}])

(* The wizard from scratch, on two hosts and by two names, and again.      *)
FirstWizards ==
  On({Nil}, [Plain EXCEPT !.hosts = BOOLEAN, !.instances = {"", "Main"},
                          !.commands = Wizards \cup {"console"}])

(* The wizard on files with options that Save leaves out, or that have     *)
(* become others, and what the console makes of what it saved.             *)
Reconfigured ==
  On({File([UrlAction |-> u, UrlExecCommand |-> x, FirefoxOpenUrlInContainer |-> c],
           a, "", A :> Nil) :
        u \in {"exec", "open"}, x \in {"good", "none"}, c \in BOOLEAN, a \in {"", "exec"}},
     [Plain EXCEPT !.commands = {"wizard", "wizard --advanced", "console"}])

(* Logins, AutoLogin's too, by what the wizard saved.                      *)
WizardLogins ==
  On({File([UrlAction |-> "exec", UrlExecCommand |-> "good", AutoLogin |-> TRUE,
            AuthWorkflow |-> "device_code"], "", "", <<>>)},
     [Plain EXCEPT !.commands = {"wizard --advanced", "console", "cache"}, !.tokens = {FALSE}])

(* Logins by device code, on the hosts that are given it by default too.   *)
DeviceLogins ==
  On({File([UrlAction |-> u, UrlExecCommand |-> x], "", "", A :> Nil) :
        u \in {"exec", "print"}, x \in {"none", "short"}},
     [Plain EXCEPT !.hosts = {TRUE}, !.commands = {"login", "cache"}, !.tokens = BOOLEAN])

(* Logins by the browser.                                                  *)
PkceLogins ==
  On({File([UrlAction |-> u, UrlExecCommand |-> "none"], "", "", A :> Nil) : u \in {"open", "exec"}},
     [Plain EXCEPT !.commands = {"login"}, !.tokens = {FALSE}, !.grants = {<<>>}])

MCSituations ==
  UNION {Keys, Roles, Urls, FirstWizards, Reconfigured, WizardLogins, DeviceLogins, PkceLogins}

MCFiles == {t.file : t \in MCSituations}
=============================================================================
