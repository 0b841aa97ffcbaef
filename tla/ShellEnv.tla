------------------------------- MODULE ShellEnv -------------------------------
(***************************************************************************)
(* The AWS_* variables of a user's shells: eval prints commands that set   *)
(* them in the current shell, eval --clear those that unset them, and exec *)
(* starts a command, here a nested shell, with an environment of its own.  *)
(*                                                                         *)
(* Whether aws-sso may touch AWS_DEFAULT_REGION and AWS_REGION is decided  *)
(* from AWS_SSO_DEFAULT_REGION, the region it last set itself.  The user   *)
(* changes any of the three at any time.                                   *)
(***************************************************************************)
EXTENDS Naturals, Sequences, SequencesExt

CONSTANTS
  Regions,     \* the regions
  Roles,       \* the roles
  RegionOf,    \* the configured default region of each role
  TagOf,       \* the role's value of the tag in EnvVarTags, or Unset
  Unset,       \* the value of a variable that is not set, or is empty
  UserValues,  \* what users put into the three region variables
  MaxShells    \* bound: how deep exec nests

ASSUME RolesAssumption ==
  /\ RegionOf \in [Roles -> Regions]
  /\ Unset \notin Regions \cup Roles
  /\ UserValues \subseteq Regions \cup {Unset}
  /\ MaxShells \in Nat \ {0}

VARIABLES
  shells,    \* the environments of the nested shells, the innermost last
  own,       \* which variables of each shell hold a region the user chose
  managed    \* do they hold one that aws-sso chose and has not let go of?

vars == <<shells, own, managed>>

(***************************************************************************)
(* The variables: those of the credentials and the role, which are always  *)
(* set and unset together, the three regions, and AWS_SSO_TAG_*.           *)
(***************************************************************************)
RegionVars == {"AWS_DEFAULT_REGION", "AWS_REGION", "AWS_SSO_DEFAULT_REGION"}

Vars == RegionVars \cup {"AWS_SSO_ROLE_ARN", "AWS_SSO_TAG"}

NoVars == [v \in Vars |-> Unset]

env == Last(shells)

Top == Len(shells)

SetTop(s, x) == [s EXCEPT ![Len(s)] = x]

(* "export v=x", or "unset v" when x is empty.                             *)
Export(e, x) == [v \in Vars |-> IF v \in DOMAIN x THEN x[v] ELSE e[v]]

-----------------------------------------------------------------------------
(* GetDefaultRegion: no region if the current one is not ours to change.   *)

Current(e) ==
  IF e["AWS_DEFAULT_REGION"] # Unset THEN e["AWS_DEFAULT_REGION"]
                                     ELSE e["AWS_REGION"]

UserManagesOnly(e) == e["AWS_DEFAULT_REGION"] = Unset /\ e["AWS_REGION"] # Unset

UserManages(e) ==
  Current(e) # Unset /\ Current(e) # e["AWS_SSO_DEFAULT_REGION"]

GetDefaultRegion(e, r, noRegion, overwrite) ==
  IF noRegion \/ (~overwrite /\ UserManages(e)) THEN Unset ELSE RegionOf[r]

(* An empty region only lets go of the region.                             *)
SetRegionVars(region) ==
  [v \in IF region = Unset THEN {"AWS_SSO_DEFAULT_REGION"} ELSE RegionVars |->
     region]

(* The variables that are written when a region is, and when none is.      *)
Written(region) == DOMAIN SetRegionVars(region)

(* A role without the tag leaves the tag's variable alone.                 *)
TagVars(r) == IF TagOf[r] = Unset THEN {} ELSE {"AWS_SSO_TAG"}

ExecShellEnvs(r, region) ==
  [v \in {"AWS_SSO_ROLE_ARN"} \cup Written(region) \cup TagVars(r) |->
     CASE v = "AWS_SSO_ROLE_ARN" -> r
       [] v = "AWS_SSO_TAG"      -> TagOf[r]
       [] OTHER                  -> SetRegionVars(region)[v]]

-----------------------------------------------------------------------------
Init ==
  /\ shells = <<NoVars>>
  /\ own = <<{}>>
  /\ managed = <<FALSE>>

(***************************************************************************)
(* eval --arn, --profile or --role, the credentials being available: if    *)
(* they are not the program ends before it has printed anything.           *)
(***************************************************************************)
EvalRole(r, noRegion, overwrite) ==
  LET region == GetDefaultRegion(env, r, noRegion, overwrite)
  IN  /\ shells' = SetTop(shells, Export(env, ExecShellEnvs(r, region)))
      /\ own' = SetTop(own, own[Top] \ Written(region))
      /\ managed' = SetTop(managed, region # Unset)

Eval(noRegion, overwrite) == \E r \in Roles : EvalRole(r, noRegion, overwrite)

(* eval --refresh: the role of the environment again.                      *)
EvalRefresh(noRegion, overwrite) ==
  /\ env["AWS_SSO_ROLE_ARN"] # Unset
  /\ EvalRole(env["AWS_SSO_ROLE_ARN"], noRegion, overwrite)

RegionsToUnsetHalf(e, noRegion) ==
  IF e["AWS_DEFAULT_REGION"] = e["AWS_SSO_DEFAULT_REGION"] /\ ~noRegion
  THEN {"AWS_DEFAULT_REGION", "AWS_SSO_DEFAULT_REGION"}
  ELSE {"AWS_SSO_DEFAULT_REGION"}

(* regionEnvVarsToUnset                                                    *)
RegionsToUnset(e, noRegion) ==
  LET sso == e["AWS_SSO_DEFAULT_REGION"]
  IN  CASE e["AWS_DEFAULT_REGION"] # sso -> {"AWS_SSO_DEFAULT_REGION"}
        [] e["AWS_DEFAULT_REGION"] = sso /\ ~noRegion -> RegionVars
        [] OTHER -> IF e["AWS_REGION"] # sso THEN {"AWS_SSO_DEFAULT_REGION"} ELSE {}

EvalClear(noRegion) ==
  LET gone == RegionsToUnset(env, noRegion) \cup {"AWS_SSO_ROLE_ARN", "AWS_SSO_TAG"}
  IN  /\ shells' = SetTop(shells, Export(env, [v \in gone |-> Unset]))
      /\ managed' = SetTop(managed, managed[Top] /\ noRegion)
      /\ own' = SetTop(own, own[Top] \ gone)

(***************************************************************************)
(* exec: refused over existing credentials unless --overwrite-env, which   *)
(* drops every AWS_* variable from what the command inherits.              *)
(***************************************************************************)
ExecRole(r, noRegion, overwrite) ==
  LET region == GetDefaultRegion(env, r, noRegion, overwrite)
      base   == IF overwrite THEN NoVars ELSE env
  IN  /\ Top < MaxShells
      /\ overwrite \/ env["AWS_SSO_ROLE_ARN"] = Unset
      /\ shells' = Append(shells, Export(base, ExecShellEnvs(r, region)))
      /\ own' = Append(own, IF overwrite THEN {} ELSE own[Top] \ Written(region))
      /\ managed' = Append(managed, region # Unset)

Exec(noRegion, overwrite) == \E r \in Roles : ExecRole(r, noRegion, overwrite)

(* The nested command ends: the outer shell goes on with what it had.      *)
ExecReturns ==
  /\ Top > 1
  /\ shells' = Front(shells)
  /\ own' = Front(own)
  /\ managed' = Front(managed)

-----------------------------------------------------------------------------
(***************************************************************************)
(* The user sets or unsets one of the region variables.  A region that     *)
(* differs from the one aws-sso set is the user's own from then on.        *)
(***************************************************************************)
UserSets(v, x) ==
  LET e == [env EXCEPT ![v] = x]
  IN  /\ x # env[v]
      /\ shells' = SetTop(shells, e)
      /\ managed' = SetTop(managed, FALSE)
      /\ own' = SetTop(own, {w \in (own[Top] \cup {v}) \ {"AWS_SSO_DEFAULT_REGION"} :
                               e[w] \notin {Unset, e["AWS_SSO_DEFAULT_REGION"]}})

-----------------------------------------------------------------------------
(* The values the variables take.                                          *)
TypeOK ==
  /\ Top \in 1..MaxShells
  /\ \A i \in 1..Top :
       /\ DOMAIN shells[i] = Vars
       /\ \A v \in RegionVars : shells[i][v] \in Regions \cup {Unset}
       /\ shells[i]["AWS_SSO_ROLE_ARN"] \in Roles \cup {Unset}
       /\ shells[i]["AWS_SSO_TAG"] \in {Unset} \cup {TagOf[r] : r \in Roles}
       /\ own[i] \subseteq {"AWS_DEFAULT_REGION", "AWS_REGION"}
       /\ managed[i] \in BOOLEAN

(* A command that was not told to overwrite the region.                    *)
Polite ==
  \E noRegion \in BOOLEAN :
    \/ Eval(noRegion, FALSE) \/ EvalRefresh(noRegion, FALSE)
    \/ EvalClear(noRegion) \/ Exec(noRegion, FALSE)

Kept(v) == Polite /\ v \in own[Top] => env'[v] = env[v]

(***************************************************************************)
(* An AWS_DEFAULT_REGION of the user's survives every sequence of evals,   *)
(* clears and execs, whatever aws-sso had set before the user changed it   *)
(* and whatever else the user changes.                                     *)
(***************************************************************************)
DefaultRegionKept == [][Kept("AWS_DEFAULT_REGION")]_vars

(***************************************************************************)
(* A region that aws-sso has set, and that nobody has changed or let go of *)
(* since, is gone after eval --clear, in all three variables.              *)
(***************************************************************************)
ClearForgets ==
  [][EvalClear(FALSE) /\ managed[Top] => \A v \in RegionVars : env'[v] = Unset]_vars
==============================================================================
