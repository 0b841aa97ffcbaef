-------------------------- MODULE ExecSessionProofs --------------------------
(***************************************************************************)
(* Proofs about a user's session (ExecSession), for any number of roles,   *)
(* regions, tags and words: the shells keep the user's AWS_DEFAULT_REGION, *)
(* the prompt's suggestions lead to one role, and the loop detection of    *)
(* Via chains raises no false alarm.  Each of the three parts has its own  *)
(* inductive invariant (ShellInv, TagInv, ChainInv); a session adds that   *)
(* one part at a time is in use.                                           *)
(*                                                                         *)
(* And about the credentials of its roles between executions (RoleCreds),  *)
(* for any executions and roles: while executions take turns, what a       *)
(* logout has reported as deleted is not handed out again and has left the *)
(* store, but for what a failed write or an interrupt has kept there or    *)
(* kept out of the cache.                                                  *)
(***************************************************************************)
EXTENDS ExecSession, RoleCreds, FiniteSetTheorems, WellFoundedInduction, TLAPS

(* Induction over the numbers, for a set instead of a property.            *)
LEMMA Induction ==
  ASSUME NEW S, S \subseteq Nat, 0 \in S, \A n \in S : n + 1 \in S
  PROVE  S = Nat
<1> DEFINE R == {ss \in Nat \X Nat : ss[1] < ss[2]}
<1> SUFFICES ASSUME Nat \ S # {}
             PROVE  FALSE
  OBVIOUS
<1>1. IsWellFoundedOn(R, Nat)
  BY NatLessThanWellFounded DEF OpToRel
<1>2. PICK x \in Nat \ S : \A y \in Nat \ S : <<y, x>> \notin R
  <2> HIDE DEF R
  <2> QED
    BY <1>1, WFMin
<1>3. x # 0 /\ x - 1 \in Nat /\ <<x - 1, x>> \in R
  OBVIOUS
<1>4. x - 1 \in S
  BY <1>2, <1>3
<1>5. (x - 1) + 1 = x
  OBVIOUS
<1> QED
  BY <1>2, <1>4, <1>5

-----------------------------------------------------------------------------
(* The shells.                                                             *)

TagValues == {Unset} \cup {TagOf[r] : r \in Roles}

Envs == {e \in [Vars -> Regions \cup Roles \cup TagValues] :
           /\ \A v \in RegionVars : e[v] \in Regions \cup {Unset}
           /\ e["AWS_SSO_ROLE_ARN"] \in Roles \cup {Unset}
           /\ e["AWS_SSO_TAG"] \in TagValues}

Chosen == {"AWS_DEFAULT_REGION", "AWS_REGION"}

(* One shell: a region of the user's differs from the one that aws-sso     *)
(* set, and a region that aws-sso manages is in all three variables.       *)
ShellOK(e, o, m) ==
  /\ e \in Envs
  /\ o \subseteq Chosen
  /\ m \in BOOLEAN
  /\ "AWS_DEFAULT_REGION" \in o =>
       e["AWS_DEFAULT_REGION"] \notin {Unset, e["AWS_SSO_DEFAULT_REGION"]}
  /\ m => /\ e["AWS_DEFAULT_REGION"] = e["AWS_SSO_DEFAULT_REGION"]
          /\ e["AWS_REGION"] = e["AWS_SSO_DEFAULT_REGION"]

ShellInv ==
  /\ Top \in 1..MaxShells
  /\ shells \in Seq(Envs)
  /\ own \in Seq(SUBSET Chosen) /\ Len(own) = Top
  /\ managed \in Seq(BOOLEAN) /\ Len(managed) = Top
  /\ \A i \in 1..Top : ShellOK(shells[i], own[i], managed[i])

(* What the innermost shell is.                                            *)
LEMMA TopShell ==
  ASSUME ShellInv
  PROVE  /\ Top \in 1..Top
         /\ ShellOK(env, own[Top], managed[Top])
         /\ env = shells[Top]
BY RolesAssumption DEF ShellInv, env, Last, Top

(* The innermost shell changes, a nested one starts, or it ends.           *)
LEMMA ShellChanges ==
  ASSUME ShellInv, NEW e, NEW o, NEW m, ShellOK(e, o, m),
         shells' = SetTop(shells, e), own' = SetTop(own, o),
         managed' = SetTop(managed, m)
  PROVE  ShellInv'
<1> USE DEF ShellInv, SetTop, Top
<1>1. Top \in 1..Top /\ e \in Envs /\ o \in SUBSET Chosen /\ m \in BOOLEAN
  BY RolesAssumption DEF ShellOK
<1>2. shells' \in Seq(Envs) /\ own' \in Seq(SUBSET Chosen) /\ managed' \in Seq(BOOLEAN)
  BY <1>1
<1>3. Top' = Top /\ Len(own') = Top /\ Len(managed') = Top
  BY <1>1
<1>4. \A i \in 1..Top : ShellOK(shells'[i], own'[i], managed'[i])
  BY <1>1
<1> QED
  BY <1>2, <1>3, <1>4

LEMMA ShellStarts ==
  ASSUME ShellInv, NEW e, NEW o, NEW m, ShellOK(e, o, m), Top < MaxShells,
         shells' = Append(shells, e), own' = Append(own, o),
         managed' = Append(managed, m)
  PROVE  ShellInv'
<1> USE DEF ShellInv, Top
<1>1. e \in Envs /\ o \in SUBSET Chosen /\ m \in BOOLEAN
  BY DEF ShellOK
<1>2. shells' \in Seq(Envs) /\ own' \in Seq(SUBSET Chosen) /\ managed' \in Seq(BOOLEAN)
  BY <1>1
<1>3. Top' = Top + 1 /\ Len(own') = Top + 1 /\ Len(managed') = Top + 1
  BY <1>1
<1>4. \A i \in 1..Top' : ShellOK(shells'[i], own'[i], managed'[i])
  <2> TAKE i \in 1..Top'
  <2>1. CASE i \in 1..Top
    BY <1>1, <2>1
  <2>2. CASE i = Top + 1
    BY <1>1, <2>2
  <2> QED
    BY <1>3, <2>1, <2>2
<1>5. Top' \in 1..MaxShells
  BY <1>3, RolesAssumption
<1> QED
  BY <1>2, <1>3, <1>4, <1>5

LEMMA ShellEnds ==
  ASSUME ShellInv, ExecReturns
  PROVE  ShellInv'
<1> USE DEF ShellInv, Top
<1>1. Top \in Nat /\ Top > 1
  BY RolesAssumption DEF ExecReturns
<1>2. /\ shells' \in Seq(Envs) /\ own' \in Seq(SUBSET Chosen) /\ managed' \in Seq(BOOLEAN)
      /\ Top' = Top - 1 /\ Len(own') = Top - 1 /\ Len(managed') = Top - 1
      /\ \A i \in 1..Top - 1 : /\ shells'[i] = shells[i]
                               /\ own'[i] = own[i]
                               /\ managed'[i] = managed[i]
  BY <1>1 DEF ExecReturns, Front
<1> QED
  BY <1>1, <1>2, RolesAssumption

-----------------------------------------------------------------------------
(* GetDefaultRegion and what is exported with its region.                  *)

LEMMA DefaultRegionTypes ==
  ASSUME NEW e, NEW r \in Roles, NEW n \in BOOLEAN, NEW o \in BOOLEAN
  PROVE  GetDefaultRegion(e, r, n, o) \in Regions \cup {Unset}
BY RolesAssumption DEF GetDefaultRegion

(* The environment with a role's variables added: each variable's value.   *)
LEMMA ExportGives ==
  ASSUME NEW e \in Envs, NEW r \in Roles, NEW region \in Regions \cup {Unset}
  PROVE  LET x == Export(e, ExecShellEnvs(r, region))
         IN  /\ x \in Envs
             /\ x["AWS_SSO_DEFAULT_REGION"] = region
             /\ \A v \in {"AWS_DEFAULT_REGION", "AWS_REGION"} :
                  x[v] = IF region = Unset THEN e[v] ELSE region
<1> DEFINE x == Export(e, ExecShellEnvs(r, region))
<1>1. DOMAIN x = Vars /\ x = [v \in Vars |-> x[v]]
  BY DEF Export
<1>2. DOMAIN ExecShellEnvs(r, region) = {"AWS_SSO_ROLE_ARN"} \cup Written(region) \cup TagVars(r)
  BY DEF ExecShellEnvs
<1>3. Written(region) = IF region = Unset THEN {"AWS_SSO_DEFAULT_REGION"} ELSE RegionVars
  BY DEF Written, SetRegionVars
<1>4. \A v \in Written(region) : SetRegionVars(region)[v] = region
  BY DEF Written, SetRegionVars
<1>5. \A v \in Written(region) : ExecShellEnvs(r, region)[v] = region
  BY <1>3, <1>4 DEF ExecShellEnvs, RegionVars
<1>6. \A v \in Vars : x[v] = IF v \in DOMAIN ExecShellEnvs(r, region)
                             THEN ExecShellEnvs(r, region)[v] ELSE e[v]
  BY DEF Export
<1>7. x["AWS_SSO_ROLE_ARN"] = r
  BY <1>2, <1>6 DEF ExecShellEnvs, Vars
<1>8. x["AWS_SSO_TAG"] \in TagValues
  <2>1. CASE TagOf[r] = Unset
    BY <1>2, <1>3, <1>6, <2>1 DEF TagVars, Vars, RegionVars, Envs
  <2>2. CASE TagOf[r] # Unset
    BY <1>2, <1>6, <2>2 DEF TagVars, Vars, ExecShellEnvs, TagValues
  <2> QED
    BY <2>1, <2>2
<1>9. \A v \in RegionVars : x[v] = IF v \in Written(region) THEN region ELSE e[v]
  BY <1>2, <1>3, <1>5, <1>6 DEF TagVars, Vars, RegionVars
<1>10. \A v \in RegionVars : x[v] \in Regions \cup {Unset}
  BY <1>9 DEF Envs
<1>11. Unset \in TagValues
  BY DEF TagValues
<1>12. \A v \in Vars : x[v] \in Regions \cup Roles \cup TagValues
  BY <1>7, <1>8, <1>10, <1>11 DEF Vars
<1>13. x \in [Vars -> Regions \cup Roles \cup TagValues]
  BY <1>1, <1>12
<1>14. x \in Envs
  BY <1>7, <1>8, <1>10, <1>13 DEF Envs
<1> QED
  BY <1>3, <1>9, <1>14 DEF RegionVars

(* The shell that a role's variables were exported to.                     *)
LEMMA ExportKeeps ==
  ASSUME NEW e, NEW o, NEW m, ShellOK(e, o, m),
         NEW r \in Roles, NEW region \in Regions \cup {Unset}
  PROVE  ShellOK(Export(e, ExecShellEnvs(r, region)), o \ Written(region), region # Unset)
<1> DEFINE x == Export(e, ExecShellEnvs(r, region))
<1>1. e \in Envs /\ o \subseteq Chosen
  BY DEF ShellOK
<1>2. /\ x \in Envs
      /\ x["AWS_SSO_DEFAULT_REGION"] = region
      /\ \A v \in {"AWS_DEFAULT_REGION", "AWS_REGION"} :
           x[v] = IF region = Unset THEN e[v] ELSE region
  BY <1>1, ExportGives
<1>3. Written(region) = IF region = Unset THEN {"AWS_SSO_DEFAULT_REGION"} ELSE RegionVars
  BY DEF Written, SetRegionVars
<1>4. "AWS_DEFAULT_REGION" \in o \ Written(region) =>
        x["AWS_DEFAULT_REGION"] \notin {Unset, x["AWS_SSO_DEFAULT_REGION"]}
  BY <1>2, <1>3 DEF ShellOK, RegionVars
<1> HIDE DEF x
<1> QED
  BY <1>1, <1>2, <1>4 DEF ShellOK, x

(* A region that the user chose is not written over.                       *)
LEMMA ExportIsPolite ==
  ASSUME NEW e, NEW o, NEW m, ShellOK(e, o, m), "AWS_DEFAULT_REGION" \in o,
         NEW r \in Roles, NEW n \in BOOLEAN
  PROVE  Export(e, ExecShellEnvs(r, GetDefaultRegion(e, r, n, FALSE)))["AWS_DEFAULT_REGION"]
           = e["AWS_DEFAULT_REGION"]
<1>1. GetDefaultRegion(e, r, n, FALSE) = Unset
  BY DEF GetDefaultRegion, UserManages, Current, ShellOK
<1>2. e \in Envs
  BY DEF ShellOK
<1> QED
  BY <1>1, <1>2, ExportGives

-----------------------------------------------------------------------------
(* The commands.                                                           *)

LEMMA NoVarsIsEnv == NoVars \in Envs
BY DEF NoVars, Envs, TagValues, Vars, RegionVars

LEMMA EvalKeeps ==
  ASSUME ShellInv, NEW n \in BOOLEAN, NEW o \in BOOLEAN, NEW r \in Roles,
         EvalRole(r, n, o)
  PROVE  ShellInv'
<1> DEFINE region == GetDefaultRegion(env, r, n, o)
<1>1. region \in Regions \cup {Unset}
  BY DefaultRegionTypes
<1>2. ShellOK(env, own[Top], managed[Top])
  BY TopShell
<1>3. ShellOK(Export(env, ExecShellEnvs(r, region)), own[Top] \ Written(region), region # Unset)
  BY <1>1, <1>2, ExportKeeps
<1> QED
  BY <1>3, ShellChanges DEF EvalRole

LEMMA RefreshEvals ==
  ASSUME ShellInv, NEW n \in BOOLEAN, NEW o \in BOOLEAN, EvalRefresh(n, o)
  PROVE  \E r \in Roles : EvalRole(r, n, o)
<1>1. env["AWS_SSO_ROLE_ARN"] \in Roles
  BY TopShell DEF EvalRefresh, ShellOK, Envs
<1> QED
  BY <1>1 DEF EvalRefresh

LEMMA ExecKeeps ==
  ASSUME ShellInv, NEW n \in BOOLEAN, NEW o \in BOOLEAN, NEW r \in Roles,
         ExecRole(r, n, o)
  PROVE  ShellInv'
<1> DEFINE region == GetDefaultRegion(env, r, n, o)
           base == IF o THEN NoVars ELSE env
           kept == IF o THEN {} ELSE own[Top] \ Written(region)
<1>1. region \in Regions \cup {Unset}
  BY DefaultRegionTypes
<1>2. ShellOK(env, own[Top], managed[Top])
  BY TopShell
<1>3. ShellOK(NoVars, {}, FALSE)
  BY NoVarsIsEnv DEF ShellOK
<1> HIDE DEF region
<1>4. ShellOK(Export(base, ExecShellEnvs(r, region)), kept, region # Unset)
  <2>1. CASE o
    <3>1. ShellOK(Export(NoVars, ExecShellEnvs(r, region)), {} \ Written(region), region # Unset)
      BY <1>1, <1>3, ExportKeeps
    <3>2. {} \ Written(region) = {}
      OBVIOUS
    <3> QED
      BY <2>1, <3>1, <3>2
  <2>2. CASE ~o
    BY <1>1, <1>2, <2>2, ExportKeeps
  <2> QED
    BY <2>1, <2>2
<1> QED
  BY <1>4, ShellStarts DEF ExecRole, region

(* What is left when some variables are unset.                             *)
LEMMA ClearGives ==
  ASSUME NEW e \in Envs, NEW gone
  PROVE  LET x == Export(e, [v \in gone |-> Unset])
         IN  /\ x \in Envs
             /\ \A v \in Vars : x[v] = IF v \in gone THEN Unset ELSE e[v]
<1> DEFINE x == Export(e, [v \in gone |-> Unset])
<1>1. \A v \in Vars : x[v] = IF v \in gone THEN Unset ELSE e[v]
  BY DEF Export
<1>2. x = [v \in Vars |-> x[v]]
  BY DEF Export
<1>3. Unset \in TagValues
  BY DEF TagValues
<1>4. \A v \in Vars : x[v] \in Regions \cup Roles \cup TagValues
  BY <1>1, <1>3 DEF Envs
<1>5. x \in [Vars -> Regions \cup Roles \cup TagValues]
  BY <1>2, <1>4
<1>6. /\ \A v \in RegionVars : x[v] \in Regions \cup {Unset}
      /\ x["AWS_SSO_ROLE_ARN"] \in Roles \cup {Unset}
      /\ x["AWS_SSO_TAG"] \in TagValues
  BY <1>1, <1>3 DEF Vars, Envs
<1> QED
  BY <1>1, <1>5, <1>6 DEF Envs

LEMMA ClearKeeps ==
  ASSUME ShellInv, NEW n \in BOOLEAN, EvalClear(n)
  PROVE  ShellInv'
<1> DEFINE gone == RegionsToUnset(env, n) \cup {"AWS_SSO_ROLE_ARN", "AWS_SSO_TAG"}
           x == Export(env, [v \in gone |-> Unset])
           o == own[Top] \ gone
           m == managed[Top] /\ n
<1>1. ShellOK(env, own[Top], managed[Top])
  BY TopShell
<1>2. x \in Envs /\ \A v \in Vars : x[v] = IF v \in gone THEN Unset ELSE env[v]
  BY <1>1, ClearGives DEF ShellOK
<1>3. RegionVars \subseteq Vars
  BY DEF Vars
<1>4. "AWS_DEFAULT_REGION" \in o =>
        x["AWS_DEFAULT_REGION"] \notin {Unset, x["AWS_SSO_DEFAULT_REGION"]}
  BY <1>1, <1>2, <1>3 DEF ShellOK, RegionVars
<1>5. m => /\ x["AWS_DEFAULT_REGION"] = x["AWS_SSO_DEFAULT_REGION"]
           /\ x["AWS_REGION"] = x["AWS_SSO_DEFAULT_REGION"]
  <2> SUFFICES ASSUME m
               PROVE  /\ x["AWS_DEFAULT_REGION"] = x["AWS_SSO_DEFAULT_REGION"]
                      /\ x["AWS_REGION"] = x["AWS_SSO_DEFAULT_REGION"]
    OBVIOUS
  <2>1. /\ env["AWS_DEFAULT_REGION"] = env["AWS_SSO_DEFAULT_REGION"]
        /\ env["AWS_REGION"] = env["AWS_SSO_DEFAULT_REGION"]
    BY <1>1 DEF ShellOK
  <2>2. RegionsToUnset(env, n) = {}
    BY <2>1 DEF RegionsToUnset
  <2> QED
    BY <1>2, <1>3, <2>1, <2>2 DEF RegionVars
<1>6. ShellOK(x, o, m)
  <2>1. o \subseteq Chosen /\ m \in BOOLEAN
    BY <1>1 DEF ShellOK
  <2> HIDE DEF x, o, m
  <2> QED
    BY <1>2, <1>4, <1>5, <2>1 DEF ShellOK
<1> QED
  BY <1>6, ShellChanges DEF EvalClear

LEMMA UserKeeps ==
  ASSUME ShellInv, NEW v \in RegionVars, NEW y \in UserValues, UserSets(v, y)
  PROVE  ShellInv'
<1> DEFINE e == [env EXCEPT ![v] = y]
           o == {w \in (own[Top] \cup {v}) \ {"AWS_SSO_DEFAULT_REGION"} :
                   e[w] \notin {Unset, e["AWS_SSO_DEFAULT_REGION"]}}
<1>1. env \in Envs /\ own[Top] \subseteq Chosen
  BY TopShell DEF ShellOK
<1>2. e \in Envs
  <2>1. y \in Regions \cup {Unset} /\ y \in Regions \cup Roles \cup TagValues
    BY RolesAssumption DEF TagValues
  <2>2. e \in [Vars -> Regions \cup Roles \cup TagValues]
    BY <1>1, <2>1 DEF Envs
  <2> QED
    BY <1>1, <2>1, <2>2 DEF Envs, RegionVars, Vars
<1>3. o \subseteq Chosen
  BY <1>1 DEF RegionVars, Chosen
<1>4. ShellOK(e, o, FALSE)
  BY <1>2, <1>3 DEF ShellOK
<1> QED
  BY <1>4, ShellChanges DEF UserSets

LEMMA ShellInit == Init => ShellInv
<1> SUFFICES ASSUME Init
             PROVE  ShellInv
  OBVIOUS
<1>1. ShellOK(NoVars, {}, FALSE)
  BY NoVarsIsEnv DEF ShellOK
<1>2. shells = <<NoVars>> /\ own = <<{}>> /\ managed = <<FALSE>>
  BY DEF Init
<1>3. shells \in Seq(Envs) /\ own \in Seq(SUBSET Chosen) /\ managed \in Seq(BOOLEAN)
  BY <1>2, NoVarsIsEnv
<1>4. Len(shells) = 1 /\ Len(own) = 1 /\ Len(managed) = 1
  BY <1>2
<1>5. shells[1] = NoVars /\ own[1] = {} /\ managed[1] = FALSE
  BY <1>2
<1>6. \A i \in 1..1 : ShellOK(shells[i], own[i], managed[i])
  <2> TAKE i \in 1..1
  <2>1. i = 1
    OBVIOUS
  <2> QED
    BY <1>1, <1>5, <2>1
<1> QED
  BY <1>3, <1>4, <1>6, RolesAssumption DEF ShellInv, Top

(* The commands' own choice of the region.                                 *)
LEMMA PoliteKeeps ==
  ASSUME ShellInv
  PROVE  Kept("AWS_DEFAULT_REGION")
<1> SUFFICES ASSUME Polite, "AWS_DEFAULT_REGION" \in own[Top]
             PROVE  env'["AWS_DEFAULT_REGION"] = env["AWS_DEFAULT_REGION"]
  BY DEF Kept
<1>1. ShellOK(env, own[Top], managed[Top]) /\ Top \in 1..Top
  BY TopShell
<1>2. shells \in Seq(Envs) /\ env \in Envs
  BY <1>1 DEF ShellInv, ShellOK
<1>3. \A x : shells' = SetTop(shells, x) => env' = x
  BY <1>1, <1>2 DEF SetTop, env, Last, Top
<1>4. \A x \in Envs : shells' = Append(shells, x) => env' = x
  BY <1>2 DEF env, Last
<1>5. PICK n \in BOOLEAN : \/ Eval(n, FALSE) \/ EvalRefresh(n, FALSE)
                           \/ EvalClear(n) \/ Exec(n, FALSE)
  BY DEF Polite
<1>6. ASSUME NEW r \in Roles, EvalRole(r, n, FALSE)
      PROVE  env'["AWS_DEFAULT_REGION"] = env["AWS_DEFAULT_REGION"]
  BY <1>1, <1>3, <1>6, ExportIsPolite DEF EvalRole
<1>7. CASE Eval(n, FALSE) \/ EvalRefresh(n, FALSE)
  BY <1>6, <1>7, RefreshEvals DEF Eval
<1>8. CASE EvalClear(n)
  <2> DEFINE gone == RegionsToUnset(env, n) \cup {"AWS_SSO_ROLE_ARN", "AWS_SSO_TAG"}
  <2>1. "AWS_DEFAULT_REGION" \notin gone
    BY <1>1 DEF ShellOK, RegionsToUnset
  <2>2. env' = Export(env, [v \in gone |-> Unset])
    BY <1>3, <1>8 DEF EvalClear
  <2> QED
    BY <1>2, <2>1, <2>2, ClearGives DEF Vars, RegionVars
<1>9. CASE Exec(n, FALSE)
  <2>1. PICK r \in Roles : ExecRole(r, n, FALSE)
    BY <1>9 DEF Exec
  <2> DEFINE region == GetDefaultRegion(env, r, n, FALSE)
  <2>2. Export(env, ExecShellEnvs(r, region)) \in Envs
    BY <1>2, DefaultRegionTypes, ExportGives
  <2>3. env' = Export(env, ExecShellEnvs(r, region))
    BY <1>4, <2>1, <2>2 DEF ExecRole
  <2> QED
    BY <1>1, <2>3, ExportIsPolite
<1> QED
  BY <1>5, <1>7, <1>8, <1>9

LEMMA ClearEmpties ==
  ASSUME ShellInv, EvalClear(FALSE), managed[Top]
  PROVE  \A v \in RegionVars : env'[v] = Unset
<1>1. ShellOK(env, own[Top], managed[Top]) /\ Top \in 1..Top
  BY TopShell
<1>2. shells \in Seq(Envs) /\ env \in Envs
  BY <1>1 DEF ShellInv, ShellOK
<1>3. \A x : shells' = SetTop(shells, x) => env' = x
  BY <1>1, <1>2 DEF SetTop, env, Last, Top
<1> DEFINE gone == RegionsToUnset(env, FALSE) \cup {"AWS_SSO_ROLE_ARN", "AWS_SSO_TAG"}
<1>4. env["AWS_DEFAULT_REGION"] = env["AWS_SSO_DEFAULT_REGION"]
  BY <1>1 DEF ShellOK
<1>5. RegionsToUnset(env, FALSE) = RegionVars
  BY <1>4 DEF RegionsToUnset
<1>6. env' = Export(env, [v \in gone |-> Unset])
  BY <1>3 DEF EvalClear
<1>7. RegionVars \subseteq gone /\ RegionVars \subseteq Vars
  BY <1>5 DEF Vars
<1> HIDE DEF gone
<1> QED
  BY <1>2, <1>6, <1>7, ClearGives

-----------------------------------------------------------------------------
(* The chain of roles.                                                     *)

Readable == Roles \X Spellings

(* The roles whose calls are open.                                         *)
Open == {stack[i] : i \in 1..Len(stack)}

Descending == pc \in {"down", "panic", "overflow"}

(* Every call is for the role that the Via of the one before it names, and *)
(* one that is named by its remembered ARN is new.                         *)
StackFollowsVia ==
  pc # "idle" =>
    /\ asked \in Roles
    /\ Len(stack) >= 1 /\ stack[1] = asked
    /\ \A i \in 1..Len(stack) - 1 : /\ via[stack[i]] \in Readable
                                    /\ stack[i + 1] = Chain!Target(via[stack[i]])
    /\ \A i, j \in 1..Len(stack) :
         i < j /\ via[stack[j - 1]] = <<stack[j], Arn>> => stack[i] # stack[j]

(* On the way down every role that has been left is remembered.            *)
MapRemembers ==
  Descending => chainMap = {stack[i] : i \in 1..Len(stack) - 1} /\ calls = <<>>

(* On the way up the last credentials are those of the innermost call.     *)
CallsFollowStack ==
  /\ pc \in {"up", "done"} =>
       calls # <<>> /\ calls[Len(calls)].role = stack[Len(stack)]
  /\ pc = "done" => Len(stack) = 1

EndsForAReason ==
  /\ pc = "panic" => \E r \in Open : via[stack[Len(stack)]] = <<r, Arn>>
  /\ pc = "overflow" => /\ Len(stack) = Chain!MaxDepth
                        /\ via[stack[Len(stack)]] \in Readable

IdleIsEmpty == pc = "idle" => stack = <<>> /\ chainMap = {} /\ calls = <<>>

CallsKnown ==
  \A i \in 1..Len(calls) :
    IF calls[i].by = None THEN via[calls[i].role] = None
    ELSE Chain!Target(via[calls[i].role]) = calls[i].by

ChainInv ==
  /\ Chain!TypeOK
  /\ StackFollowsVia
  /\ MapRemembers
  /\ CallsFollowStack
  /\ EndsForAReason
  /\ IdleIsEmpty
  /\ CallsKnown

(* RoleChain's own instance of the library counts as the library does.     *)
LEMMA ChainCounts ==
  /\ IsFiniteSet(Roles) <=> Chain!IsFiniteSet(Roles)
  /\ Chain!Cardinality(Roles) = Cardinality(Roles)
<1>1. IsFiniteSet(Roles) <=> Chain!IsFiniteSet(Roles)
  BY DEF IsFiniteSet, Chain!IsFiniteSet
<1>2. Chain!Cardinality(Roles) = Cardinality(Roles)
  BY DEF Cardinality, Chain!Cardinality
<1> QED
  BY <1>1, <1>2

LEMMA ChainConstants ==
  /\ IsFiniteSet(Roles) /\ Cardinality(Roles) \in Nat
  /\ Chain!MaxDepth = Cardinality(Roles) + 1 /\ Chain!MaxDepth \in Nat
  /\ Arn \in Spellings
  /\ None # Unreadable /\ None \notin Roles
  /\ None \notin Readable /\ Unreadable \notin Readable
<1>1. Chain!Parameters
  BY SessionAssumption
<1>2. IsFiniteSet(Roles)
  BY <1>1, ChainCounts DEF Chain!Parameters
<1>3. Cardinality(Roles) \in Nat
  BY <1>2, FS_CardinalityType
<1>4. Chain!MaxDepth = Cardinality(Roles) + 1
  BY ChainCounts DEF Chain!MaxDepth
<1> QED
  BY <1>1, <1>2, <1>3, <1>4 DEF Chain!Parameters, Readable

LEMMA ChainInit == Chain!Init => ChainInv
<1> SUFFICES ASSUME Chain!Init
             PROVE  ChainInv
  OBVIOUS
<1>1. /\ via = [r \in Roles |-> None] /\ asked = None /\ stack = <<>>
      /\ chainMap = {} /\ pc = "idle" /\ calls = <<>>
  BY DEF Chain!Init
<1>2. Chain!TypeOK
  BY <1>1, ChainConstants DEF Chain!TypeOK, Chain!Vias
<1> QED
  BY <1>1, <1>2 DEF ChainInv, StackFollowsVia, MapRemembers, CallsFollowStack, Descending,
                    EndsForAReason, IdleIsEmpty, CallsKnown

-----------------------------------------------------------------------------
LEMMA AskKeeps ==
  ASSUME ChainInv, NEW r \in Roles, Chain!Ask(r)
  PROVE  ChainInv'
<1>1. /\ via' \in [Roles -> Chain!Vias] /\ asked' = r /\ stack' = <<r>> /\ pc' = "down"
      /\ chainMap' = {} /\ calls' = <<>>
  BY DEF Chain!Ask, ChainInv, IdleIsEmpty
<1>2. stack' \in Seq(Roles) /\ Len(stack') = 1 /\ stack'[1] = r
  BY <1>1
<1>3. Chain!TypeOK'
  BY <1>1, <1>2, ChainConstants DEF Chain!TypeOK
<1>4. StackFollowsVia'
  BY <1>1, <1>2 DEF StackFollowsVia
<1>5. MapRemembers'
  BY <1>1, <1>2 DEF MapRemembers
<1> QED
  BY <1>1, <1>3, <1>4, <1>5 DEF ChainInv, CallsFollowStack,
                    EndsForAReason, IdleIsEmpty, CallsKnown

(* A role's credentials, obtained for the innermost call.                  *)
LEMMA CallAdded ==
  ASSUME Chain!TypeOK, CallsKnown, NEW c \in [role : Roles, by : Roles \cup {None}],
         IF c.by = None THEN via[c.role] = None ELSE Chain!Target(via[c.role]) = c.by,
         calls' = Append(calls, c), via' = via
  PROVE  /\ calls' \in Seq([role : Roles, by : Roles \cup {None}])
         /\ calls' # <<>> /\ calls'[Len(calls')] = c
         /\ CallsKnown'
<1>1. calls \in Seq([role : Roles, by : Roles \cup {None}])
  BY DEF Chain!TypeOK
<1>2. /\ calls' \in Seq([role : Roles, by : Roles \cup {None}])
      /\ Len(calls') = Len(calls) + 1
      /\ calls' # <<>> /\ calls'[Len(calls')] = c
      /\ \A i \in 1..Len(calls) : calls'[i] = calls[i]
  BY <1>1
<1>3. CallsKnown'
  <2> SUFFICES ASSUME NEW i \in 1..Len(calls')
               PROVE  IF calls'[i].by = None THEN via[calls'[i].role] = None
                      ELSE Chain!Target(via[calls'[i].role]) = calls'[i].by
    BY DEF CallsKnown, Chain!Target
  <2>1. CASE i = Len(calls')
    BY <1>2, <2>1
  <2>2. CASE i # Len(calls')
    <3>1. i \in 1..Len(calls)
      BY <1>1, <1>2, <2>2
    <3> QED
      BY <1>2, <3>1 DEF CallsKnown
  <2> QED
    BY <2>1, <2>2
<1> QED
  BY <1>2, <1>3

LEMMA FetchKeeps ==
  ASSUME ChainInv, Chain!FetchDirectly
  PROVE  ChainInv'
<1> USE DEF ChainInv
<1>1. /\ pc = "down" /\ via[Chain!Role] = None
      /\ via' = via /\ asked' = asked /\ stack' = stack /\ chainMap' = chainMap
  BY DEF Chain!FetchDirectly
<1>2. stack \in Seq(Roles) /\ Len(stack) >= 1
  BY <1>1 DEF StackFollowsVia, Chain!TypeOK
<1>3. Chain!Role = stack[Len(stack)] /\ Chain!Role \in Roles
  BY <1>2 DEF Chain!Role, Chain!Last
<1>4. StackFollowsVia'
  BY <1>1 DEF StackFollowsVia, Chain!Target, Chain!FetchDirectly
<1>5. CASE pc' = "up" /\ calls' = Append(calls, Chain!DirectCall(Chain!Role))
  <2> DEFINE c == Chain!DirectCall(Chain!Role)
  <2>1. c \in [role : Roles, by : Roles \cup {None}] /\ c.by = None /\ c.role = Chain!Role
    BY <1>3 DEF Chain!DirectCall
  <2>2. /\ calls' \in Seq([role : Roles, by : Roles \cup {None}])
        /\ calls' # <<>> /\ calls'[Len(calls')] = c
        /\ CallsKnown'
    <3> HIDE DEF c
    <3> QED
      BY <1>1, <1>5, <2>1, CallAdded DEF c
  <2>3. Chain!TypeOK'
    BY <1>1, <1>5, <2>2 DEF Chain!TypeOK
  <2>4. MapRemembers' /\ CallsFollowStack' /\ EndsForAReason' /\ IdleIsEmpty'
    BY <1>1, <1>3, <1>5, <2>1, <2>2
       DEF MapRemembers, Descending, CallsFollowStack, EndsForAReason, IdleIsEmpty
  <2> QED
    BY <1>4, <2>2, <2>3, <2>4
<1>6. CASE pc' = "error" /\ calls' = calls
  <2>1. Chain!TypeOK'
    BY <1>1, <1>6 DEF Chain!TypeOK, Chain!Ended
  <2> QED
    BY <1>1, <1>4, <1>6, <2>1
       DEF MapRemembers, Descending, CallsFollowStack, EndsForAReason, IdleIsEmpty, CallsKnown, Chain!Target
<1> QED
  BY <1>5, <1>6 DEF Chain!FetchDirectly

(* The chain ends with an error of some kind, or with the answer.          *)
LEMMA EndingKeeps ==
  ASSUME ChainInv, pc # "idle", pc' \in Chain!Ended,
         UNCHANGED <<via, asked, stack, chainMap, calls>>,
         pc' \in {"panic", "overflow"} => pc = "down",
         pc' = "done" => pc = "up",
         CallsFollowStack', EndsForAReason'
  PROVE  ChainInv'
<1> USE DEF ChainInv
<1>1. Chain!TypeOK'
  BY DEF Chain!TypeOK, Chain!Ended
<1>2. StackFollowsVia'
  BY DEF StackFollowsVia, Chain!Target
<1>3. MapRemembers'
  <2>1. Descending' => pc = "down"
    BY DEF Descending, Chain!Ended
  <2>2. Descending' => chainMap = {stack[i] : i \in 1..Len(stack) - 1} /\ calls = <<>>
    BY <2>1 DEF MapRemembers, Descending
  <2> QED
    BY <2>2 DEF MapRemembers
<1>4. CallsKnown'
  BY DEF CallsKnown, Chain!Target
<1>5. IdleIsEmpty'
  BY DEF IdleIsEmpty, Chain!Ended
<1> QED
  BY <1>1, <1>2, <1>3, <1>4, <1>5

(* The way down.                                                           *)
LEMMA GoingDown ==
  ASSUME ChainInv, pc = "down"
  PROVE  /\ stack \in Seq(Roles) /\ Len(stack) \in 1..Chain!MaxDepth
         /\ Chain!Role = stack[Len(stack)] /\ Chain!Role \in Roles
         /\ Open \subseteq Roles
         /\ Chain!Remembered(Chain!Role) = Open
<1>1. stack \in Seq(Roles) /\ Len(stack) >= 1 /\ Len(stack) \in 0..Chain!MaxDepth
  BY DEF StackFollowsVia, Chain!TypeOK, ChainInv
<1>2. Chain!Role = stack[Len(stack)] /\ Chain!Role \in Roles
  BY <1>1 DEF Chain!Role, Chain!Last
<1>3. chainMap = {stack[i] : i \in 1..Len(stack) - 1}
  BY DEF ChainInv, MapRemembers, Descending
<1>4. 1..Len(stack) = (1..Len(stack) - 1) \cup {Len(stack)}
  BY <1>1
<1>5. Chain!Remembered(Chain!Role) = Open
  BY <1>2, <1>3, <1>4 DEF Chain!Remembered, Open
<1> QED
  BY <1>1, <1>2, <1>5, ChainConstants DEF Open

LEMMA PanicKeeps ==
  ASSUME ChainInv, Chain!LoopPanics
  PROVE  ChainInv'
<1>1. /\ pc = "down" /\ pc' = "panic"
      /\ UNCHANGED <<via, asked, stack, chainMap, calls>>
      /\ Chain!Visited(via[Chain!Role], Chain!Remembered(Chain!Role))
  BY DEF Chain!LoopPanics
<1>2. PICK r \in Open : via[stack[Len(stack)]] = <<r, Arn>>
  BY <1>1, GoingDown DEF Chain!Visited
<1>3. EndsForAReason' /\ CallsFollowStack'
  BY <1>1, <1>2 DEF EndsForAReason, Open, CallsFollowStack
<1> QED
  BY <1>1, <1>3, EndingKeeps DEF Chain!Ended

LEMMA UnreadableKeeps ==
  ASSUME ChainInv, Chain!ViaUnreadable
  PROVE  ChainInv'
<1>1. /\ pc = "down" /\ pc' = "error"
      /\ UNCHANGED <<via, asked, stack, chainMap, calls>>
  BY DEF Chain!ViaUnreadable
<1>2. EndsForAReason' /\ CallsFollowStack'
  BY <1>1 DEF EndsForAReason, CallsFollowStack
<1> QED
  BY <1>1, <1>2, EndingKeeps DEF Chain!Ended

LEMMA OverflowKeeps ==
  ASSUME ChainInv, Chain!Overflow
  PROVE  ChainInv'
<1>1. /\ pc = "down" /\ pc' = "overflow" /\ via[Chain!Role] \in Readable
      /\ Len(stack) = Chain!MaxDepth
      /\ UNCHANGED <<via, asked, stack, chainMap, calls>>
  BY DEF Chain!Overflow, Readable
<1>2. EndsForAReason' /\ CallsFollowStack'
  BY <1>1, GoingDown DEF EndsForAReason, CallsFollowStack
<1> QED
  BY <1>1, <1>2, EndingKeeps DEF Chain!Ended

LEMMA DescendKeeps ==
  ASSUME ChainInv, Chain!Descend
  PROVE  ChainInv'
<1> DEFINE r == Chain!Role
           q == Chain!Target(via[r])
<1>1. /\ pc = "down" /\ via[r] \in Readable /\ Len(stack) < Chain!MaxDepth
      /\ ~ Chain!Visited(via[r], Chain!Remembered(r))
      /\ stack' = Append(stack, q) /\ chainMap' = Chain!Remembered(r)
      /\ via' = via /\ asked' = asked /\ pc' = "down" /\ calls' = calls
  BY DEF Chain!Descend, Readable
<1>2. /\ stack \in Seq(Roles) /\ Len(stack) \in 1..Chain!MaxDepth
      /\ r = stack[Len(stack)] /\ r \in Roles
      /\ Open \subseteq Roles
      /\ Chain!Remembered(r) = Open
  BY <1>1, GoingDown
<1>3. q \in Roles
  BY <1>1 DEF Chain!Target, Readable
<1> DEFINE n == Len(stack)
<1>4. n \in Nat /\ n >= 1 /\ Chain!MaxDepth \in Nat
  BY <1>2, ChainConstants
<1> HIDE DEF q, r
<1>5. /\ stack' \in Seq(Roles) /\ Len(stack') = n + 1
      /\ \A i \in 1..n : stack'[i] = stack[i]
      /\ stack'[n + 1] = q
  BY <1>1, <1>2, <1>3
<1>6. Chain!TypeOK'
  BY <1>1, <1>2, <1>4, <1>5 DEF ChainInv, Chain!TypeOK
<1>7. StackFollowsVia'
  <2>1. /\ asked \in Roles /\ stack[1] = asked
        /\ \A i \in 1..n - 1 : /\ via[stack[i]] \in Readable
                               /\ stack[i + 1] = Chain!Target(via[stack[i]])
        /\ \A i, j \in 1..n :
             i < j /\ via[stack[j - 1]] = <<stack[j], Arn>> => stack[i] # stack[j]
    BY <1>1 DEF ChainInv, StackFollowsVia
  <2>2. ASSUME NEW i \in 1..n
        PROVE  /\ via[stack'[i]] \in Readable
               /\ stack'[i + 1] = Chain!Target(via[stack'[i]])
    <3>1. CASE i = n
      BY <1>1, <1>2, <1>5, <3>1 DEF q
    <3>2. CASE i # n
      BY <1>4, <1>5, <2>1, <3>2
    <3> QED
      BY <3>1, <3>2
  <2>3. ASSUME NEW i \in 1..n + 1, NEW j \in 1..n + 1, i < j,
               via[stack'[j - 1]] = <<stack'[j], Arn>>
        PROVE  stack'[i] # stack'[j]
    <3>1. CASE j = n + 1
      <4>1. via[r] = <<q, Arn>>
        BY <1>2, <1>4, <1>5, <2>3, <3>1
      <4>2. q \notin Open
        BY <1>1, <1>2, <4>1 DEF Chain!Visited
      <4> QED
        BY <1>4, <1>5, <2>3, <3>1, <4>2 DEF Open
    <3>2. CASE j # n + 1
      <4>1. i \in 1..n /\ j \in 1..n /\ j - 1 \in 1..n
        BY <1>4, <2>3, <3>2
      <4> QED
        BY <1>5, <2>1, <2>3, <4>1
    <3> QED
      BY <3>1, <3>2
  <2>4. (n + 1) - 1 = n
    BY <1>4
  <2> HIDE DEF n
  <2>5. Len(stack') = n + 1 /\ Len(stack') - 1 = n /\ via' = via
    BY <1>1, <1>5, <2>4
  <2>6. \A i \in 1..Len(stack') - 1 : /\ via'[stack'[i]] \in Readable
                                      /\ stack'[i + 1] = Chain!Target(via'[stack'[i]])
    BY <2>2, <2>5
  <2>7. \A i, j \in 1..Len(stack') :
          i < j /\ via'[stack'[j - 1]] = <<stack'[j], Arn>> => stack'[i] # stack'[j]
    BY <2>3, <2>5
  <2>8. Len(stack') >= 1 /\ stack'[1] = asked'
    BY <1>1, <1>4, <1>5, <2>1
  <2> QED
    BY <1>1, <2>1, <2>6, <2>7, <2>8 DEF StackFollowsVia, Chain!Target
<1>8. MapRemembers'
  <2>1. chainMap' = {stack[i] : i \in 1..n}
    BY <1>1, <1>2 DEF Open
  <2>2. {stack'[i] : i \in 1..Len(stack') - 1} = {stack[i] : i \in 1..n}
    BY <1>4, <1>5
  <2>3. calls = <<>>
    BY <1>1 DEF ChainInv, MapRemembers, Descending
  <2> QED
    BY <1>1, <2>1, <2>2, <2>3 DEF MapRemembers
<1> QED
  BY <1>1, <1>6, <1>7, <1>8
     DEF ChainInv, CallsFollowStack, EndsForAReason, IdleIsEmpty, CallsKnown, Chain!Target

(* The way back up.                                                        *)
LEMMA AssumeKeeps ==
  ASSUME ChainInv, Chain!AssumeRole
  PROVE  ChainInv'
<1> DEFINE n == Len(stack)
           c == [role |-> stack[n - 1], by |-> stack[n]]
<1>1. /\ pc = "up" /\ n > 1 /\ calls' = Append(calls, c) /\ stack' = Chain!Front(stack)
      /\ via' = via /\ asked' = asked /\ chainMap' = chainMap /\ pc' = pc
  BY DEF Chain!AssumeRole, Chain!Assume, Chain!Role, Chain!Last
<1>2. stack \in Seq(Roles) /\ n \in 0..Chain!MaxDepth /\ Chain!MaxDepth \in Nat
  BY ChainConstants DEF ChainInv, Chain!TypeOK
<1>3. n \in Nat /\ stack[n] \in Roles /\ stack[n - 1] \in Roles
  BY <1>1, <1>2
<1>4. /\ stack' \in Seq(Roles) /\ Len(stack') = n - 1
      /\ \A i \in 1..n - 1 : stack'[i] = stack[i]
  BY <1>1, <1>2, <1>3 DEF Chain!Front
<1>5. Chain!Target(via[c.role]) = c.by
  <2>1. n - 1 \in 1..n - 1 /\ (n - 1) + 1 = n
    BY <1>1, <1>3
  <2> QED
    BY <1>1, <2>1 DEF ChainInv, StackFollowsVia
<1>6. c \in [role : Roles, by : Roles \cup {None}] /\ c.by # None
  BY <1>3, ChainConstants
<1>7. /\ calls' \in Seq([role : Roles, by : Roles \cup {None}])
      /\ calls' # <<>> /\ calls'[Len(calls')] = c
      /\ CallsKnown'
  <2> HIDE DEF c
  <2> QED
    BY <1>1, <1>5, <1>6, CallAdded DEF ChainInv
<1>8. Chain!TypeOK'
  BY <1>1, <1>2, <1>3, <1>4, <1>7 DEF ChainInv, Chain!TypeOK
<1>9. StackFollowsVia'
  <2>1. /\ asked \in Roles /\ stack[1] = asked
        /\ \A i \in 1..n - 1 : /\ via[stack[i]] \in Readable
                               /\ stack[i + 1] = Chain!Target(via[stack[i]])
        /\ \A i, j \in 1..n :
             i < j /\ via[stack[j - 1]] = <<stack[j], Arn>> => stack[i] # stack[j]
    BY <1>1 DEF ChainInv, StackFollowsVia
  <2>2. \A i \in 1..(n - 1) - 1 : /\ via[stack'[i]] \in Readable
                                  /\ stack'[i + 1] = Chain!Target(via[stack'[i]])
    <3> TAKE i \in 1..(n - 1) - 1
    <3>1. i \in 1..n - 1 /\ i + 1 \in 1..n - 1
      BY <1>3
    <3> QED
      BY <1>4, <2>1, <3>1
  <2>3. ASSUME NEW i \in 1..n - 1, NEW j \in 1..n - 1, i < j,
               via[stack'[j - 1]] = <<stack'[j], Arn>>
        PROVE  stack'[i] # stack'[j]
    <3>1. j - 1 \in 1..n - 1 /\ i \in 1..n /\ j \in 1..n
      BY <1>3, <2>3
    <3> QED
      BY <1>4, <2>1, <2>3, <3>1
  <2>4. n - 1 >= 1 /\ stack'[1] = stack[1]
    BY <1>1, <1>3, <1>4
  <2> HIDE DEF n
  <2>5. /\ \A i \in 1..Len(stack') - 1 : /\ via'[stack'[i]] \in Readable
                                         /\ stack'[i + 1] = Chain!Target(via'[stack'[i]])
        /\ \A i, j \in 1..Len(stack') :
             i < j /\ via'[stack'[j - 1]] = <<stack'[j], Arn>> => stack'[i] # stack'[j]
    BY <1>1, <1>4, <2>2, <2>3
  <2> QED
    BY <1>1, <1>4, <2>1, <2>4, <2>5 DEF StackFollowsVia, Chain!Target
<1>10. CallsFollowStack'
  <2>1. stack'[Len(stack')] = stack[n - 1]
    BY <1>1, <1>3, <1>4
  <2> QED
    BY <1>1, <1>7, <2>1 DEF CallsFollowStack
<1> QED
  BY <1>1, <1>7, <1>8, <1>9, <1>10
     DEF ChainInv, MapRemembers, Descending, EndsForAReason, IdleIsEmpty

LEMMA AssumeFailKeeps ==
  ASSUME ChainInv, Chain!AssumeRoleFails
  PROVE  ChainInv'
<1>1. /\ pc = "up" /\ pc' = "error"
      /\ UNCHANGED <<via, asked, stack, chainMap, calls>>
  BY DEF Chain!AssumeRoleFails
<1>2. EndsForAReason' /\ CallsFollowStack'
  BY <1>1 DEF EndsForAReason, CallsFollowStack
<1> QED
  BY <1>1, <1>2, EndingKeeps DEF Chain!Ended

LEMMA ReturnKeeps ==
  ASSUME ChainInv, Chain!Return
  PROVE  ChainInv'
<1>1. /\ pc = "up" /\ pc' = "done" /\ Len(stack) = 1
      /\ UNCHANGED <<via, asked, stack, chainMap, calls>>
  BY DEF Chain!Return
<1>2. EndsForAReason' /\ CallsFollowStack'
  BY <1>1 DEF EndsForAReason, CallsFollowStack, ChainInv
<1> QED
  BY <1>1, <1>2, EndingKeeps DEF Chain!Ended

LEMMA AnsweredKeeps ==
  ASSUME Chain!Answered
  PROVE  ChainInv'
<1>1. /\ via' = [r \in Roles |-> None] /\ asked' = None /\ stack' = <<>>
      /\ chainMap' = {} /\ pc' = "idle" /\ calls' = <<>>
  BY DEF Chain!Answered
<1>2. Chain!TypeOK'
  BY <1>1, ChainConstants DEF Chain!TypeOK, Chain!Vias
<1> QED
  BY <1>1, <1>2 DEF ChainInv, StackFollowsVia, MapRemembers, CallsFollowStack, Descending,
                    EndsForAReason, IdleIsEmpty, CallsKnown

LEMMA StepKeeps ==
  ASSUME ChainInv, Chain!Step
  PROVE  ChainInv'
BY FetchKeeps, PanicKeeps, UnreadableKeeps, DescendKeeps, OverflowKeeps, AssumeKeeps,
   AssumeFailKeeps, ReturnKeeps DEF Chain!Step

-----------------------------------------------------------------------------
(* What the invariant of the chain means.                                  *)

LEMMA CredentialsByVia ==
  ASSUME ChainInv
  PROVE  Chain!AssumedByItsVia
<1>1. pc = "done" => Chain!Last(calls).role = asked
  <2> SUFFICES ASSUME pc = "done"
               PROVE  calls[Len(calls)].role = asked
    BY DEF Chain!Last
  <2> QED
    BY DEF ChainInv, CallsFollowStack, StackFollowsVia
<1> QED
  BY <1>1 DEF ChainInv, CallsKnown, Chain!AssumedByItsVia

(* A set of roles that holds the asked role and that no Via leads out of   *)
(* holds the role of every call.                                           *)
LEMMA OpenIsAlong ==
  ASSUME ChainInv, pc # "idle"
  PROVE  Open \subseteq Chain!Along
<1> SUFFICES ASSUME NEW p \in 1..Len(stack),
                    NEW set \in SUBSET Roles, asked \in set, Chain!KeepsVias(set)
             PROVE  stack[p] \in set
  <2>1. \A q \in 1..Len(stack) : stack[q] \in Roles
    BY DEF ChainInv, Chain!TypeOK
  <2> QED
    BY <2>1 DEF Open, Chain!Along
<1>1. stack \in Seq(Roles) /\ Len(stack) \in Nat
  BY DEF ChainInv, Chain!TypeOK
<1>2. /\ stack[1] = asked
      /\ \A i \in 1..Len(stack) - 1 : /\ via[stack[i]] \in Readable
                                      /\ stack[i + 1] = Chain!Target(via[stack[i]])
  BY DEF ChainInv, StackFollowsVia
<1> DEFINE S == {n \in Nat : n + 1 \in 1..Len(stack) => stack[n + 1] \in set}
<1>3. 0 \in S
  BY <1>2
<1>4. ASSUME NEW n \in S
      PROVE  n + 1 \in S
  <2> SUFFICES ASSUME (n + 1) + 1 \in 1..Len(stack)
               PROVE  stack[(n + 1) + 1] \in set
    OBVIOUS
  <2>1. n + 1 \in 1..Len(stack) - 1 /\ n + 1 \in 1..Len(stack)
    BY <1>1
  <2>2. stack[n + 1] \in set
    BY <2>1
  <2> QED
    BY <1>2, <2>1, <2>2 DEF Chain!KeepsVias, Readable
<1>5. S = Nat
  <2>1. S \subseteq Nat
    OBVIOUS
  <2> HIDE DEF S
  <2> QED
    BY <1>3, <1>4, <2>1, Induction
<1>6. p - 1 \in Nat /\ (p - 1) + 1 = p
  OBVIOUS
<1> QED
  BY <1>1, <1>5, <1>6

(* The panic comes when the open calls are such a set themselves.          *)
LEMMA PanicIsRight ==
  ASSUME ChainInv
  PROVE  Chain!PanicOnlyOnLoop
<1> SUFFICES ASSUME pc = "panic", NEW r \in Chain!Along
             PROVE  via[r] \in Readable
  BY DEF Chain!PanicOnlyOnLoop, Chain!RunsIntoLoop, Readable
<1>1. stack \in Seq(Roles) /\ Len(stack) \in Nat /\ Len(stack) >= 1
  BY DEF ChainInv, Chain!TypeOK, StackFollowsVia
<1>2. /\ stack[1] = asked
      /\ \A i \in 1..Len(stack) - 1 : /\ via[stack[i]] \in Readable
                                      /\ stack[i + 1] = Chain!Target(via[stack[i]])
  BY DEF ChainInv, StackFollowsVia
<1>3. PICK q \in Open : via[stack[Len(stack)]] = <<q, Arn>>
  BY DEF ChainInv, EndsForAReason
<1>4. Open \in SUBSET Roles /\ asked \in Open
  BY <1>1, <1>2 DEF Open
<1>5. ASSUME NEW i \in 1..Len(stack)
      PROVE  via[stack[i]] \in Readable /\ Chain!Target(via[stack[i]]) \in Open
  <2>1. CASE i = Len(stack)
    <3>1. Chain!Target(via[stack[i]]) = q
      BY <1>3, <2>1 DEF Chain!Target
    <3>2. q \in Roles
      BY <1>4
    <3>3. via[stack[i]] \in Readable
      <4>1. <<q, Arn>> \in Roles \X Spellings
        BY <3>2, ChainConstants
      <4> QED
        BY <1>3, <2>1, <4>1 DEF Readable
    <3> QED
      BY <3>1, <3>3
  <2>2. CASE i # Len(stack)
    <3>1. i \in 1..Len(stack) - 1 /\ i + 1 \in 1..Len(stack)
      BY <1>1, <2>2
    <3> QED
      BY <1>2, <3>1 DEF Open
  <2> QED
    BY <2>1, <2>2
<1>6. Chain!KeepsVias(Open)
  BY <1>5 DEF Chain!KeepsVias, Open
<1>7. r \in Open
  BY <1>4, <1>6 DEF Chain!Along
<1> QED
  BY <1>5, <1>7 DEF Open

(* A stack with more calls than there are roles holds some role twice, and *)
(* what led to it the second time was not its remembered ARN.              *)
LEMMA OverflowIsExcused ==
  ASSUME ChainInv
  PROVE  Chain!ChainEnds
<1> SUFFICES ASSUME pc = "overflow"
             PROVE  \E r \in Chain!Along : via[r] \in Roles \X (Spellings \ {Arn})
  BY DEF Chain!ChainEnds
<1>1. stack \in Seq(Roles) /\ Len(stack) = Cardinality(Roles) + 1
  BY ChainConstants DEF ChainInv, Chain!TypeOK, EndsForAReason
<1> DEFINE n == Len(stack)
<1>2. n \in Nat /\ n > Cardinality(Roles) /\ Cardinality(Roles) \in Nat
  BY <1>1, ChainConstants
<1>3. IsFiniteSet(1..n) /\ Cardinality(1..n) = n
  <2>1. 1 \in Int /\ n \in Int /\ ~ (1 > n) /\ n - 1 + 1 = n
    BY <1>2
  <2> HIDE DEF n
  <2> QED
    BY <2>1, FS_Interval
<1>4. stack \in [1..n -> Roles]
  BY <1>1
<1>5. \E x, y \in 1..n : x # y /\ stack[x] = stack[y]
  <2>1. Cardinality(Roles) < Cardinality(1..n)
    BY <1>2, <1>3
  <2> HIDE DEF n
  <2> QED
    BY <1>3, <1>4, <2>1, ChainConstants, FS_PigeonHole
<1>6. PICK i \in 1..n, j \in 1..n : i < j /\ stack[i] = stack[j]
  BY <1>2, <1>5
<1>7. j - 1 \in 1..n - 1 /\ (j - 1) + 1 = j /\ j - 1 \in 1..n
  BY <1>2, <1>6
<1>8. /\ via[stack[j - 1]] \in Readable
      /\ stack[j] = Chain!Target(via[stack[j - 1]])
      /\ via[stack[j - 1]] # <<stack[j], Arn>>
  BY <1>6, <1>7 DEF ChainInv, StackFollowsVia
<1>9. via[stack[j - 1]] \in Roles \X (Spellings \ {Arn})
  BY <1>8 DEF Readable, Chain!Target
<1>10. stack[j - 1] \in Chain!Along
  BY <1>7, OpenIsAlong DEF Open
<1> QED
  BY <1>9, <1>10

-----------------------------------------------------------------------------
(* The line.                                                               *)

Words == Keys \cup Values \cup Roles \cup Select!Profiles \cup {"ProfileName"}

(* The roles that carry the first n pairs of the words.                    *)
Match(w, n) ==
  {r \in Roles : \A i \in 1..n : Select!Carries(r, w[2 * i - 1], w[2 * i])}

OneKeyEach(w, n) == \A i, j \in 1..n : w[2 * i - 1] = w[2 * j - 1] => i = j

Single(set) == Select!Cardinality(set) = 1

(* The words begin with n pairs of a key and a value, which some role has, *)
(* and none of the first m of them already named one role.                 *)
BeginsWithPairs(w, n, m) ==
  /\ \A i \in 1..n : w[2 * i - 1] \in Keys /\ w[2 * i] \in Values
  /\ OneKeyEach(w, n)
  /\ Match(w, n) # {}
  /\ \A i \in 0..m : ~ Single(Match(w, i))

(* What the user can reach by taking suggestions: ProfileName, alone or    *)
(* with a profile; pairs; pairs and a key that can be completed; pairs and *)
(* a role that carries them.                                               *)
IsProfileName(w) == Len(w) = 1 /\ w[1] = "ProfileName"

IsProfile(w) == Len(w) = 2 /\ w[1] = "ProfileName" /\ w[2] \in Select!Profiles

IsPairs(w, n) == Len(w) = 2 * n /\ BeginsWithPairs(w, n, n - 1)

EndsWithKey(w, n) ==
  /\ Len(w) = 2 * n + 1
  /\ BeginsWithPairs(w, n, n)
  /\ w[2 * n + 1] \in Keys
  /\ \A i \in 1..n : w[2 * i - 1] # w[2 * n + 1]
  /\ \E r \in Match(w, n) : tagsOf[r][w[2 * n + 1]] # NoValue

EndsWithRole(w, n) ==
  /\ n >= 1
  /\ Len(w) = 2 * n + 1
  /\ BeginsWithPairs(w, n, n - 1)
  /\ w[2 * n + 1] \in Match(w, n)

Suggested(w) ==
  \/ IsProfileName(w)
  \/ IsProfile(w)
  \/ \E n \in Nat : IsPairs(w, n) \/ EndsWithKey(w, n) \/ EndsWithRole(w, n)

TagInv ==
  /\ Select!TypeOK
  /\ line \in Seq(Words)
  /\ outcome # "closed" => tagsOf \in Select!Tagged
  /\ outcome = "closed" => line = <<>> /\ followed
  /\ followed => Suggested(line) \/ outcome = "closed"
  /\ outcome \notin {"closed", "typing"} => outcome = Select!Executor(line)

Tags == [Roles -> [Keys -> Values \cup {NoValue}]]

-----------------------------------------------------------------------------
LEMMA SelectCounts ==
  ASSUME NEW S
  PROVE  /\ IsFiniteSet(S) <=> Select!IsFiniteSet(S)
         /\ Select!Cardinality(S) = Cardinality(S)
<1>1. IsFiniteSet(S) <=> Select!IsFiniteSet(S)
  BY DEF IsFiniteSet, Select!IsFiniteSet
<1>2. Select!Cardinality(S) = Cardinality(S)
  BY DEF Cardinality, Select!Cardinality
<1> QED
  BY <1>1, <1>2

LEMMA WordsDiffer ==
  /\ Roles # {}
  /\ \A r, q \in Roles : ProfileOf[r] = ProfileOf[q] => r = q
  /\ NoValue \notin Values
  /\ Keys \cap (Select!Profiles \cup Roles \cup {"ProfileName", "nokey"}) = {}
  /\ Roles \cap (Values \cup Select!Profiles \cup Select!Ended) = {}
  /\ Roles \cap {"ProfileName", "nokey", "closed", "typing"} = {}
  /\ "ProfileName" \notin Select!Profiles
  /\ MaxWords \in Nat
BY SessionAssumption DEF Select!Parameters

(* Sets of roles: none, one or many.                                       *)
LEMMA HowMany ==
  ASSUME NEW S \in SUBSET Roles
  PROVE  /\ Select!Cardinality(S) \in Nat
         /\ Single(S) <=> \E r : S = {r}
         /\ S # {} /\ ~ Single(S) => Select!Cardinality(S) > 1
         /\ Single(S) => S # {} /\ ~ (Select!Cardinality(S) > 1)
<1>1. IsFiniteSet(Roles)
  BY SessionAssumption, SelectCounts DEF Select!Parameters
<1>2. IsFiniteSet(S)
  BY <1>1, FS_Subset
<1>3. Cardinality(S) \in Nat /\ (Cardinality(S) = 0 <=> S = {})
  BY <1>2, FS_CardinalityType, FS_EmptySet
<1>4. Cardinality(S) = 1 <=> \E r : S = {r}
  BY <1>2, FS_Singleton
<1>5. Select!Cardinality(S) = Cardinality(S)
  BY SelectCounts
<1>6. Select!Cardinality(S) \in Nat /\ (Select!Cardinality(S) = 0 <=> S = {})
  BY <1>3, <1>5
<1>7. Single(S) <=> \E r : S = {r}
  BY <1>4, <1>5 DEF Single
<1>8. S # {} /\ ~ Single(S) => Select!Cardinality(S) > 1
  BY <1>6 DEF Single
<1>9. Single(S) => S # {} /\ ~ (Select!Cardinality(S) > 1)
  BY <1>6 DEF Single
<1> QED
  BY <1>6, <1>7, <1>8, <1>9

LEMMA RoleOfProfile ==
  /\ \A p \in Select!Profiles : Select!RoleOf(p) \in Roles
  /\ \A r \in Roles : Select!RoleOf(ProfileOf[r]) = r
  /\ Select!Profiles # {}
<1>1. ASSUME NEW r \in Roles
      PROVE  Select!RoleOf(ProfileOf[r]) = r
  BY WordsDiffer DEF Select!RoleOf
<1> QED
  BY <1>1, WordsDiffer DEF Select!Profiles

-----------------------------------------------------------------------------
(* argsToMap and the tag operators.                                        *)

(* The tags are those of the first n pairs.                                *)
TagsAre(t, w, n) ==
  /\ t = [k \in {w[2 * i - 1] : i \in 1..n} |-> t[k]]
  /\ \A i \in 1..n : t[w[2 * i - 1]] = w[2 * i]

LEMMA PairsGive ==
  ASSUME NEW w, NEW n \in Nat, OneKeyEach(w, n)
  PROVE  TagsAre(Select!Pairs(w, n), w, n)
<1> DEFINE C(k) == CHOOSE i \in 1..n : /\ w[2 * i - 1] = k
                                       /\ \A j \in (i + 1)..n : w[2 * j - 1] # k
<1>1. ASSUME NEW i \in 1..n
      PROVE  C(w[2 * i - 1]) = i
  <2>1. \A j \in (i + 1)..n : w[2 * j - 1] # w[2 * i - 1]
    <3> TAKE j \in (i + 1)..n
    <3>1. j \in 1..n /\ j # i
      OBVIOUS
    <3> QED
      BY <3>1 DEF OneKeyEach
  <2>2. \A j \in 1..n : w[2 * j - 1] = w[2 * i - 1] => j = i
    BY DEF OneKeyEach
  <2> QED
    BY <2>1, <2>2
<1>2. Select!Pairs(w, n) = [k \in {w[2 * i - 1] : i \in 1..n} |-> w[2 * C(k)]]
  BY DEF Select!Pairs
<1> HIDE DEF C
<1>3. \A i \in 1..n : Select!Pairs(w, n)[w[2 * i - 1]] = w[2 * i]
  BY <1>1, <1>2
<1> QED
  BY <1>2, <1>3 DEF TagsAre

LEMMA TagsMatch ==
  ASSUME NEW t, NEW w, NEW n \in Nat, TagsAre(t, w, n)
  PROVE  Select!GetMatchingRoles(t) = Match(w, n)
<1>1. DOMAIN t = {w[2 * i - 1] : i \in 1..n}
  BY DEF TagsAre
<1>2. \A r : (\A k \in DOMAIN t : Select!Carries(r, k, t[k]))
             <=> \A i \in 1..n : Select!Carries(r, w[2 * i - 1], w[2 * i])
  BY <1>1 DEF TagsAre
<1> QED
  BY <1>2 DEF Match, Select!GetMatchingRoles

(* A word at the end leaves the pairs before it what they were.            *)
LEMMA PairsStay ==
  ASSUME NEW w \in Seq(Words), NEW x \in Words, NEW n \in Nat, Len(w) >= 2 * n
  PROVE  /\ Append(w, x) \in Seq(Words)
         /\ Len(Append(w, x)) = Len(w) + 1
         /\ Append(w, x)[Len(w) + 1] = x
         /\ \A i \in 1..Len(w) : Append(w, x)[i] = w[i]
         /\ \A i \in 1..n : /\ Append(w, x)[2 * i - 1] = w[2 * i - 1]
                            /\ Append(w, x)[2 * i] = w[2 * i]
         /\ \A i \in 0..n : Match(Append(w, x), i) = Match(w, i)
         /\ \A m \in Int : m <= n =>
              (BeginsWithPairs(Append(w, x), n, m) <=> BeginsWithPairs(w, n, m))
<1> DEFINE y == Append(w, x)
<1>1. /\ y \in Seq(Words) /\ Len(y) = Len(w) + 1 /\ y[Len(w) + 1] = x
      /\ \A i \in 1..Len(w) : y[i] = w[i]
  OBVIOUS
<1> HIDE DEF y
<1>2. \A i \in 1..n : y[2 * i - 1] = w[2 * i - 1] /\ y[2 * i] = w[2 * i]
  <2> TAKE i \in 1..n
  <2>1. 2 * i - 1 \in 1..Len(w) /\ 2 * i \in 1..Len(w)
    OBVIOUS
  <2> QED
    BY <1>1, <2>1
<1>3. \A i \in 0..n : Match(y, i) = Match(w, i)
  <2> TAKE i \in 0..n
  <2>1. \A j \in 1..i : y[2 * j - 1] = w[2 * j - 1] /\ y[2 * j] = w[2 * j]
    BY <1>2
  <2> QED
    BY <2>1 DEF Match
<1>4. ASSUME NEW m \in Int, m <= n
      PROVE  BeginsWithPairs(y, n, m) <=> BeginsWithPairs(w, n, m)
  <2>1. OneKeyEach(y, n) <=> OneKeyEach(w, n)
    BY <1>2 DEF OneKeyEach
  <2>2. Match(y, n) = Match(w, n) /\ \A i \in 0..m : Match(y, i) = Match(w, i)
    BY <1>3, <1>4
  <2> QED
    BY <1>2, <2>1, <2>2 DEF BeginsWithPairs
<1> QED
  BY <1>1, <1>2, <1>3, <1>4 DEF y

LEMMA MatchShrinks ==
  ASSUME NEW w, NEW n \in Nat, NEW m \in 0..n
  PROVE  Match(w, n) \subseteq Match(w, m)
BY DEF Match

(* argsToMap: of an odd number of words the last pair is left out too.     *)
Whole(w, n) == IF Len(w) = 2 * n THEN n ELSE IF n = 0 THEN 0 ELSE n - 1

LEMMA ArgsGive ==
  ASSUME NEW w \in Seq(Words), NEW n \in Nat, OneKeyEach(w, n),
         Len(w) = 2 * n \/ Len(w) = 2 * n + 1
  PROVE  /\ TagsAre(Select!ArgsTags(w), w, Whole(w, n))
         /\ Select!ArgsKey(w) = IF Len(w) = 2 * n THEN "nokey" ELSE w[2 * n + 1]
         /\ Whole(w, n) \in 0..n
<1>1. CASE Len(w) = 2 * n
  <2>1. Len(w) % 2 = 0 /\ Len(w) \div 2 = n
    BY <1>1
  <2>2. Select!ArgsKey(w) = "nokey"
    BY <2>1 DEF Select!ArgsKey, Select!NoKey
  <2>3. CASE n = 0
    <3>1. Select!ArgsTags(w) = Select!Pairs(<<>>, 0)
      BY <1>1, <2>3 DEF Select!ArgsTags, Select!NoTags
    <3>2. TagsAre(Select!Pairs(<<>>, 0), <<>>, 0)
      BY PairsGive DEF OneKeyEach
    <3>3. 1..0 = {}
      OBVIOUS
    <3>4. {<<>>[2 * i - 1] : i \in 1..0} = {w[2 * i - 1] : i \in 1..0}
      BY <3>3
    <3>5. TagsAre(Select!Pairs(<<>>, 0), w, 0)
      BY <3>2, <3>3, <3>4 DEF TagsAre
    <3> QED
      BY <1>1, <2>2, <2>3, <3>1, <3>5 DEF Whole
  <2>4. CASE n # 0
    <3>1. ~ (Len(w) < 2)
      BY <1>1, <2>4
    <3>2. Select!ArgsTags(w) = Select!Pairs(w, n)
      BY <2>1, <3>1 DEF Select!ArgsTags
    <3> QED
      BY <1>1, <2>2, <3>2, PairsGive DEF Whole
  <2> QED
    BY <2>3, <2>4
<1>2. CASE Len(w) = 2 * n + 1
  <2>1. Len(w) % 2 # 0 /\ Len(w) # 2 * n
    BY <1>2
  <2>2. Select!ArgsKey(w) = w[2 * n + 1]
    BY <1>2, <2>1 DEF Select!ArgsKey, Select!Last
  <2>3. CASE n = 0
    <3>1. Select!ArgsTags(w) = Select!Pairs(<<>>, 0)
      BY <1>2, <2>3 DEF Select!ArgsTags, Select!NoTags
    <3>2. TagsAre(Select!Pairs(<<>>, 0), <<>>, 0)
      BY PairsGive DEF OneKeyEach
    <3>3. 1..0 = {}
      OBVIOUS
    <3>4. {<<>>[2 * i - 1] : i \in 1..0} = {w[2 * i - 1] : i \in 1..0}
      BY <3>3
    <3>5. TagsAre(Select!Pairs(<<>>, 0), w, 0)
      BY <3>2, <3>3, <3>4 DEF TagsAre
    <3> QED
      BY <2>1, <2>2, <2>3, <3>1, <3>5 DEF Whole
  <2>4. CASE n # 0
    <3>1. ~ (Len(w) < 2) /\ (Len(w) - 3) \div 2 = n - 1 /\ n - 1 \in Nat
      BY <1>2, <2>4
    <3>2. Select!ArgsTags(w) = Select!Pairs(w, n - 1)
      BY <2>1, <3>1 DEF Select!ArgsTags
    <3>3. OneKeyEach(w, n - 1)
      BY DEF OneKeyEach
    <3> QED
      BY <2>1, <2>2, <2>4, <3>1, <3>2, <3>3, PairsGive DEF Whole
  <2> QED
    BY <2>3, <2>4
<1> QED
  BY <1>1, <1>2

(* The roles that one more key can lead to.                                *)
LEMMA UniqueRoles ==
  ASSUME tagsOf \in Tags, NEW t, NEW w, NEW n \in Nat, TagsAre(t, w, n),
         NEW k \in Keys, \A i \in 1..n : w[2 * i - 1] # k
  PROVE  Select!GetPossibleUniqueRoles(t, k) = {r \in Match(w, n) : tagsOf[r][k] # NoValue}
<1>1. DOMAIN t = {w[2 * i - 1] : i \in 1..n} /\ k \notin DOMAIN t
  BY DEF TagsAre
<1>2. ASSUME NEW v
      PROVE  Select!GetMatchingRoles(Select!With(t, k, v))
               = {r \in Select!GetMatchingRoles(t) : tagsOf[r][k] = v}
  <2>1. /\ DOMAIN Select!With(t, k, v) = DOMAIN t \cup {k}
        /\ Select!With(t, k, v)[k] = v
        /\ \A j \in DOMAIN t : Select!With(t, k, v)[j] = t[j]
    BY <1>1 DEF Select!With
  <2> QED
    BY <2>1 DEF Select!GetMatchingRoles, Select!Carries
<1>3. Select!ValuesOf(k) = {tagsOf[r][k] : r \in Roles} \ {NoValue}
  BY DEF Select!ValuesOf
<1>4. Select!GetMatchingRoles(t) = Match(w, n)
  BY TagsMatch
<1>5. Match(w, n) \subseteq Roles
  BY DEF Match
<1>6. Select!GetPossibleUniqueRoles(t, k)
        = UNION {{r \in Match(w, n) : tagsOf[r][k] = v} : v \in Select!ValuesOf(k)}
  BY <1>2, <1>4 DEF Select!GetPossibleUniqueRoles
<1> QED
  BY <1>3, <1>5, <1>6

-----------------------------------------------------------------------------
(* completeTags: what is suggested after each kind of line.                *)

(* Pairs of keys and values alone never are the tag ProfileName.           *)
LEMMA NoProfileTag ==
  ASSUME NEW t, NEW w, NEW n \in Nat, TagsAre(t, w, n),
         \A i \in 1..n : w[2 * i - 1] \in Keys
  PROVE  "ProfileName" \notin DOMAIN t /\ Select!Without(t, "ProfileName") = t
<1>1. DOMAIN t = {w[2 * i - 1] : i \in 1..n} /\ t = [k \in DOMAIN t |-> t[k]]
  BY DEF TagsAre
<1>2. "ProfileName" \notin DOMAIN t
  BY <1>1, WordsDiffer
<1>3. DOMAIN t \ {"ProfileName"} = DOMAIN t
  BY <1>2
<1> QED
  BY <1>1, <1>2, <1>3 DEF Select!Without

LEMMA AfterProfileName ==
  ASSUME NEW w \in Seq(Words), IsProfileName(w)
  PROVE  Select!Suggestions(w) = Select!Profiles
<1>1. Len(w) = 2 * 0 + 1 /\ w[2 * 0 + 1] = "ProfileName" /\ Len(w) # 2 * 0
  BY DEF IsProfileName
<1>2. TagsAre(Select!ArgsTags(w), w, 0) /\ Select!ArgsKey(w) = "ProfileName"
  <2>1. OneKeyEach(w, 0)
    BY DEF OneKeyEach
  <2>2. Whole(w, 0) = 0
    BY DEF Whole
  <2> QED
    BY <1>1, <2>1, <2>2, ArgsGive
<1>3. DOMAIN Select!ArgsTags(w) = {}
  BY <1>2 DEF TagsAre
<1>4. DOMAIN Select!Without(Select!ArgsTags(w), "ProfileName") = {}
  BY <1>3 DEF Select!Without
<1> QED
  BY <1>2, <1>4 DEF Select!Suggestions, Select!CompleteProfiles

LEMMA AfterProfile ==
  ASSUME NEW w \in Seq(Words), IsProfile(w)
  PROVE  Select!Suggestions(w) = {}
<1>1. Len(w) = 2 * 1 /\ w[2 * 1 - 1] = "ProfileName"
  BY DEF IsProfile
<1>2. TagsAre(Select!ArgsTags(w), w, 1) /\ Select!ArgsKey(w) = "nokey"
  <2>1. OneKeyEach(w, 1)
    BY DEF OneKeyEach
  <2> QED
    BY <1>1, <2>1, ArgsGive DEF Whole
<1>3. "ProfileName" \in DOMAIN Select!ArgsTags(w)
  <2>1. 1 \in 1..1
    OBVIOUS
  <2> QED
    BY <1>1, <1>2, <2>1 DEF TagsAre
<1> QED
  BY <1>2, <1>3 DEF Select!Suggestions, Select!NoKey

(* Pairs that name one role are complete; others are followed by keys, or  *)
(* by the roles themselves.                                                *)
LEMMA AfterPairs ==
  ASSUME NEW w \in Seq(Words), NEW n \in Nat, IsPairs(w, n)
  PROVE  /\ TagsAre(Select!ArgsTags(w), w, n)
         /\ Select!Suggestions(w) =
              IF Single(Match(w, n)) THEN {}
              ELSE Select!CompleteKeys(w, Select!ArgsTags(w))
<1> DEFINE t == Select!ArgsTags(w)
<1>1. Len(w) = 2 * n /\ OneKeyEach(w, n) /\ \A i \in 1..n : w[2 * i - 1] \in Keys
  BY DEF IsPairs, BeginsWithPairs
<1>2. TagsAre(t, w, n) /\ Select!ArgsKey(w) = "nokey"
  BY <1>1, ArgsGive DEF Whole
<1> HIDE DEF t
<1>3. "ProfileName" \notin DOMAIN t /\ Select!Without(t, "ProfileName") = t
  BY <1>1, <1>2, NoProfileTag
<1>4. Select!GetMatchingRoles(t) = Match(w, n)
  BY <1>2, TagsMatch
<1>5. Select!ArgsKey(w) = Select!NoKey /\ Select!NoKey # "ProfileName" /\ Select!NoKey \notin Keys
  BY <1>2, WordsDiffer DEF Select!NoKey
<1>6. CASE Single(Match(w, n))
  <2>1. Select!Suggestions(w) = {}
    BY <1>3, <1>4, <1>5, <1>6 DEF Select!Suggestions, Single, t
  <2> QED
    BY <1>2, <1>6, <2>1 DEF t
<1>7. CASE ~ Single(Match(w, n))
  <2>1. Select!Suggestions(w) = Select!CompleteKeys(w, t)
    BY <1>3, <1>4, <1>5, <1>7 DEF Select!Suggestions, Single, t
  <2> QED
    BY <1>2, <1>7, <2>1 DEF t
<1> QED
  BY <1>6, <1>7

(* A key is followed by its values that still have a role.                 *)
LEMMA AfterKey ==
  ASSUME NEW w \in Seq(Words), NEW n \in Nat, EndsWithKey(w, n)
  PROVE  Select!Suggestions(w) = Select!CompleteValues(w, w[2 * n + 1])
<1> DEFINE t == Select!ArgsTags(w)
           k == w[2 * n + 1]
           m == Whole(w, n)
<1>1. /\ Len(w) = 2 * n + 1 /\ OneKeyEach(w, n) /\ k \in Keys
      /\ \A i \in 1..n : w[2 * i - 1] \in Keys
      /\ \A i \in 0..n : ~ Single(Match(w, i))
  BY DEF EndsWithKey, BeginsWithPairs
<1>2. TagsAre(t, w, m) /\ Select!ArgsKey(w) = k /\ m \in 0..n
  <2>1. Len(w) # 2 * n
    BY <1>1
  <2> QED
    BY <1>1, <2>1, ArgsGive
<1> HIDE DEF t, m, k
<1>3. "ProfileName" \notin DOMAIN t /\ Select!Without(t, "ProfileName") = t
  BY <1>1, <1>2, NoProfileTag
<1>4. Select!GetMatchingRoles(t) = Match(w, m) /\ ~ Single(Match(w, m))
  BY <1>1, <1>2, TagsMatch
<1>5. k # "nokey" /\ k # "ProfileName"
  BY <1>1, WordsDiffer
<1> QED
  BY <1>1, <1>2, <1>3, <1>4, <1>5 DEF Select!Suggestions, Select!NoKey, Single, t, k

(* After a role nothing is suggested.                                      *)
LEMMA AfterRole ==
  ASSUME NEW w \in Seq(Words), NEW n \in Nat, EndsWithRole(w, n)
  PROVE  Select!Suggestions(w) = {}
<1> DEFINE t == Select!ArgsTags(w)
           k == w[2 * n + 1]
           m == n - 1
<1>1. /\ Len(w) = 2 * n + 1 /\ OneKeyEach(w, n) /\ k \in Roles
      /\ \A i \in 1..n : w[2 * i - 1] \in Keys
      /\ \A i \in 0..n - 1 : ~ Single(Match(w, i))
  BY DEF EndsWithRole, BeginsWithPairs, Match
<1>2. TagsAre(t, w, m) /\ Select!ArgsKey(w) = k /\ m \in 0..n - 1 /\ m \in Nat /\ m <= n
  <2>1. Len(w) # 2 * n /\ n # 0 /\ n - 1 \in 0..n - 1
    BY <1>1 DEF EndsWithRole
  <2> QED
    BY <1>1, <2>1, ArgsGive DEF Whole
<1> HIDE DEF t, m, k
<1>3. "ProfileName" \notin DOMAIN t /\ Select!Without(t, "ProfileName") = t
  BY <1>1, <1>2, NoProfileTag
<1>4. Select!GetMatchingRoles(t) = Match(w, m) /\ ~ Single(Match(w, m))
  BY <1>1, <1>2, TagsMatch
<1>5. k # "nokey" /\ k # "ProfileName" /\ k \notin Keys
  BY <1>1, WordsDiffer
<1> QED
  BY <1>1, <1>2, <1>3, <1>4, <1>5 DEF Select!Suggestions, Select!NoKey, Single, t, k

(* The words suggested for the next key.                                   *)
LEMMA KeysGive ==
  ASSUME tagsOf \in Tags, NEW w \in Seq(Words), NEW n \in Nat, IsPairs(w, n),
         NEW x \in Select!CompleteKeys(w, Select!ArgsTags(w))
  PROVE  \/ x \in Match(w, n) /\ n >= 1
         \/ /\ x \in Keys
            /\ \A i \in 1..n : w[2 * i - 1] # x
            /\ \E r \in Match(w, n) : tagsOf[r][x] # NoValue
         \/ x = "ProfileName" /\ n = 0
<1> DEFINE t == Select!ArgsTags(w)
<1>1. TagsAre(t, w, n) /\ Len(w) = 2 * n
  BY AfterPairs DEF IsPairs
<1> HIDE DEF t
<1>2. DOMAIN t = {w[2 * i - 1] : i \in 1..n} /\ Select!GetMatchingRoles(t) = Match(w, n)
  BY <1>1, TagsMatch DEF TagsAre
<1>3. CASE x = "ProfileName" /\ DOMAIN t = {}
  <2>1. n = 0
    <3>1. n # 0 => 1 \in 1..n
      OBVIOUS
    <3> QED
      BY <1>2, <1>3, <3>1
  <2> QED
    BY <1>3, <2>1
<1>4. ASSUME NEW k \in Select!AllKeys \ DOMAIN t, x \in Select!CompleteKey(w, t, k)
      PROVE  \/ x \in Match(w, n) /\ n >= 1
             \/ /\ x \in Keys
                /\ \A i \in 1..n : w[2 * i - 1] # x
                /\ \E r \in Match(w, n) : tagsOf[r][x] # NoValue
  <2>1. k \in Keys /\ \A i \in 1..n : w[2 * i - 1] # k
    BY <1>2 DEF Select!AllKeys
  <2> DEFINE u == Select!GetPossibleUniqueRoles(t, k)
  <2>2. u = {r \in Match(w, n) : tagsOf[r][k] # NoValue}
    BY <1>1, <2>1, UniqueRoles
  <2> HIDE DEF u
  <2>3. \/ w # <<>> /\ x \in u
        \/ u # {} /\ x = k
    BY <1>4 DEF Select!CompleteKey, u
  <2>4. CASE w # <<>> /\ x \in u
    <3>1. n >= 1
      BY <1>1, <2>4
    <3> QED
      BY <2>2, <2>4, <3>1
  <2>5. CASE u # {} /\ x = k
    BY <2>1, <2>2, <2>5
  <2> QED
    BY <2>3, <2>4, <2>5
<1> QED
  BY <1>3, <1>4 DEF Select!CompleteKeys, t

-----------------------------------------------------------------------------
(* Taking a suggestion leads to another such line.                         *)

LEMMA PickAfterPairs ==
  ASSUME tagsOf \in Tags, NEW w \in Seq(Words), NEW n \in Nat, IsPairs(w, n),
         NEW x \in Select!Suggestions(w)
  PROVE  x \in Words /\ Suggested(Append(w, x))
<1>1. /\ Len(w) = 2 * n /\ BeginsWithPairs(w, n, n - 1)
      /\ ~ Single(Match(w, n))
      /\ x \in Select!CompleteKeys(w, Select!ArgsTags(w))
  BY AfterPairs DEF IsPairs
<1>2. \/ x \in Match(w, n) /\ n >= 1
      \/ /\ x \in Keys
         /\ \A i \in 1..n : w[2 * i - 1] # x
         /\ \E r \in Match(w, n) : tagsOf[r][x] # NoValue
      \/ x = "ProfileName" /\ n = 0
  BY <1>1, KeysGive
<1>3. x \in Words
  BY <1>2 DEF Words, Match
<1> DEFINE y == Append(w, x)
<1>4. /\ Len(y) = 2 * n + 1 /\ y[2 * n + 1] = x
      /\ \A i \in 1..n : y[2 * i - 1] = w[2 * i - 1]
      /\ Match(y, n) = Match(w, n)
      /\ BeginsWithPairs(y, n, n - 1) <=> BeginsWithPairs(w, n, n - 1)
      /\ BeginsWithPairs(y, n, n) <=> BeginsWithPairs(w, n, n)
  <2>1. Len(w) >= 2 * n /\ n \in 0..n /\ n \in Int /\ n - 1 \in Int /\ n - 1 <= n /\ n <= n
    BY <1>1
  <2>2. /\ Len(y) = Len(w) + 1 /\ y[Len(w) + 1] = x
        /\ \A i \in 1..n : y[2 * i - 1] = w[2 * i - 1]
        /\ Match(y, n) = Match(w, n)
    BY <1>3, <2>1, PairsStay
  <2>3. \A m \in Int : m <= n => (BeginsWithPairs(y, n, m) <=> BeginsWithPairs(w, n, m))
    BY <1>3, <2>1, PairsStay
  <2> HIDE DEF y
  <2> QED
    BY <1>1, <2>1, <2>2, <2>3
<1> HIDE DEF y
<1>5. CASE x \in Match(w, n) /\ n >= 1
  <2>1. EndsWithRole(y, n)
    BY <1>1, <1>4, <1>5 DEF EndsWithRole
  <2> QED
    BY <1>3, <2>1 DEF Suggested, y
<1>6. CASE /\ x \in Keys
           /\ \A i \in 1..n : w[2 * i - 1] # x
           /\ \E r \in Match(w, n) : tagsOf[r][x] # NoValue
  <2>1. BeginsWithPairs(w, n, n)
    <3>1. \A i \in 0..n : i = n \/ i \in 0..n - 1
      OBVIOUS
    <3> QED
      BY <1>1, <3>1 DEF BeginsWithPairs
  <2>2. EndsWithKey(y, n)
    BY <1>4, <1>6, <2>1 DEF EndsWithKey
  <2> QED
    BY <1>3, <2>2 DEF Suggested, y
<1>7. CASE x = "ProfileName" /\ n = 0
  <2>1. IsProfileName(y)
    BY <1>4, <1>7 DEF IsProfileName
  <2> QED
    BY <1>3, <2>1 DEF Suggested, y
<1> QED
  BY <1>2, <1>5, <1>6, <1>7

(* The pairs with a value added for the key at the end.                    *)
LEMMA PairAdded ==
  ASSUME NEW w \in Seq(Words), NEW n \in Nat, EndsWithKey(w, n), NEW v \in Words
  PROVE  LET y == Append(w, v)
         IN  /\ Len(y) = 2 * (n + 1)
             /\ y[2 * (n + 1) - 1] = w[2 * n + 1] /\ y[2 * (n + 1)] = v
             /\ OneKeyEach(y, n + 1)
             /\ \A i \in 1..n : /\ y[2 * i - 1] = w[2 * i - 1]
                                /\ y[2 * i] = w[2 * i]
             /\ \A i \in 0..n : Match(y, i) = Match(w, i)
             /\ Match(y, n + 1) = {r \in Match(w, n) : tagsOf[r][w[2 * n + 1]] = v}
<1> DEFINE y == Append(w, v)
           k == w[2 * n + 1]
<1>1. /\ Len(w) = 2 * n + 1 /\ k \in Keys
      /\ OneKeyEach(w, n)
      /\ \A i \in 1..n : w[2 * i - 1] # k
  BY DEF EndsWithKey, BeginsWithPairs
<1>2. /\ Len(y) = (2 * n + 1) + 1 /\ y[(2 * n + 1) + 1] = v /\ y[2 * n + 1] = k
      /\ \A i \in 1..n : y[2 * i - 1] = w[2 * i - 1] /\ y[2 * i] = w[2 * i]
      /\ \A i \in 0..n : Match(y, i) = Match(w, i)
  <2>1. 2 * n + 1 \in 1..Len(w) /\ Len(w) >= 2 * n
    BY <1>1
  <2> QED
    BY <1>1, <2>1, PairsStay
<1>3. (2 * n + 1) + 1 = 2 * (n + 1) /\ 2 * n + 1 = 2 * (n + 1) - 1
  OBVIOUS
<1> HIDE DEF y, k
<1>4. \A i \in 1..n + 1 : i = n + 1 \/ i \in 1..n
  OBVIOUS
<1>5. OneKeyEach(y, n + 1)
  <2> SUFFICES ASSUME NEW i \in 1..n + 1, NEW j \in 1..n + 1,
                      y[2 * i - 1] = y[2 * j - 1]
               PROVE  i = j
    BY DEF OneKeyEach
  <2>1. CASE i \in 1..n /\ j \in 1..n
    BY <1>1, <1>2, <2>1 DEF OneKeyEach
  <2>2. CASE i = n + 1 /\ j \in 1..n
    BY <1>1, <1>2, <1>3, <2>2
  <2>3. CASE i \in 1..n /\ j = n + 1
    BY <1>1, <1>2, <1>3, <2>3
  <2> QED
    BY <1>4, <2>1, <2>2, <2>3
<1>6. Match(y, n + 1) = {r \in Match(w, n) : tagsOf[r][k] = v}
  <2>1. Match(y, n + 1) = {r \in Match(y, n) : Select!Carries(r, y[2 * (n + 1) - 1], y[2 * (n + 1)])}
    <3>1. n + 1 \in 1..n + 1 /\ 1..n \subseteq 1..n + 1
      OBVIOUS
    <3> QED
      BY <1>4, <3>1 DEF Match
  <2>2. Match(y, n) = Match(w, n)
    BY <1>2
  <2> QED
    BY <1>1, <1>2, <1>3, <2>1, <2>2 DEF Select!Carries
<1> QED
  BY <1>2, <1>3, <1>5, <1>6 DEF y, k

(* The values suggested for a key: those that a role has which carries the *)
(* pairs.                                                                  *)
LEMMA ValuesGive ==
  ASSUME tagsOf \in Tags, NEW w \in Seq(Words), NEW n \in Nat, EndsWithKey(w, n)
  PROVE  /\ \A v \in Select!Suggestions(w) :
              v \in Values /\ Match(Append(w, v), n + 1) # {}
         /\ Select!Suggestions(w) # {}
<1> DEFINE k == w[2 * n + 1]
<1>1. Len(w) = 2 * n + 1 /\ k \in Keys
  BY DEF EndsWithKey
<1>2. (Len(w) + 1) \div 2 = n + 1
  BY <1>1
<1>3. Select!Suggestions(w) = {v \in Select!ValuesOf(k) :
         Select!GetMatchingRoles(Select!Pairs(Append(w, v), n + 1)) # {}}
  BY <1>2, AfterKey DEF Select!CompleteValues
<1> HIDE DEF k
<1>4. Select!ValuesOf(k) = {tagsOf[r][k] : r \in Roles} \ {NoValue}
  BY DEF Select!ValuesOf
<1>5. Select!ValuesOf(k) \subseteq Values /\ Values \subseteq Words
  BY <1>1, <1>4 DEF Tags, Words
<1>6. ASSUME NEW v \in Select!ValuesOf(k)
      PROVE  /\ Select!GetMatchingRoles(Select!Pairs(Append(w, v), n + 1)) = Match(Append(w, v), n + 1)
             /\ Match(Append(w, v), n + 1) = {r \in Match(w, n) : tagsOf[r][k] = v}
  <2>1. v \in Words /\ n + 1 \in Nat
    BY <1>5
  <2>2. /\ OneKeyEach(Append(w, v), n + 1)
        /\ Match(Append(w, v), n + 1) = {r \in Match(w, n) : tagsOf[r][k] = v}
    BY <2>1, PairAdded DEF k
  <2>3. TagsAre(Select!Pairs(Append(w, v), n + 1), Append(w, v), n + 1)
    BY <2>1, <2>2, PairsGive
  <2> QED
    BY <2>1, <2>2, <2>3, TagsMatch
<1>7. PICK r \in Match(w, n) : tagsOf[r][k] # NoValue
  BY DEF EndsWithKey, k
<1>8. tagsOf[r][k] \in Select!Suggestions(w)
  <2>1. r \in Roles /\ tagsOf[r][k] \in Select!ValuesOf(k)
    BY <1>4, <1>7 DEF Match
  <2> QED
    BY <1>3, <1>6, <1>7, <2>1
<1> QED
  BY <1>3, <1>5, <1>6, <1>8

LEMMA PickAfterKey ==
  ASSUME tagsOf \in Tags, NEW w \in Seq(Words), NEW n \in Nat, EndsWithKey(w, n),
         NEW v \in Select!Suggestions(w)
  PROVE  v \in Words /\ Suggested(Append(w, v))
<1> DEFINE y == Append(w, v)
<1>1. v \in Values /\ Match(y, n + 1) # {} /\ v \in Words
  BY ValuesGive DEF Words
<1>2. /\ Len(y) = 2 * (n + 1)
      /\ y[2 * (n + 1) - 1] = w[2 * n + 1] /\ y[2 * (n + 1)] = v
      /\ OneKeyEach(y, n + 1)
      /\ \A i \in 1..n : y[2 * i - 1] = w[2 * i - 1] /\ y[2 * i] = w[2 * i]
      /\ \A i \in 0..n : Match(y, i) = Match(w, i)
  BY <1>1, PairAdded
<1> HIDE DEF y
<1>3. /\ \A i \in 1..n : w[2 * i - 1] \in Keys /\ w[2 * i] \in Values
      /\ \A i \in 0..n : ~ Single(Match(w, i))
      /\ w[2 * n + 1] \in Keys
  BY DEF EndsWithKey, BeginsWithPairs
<1>4. \A i \in 1..n + 1 : y[2 * i - 1] \in Keys /\ y[2 * i] \in Values
  <2> TAKE i \in 1..n + 1
  <2>1. CASE i = n + 1
    BY <1>1, <1>2, <1>3, <2>1
  <2>2. CASE i # n + 1
    <3>1. i \in 1..n
      BY <2>2
    <3> QED
      BY <1>2, <1>3, <3>1
  <2> QED
    BY <2>1, <2>2
<1>5. (n + 1) - 1 = n /\ n + 1 \in Nat
  OBVIOUS
<1>6. BeginsWithPairs(y, n + 1, (n + 1) - 1)
  BY <1>1, <1>2, <1>3, <1>4, <1>5 DEF BeginsWithPairs
<1>7. IsPairs(y, n + 1)
  BY <1>2, <1>6 DEF IsPairs
<1> QED
  BY <1>1, <1>5, <1>7 DEF Suggested, y

LEMMA PickLeadsOn ==
  ASSUME tagsOf \in Tags, NEW w \in Seq(Words), Suggested(w),
         NEW x \in Select!Suggestions(w)
  PROVE  Suggested(Append(w, x))
<1>1. CASE IsProfileName(w)
  <2>1. x \in Select!Profiles /\ Len(w) = 1 /\ w[1] = "ProfileName"
    BY <1>1, AfterProfileName DEF IsProfileName
  <2>2. Len(Append(w, x)) = 2 /\ Append(w, x)[1] = "ProfileName" /\ Append(w, x)[2] = x
    <3>1. x \in Words
      BY <2>1 DEF Words
    <3>2. /\ Len(Append(w, x)) = Len(w) + 1 /\ Append(w, x)[Len(w) + 1] = x
          /\ \A i \in 1..Len(w) : Append(w, x)[i] = w[i]
      BY <3>1
    <3>3. Len(w) + 1 = 2 /\ 1 \in 1..Len(w)
      BY <2>1
    <3> QED
      BY <2>1, <3>2, <3>3
  <2> QED
    BY <2>1, <2>2 DEF Suggested, IsProfile
<1>2. CASE IsProfile(w)
  BY <1>2, AfterProfile
<1>3. ASSUME NEW n \in Nat, EndsWithRole(w, n)
      PROVE  FALSE
  BY <1>3, AfterRole
<1> QED
  BY <1>1, <1>2, <1>3, PickAfterPairs, PickAfterKey DEF Suggested

(* Whatever was typed before, the suggestions are words.                   *)
LEMMA SuggestionsAreWords ==
  ASSUME tagsOf \in Tags, NEW w
  PROVE  Select!Suggestions(w) \subseteq Words
<1>1. \A c : Select!CompleteProfiles(c) \subseteq Words
  BY DEF Select!CompleteProfiles, Words
<1>2. \A t, k : Select!GetPossibleUniqueRoles(t, k) \subseteq Roles
  BY DEF Select!GetPossibleUniqueRoles, Select!GetMatchingRoles
<1>3. \A c, k : k \in Keys => Select!CompleteKey(w, c, k) \subseteq Words
  BY <1>2 DEF Select!CompleteKey, Words
<1>4. \A c : Select!CompleteKeys(w, c) \subseteq Words
  BY <1>3 DEF Select!CompleteKeys, Select!AllKeys, Words
<1>5. ASSUME NEW k \in Keys
      PROVE  Select!CompleteValues(w, k) \subseteq Words
  <2>1. Select!ValuesOf(k) \subseteq Values
    BY DEF Select!ValuesOf, Tags
  <2> QED
    BY <2>1 DEF Select!CompleteValues, Words
<1> QED
  BY <1>1, <1>4, <1>5 DEF Select!Suggestions

-----------------------------------------------------------------------------
(* The executor.                                                           *)

LEMMA ExecutorAnswers ==
  ASSUME NEW w \in Seq(Words)
  PROVE  Select!Executor(w) \in Roles \cup Select!Ended
<1> DEFINE x == Select!Last(w)
           roles == Select!GetMatchingRoles(Select!ArgsTags(w))
<1>1. CASE w # <<>> /\ x \in Select!Profiles
  <2>1. x \notin Roles
    BY <1>1, WordsDiffer
  <2> QED
    BY <1>1, <2>1, RoleOfProfile DEF Select!Executor, Select!SelectedByProfile
<1>2. CASE w # <<>> /\ x \in Roles
  <2>1. x \notin Select!Profiles
    BY <1>2, WordsDiffer
  <2> QED
    BY <1>2, <2>1 DEF Select!Executor
<1>3. CASE ~ (w # <<>> /\ x \in Select!Profiles) /\ ~ (w # <<>> /\ x \in Roles)
  <2>1. roles \in SUBSET Roles
    BY DEF Select!GetMatchingRoles
  <2>2. Select!Executor(w) = CASE roles = {}                     -> "none"
                               [] Select!Cardinality(roles) > 1 -> "many"
                               [] OTHER                         -> CHOOSE r \in roles : TRUE
    BY <1>3 DEF Select!Executor
  <2> HIDE DEF roles
  <2>3. roles # {} => (CHOOSE r \in roles : TRUE) \in roles
    OBVIOUS
  <2> QED
    BY <2>1, <2>2, <2>3, HowMany DEF Select!Ended
<1> QED
  BY <1>1, <1>2, <1>3

(* Words that end with neither a profile nor a role are matched as tags.   *)
LEMMA ExecutorMatches ==
  ASSUME NEW w \in Seq(Words), NEW n \in Nat, OneKeyEach(w, n),
         Len(w) = 2 * n \/ Len(w) = 2 * n + 1,
         w = <<>> \/ w[Len(w)] \notin Select!Profiles \cup Roles,
         Match(w, Whole(w, n)) # {}
  PROVE  IF Single(Match(w, Whole(w, n)))
         THEN Select!Executor(w) \in Match(w, Whole(w, n))
         ELSE Select!Executor(w) = "many"
<1> DEFINE roles == Match(w, Whole(w, n))
<1>1. Select!GetMatchingRoles(Select!ArgsTags(w)) = roles
  <2>1. TagsAre(Select!ArgsTags(w), w, Whole(w, n)) /\ Whole(w, n) \in Nat
    BY ArgsGive
  <2> QED
    BY <2>1, TagsMatch
<1>2. roles \in SUBSET Roles /\ roles # {}
  BY DEF Match
<1>3. Select!Executor(w) = CASE roles = {}                     -> "none"
                             [] Select!Cardinality(roles) > 1 -> "many"
                             [] OTHER                         -> CHOOSE r \in roles : TRUE
  BY <1>1 DEF Select!Executor, Select!Last
<1> HIDE DEF roles
<1>4. (CHOOSE r \in roles : TRUE) \in roles
  BY <1>2
<1>5. CASE Single(roles)
  <2>1. ~ (Select!Cardinality(roles) > 1)
    BY <1>2, <1>5, HowMany
  <2> QED
    BY <1>2, <1>3, <1>4, <1>5, <2>1 DEF roles
<1>6. CASE ~ Single(roles)
  <2>1. Select!Cardinality(roles) > 1
    BY <1>2, <1>6, HowMany
  <2> QED
    BY <1>2, <1>3, <1>6, <2>1 DEF roles
<1> QED
  BY <1>5, <1>6

(* A line of pairs that ends with the name of a profile names the role of  *)
(* that profile, because no other role may have it as a tag.               *)
LEMMA PairsSelect ==
  ASSUME tagsOf \in Select!Tagged, NEW w \in Seq(Words), NEW n \in Nat, IsPairs(w, n)
  PROVE  /\ Select!Executor(w) \in Roles => Select!Executor(w) \in Match(w, n)
         /\ Single(Match(w, n)) => Select!Executor(w) \in Roles
<1>1. /\ Len(w) = 2 * n /\ OneKeyEach(w, n) /\ Match(w, n) # {}
      /\ \A i \in 1..n : w[2 * i - 1] \in Keys /\ w[2 * i] \in Values
  BY DEF IsPairs, BeginsWithPairs
<1>2. "many" \notin Roles /\ Values \cap Roles = {}
  BY WordsDiffer DEF Select!Ended
<1>3. CASE w # <<>> /\ w[Len(w)] \in Select!Profiles
  <2>1. n \in 1..n
    BY <1>1, <1>3
  <2>2. PICK q \in Roles : w[2 * n] = ProfileOf[q]
    BY <1>1, <1>3 DEF Select!Profiles
  <2>3. PICK r \in Roles : r \in Match(w, n)
    BY <1>1 DEF Match
  <2>4. tagsOf[r][w[2 * n - 1]] = w[2 * n] /\ w[2 * n - 1] \in Keys
    BY <1>1, <2>1, <2>3 DEF Match, Select!Carries
  <2>5. r = q
    BY <2>2, <2>4 DEF Select!Tagged
  <2>6. Select!Executor(w) = Select!RoleOf(w[Len(w)])
    <3>1. w[Len(w)] \notin Roles
      BY <1>3, WordsDiffer
    <3> QED
      BY <1>3, <3>1 DEF Select!Executor, Select!SelectedByProfile, Select!Last
  <2> QED
    BY <1>1, <2>2, <2>3, <2>5, <2>6, RoleOfProfile
<1>4. CASE w = <<>> \/ w[Len(w)] \notin Select!Profiles
  <2>1. w = <<>> \/ w[Len(w)] \notin Select!Profiles \cup Roles
    <3>1. w # <<>> => n \in 1..n
      BY <1>1
    <3> QED
      BY <1>1, <1>2, <1>4, <3>1
  <2>2. Whole(w, n) = n
    BY <1>1 DEF Whole
  <2>3. IF Single(Match(w, n)) THEN Select!Executor(w) \in Match(w, n)
        ELSE Select!Executor(w) = "many"
    BY <1>1, <2>1, <2>2, ExecutorMatches
  <2> QED
    BY <1>2, <2>3 DEF Match
<1> QED
  BY <1>3, <1>4

LEMMA ProfileSelects ==
  ASSUME NEW w \in Seq(Words), IsProfile(w)
  PROVE  Select!Executor(w) \in Roles
<1>1. w # <<>> /\ w[Len(w)] \in Select!Profiles /\ w[Len(w)] \notin Roles
  BY WordsDiffer DEF IsProfile
<1> QED
  BY <1>1, RoleOfProfile DEF Select!Executor, Select!SelectedByProfile, Select!Last

LEMMA RoleSelects ==
  ASSUME NEW w \in Seq(Words), NEW n \in Nat, EndsWithRole(w, n)
  PROVE  Select!Executor(w) = w[2 * n + 1] /\ Select!Executor(w) \in Match(w, n)
<1>1. w # <<>> /\ Len(w) = 2 * n + 1 /\ w[Len(w)] \in Match(w, n)
  BY DEF EndsWithRole
<1>2. w[Len(w)] \in Roles /\ w[Len(w)] \notin Select!Profiles
  BY <1>1, WordsDiffer DEF Match
<1> QED
  BY <1>1, <1>2 DEF Select!Executor, Select!Last

(* A key without its value selects nothing: too many roles match.          *)
LEMMA KeySelectsNothing ==
  ASSUME NEW w \in Seq(Words), NEW n \in Nat, EndsWithKey(w, n)
  PROVE  Select!Executor(w) \notin Roles
<1> DEFINE m == Whole(w, n)
<1>1. /\ Len(w) = 2 * n + 1 /\ OneKeyEach(w, n) /\ Match(w, n) # {}
      /\ w[Len(w)] \in Keys
      /\ \A i \in 0..n : ~ Single(Match(w, i))
  BY DEF EndsWithKey, BeginsWithPairs
<1>2. w[Len(w)] \notin Select!Profiles \cup Roles
  BY <1>1, WordsDiffer
<1>3. m \in 0..n
  BY <1>1, ArgsGive
<1>4. Match(w, m) # {} /\ ~ Single(Match(w, m))
  BY <1>1, <1>3, MatchShrinks
<1>5. Select!Executor(w) = "many"
  BY <1>1, <1>2, <1>4, ExecutorMatches
<1> QED
  BY <1>5, WordsDiffer DEF Select!Ended

LEMMA LineEnds ==
  ASSUME tagsOf \in Select!Tagged, NEW w \in Seq(Words), Suggested(w),
         Select!Suggestions(w) = {}
  PROVE  Select!Executor(w) \in Roles
<1>1. tagsOf \in Tags
  BY DEF Select!Tagged, Tags
<1>2. ASSUME NEW n \in Nat, IsPairs(w, n)
      PROVE  Select!Executor(w) \in Roles
  <2>1. CASE Single(Match(w, n))
    BY <1>2, <2>1, PairsSelect
  <2>2. CASE ~ Single(Match(w, n))
    <3> DEFINE t == Select!ArgsTags(w)
    <3>1. Match(w, n) \in SUBSET Roles /\ Match(w, n) # {}
      BY <1>2 DEF Match, IsPairs, BeginsWithPairs
    <3>2. PICK r \in Match(w, n), q \in Match(w, n) : r # q
      <4>1. PICK r : r \in Match(w, n)
        BY <3>1
      <4>2. Match(w, n) # {r}
        BY <2>2, <3>1, HowMany
      <4> QED
        BY <4>1, <4>2
    <3>3. PICK k \in Keys : tagsOf[r][k] # tagsOf[q][k]
      <4>1. tagsOf[r] # tagsOf[q]
        BY <3>1, <3>2 DEF Select!Tagged
      <4>2. tagsOf[r] \in [Keys -> Values \cup {NoValue}] /\ tagsOf[q] \in [Keys -> Values \cup {NoValue}]
        BY <1>1, <3>1 DEF Tags
      <4> QED
        BY <4>1, <4>2
    <3>4. PICK x \in Match(w, n) : tagsOf[x][k] # NoValue
      BY <3>2, <3>3
    <3>5. TagsAre(t, w, n) /\ Select!Suggestions(w) = Select!CompleteKeys(w, t)
      BY <1>2, <2>2, AfterPairs
    <3> HIDE DEF t
    <3>6. \A i \in 1..n : w[2 * i - 1] # k
      BY <3>2, <3>3 DEF Match, Select!Carries
    <3>7. k \in Select!AllKeys \ DOMAIN t
      <4>1. k \in Select!AllKeys
        BY <3>1, <3>4 DEF Select!AllKeys, Select!ValuesOf
      <4> QED
        BY <3>5, <3>6, <4>1 DEF TagsAre
    <3>8. x \in Select!GetPossibleUniqueRoles(t, k)
      BY <1>1, <3>4, <3>5, <3>6, UniqueRoles
    <3>9. Select!CompleteKey(w, t, k) # {}
      BY <3>8 DEF Select!CompleteKey
    <3>10. Select!CompleteKeys(w, t) # {}
      BY <3>7, <3>9 DEF Select!CompleteKeys
    <3> QED
      BY <3>5, <3>10
  <2> QED
    BY <2>1, <2>2
<1>3. ASSUME NEW n \in Nat, EndsWithKey(w, n)
      PROVE  FALSE
  BY <1>1, <1>3, ValuesGive
<1>4. ASSUME NEW n \in Nat, EndsWithRole(w, n)
      PROVE  Select!Executor(w) \in Roles
  BY <1>4, RoleSelects DEF Match
<1>5. CASE IsProfileName(w)
  BY <1>5, AfterProfileName, RoleOfProfile
<1>6. CASE IsProfile(w)
  BY <1>6, ProfileSelects
<1> QED
  BY <1>2, <1>3, <1>4, <1>5, <1>6 DEF Suggested

LEMMA LineMatches ==
  ASSUME tagsOf \in Select!Tagged, NEW w \in Seq(Words), Suggested(w),
         Select!Executor(w) \in Roles,
         NEW i \in 1..Len(w), i % 2 = 0, w[i - 1] \in Keys
  PROVE  Select!Carries(Select!Executor(w), w[i - 1], w[i])
<1>1. PICK j \in Nat : i = 2 * j /\ j >= 1
  <2>1. i = 2 * (i \div 2) /\ i \div 2 \in Nat /\ i \div 2 >= 1
    OBVIOUS
  <2> QED
    BY <2>1
<1>2. ASSUME NEW n \in Nat, Len(w) = 2 * n \/ Len(w) = 2 * n + 1,
             Select!Executor(w) \in Match(w, n)
      PROVE  Select!Carries(Select!Executor(w), w[i - 1], w[i])
  <2>1. j \in 1..n
    BY <1>1, <1>2
  <2> QED
    BY <1>1, <1>2, <2>1 DEF Match
<1>3. CASE IsProfileName(w) \/ IsProfile(w)
  <2>1. Len(w) <= 2 /\ w[1] = "ProfileName"
    <3>1. CASE IsProfileName(w)
      BY <3>1 DEF IsProfileName
    <3>2. CASE IsProfile(w)
      BY <3>2 DEF IsProfile
    <3> QED
      BY <1>3, <3>1, <3>2
  <2>2. i = 2 /\ i - 1 = 1
    BY <1>1, <2>1
  <2> QED
    BY <2>1, <2>2, WordsDiffer
<1>4. ASSUME NEW n \in Nat, IsPairs(w, n)
      PROVE  Select!Carries(Select!Executor(w), w[i - 1], w[i])
  BY <1>2, <1>4, PairsSelect DEF IsPairs
<1>5. ASSUME NEW n \in Nat, EndsWithRole(w, n)
      PROVE  Select!Carries(Select!Executor(w), w[i - 1], w[i])
  BY <1>2, <1>5, RoleSelects DEF EndsWithRole
<1> QED
  BY <1>3, <1>4, <1>5, KeySelectsNothing DEF Suggested

-----------------------------------------------------------------------------
(* The steps of the prompt.                                                *)

LEMMA TagInit == Select!Init => TagInv
<1> SUFFICES ASSUME Select!Init
             PROVE  TagInv
  OBVIOUS
<1>1. tagsOf \in Tags /\ line = <<>> /\ followed = TRUE /\ outcome = "closed"
  BY DEF Select!Init, Select!Untagged, Tags
<1>2. Select!TypeOK
  BY <1>1, WordsDiffer DEF Select!TypeOK, Tags
<1> QED
  BY <1>1, <1>2 DEF TagInv

LEMMA PromptKeeps ==
  ASSUME TagInv, Select!Prompt
  PROVE  TagInv'
<1>1. /\ outcome' = "typing" /\ tagsOf' \in Select!Tagged
      /\ line' = <<>> /\ followed' = TRUE
  BY DEF Select!Prompt, TagInv
<1>2. Select!TypeOK'
  BY <1>1, WordsDiffer DEF Select!TypeOK, Select!Tagged
<1>3. Suggested(line)'
  <2>1. Len(line') = 2 * 0 /\ 0 \in Nat
    BY <1>1
  <2>2. 1..0 = {} /\ 0..0 - 1 = {}
    OBVIOUS
  <2>3. Match(line, 0)' = Roles
    BY <2>2 DEF Match
  <2>4. BeginsWithPairs(line, 0, 0 - 1)'
    BY <2>2, <2>3, WordsDiffer DEF BeginsWithPairs, OneKeyEach
  <2>5. IsPairs(line, 0)'
    BY <2>1, <2>4 DEF IsPairs
  <2> QED
    BY <2>1, <2>5 DEF Suggested
<1> QED
  BY <1>1, <1>2, <1>3 DEF TagInv, Select!Tagged

(* A line of words is extended by a word.                                  *)
LEMMA AddTypes ==
  ASSUME TagInv, NEW x \in Words, Select!Add(x), followed' \in BOOLEAN
  PROVE  /\ line' = Append(line, x) /\ line' \in Seq(Words)
         /\ tagsOf' = tagsOf /\ outcome = "typing" /\ outcome' = "typing"
         /\ tagsOf \in Select!Tagged
         /\ Select!TypeOK'
<1>1. /\ line' = Append(line, x) /\ Len(line) < MaxWords /\ line \in Seq(Words)
      /\ tagsOf' = tagsOf /\ outcome = "typing" /\ outcome' = "typing"
      /\ tagsOf \in Select!Tagged
  BY DEF Select!Add, TagInv
<1>2. line' \in Seq(Words) /\ Len(line') = Len(line) + 1
  BY <1>1
<1>3. Len(line') <= MaxWords
  BY <1>1, <1>2, WordsDiffer
<1>4. \A i \in 1..Len(line') :
        line'[i] \in Keys \cup Values \cup Roles \cup Select!Profiles \cup {"ProfileName"}
  BY <1>2 DEF Words
<1>5. Select!TypeOK'
  BY <1>1, <1>3, <1>4 DEF TagInv, Select!TypeOK, Select!Profiles
<1> QED
  BY <1>1, <1>2, <1>5

(* A line is suggested by the tags alone.                                  *)
LEMMA StillSuggested ==
  ASSUME tagsOf' = tagsOf, Suggested(line')
  PROVE  Suggested(line)'
<1>1. ASSUME NEW n
      PROVE  Match(line, n)' = Match(line', n)
  BY DEF Match, Select!Carries
<1>2. ASSUME NEW n, NEW m
      PROVE  BeginsWithPairs(line', n, m) => BeginsWithPairs(line, n, m)'
  <2>1. OneKeyEach(line', n) => OneKeyEach(line, n)'
    BY DEF OneKeyEach
  <2>2. ASSUME NEW i
        PROVE  Single(Match(line, i))' <=> Single(Match(line', i))
    BY <1>1 DEF Single
  <2> QED
    BY <1>1, <2>1, <2>2 DEF BeginsWithPairs
<1>3. ASSUME NEW n
      PROVE  /\ IsPairs(line', n) => IsPairs(line, n)'
             /\ EndsWithKey(line', n) => EndsWithKey(line, n)'
             /\ EndsWithRole(line', n) => EndsWithRole(line, n)'
  <2>1. IsPairs(line', n) => IsPairs(line, n)'
    BY <1>2 DEF IsPairs
  <2>2. EndsWithKey(line', n) => EndsWithKey(line, n)'
    BY <1>1, <1>2 DEF EndsWithKey
  <2>3. EndsWithRole(line', n) => EndsWithRole(line, n)'
    BY <1>1, <1>2 DEF EndsWithRole
  <2> QED
    BY <2>1, <2>2, <2>3
<1>4. /\ IsProfileName(line') => IsProfileName(line)'
      /\ IsProfile(line') => IsProfile(line)'
  BY DEF IsProfileName, IsProfile
<1> QED
  BY <1>3, <1>4 DEF Suggested

LEMMA PickKeeps ==
  ASSUME TagInv, Select!Pick
  PROVE  TagInv'
<1>1. PICK x \in Select!Suggestions(line) : Select!Add(x) /\ followed' = followed
  BY DEF Select!Pick
<1>2. tagsOf \in Select!Tagged /\ tagsOf \in Tags
  BY <1>1 DEF Select!Add, TagInv, Select!Tagged, Tags
<1>3. x \in Words
  BY <1>2, SuggestionsAreWords
<1>4. /\ line' = Append(line, x) /\ line' \in Seq(Words)
      /\ tagsOf' = tagsOf /\ outcome = "typing" /\ outcome' = "typing"
      /\ Select!TypeOK'
  <2>1. followed' \in BOOLEAN
    BY <1>1 DEF TagInv, Select!TypeOK
  <2> QED
    BY <1>1, <1>3, <2>1, AddTypes
<1>5. followed' => Suggested(line)'
  <2> SUFFICES ASSUME followed'
               PROVE  Suggested(line)'
    OBVIOUS
  <2>1. Suggested(line) /\ line \in Seq(Words)
    BY <1>1, <1>4 DEF TagInv
  <2>2. Suggested(Append(line, x))
    BY <1>2, <2>1, PickLeadsOn
  <2>3. Suggested(line')
    BY <1>4, <2>2
  <2> QED
    BY <1>4, <2>3, StillSuggested
<1>6. tagsOf' \in Select!Tagged'
  BY <1>2, <1>4 DEF Select!Tagged
<1> QED
  BY <1>4, <1>5, <1>6 DEF TagInv

LEMMA TypeKeeps ==
  ASSUME TagInv, Select!Type
  PROVE  TagInv'
<1>1. PICK x \in Keys \cup Values : Select!Add(x) /\ followed' = FALSE
  BY DEF Select!Type
<1>2. /\ line' \in Seq(Words) /\ tagsOf' = tagsOf /\ outcome' = "typing"
      /\ tagsOf \in Select!Tagged /\ Select!TypeOK'
  BY <1>1, AddTypes DEF Words
<1> QED
  BY <1>1, <1>2 DEF TagInv, Select!Tagged

(* The line and the tags are what they were.                               *)
LEMMA SameLine ==
  ASSUME tagsOf' = tagsOf, line' = line
  PROVE  /\ Select!Executor(line)' = Select!Executor(line)
         /\ Suggested(line) => Suggested(line)'
<1>1. Select!Executor(line)' = Select!Executor(line)
  BY DEF Select!Executor, Select!GetMatchingRoles, Select!Carries, Select!ArgsTags,
         Select!SelectedByProfile, Select!RoleOf, Select!Profiles, Select!Last,
         Select!Pairs, Select!NoTags, Select!Cardinality
<1>2. Suggested(line) => Suggested(line')
  OBVIOUS
<1>3. Suggested(line') => Suggested(line)'
  BY StillSuggested
<1> QED
  BY <1>1, <1>2, <1>3

LEMMA EnterKeeps ==
  ASSUME TagInv, Select!Enter
  PROVE  TagInv'
<1>1. /\ outcome = "typing" /\ outcome' = Select!Executor(line)
      /\ tagsOf' = tagsOf /\ line' = line /\ followed' = followed
  BY DEF Select!Enter
<1>2. outcome' \in Roles \cup Select!Ended
  BY <1>1, ExecutorAnswers DEF TagInv
<1>3. outcome' = Select!Executor(line)'
  BY <1>1, SameLine
<1>4. Suggested(line) => Suggested(line)'
  BY <1>1, SameLine
<1>5. Select!TypeOK'
  BY <1>1, <1>2 DEF TagInv, Select!TypeOK, Select!Ended, Select!Profiles
<1>6. outcome' # "closed"
  BY <1>2, WordsDiffer DEF Select!Ended
<1> QED
  BY <1>1, <1>3, <1>4, <1>5, <1>6 DEF TagInv, Select!Tagged

LEMMA ForgetKeeps ==
  ASSUME Select!Forget
  PROVE  TagInv'
<1>1. tagsOf' \in Tags /\ line' = <<>> /\ followed' = TRUE /\ outcome' = "closed"
  BY DEF Select!Forget, Select!Untagged, Tags
<1>2. Select!TypeOK'
  BY <1>1, WordsDiffer DEF Select!TypeOK, Tags
<1> QED
  BY <1>1, <1>2 DEF TagInv

-----------------------------------------------------------------------------
(* The session.                                                            *)

IInv ==
  /\ ShellInv
  /\ TagInv
  /\ ChainInv
  /\ Select!Closed \/ Chain!Idle

LEMMA ShellWaits ==
  ASSUME ShellInv, UNCHANGED vars
  PROVE  ShellInv'
BY DEF ShellInv, vars, Top, ShellOK

LEMMA PromptWaits ==
  ASSUME TagInv, UNCHANGED selectVars
  PROVE  TagInv' /\ (Select!Closed <=> Select!Closed')
<1>1. tagsOf' = tagsOf /\ line' = line /\ followed' = followed /\ outcome' = outcome
  BY DEF selectVars
<1>2. Select!TypeOK'
  BY <1>1 DEF TagInv, Select!TypeOK, Select!Profiles
<1>3. Select!Executor(line)' = Select!Executor(line)
  BY <1>1, SameLine
<1>4. Suggested(line) => Suggested(line)'
  BY <1>1, SameLine
<1> QED
  BY <1>1, <1>2, <1>3, <1>4 DEF TagInv, Select!Tagged, Select!Closed

LEMMA ChainWaits ==
  ASSUME ChainInv, UNCHANGED chainVars
  PROVE  ChainInv' /\ (Chain!Idle <=> Chain!Idle')
<1>1. /\ via' = via /\ asked' = asked /\ stack' = stack /\ chainMap' = chainMap
      /\ pc' = pc /\ calls' = calls
  BY DEF chainVars
<1>2. Chain!TypeOK'
  BY <1>1 DEF ChainInv, Chain!TypeOK
<1>3. StackFollowsVia' /\ MapRemembers' /\ CallsFollowStack'
  BY <1>1 DEF ChainInv, StackFollowsVia, MapRemembers, CallsFollowStack, Descending, Chain!Target
<1>4. EndsForAReason' /\ IdleIsEmpty' /\ CallsKnown'
  BY <1>1 DEF ChainInv, EndsForAReason, IdleIsEmpty, CallsKnown, Open, Chain!Target
<1> QED
  BY <1>1, <1>2, <1>3, <1>4 DEF ChainInv, Chain!Idle

LEMMA SessionStarts == SessionInit => IInv
BY ShellInit, TagInit, ChainInit DEF SessionInit, IInv, Chain!Init, Chain!Idle

LEMMA SessionContinues == IInv /\ [SessionNext]_sessionVars => IInv'
<1> SUFFICES ASSUME IInv, [SessionNext]_sessionVars
             PROVE  IInv'
  OBVIOUS
<1> USE DEF IInv
<1>1. ASSUME AtShell, ShellInv'
      PROVE  IInv'
  BY <1>1, PromptWaits, ChainWaits DEF AtShell
<1>2. CASE RunEval
  BY <1>1, <1>2, EvalKeeps DEF RunEval, Eval
<1>3. CASE RunEvalRefresh
  BY <1>1, <1>3, RefreshEvals, EvalKeeps DEF RunEvalRefresh
<1>4. CASE RunEvalClear
  BY <1>1, <1>4, ClearKeeps DEF RunEvalClear
<1>5. CASE RunExec
  BY <1>1, <1>5, ExecKeeps DEF RunExec, Exec
<1>6. CASE LeaveNested
  BY <1>1, <1>6, ShellEnds DEF LeaveNested
<1>7. CASE SetVariable
  BY <1>1, <1>7, UserKeeps DEF SetVariable
<1>8. ASSUME Chain!Idle, UNCHANGED <<vars, chainVars>>, TagInv'
      PROVE  IInv'
  BY <1>8, ShellWaits, ChainWaits
<1>9. outcome = "typing" => Chain!Idle
  BY DEF Select!Closed
<1>10. CASE OpenPrompt
  BY <1>8, <1>10, PromptKeeps DEF OpenPrompt
<1>11. CASE PickWord
  BY <1>8, <1>9, <1>11, PickKeeps DEF PickWord, Select!Pick, Select!Add
<1>12. CASE TypeWord
  BY <1>8, <1>9, <1>12, TypeKeeps DEF TypeWord, Select!Type, Select!Add
<1>13. CASE PressEnter
  BY <1>8, <1>9, <1>13, EnterKeeps DEF PressEnter, Select!Enter
<1>14. CASE AbortPrompt
  BY <1>8, <1>9, <1>14, ForgetKeeps DEF AbortPrompt, Select!Abort
<1>15. ASSUME Select!Leave
       PROVE  Chain!Idle /\ TagInv' /\ Select!Closed'
  <2>1. outcome # "closed"
    BY <1>15, WordsDiffer DEF Select!Leave, Select!Ended
  <2> QED
    BY <1>15, <2>1, ForgetKeeps DEF Select!Leave, Select!Forget, Select!Closed
<1>16. CASE UseSelection
  <2>1. ChainInv'
    BY <1>16, AskKeeps DEF UseSelection
  <2>2. ShellInv'
    BY <1>16, ShellWaits DEF UseSelection
  <2> QED
    BY <1>15, <1>16, <2>1, <2>2 DEF UseSelection
<1>17. CASE SelectionFails
  BY <1>8, <1>15, <1>17 DEF SelectionFails
<1>18. ASSUME pc # "idle", UNCHANGED selectVars, ChainInv', ShellInv'
       PROVE  IInv'
  BY <1>18, PromptWaits DEF Chain!Idle
<1>19. CASE GetCredentials
  <2>1. pc # "idle"
    BY <1>19 DEF GetCredentials, Chain!Step, Chain!FetchDirectly, Chain!LoopPanics, Chain!ViaUnreadable,
                 Chain!Descend, Chain!Overflow, Chain!AssumeRole, Chain!AssumeRoleFails, Chain!Return
  <2>2. ChainInv' /\ ShellInv' /\ UNCHANGED selectVars
    BY <1>19, StepKeeps, ShellWaits DEF GetCredentials
  <2> QED
    BY <1>18, <2>1, <2>2
<1>20. ASSUME Chain!Answered
       PROVE  pc # "idle" /\ ChainInv'
  BY <1>20, AnsweredKeeps DEF Chain!Answered, Chain!Ended
<1>21. CASE ExecWithCredentials
  <2>1. asked \in Roles
    BY <1>20, <1>21 DEF ExecWithCredentials, ChainInv, StackFollowsVia
  <2>2. ShellInv'
    BY <1>21, <2>1, ExecKeeps DEF ExecWithCredentials
  <2> QED
    BY <1>18, <1>20, <1>21, <2>2 DEF ExecWithCredentials
<1>22. CASE NoCredentials
  BY <1>18, <1>20, <1>22, ShellWaits DEF NoCredentials
<1>23. CASE UNCHANGED sessionVars
  BY <1>23, ShellWaits, PromptWaits, ChainWaits DEF sessionVars
<1> QED
  BY <1>2, <1>3, <1>4, <1>5, <1>6, <1>7, <1>10, <1>11, <1>12, <1>13, <1>14, <1>16, <1>17,
     <1>19, <1>21, <1>22, <1>23 DEF SessionNext

-----------------------------------------------------------------------------
(* What the invariant means.                                               *)

LEMMA ShellTypes == ShellInv => TypeOK
<1> SUFFICES ASSUME ShellInv, NEW i \in 1..Top
             PROVE  /\ DOMAIN shells[i] = Vars
                    /\ \A v \in RegionVars : shells[i][v] \in Regions \cup {Unset}
                    /\ shells[i]["AWS_SSO_ROLE_ARN"] \in Roles \cup {Unset}
                    /\ shells[i]["AWS_SSO_TAG"] \in {Unset} \cup {TagOf[r] : r \in Roles}
                    /\ own[i] \subseteq {"AWS_DEFAULT_REGION", "AWS_REGION"}
                    /\ managed[i] \in BOOLEAN
  BY DEF TypeOK, ShellInv
<1>1. ShellOK(shells[i], own[i], managed[i])
  BY DEF ShellInv
<1> QED
  BY <1>1 DEF ShellOK, Envs, TagValues, Chosen

LEMMA SessionMeans == IInv => SessionInv
BY ShellTypes, CredentialsByVia DEF IInv, TagInv, ChainInv, SessionInv, SessionTypeOK

LEMMA SelectionMeans == IInv => SelectionInv
<1> SUFFICES ASSUME TagInv
             PROVE  SelectionInv
  BY DEF IInv
<1>1. line \in Seq(Words)
  BY DEF TagInv
<1>2. Select!NoDeadEnd
  <2> SUFFICES ASSUME followed, outcome = "typing", Select!Suggestions(line) = {}
               PROVE  Select!Executor(line) \in Roles
    BY DEF Select!NoDeadEnd
  <2>1. tagsOf \in Select!Tagged /\ Suggested(line)
    BY DEF TagInv
  <2> QED
    BY <1>1, <2>1, LineEnds
<1>3. Select!SelectionMatches
  <2> SUFFICES ASSUME followed, outcome \in Roles,
                      NEW i \in 1..Len(line), i % 2 = 0, line[i - 1] \in Keys
               PROVE  Select!Carries(outcome, line[i - 1], line[i])
    BY DEF Select!SelectionMatches
  <2>1. outcome \notin {"closed", "typing"}
    BY WordsDiffer
  <2>2. /\ tagsOf \in Select!Tagged /\ Suggested(line)
        /\ outcome = Select!Executor(line)
    BY <2>1 DEF TagInv
  <2> QED
    BY <1>1, <2>2, LineMatches
<1> QED
  BY <1>2, <1>3 DEF SelectionInv

LEMMA LoopsMean == IInv => LoopsDetected
BY PanicIsRight, OverflowIsExcused DEF IInv, LoopsDetected

LEMMA Inductive == SessionSpec => []IInv
BY SessionStarts, SessionContinues, PTL DEF SessionSpec

(* One part of a session is in use at a time, all variables have the       *)
(* values they may have, and every role of a chain is assumed with the     *)
(* credentials of the role that its own Via names.                         *)
THEOREM OnePartAtATime == SessionSpec => []SessionInv
BY Inductive, SessionMeans, PTL

(* Taking suggestions until there are none selects one role, which carries *)
(* every tag of the line: completer and executor agree although nothing    *)
(* but the words is passed between them.                                   *)
THEOREM SuggestionsSelectOneRole == SessionSpec => []SelectionInv
BY Inductive, SelectionMeans, PTL

(* The panic is raised for no chain that ends, and the recursion runs out  *)
(* of stack only when some Via is not spelt as MakeRoleARN spells it.      *)
THEOREM LoopsAreDetected == SessionSpec => []LoopsDetected
BY Inductive, LoopsMean, PTL

(* A region of the user's survives every command that was not told to      *)
(* overwrite it.                                                           *)
THEOREM UserRegionIsKept == SessionSpec => DefaultRegionKept
<1>1. IInv /\ [SessionNext]_sessionVars => [Kept("AWS_DEFAULT_REGION")]_vars
  BY PoliteKeeps DEF IInv
<1> QED
  BY Inductive, <1>1, PTL DEF SessionSpec, DefaultRegionKept

(* eval --clear forgets a region that aws-sso still manages.               *)
THEOREM ClearForgetsRegion == SessionSpec => ClearForgets
<1>1. IInv /\ [SessionNext]_sessionVars
        => [EvalClear(FALSE) /\ managed[Top] => \A v \in RegionVars : env'[v] = Unset]_vars
  BY ClearEmpties DEF IInv
<1> QED
  BY Inductive, <1>1, PTL DEF SessionSpec, ClearForgets

-----------------------------------------------------------------------------
(***************************************************************************)
(* The credentials that a session uses are kept in two files between       *)
(* executions (RoleCreds): its inductive invariant.                        *)
(***************************************************************************)

(* The execution runs, and has read both files.                            *)
Active(e) == phase[e] # "off"
Loaded(e) == phase[e] \notin {"off", "loading"}

(* The role's credentials are in the store, and not yet in the cache.      *)
Between(e, r) == phase[e] = "stored" /\ role[e] = r

(* Credentials that a logout need not find, or cannot.                     *)
Gone(c) == c = NoCreds \/ c.id \in undeleted \union unrecorded \/ c.exp <= now

(* An expiry and credentials that belong together: a logout finds these by *)
(* it, and after the logout it does not vouch for them.                    *)
Agrees(x, c) ==
  /\ x = c.exp \/ Gone(c)
  /\ c.id \in flushed => x = 0 \/ c.id \in undeleted

(* The two files agree, and with them the copies of the execution that     *)
(* runs, except for a role that is half saved.                             *)
FilesAgree(e) == \A r \in Role : ~Between(e, r) => Agrees(cache[r], store[r])

CopiesAgree(e) ==
  \A r \in Role : ~Between(e, r) =>
    /\ Active(e) => Agrees(expires[e][r], store[r])
    /\ Loaded(e) => Agrees(cache[r], memory[e][r]) /\ Agrees(expires[e][r], memory[e][r])

(* What an execution has just got is not flushed, and what it has saved is *)
(* what the store holds until the cache vouches for it.                    *)
NewIsNotFlushed(e) ==
  /\ phase[e] \in {"fetched", "stored"} => creds[e].id # 0 /\ creds[e].id \notin flushed
  /\ phase[e] = "returned" /\ creds[e].id \in flushed => creds[e].id \in undeleted
  /\ phase[e] = "stored" =>
       /\ memory[e][role[e]] = creds[e]
       /\ store[role[e]] \in {creds[e], NoCreds} \/ store[role[e]].id \in undeleted

(* A logout has got rid of what it has looked at.                          *)
LookedAt(e) ==
  phase[e] = "flushing" =>
    \A r \in Role \ todo[e] : Gone(store[r]) /\ Gone(memory[e][r])

(* What makes the two promises inductive while executions take turns: an   *)
(* expiry goes with the credentials that were saved before it, in either   *)
(* file and in either copy, but for what failed or was interrupted.        *)
Consistent(e) == FilesAgree(e) /\ CopiesAgree(e) /\ NewIsNotFlushed(e) /\ LookedAt(e)

OthersOff(e) == \A d \in Execution \ {e} : phase[d] = "off"

Alternating == \E e \in Execution : OthersOff(e) /\ Consistent(e)

(* The inductive invariant of RoleCreds.                                   *)
RoleCredsInv == CredsTypeOK /\ (~overlapped => Alternating)

-----------------------------------------------------------------------------
(* Values of the right type.                                               *)
LEMMA NothingTyped ==
  /\ NoCreds \in Creds
  /\ NoRoles \in [Role -> Creds]
  /\ AllExpired \in [Role -> 0..(MaxTime + 2)]
  /\ AnyRole \in Role
BY CredsAssumption DEF NoCreds, Creds, NoRoles,
   AllExpired, AnyRole

(* No credentials have the number 0, nor end at 0.                         *)
LEMMA CredsTyped ==
  ASSUME NEW c \in Creds
  PROVE  /\ c.exp \in 0..(MaxTime + 2) /\ c.id \in 0..MaxIssued
         /\ c.id = 0 <=> c = NoCreds
         /\ c.exp = 0 <=> c = NoCreds
BY CredsAssumption DEF NoCreds, Creds

(* Nothing has been flushed that was not issued.                           *)
LEMMA FlushedWereIssued ==
  ASSUME CredsTypeOK
  PROVE  /\ \A i \in flushed : i \in 1..issued
         /\ issued \in Nat /\ now \in Nat
         /\ 0 \notin flushed
BY CredsAssumption DEF CredsTypeOK

(* What a logout has flushed is not handed out again.                      *)
LEMMA InvMeansUnused == RoleCredsInv => CredsInv
<1> SUFFICES ASSUME RoleCredsInv, ~overlapped, NEW e \in Execution,
                    phase[e] = "returned", creds[e].id \in flushed
             PROVE  creds[e].id \in undeleted
  BY DEF RoleCredsInv, CredsInv, FlushedNotUsedAgain
<1>1. PICK d \in Execution : OthersOff(d) /\ Consistent(d)
  BY DEF RoleCredsInv, Alternating
<1>2. d = e
  BY <1>1 DEF OthersOff
<1> QED
  BY <1>1, <1>2 DEF Consistent, NewIsNotFlushed

(* And it is not in the store any more, where it could be.                 *)
LEMMA InvMeansGone == RoleCredsInv => FlushedIsGone
<1> SUFFICES ASSUME RoleCredsInv, ~overlapped, NEW r \in Role,
                    store[r].id \in flushed, store[r].id \notin undeleted \union unrecorded
             PROVE  store[r].exp <= now
  BY DEF FlushedIsGone
<1>1. PICK e \in Execution : OthersOff(e) /\ Consistent(e)
  BY DEF RoleCredsInv, Alternating
<1>2. CredsTypeOK /\ store[r] \in Creds
  BY DEF RoleCredsInv, CredsTypeOK
<1>3. store[r] # NoCreds /\ store[r].exp # 0
  BY <1>2, CredsTyped, FlushedWereIssued
<1>4. ~Between(e, r)
  BY <1>1, <1>2, <1>3 DEF Between, Consistent, NewIsNotFlushed
<1>5. Agrees(cache[r], store[r])
  BY <1>1, <1>4 DEF Consistent, FilesAgree
<1> QED
  BY <1>3, <1>5 DEF Agrees, Gone

(* The files have nothing in them at first.                                *)
LEMMA RoleCredsInvInit == CredsInit => RoleCredsInv
<1> SUFFICES ASSUME CredsInit
             PROVE  CredsTypeOK /\ Alternating
  BY DEF RoleCredsInv
<1>1. CredsTypeOK
  <2>1. /\ now \in 0..MaxTime
        /\ issued \in 0..MaxIssued
        /\ flushed \subseteq 1..issued
    BY CredsAssumption DEF CredsInit
  <2>2. /\ store \in [Role -> Creds]
        /\ cache \in [Role -> 0..(MaxTime + 2)]
        /\ memory \in [Execution -> [Role -> Creds]]
        /\ expires \in [Execution -> [Role -> 0..(MaxTime + 2)]]
    BY NothingTyped DEF CredsInit
  <2>3. /\ phase \in [Execution -> PC]
        /\ role \in [Execution -> Role]
        /\ todo \in [Execution -> SUBSET Role]
        /\ creds \in [Execution -> Creds]
    BY NothingTyped DEF CredsInit, PC
  <2>4. undeleted \subseteq 0..MaxIssued /\ unrecorded \subseteq 0..MaxIssued /\ overlapped \in BOOLEAN
    BY DEF CredsInit
  <2> QED
    BY <2>1, <2>2, <2>3, <2>4 DEF CredsTypeOK
<1>2. PICK e \in Execution : TRUE
  BY CredsAssumption
<1>3. OthersOff(e) /\ phase[e] = "off"
  BY DEF OthersOff, CredsInit
<1>4. Consistent(e)
  BY <1>3 DEF CredsInit, NoRoles, Consistent, FilesAgree, CopiesAgree, NewIsNotFlushed, LookedAt,
              Agrees, Gone, Active, Loaded
<1> QED
  BY <1>1, <1>3, <1>4 DEF Alternating

-----------------------------------------------------------------------------
(* The types, for every step: of a file that is written ...                *)
LEMMA StoreTyped ==
  ASSUME CredsTypeOK, NEW m \in [Role -> Creds], SaveStore(m)
  PROVE  store' \in [Role -> Creds] /\ undeleted' \subseteq 0..MaxIssued
<1>1. CASE WriteStore(m)
  BY <1>1 DEF WriteStore, CredsTypeOK
<1>2. CASE StoreFails(m)
  <2>1. \A r \in Role : store[r].id \in 0..MaxIssued
    BY CredsTyped DEF CredsTypeOK
  <2> QED
    BY <1>2, <2>1, NothingTyped DEF StoreFails, CredsTypeOK
<1> QED
  BY <1>1, <1>2 DEF SaveStore

LEMMA CacheTyped ==
  ASSUME CredsTypeOK, NEW e \in Execution, NEW x \in [Role -> 0..(MaxTime + 2)], SaveCache(e, x)
  PROVE  cache' \in [Role -> 0..(MaxTime + 2)] /\ unrecorded' \subseteq 0..MaxIssued
<1>1. CASE WriteCache(x)
  BY <1>1 DEF WriteCache, CredsTypeOK
<1>2. CASE CacheFails(e, x)
  <2>1. \A r \in Role : store[r].id \in 0..MaxIssued /\ memory[e][r].id \in 0..MaxIssued
    <3> SUFFICES ASSUME NEW r \in Role
                 PROVE  store[r].id \in 0..MaxIssued /\ memory[e][r].id \in 0..MaxIssued
      OBVIOUS
    <3>1. store[r] \in Creds /\ memory[e][r] \in Creds
      BY DEF CredsTypeOK
    <3> QED
      BY <3>1, CredsTyped
  <2>2. \A i \in unrecorded' : i \in unrecorded \/ \E r \in Role : i \in {store[r].id, memory[e][r].id}
    BY <1>2 DEF CacheFails
  <2>3. unrecorded' \subseteq 0..MaxIssued
    BY <2>1, <2>2 DEF CredsTypeOK
  <2> QED
    BY <1>2, <2>3, NothingTyped DEF CacheFails, CredsTypeOK
<1> QED
  BY <1>1, <1>2 DEF SaveCache

(* ... of a process that ends ...                                          *)
LEMMA OffTyped ==
  ASSUME CredsTypeOK, NEW e \in Execution, Off(e)
  PROVE  /\ memory' \in [Execution -> [Role -> Creds]]
         /\ expires' \in [Execution -> [Role -> 0..(MaxTime + 2)]]
         /\ phase' \in [Execution -> PC] /\ role' \in [Execution -> Role]
         /\ todo' \in [Execution -> SUBSET Role] /\ creds' \in [Execution -> Creds]
BY NothingTyped DEF Off, Goto, CredsTypeOK, PC

(* ... and of a step that is about no role or the execution's own.         *)
LEMMA FilesTyped ==
  ASSUME CredsTypeOK, NEW e \in Execution, Step(e)
  PROVE  CredsTypeOK'
<1> USE DEF CredsTypeOK, PC, files, mine, history, Goto
<1>1. CASE LoadCache(e)
  BY <1>1 DEF LoadCache
<1>2. CASE OpenStore(e)
  BY <1>2 DEF OpenStore
<1>3. CASE SaveHistory(e)
  BY <1>3, CacheTyped DEF SaveHistory
<1>4. CASE SaveRoleCredentials(e)
  <2>1. memory' \in [Execution -> [Role -> Creds]]
    BY <1>4 DEF SaveRoleCredentials
  <2>2. store' \in [Role -> Creds] /\ undeleted' \subseteq 0..MaxIssued
    BY <1>4, <2>1, StoreTyped DEF SaveRoleCredentials
  <2> QED
    BY <1>4, <2>1, <2>2 DEF SaveRoleCredentials
<1>5. CASE SetRoleExpires(e)
  <2>1. creds[e].exp \in 0..(MaxTime + 2) /\ creds[e].id \in 0..MaxIssued
    <3>1. creds[e] \in Creds
      OBVIOUS
    <3> QED
      BY <3>1, CredsTyped
  <2>2. expires' \in [Execution -> [Role -> 0..(MaxTime + 2)]]
    <3>1. \/ expires' = expires
          \/ expires' = [expires EXCEPT ![e][role[e]] = creds[e].exp]
      BY <1>5 DEF SetRoleExpires
    <3>2. role[e] \in Role /\ expires[e] \in [Role -> 0..(MaxTime + 2)]
      OBVIOUS
    <3>3. [expires[e] EXCEPT ![role[e]] = creds[e].exp] \in [Role -> 0..(MaxTime + 2)]
      BY <2>1, <3>2
    <3> QED
      BY <3>1, <3>3
  <2>3. cache' \in [Role -> 0..(MaxTime + 2)] /\ unrecorded' \subseteq 0..MaxIssued
    <3>1. CASE SaveCache(e, expires'[e])
      BY <2>2, <3>1, CacheTyped
    <3>2. CASE UNCHANGED <<expires, cache>> /\ Unrecorded(e)
      BY <2>1, <3>2 DEF Unrecorded
    <3> QED
      BY <1>5, <3>1, <3>2 DEF SetRoleExpires
  <2> QED
    BY <1>5, <2>2, <2>3 DEF SetRoleExpires
<1>6. CASE Logout(e)
  BY <1>6 DEF Logout
<1>7. CASE MarkRolesExpired(e)
  <2>1. cache' \in [Role -> 0..(MaxTime + 2)] /\ unrecorded' \subseteq 0..MaxIssued
    BY <1>7, NothingTyped, CacheTyped DEF MarkRolesExpired, SaveCache
  <2>2. flushed' \subseteq 1..issued'
    BY <1>7 DEF MarkRolesExpired
  <2> QED
    BY <1>7, <2>1, <2>2, OffTyped DEF MarkRolesExpired
<1>8. CASE Another(e)
  BY <1>8 DEF Another
<1>9. CASE Exit(e)
  <2>1. creds[e] \in Creds
    OBVIOUS
  <2>2. creds[e].id \in 0..MaxIssued
    BY <2>1, CredsTyped
  <2>3. unrecorded' = unrecorded \/ unrecorded' = unrecorded \union {creds[e].id}
    BY <1>9 DEF Exit, Unrecorded
  <2>4. unrecorded' \subseteq 0..MaxIssued
    BY <2>2, <2>3
  <2> QED
    BY <1>9, <2>4, OffTyped DEF Exit
<1> QED
  BY <1>1, <1>2, <1>3, <1>4, <1>5, <1>6, <1>7, <1>8, <1>9 DEF Step

(* A step for one role keeps the types.                                    *)
LEMMA RoleFilesTyped ==
  ASSUME CredsTypeOK, NEW e \in Execution, NEW r \in Role, RoleStep(e, r)
  PROVE  CredsTypeOK'
<1> USE CredsAssumption DEF CredsTypeOK, PC, files, mine, history, Goto
<1>1. CASE UseStored(e, r)
  BY <1>1 DEF UseStored
<1>2. CASE Fetch(e, r)
  <2>1. issued' \in 1..MaxIssued /\ flushed' \subseteq 1..issued'
    BY <1>2 DEF Fetch
  <2>2. PICK x \in (now + 2)..(MaxTime + 2) :
          creds' = [creds EXCEPT ![e] = [id |-> issued', exp |-> x]]
    BY <1>2 DEF Fetch
  <2>3. [id |-> issued', exp |-> x] \in Creds
    BY <2>1 DEF Creds
  <2> QED
    BY <1>2, <2>1, <2>2, <2>3 DEF Fetch
<1>3. CASE DeleteRoleCredentials(e, r)
  <2>1. memory' \in [Execution -> [Role -> Creds]]
    BY <1>3, NothingTyped DEF DeleteRoleCredentials
  <2>2. store' \in [Role -> Creds] /\ undeleted' \subseteq 0..MaxIssued
    BY <1>3, <2>1, StoreTyped DEF DeleteRoleCredentials
  <2> QED
    BY <1>3, <2>1, <2>2 DEF DeleteRoleCredentials
<1> QED
  BY <1>1, <1>2, <1>3 DEF RoleStep

-----------------------------------------------------------------------------
(* A write of the cache, from a copy that agrees with the credentials,     *)
(* leaves a cache that does: one that fails is noted.                      *)
LEMMA CacheAgrees ==
  ASSUME CredsTypeOK, NEW e \in Execution, NEW x \in [Role -> 0..(MaxTime + 2)],
         SaveCache(e, x), UNCHANGED <<now, flushed, undeleted>>,
         NEW q \in Role, NEW c \in {store[q], memory[e][q]},
         Agrees(x[q], c),
         c.id \in flushed => cache[q] = 0 \/ c.id \in undeleted
  PROVE  /\ cache'[q] = c.exp \/ c = NoCreds \/ c.id \in undeleted' \union unrecorded' \/ c.exp <= now'
         /\ c.id \in flushed' => cache'[q] = 0 \/ c.id \in undeleted'
<1>1. CASE WriteCache(x)
  BY <1>1 DEF WriteCache, Agrees, Gone
<1>2. CASE CacheFails(e, x) /\ cache'[q] = x[q]
  BY <1>2 DEF CacheFails, Agrees, Gone
<1>3. CASE CacheFails(e, x) /\ cache'[q] # x[q]
  <2>1. c \in Creds
    BY DEF CredsTypeOK
  <2>2. c.id = 0 => c = NoCreds
    BY <2>1, CredsTyped
  <2>3. c.id # 0 => c.id \in unrecorded'
    BY <1>3 DEF CacheFails
  <2>4. cache'[q] \in {cache[q], 0}
    BY <1>3 DEF CacheFails, AllExpired
  <2> QED
    BY <2>2, <2>3, <2>4
<1> QED
  BY <1>1, <1>2, <1>3 DEF SaveCache

(* What has been noted stays noted.                                        *)
LEMMA CacheNotes ==
  ASSUME NEW e, NEW x, SaveCache(e, x)
  PROVE  unrecorded \subseteq unrecorded'
BY DEF SaveCache, WriteCache, CacheFails

(* A write of the store leaves the copy's credentials, none, or those that *)
(* it notes.                                                               *)
LEMMA StoreAgrees ==
  ASSUME CredsTypeOK, NEW m \in [Role -> Creds], SaveStore(m), NEW q \in Role
  PROVE  /\ \/ store'[q] \in {m[q], NoCreds}
            \/ store'[q] = store[q] /\ store[q].id \in undeleted'
         /\ undeleted \subseteq undeleted'
<1>1. CASE WriteStore(m)
  BY <1>1 DEF WriteStore
<1>2. CASE StoreFails(m)
  <2>1. store[q] \in Creds
    BY DEF CredsTypeOK
  <2>2. store[q].id = 0 => store[q] = NoCreds
    BY <2>1, CredsTyped
  <2>3. store[q] # m[q] /\ store[q].id # 0 => store[q].id \in undeleted'
    BY <1>2 DEF StoreFails
  <2>4. store'[q] \in {store[q], NoCreds} /\ undeleted \subseteq undeleted'
    BY <1>2 DEF StoreFails, NoRoles
  <2> QED
    BY <2>2, <2>3, <2>4
<1> QED
  BY <1>1, <1>2 DEF SaveStore

-----------------------------------------------------------------------------
(* The steps of the one execution that runs: it reads its files ...        *)
LEMMA ReadingKeeps ==
  ASSUME CredsTypeOK, NEW e \in Execution, Consistent(e),
         OpenStore(e) \/ Logout(e) \/ Another(e)
  PROVE  Consistent(e)'
<1> USE DEF files, mine, history, Goto, Consistent, Between, Active, Loaded
<1>1. CASE OpenStore(e)
  BY <1>1 DEF OpenStore, CredsTypeOK, FilesAgree, CopiesAgree, NewIsNotFlushed, LookedAt, Agrees, Gone
<1>2. CASE Logout(e)
  <2>1. /\ FilesAgree(e)' /\ CopiesAgree(e)' /\ NewIsNotFlushed(e)'
    BY <1>2 DEF Logout, CredsTypeOK, FilesAgree, CopiesAgree, NewIsNotFlushed, Agrees, Gone
  <2>2. ASSUME NEW r \in Role \ todo'[e]
        PROVE  /\ Gone(store[r]) /\ Gone(memory[e][r])
    <3>1. expires[e][r] <= now
      BY <1>2 DEF Logout, IsExpired, CredsTypeOK
    <3>2. Agrees(expires[e][r], store[r]) /\ Agrees(expires[e][r], memory[e][r])
      BY <1>2 DEF Logout, CopiesAgree
    <3> QED
      BY <3>1, <3>2 DEF Agrees, Gone
  <2>3. LookedAt(e)'
    BY <1>2, <2>2 DEF Logout, LookedAt, Gone
  <2> QED
    BY <2>1, <2>3
<1>3. CASE Another(e)
  BY <1>3 DEF Another, CredsTypeOK, FilesAgree, CopiesAgree, NewIsNotFlushed, LookedAt, Agrees, Gone
<1> QED
  BY <1>1, <1>2, <1>3

(* ... writes back the expiries ...                                        *)
LEMMA SaveHistoryKeeps ==
  ASSUME CredsTypeOK, NEW e \in Execution, Consistent(e), SaveHistory(e)
  PROVE  Consistent(e)'
<1> USE DEF SaveHistory, files, mine, Consistent
<1>1. expires[e] \in [Role -> 0..(MaxTime + 2)]
  BY DEF CredsTypeOK
<1>2. unrecorded \subseteq unrecorded'
  BY CacheNotes
<1>3. ASSUME NEW r \in Role, NEW c \in {store[r], memory[e][r]}
      PROVE  Agrees(cache[r], c) /\ Agrees(expires[e][r], c)
  BY DEF CopiesAgree, FilesAgree, Between, Active, Loaded
<1>4. ASSUME NEW r \in Role, NEW c \in {store[r], memory[e][r]}
      PROVE  /\ cache'[r] = c.exp \/ c = NoCreds \/ c.id \in undeleted' \union unrecorded' \/ c.exp <= now'
             /\ c.id \in flushed' => cache'[r] = 0 \/ c.id \in undeleted'
  <2>1. Agrees(expires[e][r], c) /\ (c.id \in flushed => cache[r] = 0 \/ c.id \in undeleted)
    BY <1>3 DEF Agrees
  <2> QED
    BY <1>1, <2>1, CacheAgrees
<1>5. FilesAgree(e)'
  BY <1>4 DEF FilesAgree, Agrees, Gone
<1>6. CopiesAgree(e)'
  BY <1>2, <1>3, <1>4 DEF CopiesAgree, Agrees, Gone
<1>7. NewIsNotFlushed(e)' /\ LookedAt(e)'
  BY DEF NewIsNotFlushed, LookedAt
<1> QED
  BY <1>5, <1>6, <1>7

(* ... saves the credentials it has got in the store ...                   *)
LEMMA SaveRoleKeeps ==
  ASSUME CredsTypeOK, NEW e \in Execution, Consistent(e), SaveRoleCredentials(e)
  PROVE  Consistent(e)'
<1> DEFINE q == role[e]
<1> USE DEF SaveRoleCredentials, files, mine, Consistent
<1>1. /\ phase[e] = "fetched" /\ phase'[e] = "stored" /\ role'[e] = q /\ creds'[e] = creds[e]
      /\ memory' = [memory EXCEPT ![e][q] = creds[e]]
  BY DEF CredsTypeOK, Goto
<1>2. memory'[e] \in [Role -> Creds] /\ memory'[e][q] = creds[e]
  BY <1>1 DEF CredsTypeOK
<1>3. SaveStore(memory'[e])
  OBVIOUS
<1>4. ASSUME NEW r \in Role
      PROVE  /\ \/ store'[r] \in {memory'[e][r], NoCreds}
                \/ store'[r] = store[r] /\ store[r].id \in undeleted'
             /\ undeleted \subseteq undeleted'
  BY <1>2, <1>3, StoreAgrees
<1>5. ASSUME NEW r \in Role, r # q
      PROVE  /\ Agrees(cache[r], store[r])' /\ Agrees(expires[e][r], store[r])'
             /\ Agrees(cache[r], memory[e][r])' /\ Agrees(expires[e][r], memory[e][r])'
  <2>1. memory'[e][r] = memory[e][r]
    BY <1>1, <1>5 DEF CredsTypeOK
  <2>2. /\ Agrees(cache[r], store[r]) /\ Agrees(expires[e][r], store[r])
        /\ Agrees(cache[r], memory[e][r]) /\ Agrees(expires[e][r], memory[e][r])
    BY <1>1, <1>5 DEF FilesAgree, CopiesAgree, Between, Active, Loaded
  <2>3. NoCreds.id \notin flushed
    BY FlushedWereIssued DEF NoCreds
  <2>4. cache' = cache /\ expires' = expires /\ now' = now /\ flushed' = flushed /\ unrecorded' = unrecorded
    OBVIOUS
  <2> QED
    BY <1>4, <2>1, <2>2, <2>3, <2>4 DEF Agrees, Gone
<1>6. FilesAgree(e)'
  BY <1>1, <1>5 DEF FilesAgree, Between
<1>7. CopiesAgree(e)'
  BY <1>1, <1>5 DEF CopiesAgree, Between
<1>8. NewIsNotFlushed(e)'
  <2>1. q \in Role
    BY DEF CredsTypeOK
  <2>2. store'[q] \in {creds[e], NoCreds} \/ store'[q].id \in undeleted'
    BY <1>2, <1>4, <2>1
  <2> QED
    BY <1>1, <1>2, <2>2 DEF NewIsNotFlushed
<1>9. LookedAt(e)'
  BY <1>1 DEF LookedAt
<1> QED
  BY <1>6, <1>7, <1>8, <1>9

(* ... and their expiry in the cache ...                                   *)
LEMMA SetRoleExpiresKeeps ==
  ASSUME CredsTypeOK, CredsTypeOK', NEW e \in Execution, Consistent(e), SetRoleExpires(e)
  PROVE  Consistent(e)'
<1> DEFINE q == role[e]
<1> USE DEF SetRoleExpires, files, mine, Consistent
<1>1. /\ phase[e] = "stored" /\ phase'[e] = "returned" /\ q \in Role
      /\ creds[e].id \notin flushed /\ memory[e][q] = creds[e]
      /\ store[q] \in {creds[e], NoCreds} \/ store[q].id \in undeleted
  BY DEF CredsTypeOK, Goto, NewIsNotFlushed
<1>2. UNCHANGED <<now, store, memory, role, todo, creds, issued, flushed, undeleted, overlapped>>
  OBVIOUS
<1>3. NoCreds.id \notin flushed
  BY FlushedWereIssued DEF NoCreds
<1>4. ASSUME NEW r \in Role, r # q, NEW c \in {store[r], memory[e][r]}
      PROVE  Agrees(cache[r], c) /\ Agrees(expires[e][r], c)
  BY <1>1, <1>4 DEF CopiesAgree, FilesAgree, Between, Active, Loaded
<1>5. CASE UNCHANGED <<expires, cache>> /\ Unrecorded(e)
  <2>1. unrecorded' = unrecorded \union {creds[e].id}
    BY <1>5 DEF Unrecorded
  <2>2. ASSUME NEW r \in Role, NEW c \in {store[r], memory[e][r]}
        PROVE  Agrees(cache[r], c)' /\ Agrees(expires[e][r], c)'
    <3>1. CASE r # q
      BY <1>2, <1>4, <1>5, <2>1, <3>1 DEF Agrees, Gone
    <3>2. CASE r = q
      BY <1>1, <1>2, <1>3, <2>1, <3>2 DEF Agrees, Gone
    <3> QED
      BY <3>1, <3>2
  <2> QED
    BY <1>1, <1>2, <1>5, <2>2 DEF FilesAgree, CopiesAgree, NewIsNotFlushed, LookedAt, Agrees, Gone
<1>6. CASE expires' = [expires EXCEPT ![e][q] = creds[e].exp] /\ SaveCache(e, expires'[e])
  <2>1. expires'[e] \in [Role -> 0..(MaxTime + 2)] /\ unrecorded \subseteq unrecorded'
    BY <1>6, CacheNotes DEF CredsTypeOK
  <2>2. ASSUME NEW r \in Role, NEW c \in {store[r], memory[e][r]}
        PROVE  /\ Agrees(expires'[e][r], c)
               /\ c.id \in flushed => cache[r] = 0 \/ c.id \in undeleted
    <3>1. CASE r # q
      <4>1. expires'[e][r] = expires[e][r]
        BY <1>6, <3>1 DEF CredsTypeOK
      <4> QED
        BY <1>4, <3>1, <4>1 DEF Agrees
    <3>2. CASE r = q
      <4>1. expires'[e][r] = creds[e].exp
        BY <1>6, <3>2 DEF CredsTypeOK
      <4>2. c = creds[e] \/ c = NoCreds \/ c.id \in undeleted
        BY <1>1, <3>2
      <4> QED
        BY <1>1, <1>3, <4>1, <4>2 DEF Agrees, Gone
    <3> QED
      BY <3>1, <3>2
  <2>3. ASSUME NEW r \in Role, NEW c \in {store[r], memory[e][r]}
        PROVE  /\ cache'[r] = c.exp \/ c = NoCreds \/ c.id \in undeleted' \union unrecorded' \/ c.exp <= now'
               /\ c.id \in flushed' => cache'[r] = 0 \/ c.id \in undeleted'
    BY <1>2, <1>6, <2>1, <2>2, CacheAgrees
  <2>4. FilesAgree(e)'
    BY <1>2, <2>3 DEF FilesAgree, Agrees, Gone
  <2>5. CopiesAgree(e)'
    BY <1>2, <2>1, <2>2, <2>3 DEF CopiesAgree, Agrees, Gone
  <2>6. NewIsNotFlushed(e)' /\ LookedAt(e)'
    BY <1>1, <1>2 DEF NewIsNotFlushed, LookedAt
  <2> QED
    BY <2>4, <2>5, <2>6
<1> QED
  BY <1>5, <1>6

(* ... deletes what a logout finds ...                                     *)
LEMMA DeleteKeeps ==
  ASSUME CredsTypeOK, CredsTypeOK', NEW e \in Execution, NEW q \in Role,
         Consistent(e), DeleteRoleCredentials(e, q)
  PROVE  Consistent(e)'
<1> USE DEF DeleteRoleCredentials, files, mine, Consistent
<1>1. /\ phase[e] = "flushing" /\ phase' = phase
      /\ UNCHANGED <<now, cache, expires, flushed, unrecorded>>
      /\ todo'[e] = todo[e] \ {q}
  BY DEF CredsTypeOK
<1>2. /\ memory'[e] \in [Role -> Creds]
      /\ memory'[e][q] = NoCreds
      /\ \A r \in Role : memory'[e][r] \in {memory[e][r], NoCreds}
  BY DEF CredsTypeOK
<1>3. ASSUME NEW r \in Role
      PROVE  /\ \/ store'[r] \in {memory'[e][r], NoCreds}
                \/ store'[r] = store[r] /\ store[r].id \in undeleted'
             /\ undeleted \subseteq undeleted'
  BY <1>2, StoreAgrees
<1>4. NoCreds.id \notin flushed
  BY FlushedWereIssued DEF NoCreds
<1>5. ASSUME NEW r \in Role
      PROVE  /\ Agrees(cache[r], store[r])' /\ Agrees(expires[e][r], store[r])'
             /\ Agrees(cache[r], memory[e][r])' /\ Agrees(expires[e][r], memory[e][r])'
  <2>1. /\ Agrees(cache[r], store[r]) /\ Agrees(expires[e][r], store[r])
        /\ Agrees(cache[r], memory[e][r]) /\ Agrees(expires[e][r], memory[e][r])
    BY <1>1 DEF FilesAgree, CopiesAgree, Between, Active, Loaded
  <2> QED
    BY <1>1, <1>2, <1>3, <1>4, <2>1 DEF Agrees, Gone
<1>6. FilesAgree(e)' /\ CopiesAgree(e)'
  BY <1>1, <1>5 DEF FilesAgree, CopiesAgree
<1>7. NewIsNotFlushed(e)'
  BY <1>1 DEF NewIsNotFlushed
<1>8. LookedAt(e)'
  <2> SUFFICES ASSUME NEW r \in Role \ todo'[e]
               PROVE  Gone(store[r])' /\ Gone(memory[e][r])'
    BY DEF LookedAt
  <2>1. CASE r = q
    BY <1>1, <1>2, <1>3, <2>1 DEF Gone
  <2>2. CASE r # q
    <3>1. Gone(store[r]) /\ Gone(memory[e][r])
      BY <1>1, <2>2 DEF LookedAt
    <3> QED
      BY <1>1, <1>2, <1>3, <3>1 DEF Gone
  <2> QED
    BY <2>1, <2>2
<1> QED
  BY <1>6, <1>7, <1>8

(* ... and ends: after a logout, whose report is true of what the cache    *)
(* knew, or anywhere else.                                                 *)
LEMMA MarkKeeps ==
  ASSUME CredsTypeOK, NEW e \in Execution, Consistent(e), MarkRolesExpired(e)
  PROVE  Consistent(e)'
<1> USE DEF MarkRolesExpired, Off, Goto, Consistent
<1>1. /\ phase[e] = "flushing" /\ phase'[e] = "off"
      /\ UNCHANGED <<now, store, undeleted>>
  BY DEF CredsTypeOK
<1>2. AllExpired \in [Role -> 0..(MaxTime + 2)] /\ SaveCache(e, AllExpired)
  BY NothingTyped DEF SaveCache
<1>3. unrecorded \subseteq unrecorded'
  BY <1>2, CacheNotes
<1>4. ASSUME NEW r \in Role
      PROVE  Gone(store[r]) /\ Agrees(cache[r], store[r])
  BY <1>1 DEF LookedAt, FilesAgree, Between
<1>5. ASSUME NEW r \in Role
      PROVE  Agrees(cache[r], store[r])'
  <2>1. CASE WriteCache(AllExpired)
    <3>1. cache'[r] = 0 /\ unrecorded' = unrecorded
      BY <2>1 DEF WriteCache, AllExpired
    <3> QED
      BY <1>1, <1>4, <3>1 DEF Agrees, Gone
  <2>2. CASE CacheFails(e, AllExpired) /\ UNCHANGED flushed
    <3>1. cache'[r] \in {cache[r], 0}
      BY <2>2 DEF CacheFails, AllExpired
    <3> QED
      BY <1>1, <1>3, <1>4, <2>2, <3>1 DEF Agrees, Gone
  <2> QED
    BY <2>1, <2>2
<1> QED
  BY <1>1, <1>5 DEF FilesAgree, CopiesAgree, NewIsNotFlushed, LookedAt, Active, Loaded

LEMMA ExitKeeps ==
  ASSUME CredsTypeOK, NEW e \in Execution, Consistent(e), Exit(e)
  PROVE  Consistent(e)'
<1> USE DEF Exit, Off, Goto, files, Consistent
<1>1. phase'[e] = "off" /\ UNCHANGED <<now, store, cache, flushed, undeleted>>
  BY DEF CredsTypeOK
<1>2. unrecorded \subseteq unrecorded'
  BY DEF Unrecorded
<1>3. ASSUME NEW r \in Role
      PROVE  Agrees(cache[r], store[r])'
  <2>1. CASE ~Between(e, r)
    BY <1>1, <1>2, <2>1 DEF FilesAgree, Agrees, Gone
  <2>2. CASE Between(e, r)
    <3>1. unrecorded' = unrecorded \union {creds[e].id} /\ creds[e].id \notin flushed
      BY <2>2 DEF Between, Unrecorded, NewIsNotFlushed
    <3>2. store[r] \in {creds[e], NoCreds} \/ store[r].id \in undeleted
      BY <2>2 DEF Between, NewIsNotFlushed
    <3>3. NoCreds.id \notin flushed
      BY FlushedWereIssued DEF NoCreds
    <3> QED
      BY <1>1, <3>1, <3>2, <3>3 DEF Agrees, Gone
  <2> QED
    BY <2>1, <2>2
<1> QED
  BY <1>1, <1>3 DEF FilesAgree, CopiesAgree, NewIsNotFlushed, LookedAt, Active, Loaded

(* In between, it takes what the files have, or asks AWS.                  *)
LEMMA GetKeeps ==
  ASSUME CredsTypeOK, NEW e \in Execution, NEW r \in Role,
         Consistent(e), UseStored(e, r) \/ Fetch(e, r)
  PROVE  Consistent(e)'
<1> USE DEF files, mine, history, Goto, Consistent, Between, Active, Loaded
<1>1. CASE UseStored(e, r)
  <2>1. /\ phase[e] = "ready" /\ phase'[e] = "returned" /\ creds'[e] = memory[e][r]
        /\ UNCHANGED <<now, files, memory, expires, role, todo, issued, history>>
    BY <1>1 DEF UseStored, CredsTypeOK
  <2>2. Agrees(expires[e][r], memory[e][r])
    BY <2>1 DEF CopiesAgree
  <2>3. expires[e][r] # 0
    BY <1>1 DEF UseStored, IsExpired, CredsTypeOK
  <2>4. NewIsNotFlushed(e)'
    BY <2>1, <2>2, <2>3 DEF NewIsNotFlushed, Agrees
  <2>5. FilesAgree(e)' /\ CopiesAgree(e)' /\ LookedAt(e)'
    BY <2>1 DEF FilesAgree, CopiesAgree, LookedAt, Agrees, Gone
  <2> QED
    BY <2>4, <2>5
<1>2. CASE Fetch(e, r)
  <2>1. /\ phase[e] = "ready" /\ phase'[e] = "fetched" /\ creds'[e].id = issued + 1
        /\ UNCHANGED <<now, files, memory, expires, todo, history>>
    BY <1>2 DEF Fetch, CredsTypeOK
  <2>2. issued + 1 # 0 /\ issued + 1 \notin flushed
    BY FlushedWereIssued
  <2>3. NewIsNotFlushed(e)'
    BY <2>1, <2>2 DEF NewIsNotFlushed
  <2>4. FilesAgree(e)' /\ CopiesAgree(e)' /\ LookedAt(e)'
    BY <2>1 DEF FilesAgree, CopiesAgree, LookedAt, Agrees, Gone
  <2> QED
    BY <2>3, <2>4
<1> QED
  BY <1>1, <1>2

(* Meanwhile credentials end, and stay ended.                              *)
LEMMA TickKeeps ==
  ASSUME CredsTypeOK, NEW e \in Execution, Consistent(e), Tick
  PROVE  Consistent(e)'
<1> USE DEF Tick, files, mine, history, Consistent, Between, Active, Loaded
<1>1. UNCHANGED <<files, phase, mine, issued, history>> /\ now' = now + 1 /\ now \in Nat
  BY CredsAssumption DEF CredsTypeOK
<1>2. ASSUME NEW c \in Creds, Gone(c)
      PROVE  c = NoCreds \/ c.id \in undeleted' \union unrecorded' \/ c.exp <= now'
  <2>1. c.exp \in Int
    BY CredsAssumption, CredsTyped
  <2> QED
    BY <1>1, <1>2, <2>1 DEF Gone
<1>3. ASSUME NEW x, NEW c \in Creds, Agrees(x, c)
      PROVE  /\ x = c.exp \/ c = NoCreds \/ c.id \in undeleted' \union unrecorded' \/ c.exp <= now'
             /\ c.id \in flushed' => x = 0 \/ c.id \in undeleted'
  BY <1>1, <1>2, <1>3 DEF Agrees
<1>4. \A r \in Role : store[r] \in Creds /\ memory[e][r] \in Creds
  BY DEF CredsTypeOK
<1>5. FilesAgree(e)'
  BY <1>1, <1>3, <1>4 DEF FilesAgree, Agrees, Gone
<1>6. CopiesAgree(e)'
  BY <1>1, <1>3, <1>4 DEF CopiesAgree, Agrees, Gone
<1>7. NewIsNotFlushed(e)'
  BY <1>1 DEF NewIsNotFlushed
<1>8. LookedAt(e)'
  BY <1>1, <1>2, <1>4 DEF LookedAt, Gone
<1> QED
  BY <1>5, <1>6, <1>7, <1>8

(* The next execution starts when no other runs, and finds two files that  *)
(* agree.                                                                  *)
LEMMA LoadAlternates ==
  ASSUME CredsTypeOK, NEW e \in Execution, Consistent(e), NEW d \in Execution, LoadCache(d),
         \A f \in Execution : phase[f] = "off"
  PROVE  OthersOff(d)' /\ Consistent(d)'
<1>1. /\ phase'[d] = "loading" /\ \A f \in Execution \ {d} : phase'[f] = "off"
      /\ expires'[d] = cache
      /\ UNCHANGED <<now, store, cache, flushed, undeleted, unrecorded>>
  BY DEF LoadCache, Goto, files, CredsTypeOK
<1>2. \A r \in Role : Agrees(cache[r], store[r])
  BY DEF Consistent, FilesAgree, Between
<1>3. FilesAgree(d)' /\ CopiesAgree(d)'
  BY <1>1, <1>2 DEF FilesAgree, CopiesAgree, Active, Loaded, Agrees, Gone
<1>4. NewIsNotFlushed(d)' /\ LookedAt(d)' /\ OthersOff(d)'
  BY <1>1 DEF NewIsNotFlushed, LookedAt, OthersOff
<1> QED
  BY <1>3, <1>4 DEF Consistent

(* Every step of an execution that runs.                                   *)
LEMMA StepAlternates ==
  ASSUME CredsTypeOK, CredsTypeOK', NEW e \in Execution, OthersOff(e), Consistent(e),
         Step(e), ~LoadCache(e)
  PROVE  OthersOff(e)' /\ Consistent(e)'
<1>1. Consistent(e)'
  BY ReadingKeeps, SaveHistoryKeeps, SaveRoleKeeps, SetRoleExpiresKeeps, MarkKeeps, ExitKeeps DEF Step
<1>2. phase' = phase \/ \E l \in PC : phase' = [phase EXCEPT ![e] = l]
  BY DEF Step, OpenStore, SaveHistory, SaveRoleCredentials, SetRoleExpires, Logout,
         MarkRolesExpired, Another, Exit, Off, Goto, mine, PC
<1> QED
  BY <1>1, <1>2 DEF OthersOff, CredsTypeOK

LEMMA RoleStepAlternates ==
  ASSUME CredsTypeOK, CredsTypeOK', NEW e \in Execution, NEW r \in Role, OthersOff(e), Consistent(e),
         RoleStep(e, r)
  PROVE  OthersOff(e)' /\ Consistent(e)'
<1>1. Consistent(e)'
  BY GetKeeps, DeleteKeeps DEF RoleStep
<1>2. phase' = phase \/ \E l \in PC : phase' = [phase EXCEPT ![e] = l]
  BY DEF RoleStep, UseStored, Fetch, DeleteRoleCredentials, Goto, PC
<1> QED
  BY <1>1, <1>2 DEF OthersOff, CredsTypeOK

LEMMA RoleCredsInvNext == RoleCredsInv /\ [CredsNext]_credsVars => RoleCredsInv'
<1> SUFFICES ASSUME RoleCredsInv, [CredsNext]_credsVars
             PROVE  RoleCredsInv'
  OBVIOUS
<1> USE DEF RoleCredsInv
<1>1. ASSUME NEW d \in Execution, Step(d)
      PROVE  RoleCredsInv'
  <2>1. CredsTypeOK'
    BY <1>1, FilesTyped
  <2> SUFFICES ASSUME ~overlapped'
               PROVE  Alternating'
    BY <2>1
  <2>2. CASE LoadCache(d)
    <3>1. ~overlapped /\ \A f \in Execution : phase[f] = "off"
      BY <2>2 DEF LoadCache
    <3>2. PICK e \in Execution : Consistent(e)
      BY <3>1 DEF Alternating
    <3>3. OthersOff(d)' /\ Consistent(d)'
      BY <2>2, <3>1, <3>2, LoadAlternates
    <3> QED
      BY <3>3 DEF Alternating
  <2>3. CASE ~LoadCache(d)
    <3>1. ~overlapped /\ phase[d] # "off"
      BY <1>1, <2>3 DEF Step, OpenStore, SaveHistory, SaveRoleCredentials, SetRoleExpires, Logout,
                        MarkRolesExpired, Another, Exit, history
    <3>2. OthersOff(d) /\ Consistent(d)
      BY <3>1 DEF Alternating, OthersOff
    <3>3. OthersOff(d)' /\ Consistent(d)'
      BY <1>1, <2>1, <2>3, <3>2, StepAlternates
    <3> QED
      BY <3>3 DEF Alternating
  <2> QED
    BY <2>2, <2>3
<1>2. ASSUME NEW d \in Execution, NEW r \in Role, RoleStep(d, r)
      PROVE  RoleCredsInv'
  <2>1. CredsTypeOK'
    BY <1>2, RoleFilesTyped
  <2> SUFFICES ASSUME ~overlapped'
               PROVE  Alternating'
    BY <2>1
  <2>2. ~overlapped /\ phase[d] # "off"
    BY <1>2 DEF RoleStep, UseStored, Fetch, DeleteRoleCredentials, history
  <2>3. OthersOff(d) /\ Consistent(d)
    BY <2>2 DEF Alternating, OthersOff
  <2>4. OthersOff(d)' /\ Consistent(d)'
    BY <1>2, <2>1, <2>3, RoleStepAlternates
  <2> QED
    BY <2>4 DEF Alternating
<1>3. CASE Tick
  <2>1. CredsTypeOK'
    BY <1>3, CredsAssumption DEF Tick, CredsTypeOK, files, mine, history
  <2>2. ASSUME NEW e \in Execution, OthersOff(e), Consistent(e)
        PROVE  OthersOff(e)' /\ Consistent(e)'
    BY <1>3, <2>2, TickKeeps DEF Tick, OthersOff
  <2> QED
    BY <1>3, <2>1, <2>2 DEF Alternating, Tick, history
<1>4. CASE UNCHANGED credsVars
  BY <1>4 DEF credsVars, files, mine, history, CredsTypeOK, Alternating, OthersOff, Consistent,
              FilesAgree, CopiesAgree, NewIsNotFlushed, LookedAt, Agrees, Gone, Active, Loaded, Between
<1> QED
  BY <1>1, <1>2, <1>3, <1>4 DEF CredsNext

-----------------------------------------------------------------------------
(* In every state of RoleCreds the files and the copies have values of     *)
(* their types, and while executions take turns an expiry goes with the    *)
(* credentials that were saved before it, but for what failed or was       *)
(* interrupted.                                                            *)
THEOREM CredsCorrect == CredsSpec => []RoleCredsInv
BY RoleCredsInvInit, RoleCredsInvNext, PTL DEF CredsSpec

(* flushSts and GetRoleCredentials, over any number of executions one      *)
(* after the other, of which any write may fail and any may be interrupted *)
(* between its steps: what a logout has reported as deleted is handed out  *)
(* by no execution, unless a failed write of the store has left it there.  *)
THEOREM FlushedStaysUnused == CredsSpec => []CredsInv
BY CredsCorrect, InvMeansUnused, PTL

(* And the secure store does not hold it any more while it is valid,       *)
(* although SaveRoleCredentials writes the store, SetRoleExpires the cache *)
(* and logout goes by the cache: unless a write of the store has failed to *)
(* delete it, or a write or an interrupt kept its expiry out of the cache. *)
THEOREM FlushedLeavesStore == CredsSpec => []FlushedIsGone
BY CredsCorrect, InvMeansGone, PTL

=============================================================================
