------------------------------- MODULE RoleData -------------------------------
(***************************************************************************)
(* What a refresh makes of the roles that AWS grants and of the accounts   *)
(* in config.yaml: addSSORoles, addConfigRoles and CheckProfiles, then     *)
(* RestoreManualRoles, which comes after the check; and what GetRole,      *)
(* ProfileName and Settings.GetDefaultRegion say about the result.         *)
(*                                                                         *)
(* Grants are functions from account IDs to an alias and a set of names of *)
(* roles.  A profile is a sequence: <<>> for none, the user's own as he    *)
(* wrote it, a generated one as the parts that the template puts together. *)
(***************************************************************************)
EXTENDS Settings

VARIABLE cached    \* the roles in the cache, with what they were made from

(* Roles of the selected instance and its config.yaml.                     *)
Config == s.SSO[s.DefaultSSO]

SSORoles(granted) ==
  [a \in DOMAIN granted |->
     [alias |-> granted[a].alias, name |-> "", region |-> "",
      roles |-> [x \in granted[a].roles |-> [region |-> "", profile |-> <<>>, via |-> ""]]]]

(* config.yaml decorates what AWS grants, and adds nothing to it.          *)
addConfigRoles(r, accounts) ==
  [a \in DOMAIN r |->
     IF a \notin DOMAIN accounts THEN r[a]
     ELSE [r[a] EXCEPT
             !.region = accounts[a].region,
             !.name = accounts[a].name,
             !.roles = [x \in DOMAIN @ |->
               IF x \notin DOMAIN accounts[a].roles THEN @[x]
               ELSE LET c == accounts[a].roles[x]
                    IN [region |-> IF c.region # "" THEN c.region ELSE accounts[a].region,
                        profile |-> c.profile, via |-> c.via]]]]

(* A role with a Via may be in an account that AWS does not grant.         *)
RestoreManualRoles(r, accounts) ==
  LET manual(a) == IF a \notin DOMAIN accounts THEN {}
                   ELSE {x \in DOMAIN accounts[a].roles : accounts[a].roles[x].via # ""}
      account(a) == IF a \in DOMAIN r THEN r[a]
                    ELSE [alias |-> "", name |-> "", region |-> "", roles |-> <<>>]
      role(a, x) == LET c == accounts[a].roles[x]
                    IN [region |-> c.region, profile |-> c.profile, via |-> c.via]
  IN [a \in DOMAIN r \cup {b \in DOMAIN accounts : manual(b) # {}} |->
        [account(a) EXCEPT !.roles = Overlay([x \in manual(a) |-> role(a, x)], @)]]

-----------------------------------------------------------------------------
(* The roles in the cache, as pairs of an account ID and a name.           *)
InCache(r) == UNION {{a} \X DOMAIN r[a].roles : a \in DOMAIN r}

RoleOf(r, p) == r[p[1]].roles[p[2]]

(* "friendly" is NICE_PROFILE_FORMAT, everything else the default one.     *)
ProfileName(r, format, p) ==
  LET account == r[p[1]]
  IN IF RoleOf(r, p).profile # <<>> THEN RoleOf(r, p).profile
     ELSE IF format = "friendly"
          THEN <<IF account.name # "" THEN account.name ELSE account.alias, p[2]>>
     ELSE p

CheckProfilesOfAccount(r, format) ==
  \A p, q \in InCache(r) :
    p[1] = q[1] /\ ProfileName(r, format, p) = ProfileName(r, format, q) => p = q

CheckProfiles(r, format) ==
  \A p, q \in InCache(r) : ProfileName(r, format, p) = ProfileName(r, format, q) => p = q

(* The region in an AWSRoleFlat.                                           *)
FlatRegion(r, ssoRegion, p) ==
  IF RoleOf(r, p).region # "" THEN RoleOf(r, p).region
  ELSE IF r[p[1]].region # "" THEN r[p[1]].region
  ELSE ssoRegion

(* Whichever comes first; any role with that name, or none.                *)
GetRoleByProfile(r, format, name) == {p \in InCache(r) : ProfileName(r, format, p) = name}

(* Settings.GetDefaultRegion, as far as config.yaml goes.                  *)
ConfiguredRegion(p) ==
  LET account == IF p[1] \in DOMAIN Config.accounts THEN Config.accounts[p[1]] ELSE NoAccount
      role == IF p[2] \in DOMAIN account.roles THEN account.roles[p[2]] ELSE NoRole
  IN CASE role.region # "" -> role.region
       [] role.region = "" /\ account.region # "" -> account.region
       [] role.region = "" /\ account.region = "" /\ Config.region # "" -> Config.region
       [] OTHER -> s.DefaultRegion

-----------------------------------------------------------------------------
MadeFrom(granted, r) ==
  [config |-> Config, format |-> s.ProfileFormat, granted |-> DOMAIN granted, roles |-> r]

(* Cache.Refresh: the roles of this instance, all of them anew.            *)
RefreshRoles(granted) ==
  LET r == addConfigRoles(SSORoles(granted), Config.accounts)
  IN /\ granted # <<>>
     /\ CheckProfiles(r, s.ProfileFormat)
     /\ cached' = MadeFrom(granted, RestoreManualRoles(r, Config.accounts))

RefreshRolesFails(granted) ==
  /\ \/ granted = <<>>
     \/ ~CheckProfiles(addConfigRoles(SSORoles(granted), Config.accounts), s.ProfileFormat)
  /\ UNCHANGED cached

-----------------------------------------------------------------------------
(* Do the settings say what the cache was made from?                       *)
Current ==
  /\ cached # Nil
  /\ loading = "ready"
  /\ cached.config = Config
  /\ cached.format = s.ProfileFormat

(***************************************************************************)
(* A profile name stands for one role: but for those with a Via, which are *)
(* added after the names were checked.                                     *)
(***************************************************************************)
ProfilesUnambiguous ==
  LET r == cached.roles
      name(p) == ProfileName(r, s.ProfileFormat, p)
  IN \A p \in InCache(r) : RoleOf(r, p).via = "" =>
       \A q \in GetRoleByProfile(r, s.ProfileFormat, name(p)) : p = q \/ RoleOf(r, q).via # ""

(***************************************************************************)
(* The list of roles and the shell agree on the region of a role, which    *)
(* the one reads from the cache and the other from config.yaml.  Where     *)
(* only the settings have one the list shows none; and it forgets that of  *)
(* an account that AWS does not grant.                                     *)
(***************************************************************************)
RegionsAgree ==
  \A p \in InCache(cached.roles) :
    LET shown == FlatRegion(cached.roles, cached.config.region, p)
        used == ConfiguredRegion(p)
    IN \/ shown = used
       \/ shown = "" /\ used = s.DefaultRegion
       \/ p[1] \notin cached.granted /\ used = Config.accounts[p[1]].region

(* The roles in the cache, as long as config.yaml is what they came from.  *)
RolesInv == Current => ProfilesUnambiguous /\ RegionsAgree
=============================================================================
