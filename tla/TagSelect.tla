------------------------------ MODULE TagSelect ------------------------------
(***************************************************************************)
(* The interactive selection of a role: the user types a line of words,    *)
(* "key value key value ...", after every one of which the completer       *)
(* suggests the next, and presses Enter.  The words are tag keys and their *)
(* values, the ARN of a role, or ProfileName and the name of a profile.    *)
(*                                                                         *)
(* argsToMap turns the words into tags, completeTags the tags into         *)
(* suggestions, and the executor the line into a role.  All three work on  *)
(* the words alone: what was suggested is not remembered.                  *)
(***************************************************************************)
EXTENDS Naturals, Sequences, SequencesExt, FiniteSets

CONSTANTS
  Roles,      \* the roles of the cache, by ARN
  Keys,       \* tag keys
  Values,     \* tag values
  NoValue,    \* a role without a tag
  ProfileOf,  \* the name of each role's profile, which no other role has
  MaxWords    \* bound on the words of the line

Profiles == {ProfileOf[r] : r \in Roles}

Ended == {"none", "many"}

(***************************************************************************)
(* The words of a line are told apart by what they are: no tag is called   *)
(* like a role or a profile, and no tag ProfileName.  What a value may be, *)
(* Tagged says.                                                            *)
(***************************************************************************)
Parameters ==
  /\ IsFiniteSet(Roles) /\ Roles # {}
  /\ \A r, q \in Roles : ProfileOf[r] = ProfileOf[q] => r = q
  /\ NoValue \notin Values
  /\ Keys \cap (Profiles \cup Roles \cup {"ProfileName", "nokey"}) = {}
  /\ Roles \cap (Values \cup Profiles \cup Ended) = {}
  /\ Roles \cap {"ProfileName", "nokey", "closed", "typing"} = {}
  /\ "ProfileName" \notin Profiles
  /\ MaxWords \in Nat

VARIABLES
  tagsOf,     \* the tags of each role
  line,       \* the words, each of which is followed by a space
  followed,   \* has the user taken nothing but suggestions?
  outcome     \* the role that was selected, or how it ended

vars == <<tagsOf, line, followed, outcome>>

RoleOf(p) == CHOOSE r \in Roles : ProfileOf[r] = p

Untagged == [r \in Roles |-> [k \in Keys |-> NoValue]]

(* Automatic tags tell any two roles apart: AccountID with Role.  A tag,   *)
(* such as Profile, may have the name of the role's own profile as its     *)
(* value, but not that of another role's: the executor would take it for   *)
(* the profile.                                                            *)
Tagged == {t \in [Roles -> [Keys -> Values \cup {NoValue}]] :
             /\ \A r, q \in Roles : r # q => t[r] # t[q]
             /\ \A r, q \in Roles, k \in Keys : t[r][k] = ProfileOf[q] => r = q}

(* No prompt is open.                                                      *)
Closed == outcome = "closed"

Init ==
  /\ tagsOf = Untagged
  /\ line = <<>>
  /\ followed = TRUE
  /\ outcome = "closed"

(* The prompt opens over the roles of the cache.                           *)
Prompt ==
  /\ outcome = "closed"
  /\ tagsOf' \in Tagged
  /\ outcome' = "typing"
  /\ UNCHANGED <<line, followed>>

-----------------------------------------------------------------------------
(* RoleTags and TagsList                                                   *)

ValuesOf(k) == {tagsOf[r][k] : r \in Roles} \ {NoValue}

AllKeys == {k \in Keys : ValuesOf(k) # {}}

Carries(r, k, v) == k \in Keys /\ tagsOf[r][k] = v

GetMatchingRoles(tags) ==
  {r \in Roles : \A k \in DOMAIN tags : Carries(r, k, tags[k])}

With(tags, k, v) == [j \in DOMAIN tags \cup {k} |-> IF j = k THEN v ELSE tags[j]]

GetPossibleRolesOfKey(tags, k) ==
  UNION {GetMatchingRoles([j \in {k} |-> v]) : v \in ValuesOf(k)}

GetPossibleUniqueRoles(tags, k) ==
  UNION {GetMatchingRoles(With(tags, k, v)) : v \in ValuesOf(k)}

-----------------------------------------------------------------------------
(* argsToMap: the tags of the first n pairs, a later value of a key        *)
(* replacing an earlier one.                                               *)

Pairs(w, n) ==
  [k \in {w[2 * i - 1] : i \in 1..n} |->
     w[2 * (CHOOSE i \in 1..n : /\ w[2 * i - 1] = k
                                /\ \A j \in (i + 1)..n : w[2 * j - 1] # k)]]

NoTags == Pairs(<<>>, 0)

NoKey == "nokey"

(* With half a pair at the end the last whole pair is left out as well.    *)
ArgsTags(w) ==
  CASE Len(w) < 2        -> NoTags
    [] Len(w) % 2 = 0    -> Pairs(w, Len(w) \div 2)
    [] OTHER             -> Pairs(w, (Len(w) - 3) \div 2)

ArgsKey(w) == IF Len(w) % 2 = 0 THEN NoKey ELSE Last(w)

-----------------------------------------------------------------------------
(* completeTags                                                            *)

Without(tags, k) == [j \in DOMAIN tags \ {k} |-> tags[j]]

CompleteProfiles(current) ==
  {p \in Profiles : DOMAIN current = {} \/ RoleOf(p) \in GetMatchingRoles(current)}

(* "skip keys which can't reduce our options": offer their roles instead.  *)
CompleteKey(w, current, k) ==
  LET unique == GetPossibleUniqueRoles(current, k)
  IN  CASE w # <<>> /\ Cardinality(unique) = Cardinality(GetMatchingRoles(current)) -> unique
        [] unique = {} -> {}
        [] OTHER -> {k}

CompleteKeys(w, current) ==
  (UNION {CompleteKey(w, current, k) : k \in AllKeys \ DOMAIN current})
    \cup (IF DOMAIN current = {} THEN {"ProfileName"} ELSE {})

CompleteValues(w, k) ==
  {v \in ValuesOf(k) : GetMatchingRoles(Pairs(Append(w, v), (Len(w) + 1) \div 2)) # {}}

Suggestions(w) ==
  LET tags     == ArgsTags(w)
      key      == ArgsKey(w)
      current  == Without(tags, "ProfileName")
      selected == "ProfileName" \in DOMAIN tags
  IN  CASE key = "ProfileName"                             -> CompleteProfiles(current)
        [] key # "ProfileName" /\ selected /\ key = NoKey  -> {}
        [] OTHER ->
             CASE Cardinality(GetMatchingRoles(current)) = 1 -> {}
               [] OTHER -> CASE key = NoKey   -> CompleteKeys(w, current)
                             [] key \in Keys  -> CompleteValues(w, key)
                             [] OTHER         -> {}

-----------------------------------------------------------------------------
(* The word and its space are added, and the completer called.             *)
Add(word) ==
  /\ outcome = "typing"
  /\ Len(line) < MaxWords
  /\ line' = Append(line, word)
  /\ UNCHANGED <<tagsOf, outcome>>

Pick ==
  \E word \in Suggestions(line) : Add(word) /\ UNCHANGED followed

Type ==
  \E word \in Keys \cup Values : Add(word) /\ followed' = FALSE

SelectedByProfile(w) == RoleOf(Last(w))

(* Executor: Enter strips the last space, so that an even number of words  *)
(* is pairs, and an odd one is pairs but for the last.                     *)
Executor(w) ==
  CASE w # <<>> /\ Last(w) \in Profiles -> SelectedByProfile(w)
    [] w # <<>> /\ Last(w) \in Roles    -> Last(w)
    [] OTHER -> LET roles == GetMatchingRoles(ArgsTags(w))
                IN  CASE roles = {}             -> "none"
                      [] Cardinality(roles) > 1 -> "many"
                      [] OTHER                  -> CHOOSE r \in roles : TRUE

Enter ==
  /\ outcome = "typing"
  /\ outcome' = Executor(line)
  /\ UNCHANGED <<tagsOf, line, followed>>

Forget ==
  /\ tagsOf' = Untagged
  /\ line' = <<>>
  /\ followed' = TRUE
  /\ outcome' = "closed"

(* The prompt is left with the role, or with an error.                     *)
Leave == outcome \in Roles \cup Ended /\ Forget

(* "exit", or Ctrl-D on the empty line.                                    *)
Abort == outcome = "typing" /\ line = <<>> /\ Forget

-----------------------------------------------------------------------------
(* The values the variables take.                                          *)
TypeOK ==
  /\ tagsOf \in [Roles -> [Keys -> Values \cup {NoValue}]]
  /\ Len(line) <= MaxWords
  /\ \A i \in 1..Len(line) :
       line[i] \in Keys \cup Values \cup Roles \cup Profiles \cup {"ProfileName"}
  /\ followed \in BOOLEAN
  /\ outcome \in {"closed", "typing"} \cup Roles \cup Ended

(***************************************************************************)
(* Whoever takes nothing but suggestions until there are none has selected *)
(* one role: never several, never none, although the executor looks at the *)
(* words again and knows nothing of the suggestions.                       *)
(***************************************************************************)
NoDeadEnd ==
  followed /\ outcome = "typing" /\ Suggestions(line) = {} => Executor(line) \in Roles

(***************************************************************************)
(* docs/commands.md: a selection "narrows down the results to a single IAM *)
(* Role".  The role that is selected carries every tag of the line.        *)
(***************************************************************************)
SelectionMatches ==
  followed /\ outcome \in Roles =>
    \A i \in 1..Len(line) : i % 2 = 0 /\ line[i - 1] \in Keys =>
      Carries(outcome, line[i - 1], line[i])
=============================================================================
