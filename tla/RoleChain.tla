------------------------------ MODULE RoleChain ------------------------------
(***************************************************************************)
(* Credentials of a role that is reached through other roles: every role   *)
(* of the configuration may name, in Via, the role to assume before it.    *)
(* getRoleCredentials calls itself down the chain, asks AWS SSO for the    *)
(* role at its end and assumes role after role on the way back.            *)
(*                                                                         *)
(* Via is a string of the user's: the same role can be spelt in several    *)
(* ways, all of which ParseRoleARN reads, while the visited roles are      *)
(* remembered by the one spelling of MakeRoleARN.                          *)
(***************************************************************************)
EXTENDS Naturals, Sequences, SequencesExt, FiniteSets

CONSTANTS
  Roles,       \* the roles of the configuration
  Spellings,   \* the ways in which the user spells a role in Via
  Arn,         \* the spelling of MakeRoleARN: arn:aws:iam::<12 digits>:role/<name>
  Unreadable,  \* a Via that ParseRoleARN rejects
  None         \* no Via, no role, no credentials

(* A Via is nothing, unreadable or a role in some spelling.                *)
Parameters ==
  /\ IsFiniteSet(Roles)
  /\ Arn \in Spellings
  /\ None # Unreadable
  /\ None \notin Roles
  /\ {None, Unreadable} \cap (Roles \X Spellings) = {}

VARIABLES
  via,         \* the configuration: each role's Via
  asked,       \* the role whose credentials are asked for
  stack,       \* the calls of getRoleCredentials, the innermost last
  chainMap,    \* the ARNs of the visited roles
  pc,          \* going down, coming back up, or how it ended
  calls        \* the calls of AWS that succeeded: the role got, and whose
               \* credentials it took

vars == <<via, asked, stack, chainMap, pc, calls>>

(* What a Via may be: nothing, some spelling of a role, or unreadable.     *)
Vias == {None, Unreadable} \cup (Roles \X Spellings)

Ended == {"done", "error", "panic", "overflow"}

(* The size of the goroutine's stack: bound on the recursion, deeper than  *)
(* any chain without a loop.                                               *)
MaxDepth == Cardinality(Roles) + 1

Target(v) == v[1]

(* Comparing a Via to the remembered ARNs: as strings.                     *)
Visited(v, map) == \E r \in map : v = <<r, Arn>>

(* Nobody asks.                                                            *)
Idle == pc = "idle"

Init ==
  /\ via = [r \in Roles |-> None]
  /\ asked = None
  /\ stack = <<>>
  /\ chainMap = {}
  /\ pc = "idle"
  /\ calls = <<>>

Role == Last(stack)

(* GetRoleCredentials: any configuration, which is not looked at before.   *)
Ask(r) ==
  /\ pc = "idle"
  /\ via' \in [Roles -> Vias]
  /\ asked' = r
  /\ stack' = <<r>>
  /\ pc' = "down"
  /\ UNCHANGED <<chainMap, calls>>

-----------------------------------------------------------------------------
DirectCall(r) == [role |-> r, by |-> None]

(* A role without Via: AWS SSO gives its credentials, or refuses.          *)
FetchDirectly ==
  /\ pc = "down"
  /\ via[Role] = None
  /\ \/ /\ pc' = "up"
        /\ calls' = Append(calls, DirectCall(Role))
     \/ /\ pc' = "error"
        /\ UNCHANGED calls
  /\ UNCHANGED <<via, asked, stack, chainMap>>

(* chainMap[configRole.ARN] = true, before the search for Via.             *)
Remembered(r) == chainMap \cup {r}

LoopPanics ==
  /\ pc = "down"
  /\ via[Role] # None
  /\ Visited(via[Role], Remembered(Role))
  /\ pc' = "panic"
  /\ UNCHANGED <<via, asked, stack, chainMap, calls>>

ViaUnreadable ==
  /\ pc = "down"
  /\ via[Role] = Unreadable
  /\ pc' = "error"
  /\ UNCHANGED <<via, asked, stack, chainMap, calls>>

DescendForgetful ==
  /\ pc = "down"
  /\ via[Role] \in Roles \X Spellings
  /\ ~Visited(via[Role], Remembered(Role))
  /\ Len(stack) < MaxDepth
  /\ stack' = Append(stack, Target(via[Role]))
  /\ chainMap' = {}
  /\ UNCHANGED <<via, asked, pc, calls>>

(* The recursive call, with the Via's account and role.                    *)
Descend ==
  /\ pc = "down"
  /\ via[Role] \in Roles \X Spellings
  /\ ~Visited(via[Role], Remembered(Role))
  /\ Len(stack) < MaxDepth
  /\ stack' = Append(stack, Target(via[Role]))
  /\ chainMap' = Remembered(Role)
  /\ UNCHANGED <<via, asked, pc, calls>>

(* The next call is one too many: fatal error, "stack overflow".           *)
Overflow ==
  /\ pc = "down"
  /\ via[Role] \in Roles \X Spellings
  /\ ~Visited(via[Role], Remembered(Role))
  /\ Len(stack) = MaxDepth
  /\ pc' = "overflow"
  /\ UNCHANGED <<via, asked, stack, chainMap, calls>>

AssumeAsked ==
  /\ calls' = Append(calls, [role |-> asked, by |-> Role])
  /\ stack' = Front(stack)

(* sts:AssumeRole of the caller with the credentials just obtained.        *)
Assume ==
  /\ calls' = Append(calls, [role |-> stack[Len(stack) - 1], by |-> Role])
  /\ stack' = Front(stack)

AssumeRole ==
  /\ pc = "up"
  /\ Len(stack) > 1
  /\ Assume
  /\ UNCHANGED <<via, asked, chainMap, pc>>

AssumeRoleFails ==
  /\ pc = "up"
  /\ Len(stack) > 1
  /\ pc' = "error"
  /\ UNCHANGED <<via, asked, stack, chainMap, calls>>

Return ==
  /\ pc = "up"
  /\ Len(stack) = 1
  /\ pc' = "done"
  /\ UNCHANGED <<via, asked, stack, chainMap, calls>>

(* The caller has its answer.                                              *)
Answered ==
  /\ pc \in Ended
  /\ via' = [r \in Roles |-> None]
  /\ asked' = None
  /\ stack' = <<>>
  /\ chainMap' = {}
  /\ pc' = "idle"
  /\ calls' = <<>>

Step ==
  \/ FetchDirectly \/ LoopPanics \/ ViaUnreadable \/ Descend \/ Overflow
  \/ AssumeRole \/ AssumeRoleFails \/ Return

-----------------------------------------------------------------------------
(* The values the variables take.                                          *)
TypeOK ==
  /\ via \in [Roles -> Vias]
  /\ asked \in Roles \cup {None}
  /\ stack \in Seq(Roles) /\ Len(stack) \in 0..MaxDepth
  /\ chainMap \subseteq Roles
  /\ pc \in {"idle", "down", "up"} \cup Ended
  /\ calls \in Seq([role : Roles, by : Roles \cup {None}])

(* A set of roles that no Via leads out of.                                *)
KeepsVias(set) ==
  \A r \in set : via[r] \in Roles \X Spellings => Target(via[r]) \in set

(* The roles on the way from the asked role along Via, itself included.    *)
Along ==
  {r \in Roles : \A set \in SUBSET Roles :
                   asked \in set /\ KeepsVias(set) => r \in set}

(* A loop of the configuration that the asked role runs into.              *)
RunsIntoLoop ==
  \A r \in Along : via[r] \in Roles \X Spellings

(***************************************************************************)
(* The panic "Detected role chain loop!" is raised for no chain that ends, *)
(* however the roles share their Vias.                                     *)
(***************************************************************************)
PanicOnlyOnLoop == pc = "panic" => RunsIntoLoop

(***************************************************************************)
(* The credentials that are returned are the asked role's, and every role  *)
(* that was assumed on the way was assumed with the credentials of the     *)
(* role its own Via names, never of another one of the chain.              *)
(***************************************************************************)
AssumedByItsVia ==
  /\ \A i \in 1..Len(calls) :
       IF calls[i].by = None THEN via[calls[i].role] = None
       ELSE Target(via[calls[i].role]) = calls[i].by
  /\ pc = "done" => Last(calls).role = asked

(***************************************************************************)
(* The recursion ends for every configuration, loops included, unless a    *)
(* Via on the way is spelt differently from what MakeRoleARN remembers.    *)
(***************************************************************************)
ChainEnds ==
  pc = "overflow" => \E r \in Along : via[r] \in Roles \X (Spellings \ {Arn})
=============================================================================
