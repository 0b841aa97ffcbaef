----------------------------- MODULE ExecSession -----------------------------
(***************************************************************************)
(* A user's session: the commands that change the shells' environments     *)
(* (ShellEnv), and the way that leads to one of them when no role is given *)
(* with the command: exec lets the user select the role at a prompt        *)
(* (TagSelect), gets its credentials through the roles of its Via chain    *)
(* (RoleChain) and runs the nested shell with them.                        *)
(*                                                                         *)
(* The shell waits while aws-sso runs.  Bound: the prompt is opened from   *)
(* an untouched shell only; the environment has no influence on it.        *)
(***************************************************************************)
EXTENDS ShellEnv

CONSTANTS
  Keys, Values, NoValue, ProfileOf, MaxWords,  \* of TagSelect
  Spellings, Arn, Unreadable, None             \* of RoleChain

VARIABLES
  tagsOf, line, followed, outcome,             \* of the prompt
  via, asked, stack, chainMap, pc, calls       \* of getRoleCredentials

Select == INSTANCE TagSelect

Chain == INSTANCE RoleChain

ASSUME SessionAssumption == Select!Parameters /\ Chain!Parameters

selectVars == <<tagsOf, line, followed, outcome>>

chainVars == <<via, asked, stack, chainMap, pc, calls>>

sessionVars == <<vars, selectVars, chainVars>>

SessionInit == Init /\ Select!Init /\ Chain!Init

-----------------------------------------------------------------------------
(* Commands that are given the role, or need none, at the shell.           *)

AtShell ==
  /\ Select!Closed
  /\ Chain!Idle
  /\ UNCHANGED <<selectVars, chainVars>>

RunEval == AtShell /\ \E noRegion, overwrite \in BOOLEAN : Eval(noRegion, overwrite)

RunEvalRefresh ==
  AtShell /\ \E noRegion, overwrite \in BOOLEAN : EvalRefresh(noRegion, overwrite)

RunEvalClear == AtShell /\ \E noRegion \in BOOLEAN : EvalClear(noRegion)

RunExec == AtShell /\ \E noRegion, overwrite \in BOOLEAN : Exec(noRegion, overwrite)

LeaveNested == AtShell /\ ExecReturns

SetVariable == AtShell /\ \E v \in RegionVars, x \in UserValues : UserSets(v, x)

-----------------------------------------------------------------------------
(* exec without a role: the prompt.                                        *)

OpenPrompt ==
  /\ Chain!Idle
  /\ shells = <<NoVars>>
  /\ Select!Prompt
  /\ UNCHANGED <<vars, chainVars>>

PickWord == Select!Pick /\ UNCHANGED <<vars, chainVars>>

TypeWord == Select!Type /\ UNCHANGED <<vars, chainVars>>

PressEnter == Select!Enter /\ UNCHANGED <<vars, chainVars>>

AbortPrompt == Select!Abort /\ UNCHANGED <<vars, chainVars>>

(* The executor calls what exec does with the role it is given.            *)
UseSelection ==
  /\ Select!Leave
  /\ outcome \in Roles
  /\ Chain!Ask(outcome)
  /\ UNCHANGED vars

(* "Invalid selection": no matching roles, or too many.                    *)
SelectionFails ==
  /\ Select!Leave
  /\ outcome \notin Roles
  /\ UNCHANGED <<vars, chainVars>>

-----------------------------------------------------------------------------
(* The credentials, and the nested shell with them.                        *)

GetCredentials == Chain!Step /\ UNCHANGED <<vars, selectVars>>

ExecWithCredentials ==
  /\ Chain!Answered
  /\ pc = "done"
  /\ \E noRegion, overwrite \in BOOLEAN : ExecRole(asked, noRegion, overwrite)
  /\ UNCHANGED selectVars

NoCredentials ==
  /\ Chain!Answered
  /\ pc # "done"
  /\ UNCHANGED <<vars, selectVars>>

SessionNext ==
  \/ RunEval \/ RunEvalRefresh \/ RunEvalClear \/ RunExec
  \/ LeaveNested \/ SetVariable
  \/ OpenPrompt \/ PickWord \/ TypeWord \/ PressEnter \/ AbortPrompt
  \/ UseSelection \/ SelectionFails
  \/ GetCredentials \/ ExecWithCredentials \/ NoCredentials

SessionSpec == SessionInit /\ [][SessionNext]_sessionVars

-----------------------------------------------------------------------------
(* The values of all variables, of which one part at a time is in use.     *)
SessionTypeOK ==
  /\ TypeOK
  /\ Select!TypeOK
  /\ Chain!TypeOK
  /\ Select!Closed \/ Chain!Idle

(* The invariant of a session: one part at a time is in use, and every     *)
(* role is assumed with the credentials of the role its own Via names.     *)
SessionInv == SessionTypeOK /\ Chain!AssumedByItsVia

(* Whoever takes only suggestions at the prompt, until there are none, has *)
(* selected one role, and that role carries every tag of the line.         *)
SelectionInv == Select!NoDeadEnd /\ Select!SelectionMatches

(* The loop detection raises no false alarm, and misses no loop of Vias    *)
(* that are spelt as MakeRoleARN spells them.                              *)
LoopsDetected == Chain!PanicOnlyOnLoop /\ Chain!ChainEnds
=============================================================================
