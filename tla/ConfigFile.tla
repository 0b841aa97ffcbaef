---------------------------- MODULE ConfigFile ----------------------------
(***************************************************************************)
(* Files of the user in which aws-sso keeps a block of its own between two *)
(* marker lines: ~/.aws/config, with one block per SSO instance, and the   *)
(* startup scripts of the shells, with one block.  An execution reads the  *)
(* file, works out the new contents, shows the difference to the user and  *)
(* overwrites the file; the user edits it too.                             *)
(***************************************************************************)
EXTENDS Naturals, FiniteSets, SequencesExt

CONSTANTS
  Execution,    \* runs of aws-sso that may overlap
  SSO,          \* SSO instances, one marker pair each
  UserLine,     \* lines that the user may have in the file
  Version       \* contents that a block may have: 1..n, as roles come and go

ASSUME ConfigFileAssumption ==
  /\ Execution # {} /\ SSO # {} /\ IsFiniteSet(SSO) /\ IsFiniteSet(UserLine)
  /\ Version \subseteq Nat \ {0} /\ Version # {}

Kinds == {"aws config", "shell script", "fish script"}

(* A line is a marker, the body of a block (as one line) or the user's.    *)
PlainPrefix(s) == <<"prefix", "any SSO">>
Prefix(s) == <<"prefix", s>>
Suffix(s) == <<"suffix", s>>
Body(s, v) == <<"body", s, v>>
User(u) == <<"user", u>>

Lines ==
  {Prefix(s) : s \in SSO} \union {Suffix(s) : s \in SSO} \union
  {Body(s, v) : s \in SSO, v \in Version} \union {User(u) : u \in UserLine}

(* ended: the last line has its newline.  A missing file reads as empty.   *)
Empty == [lines |-> <<>>, ended |-> TRUE]

(* No line is there twice: blocks do not pile up.                          *)
IsFile(f) ==
  /\ f.lines \in Seq(Lines) /\ IsInjective(f.lines)
  /\ f.ended \in BOOLEAN

(* What an execution is to do.  0 is the empty template: remove the block. *)
(* --diff only has the difference printed, and is left out.                *)
Job == [sso : SSO, version : Version \union {0}, force : BOOLEAN]

VARIABLES
  kind,       \* which of the user's files it is
  configFile, \* the file
  pc,         \* where each execution is
  job,        \* what it is to do
  old,        \* the contents it shows the difference to
  new,        \* the contents it is about to write
  user,       \* history: the user's lines and their order, as the user left them
  written,    \* history: the version of each block written last, 0 for none
  lost,       \* history: an execution was killed or failed while it wrote
  overlapped  \* history: two executions were at the file

local == <<pc, job, old, new>>
history == <<user, written, lost, overlapped>>
fileVars == <<kind, configFile, local, history>>

FileTypeOK ==
  /\ kind \in Kinds
  /\ IsFile(configFile)
  /\ pc \in [Execution -> {"off", "reading", "generating", "asking", "writing", "truncated"}]
  /\ job \in [Execution -> Job]
  /\ \A e \in Execution : IsFile(old[e]) /\ IsFile(new[e])
  /\ user \subseteq UserLine \X UserLine
  /\ written \in [SSO -> Version \union {0}]
  /\ lost \in BOOLEAN /\ overlapped \in BOOLEAN

AnySSO == CHOOSE s \in SSO : TRUE

(* One marker pair per SSO instance in ~/.aws/config, one in a script.     *)
Managed == IF kind = "aws config" THEN SSO ELSE {AnySSO}

(* Which of the user's lines are in a file, and which comes before which.  *)
UserOrder(lines) ==
  {uw \in UserLine \X UserLine :
     \E i, j \in 1..Len(lines) :
       i <= j /\ lines[i] = User(uw[1]) /\ lines[j] = User(uw[2])}

NoJob == [sso |-> AnySSO, version |-> 0, force |-> FALSE]

FileInit ==
  /\ kind \in Kinds
  /\ \E u \in UserLine, ended \in BOOLEAN :
       /\ configFile = [lines |-> <<User(u)>>, ended |-> ended]
       /\ user = {<<u, u>>}
  /\ pc = [e \in Execution |-> "off"]
  /\ job = [e \in Execution |-> NoJob]
  /\ old = [e \in Execution |-> Empty] /\ new = [e \in Execution |-> Empty]
  /\ written = [s \in SSO |-> 0]
  /\ lost = FALSE /\ overlapped = FALSE

-----------------------------------------------------------------------------
(* FileEdit.                                                               *)

(* What FILE_TEMPLATE makes of the template; nothing of an empty one.      *)
Block(s, v) == IF v = 0 THEN <<>> ELSE <<Prefix(s), Body(s, v), Suffix(s)>>

(* ReadString('\n') compares whole lines: a last line without its newline  *)
(* is neither prefix nor suffix.                                           *)
IsLine(f, i, line) == f.lines[i] = line /\ (i < Len(f.lines) \/ f.ended)

(* The first such line from i on; 0 if there is none.                      *)
Find(f, i, line) ==
  LET found == {k \in i..Len(f.lines) : IsLine(f, k, line)}
  IN IF found = {} THEN 0 ELSE CHOOSE k \in found : \A l \in found : k <= l

File(lines, ended) == IF lines = <<>> THEN Empty ELSE [lines |-> lines, ended |-> ended]

(* A last line without its newline onto which the prefix is glued.         *)
AddBlockGlued(f, s, v) ==
  IF f.ended \/ v = 0 THEN File(f.lines \o Block(s, v), f.ended)
  ELSE File(Append(Front(f.lines), Append(Last(f.lines), Prefix(s))) \o Tail(Block(s, v)), TRUE)

(* No prefix: everything, a newline if one is missing, and the block.  A   *)
(* prefix that lacks the newline itself is left out.                       *)
AddBlock(f, s, v) ==
  LET partial == ~f.ended /\ Last(f.lines) = Prefix(s)
      kept == IF partial THEN Front(f.lines) ELSE f.lines
  IN File(kept \o Block(s, v), f.ended \/ partial \/ v # 0)

(* A prefix: what is before it, the block, and what is after the suffix;   *)
(* nothing is, if the suffix is not found.                                 *)
ReplaceBlock(f, s, v) ==
  LET p == Find(f, 1, Prefix(s))
      q == Find(f, p + 1, Suffix(s))
      tail == IF q = 0 THEN <<>> ELSE SubSeq(f.lines, q + 1, Len(f.lines))
  IN File(SubSeq(f.lines, 1, p - 1) \o Block(s, v) \o tail, IF tail = <<>> THEN TRUE ELSE f.ended)

GenerateNewFile(f, s, v) ==
  IF Find(f, 1, Prefix(s)) = 0 THEN AddBlock(f, s, v) ELSE ReplaceBlock(f, s, v)

(* The scanner of removeBlock, at each line.                               *)
ScanPrefixOnly(acc, line, s) ==
  CASE line = Prefix(s) -> [acc EXCEPT !.inBlock = TRUE]
    [] OTHER -> IF acc.inBlock THEN acc ELSE [acc EXCEPT !.lines = Append(@, line)]

Scan(acc, line, s) ==
  CASE line = Prefix(s) -> [acc EXCEPT !.inBlock = TRUE]
    [] line = Suffix(s) -> [acc EXCEPT !.inBlock = FALSE]
    [] OTHER -> IF acc.inBlock THEN acc ELSE [acc EXCEPT !.lines = Append(@, line)]

(* Where it is after i lines.                                              *)
Scanned(f, s) ==
  LET after[i \in 0..Len(f.lines)] ==
        IF i = 0 THEN [lines |-> <<>>, inBlock |-> FALSE]
                 ELSE Scan(after[i - 1], f.lines[i], s)
  IN after

(* helper.removeBlock.  The newline at the end of the file goes with a     *)
(* block that has no suffix.                                               *)
removeBlock(f, s) ==
  LET end == Scanned(f, s)[Len(f.lines)]
  IN File(end.lines, f.ended /\ ~end.inBlock)

-----------------------------------------------------------------------------
(* One execution.                                                          *)

Goto(e, l) == pc' = [pc EXCEPT ![e] = l]

(* UpdateConfig returns, and with it the command; what it reports is left  *)
(* out (uninstallConfigFile reports no error).                             *)
End(e) ==
  /\ Goto(e, "off")
  /\ job' = [job EXCEPT ![e] = NoJob]
  /\ old' = [old EXCEPT ![e] = Empty] /\ new' = [new EXCEPT ![e] = Empty]

(* Does an execution come to a file at which another is?                   *)
NotesOverlap(e) == overlapped' = (overlapped \/ \E d \in Execution \ {e} : pc[d] # "off")

(* setup profiles and `cache`; completions -I, -U.  An SSO instance with   *)
(* no roles still has a block.                                             *)
Start(e, s, v, force) ==
  /\ pc[e] = "off"
  /\ s \in Managed
  /\ v = 0 => kind = "shell script"
  /\ force => kind = "aws config"
  /\ Goto(e, "reading")
  /\ job' = [job EXCEPT ![e] = [sso |-> s, version |-> v, force |-> force]]
  /\ NotesOverlap(e)
  /\ UNCHANGED <<kind, configFile, old, new, user, written, lost>>

(* UpdateConfig reads the file for the difference ...                      *)
ReadFile(e) ==
  /\ pc[e] = "reading"
  /\ Goto(e, "generating")
  /\ old' = [old EXCEPT ![e] = configFile]
  /\ UNCHANGED <<kind, configFile, job, new, history>>

(* ... and GenerateNewFile reads it again.                                 *)
Generate(e) ==
  /\ pc[e] = "generating"
  /\ LET f == GenerateNewFile(configFile, job[e].sso, job[e].version) IN
       \/ f \in {Empty, old[e]} /\ End(e)
       \/ /\ f \notin {Empty, old[e]}
          /\ new' = [new EXCEPT ![e] = f]
          /\ Goto(e, IF job[e].force THEN "writing" ELSE "asking")
          /\ UNCHANGED <<job, old>>
  /\ UNCHANGED <<kind, configFile, history>>

(* ask: yes, or no, which is also what becomes of a prompt that fails.     *)
Ask(e) ==
  /\ pc[e] = "asking"
  /\ \/ Goto(e, "writing") /\ UNCHANGED <<job, old, new>>
     \/ End(e)
  /\ UNCHANGED <<kind, configFile, history>>

(* os.WriteFile truncates the file before it writes.                       *)
Truncate(e) ==
  /\ pc[e] = "writing"
  /\ Goto(e, "truncated")
  /\ configFile' = Empty
  /\ UNCHANGED <<kind, job, old, new, history>>

WriteFile(e) ==
  /\ pc[e] = "truncated"
  /\ End(e)
  /\ configFile' = new[e]
  /\ written' = [written EXCEPT ![job[e].sso] = job[e].version]
  /\ UNCHANGED <<kind, user, lost, overlapped>>

(* A full disk, or a signal: the file ends anywhere.  What is left of a    *)
(* line that is cut in its middle is not shown.                            *)
WriteFails(e) ==
  /\ pc[e] = "truncated"
  /\ \E n \in 0..Len(new[e].lines), ended \in BOOLEAN :
       configFile' = File(SubSeq(new[e].lines, 1, n), ended)
  /\ End(e)
  /\ lost' = TRUE
  /\ UNCHANGED <<kind, user, written, overlapped>>

(* removeFishFile, which neither asks nor keeps an empty file.  A write    *)
(* that fails is only logged.                                              *)
RemoveFishFile(e) ==
  /\ kind = "fish script" /\ pc[e] = "off"
  /\ LET trimmed == removeBlock(configFile, AnySSO) IN
       \/ /\ configFile' = trimmed
          /\ written' = [written EXCEPT ![AnySSO] = 0]
          /\ UNCHANGED lost
       \/ /\ \E n \in 0..Len(trimmed.lines), ended \in BOOLEAN :
               configFile' = File(SubSeq(trimmed.lines, 1, n), ended)
          /\ lost' = TRUE
          /\ UNCHANGED written
  /\ NotesOverlap(e)
  /\ UNCHANGED <<kind, pc, job, old, new, user>>

-----------------------------------------------------------------------------
(* The user.                                                               *)

IsUser(line) == line[1] = "user"

(* A line may be put in anywhere but inside a block.                       *)
Outside ==
  {i \in 1..Len(configFile.lines) + 1 : i <= Len(configFile.lines) => configFile.lines[i][1] \in {"prefix", "user"}}

(* What the user, or another program, changes while aws-sso runs is lost   *)
(* like what another execution writes; here they take turns.               *)
Idle == \A e \in Execution : pc[e] = "off"

UserEdits ==
  /\ Idle
  /\ \E ended \in BOOLEAN :
       \/ \E u \in UserLine, i \in Outside :
            /\ ~Contains(configFile.lines, User(u))
            /\ configFile' = File(InsertAt(configFile.lines, i, User(u)), ended)
       \/ \E i \in 1..Len(configFile.lines) :
            /\ IsUser(configFile.lines[i])
            /\ configFile' = File(RemoveAt(configFile.lines, i), ended)
       \/ /\ configFile.ended # ended /\ configFile.lines # <<>>
          /\ configFile' = File(configFile.lines, ended)
  /\ user' = UserOrder(configFile'.lines)
  /\ UNCHANGED <<kind, local, written, lost, overlapped>>

FileNext ==
  \/ \E e \in Execution :
       \/ \E s \in SSO, v \in Version \union {0}, force \in BOOLEAN : Start(e, s, v, force)
       \/ ReadFile(e) \/ Generate(e) \/ Ask(e) \/ Truncate(e)
       \/ WriteFile(e) \/ WriteFails(e) \/ RemoveFishFile(e)
  \/ UserEdits

FileSpec == FileInit /\ [][FileNext]_fileVars

-----------------------------------------------------------------------------
(* docs/commands.md: the markers "are used to track which profiles are     *)
(* managed": whatever an execution that is alone at the file does to it,   *)
(* with or without a newline at its end, the user's lines stay, each of    *)
(* them once and in their order.                                           *)
Undisturbed == ~lost /\ ~overlapped /\ Idle

UserLinesKept == Undisturbed => UserOrder(configFile.lines) = user

(* fileedit_test.go: "change the contents of the 1st config block, the 2nd *)
(* should remain".  The block of every SSO instance is in the file, once   *)
(* and in one piece, as it was last written.                               *)
OfBlock(line, s) == line \in {Prefix(s), Suffix(s)} \/ \E v \in Version : line = Body(s, v)

LinesOf(s) == {i \in 1..Len(configFile.lines) : OfBlock(configFile.lines[i], s)}

BlockStands(s) ==
  IF written[s] = 0 THEN LinesOf(s) = {}
  ELSE \E i \in 1..Len(configFile.lines) :
         /\ LinesOf(s) = i..i + 2
         /\ SubSeq(configFile.lines, i, i + 2) = Block(s, written[s])

BlocksAsWritten == Undisturbed => \A s \in Managed : BlockStands(s)

(* fileedit_test.go: "no changes this time".  Writing the same block again *)
(* never proposes another change.                                          *)
Idempotent ==
  \A s \in SSO, v \in Version :
    LET f == GenerateNewFile(configFile, s, v) IN GenerateNewFile(f, s, v) = f

(* The two ways to remove a block, an empty template and the scanner for   *)
(* fish scripts, leave the same lines.                                     *)
RemovalsAgree ==
  Idle => \A s \in Managed : removeBlock(configFile, s).lines = GenerateNewFile(configFile, s, 0).lines

(* The invariant of the user's file: its shape, that it is made of the     *)
(* user's lines and the blocks of aws-sso as each of them left it, that    *)
(* writing a block again changes nothing, and that removals agree.         *)
FileInv == FileTypeOK /\ UserLinesKept /\ BlocksAsWritten /\ Idempotent /\ RemovalsAgree
=============================================================================
