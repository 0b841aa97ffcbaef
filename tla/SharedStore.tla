---------------------------- MODULE SharedStore ----------------------------
(***************************************************************************)
(* What a locked file store promises to several executions: opening it     *)
(* loads, in one step, a document that somebody saved; saving it replaces, *)
(* in one step, the document by the saver's whole copy.  A save that is    *)
(* cut short may spoil the document, and then nothing of it is left: the   *)
(* promise is all-or-nothing, never a mixture of two saves.                *)
(***************************************************************************)
EXTENDS StoreData

CONSTANT Proc

VARIABLES
  document,     \* the stored document
  copy,         \* the copy each execution loaded and edits
  opened        \* executions that have the store open

TypeOK ==
  /\ document \in Snapshot \union {Unreadable}
  /\ copy \in [Proc -> Snapshot]
  /\ opened \subseteq Proc

Init ==
  /\ document = NewStorageData
  /\ copy = [p \in Proc |-> NewStorageData]
  /\ opened = {}

Open(p) ==
  /\ p \notin opened
  /\ document # Unreadable
  /\ copy' = [copy EXCEPT ![p] = document]
  /\ opened' = opened \union {p}
  /\ UNCHANGED document

Edit(p) ==
  /\ p \in opened
  /\ \E k \in Key, v \in Value \union {NoValue} :
       copy' = [copy EXCEPT ![p] = [@ EXCEPT ![k] = v]]
  /\ UNCHANGED <<document, opened>>

Publish(p) ==
  /\ p \in opened
  /\ document' = copy[p]
  /\ UNCHANGED <<copy, opened>>

(* A save cut short by an I/O error (the execution goes on) or by the end  *)
(* of the execution.                                                       *)
Spoil(p) ==
  /\ p \in opened
  /\ document' \in {NewStorageData, Unreadable}
  /\ \/ UNCHANGED <<copy, opened>>
     \/ /\ opened' = opened \ {p}
        /\ copy' = [copy EXCEPT ![p] = NewStorageData]

Close(p) ==
  /\ opened' = opened \ {p}
  /\ copy' = [copy EXCEPT ![p] = NewStorageData]
  /\ UNCHANGED document

Next == \E p \in Proc : Open(p) \/ Edit(p) \/ Publish(p) \/ Spoil(p) \/ Close(p)

vars == <<document, copy, opened>>

Spec == Init /\ [][Next]_vars

=============================================================================
