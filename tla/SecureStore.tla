---------------------------- MODULE SecureStore ----------------------------
(***************************************************************************)
(* loadSecureStore: the setting SecureStore of config.yaml says which      *)
(* backend all executions on a machine keep their secrets in: a JSON file, *)
(* the 1Password vault, whose specification is extended, or the keyring.   *)
(* The backends share the interface of SecureStorage and nothing else; the *)
(* two that take storage.lock have its holders in variables of their own.  *)
(***************************************************************************)
EXTENDS OnePasswordStore, FiniteSets

CONSTANTS
  Backends,                   \* the settings to look at
  Capacity                    \* WINCRED_MAX_LENGTH, in units of one stored value

ASSUME BackendsAssumption == Backends \subseteq {"json", "1password", "keyring"}
ASSUME KeyringAssumption ==
  /\ Capacity \in Nat \ {0}
  /\ IsFiniteSet(Key)

VARIABLES
  backend,                      \* Settings.SecureStore
  shared, exclusive,            \* holders of storage.lock with a keyring
  ringPc, ringMem, next, ring,  \* executions with a keyring, and its entries
  committed, damaged,           \* history of the keyring
  readers, writer,              \* holders of storage.lock with a JSON store
  jsonPc, late, jsonMem, file,  \* executions with a JSON store, and its file
  published                     \* history of the JSON store

ringVars == <<shared, exclusive, ringPc, ringMem, next, ring, committed, damaged>>
jsonVars == <<readers, writer, jsonPc, late, jsonMem, file, published>>
storeVars == <<vars, backend, ringVars, jsonVars>>

Keyring == INSTANCE KeyringStore WITH pc <- ringPc, mem <- ringMem

Json == INSTANCE JsonStore WITH
  pc <- jsonPc, mem <- jsonMem,
  shared <- readers, exclusive <- writer, committed <- published

StoreInit ==
  /\ backend \in Backends
  /\ Init
  /\ Keyring!Init
  /\ Json!Init

StoreNext ==
  \/ backend = "json" /\ Json!Next /\ UNCHANGED <<backend, vars, ringVars>>
  \/ backend = "1password" /\ Next /\ UNCHANGED <<backend, ringVars, jsonVars>>
  \/ backend = "keyring" /\ Keyring!Next /\ UNCHANGED <<backend, vars, jsonVars>>

StoreSpec == StoreInit /\ [][StoreNext]_storeVars

(* The executions of a JSON store are scheduled, and time passes for those *)
(* that wait for the lock.                                                 *)
FairStoreSpec == StoreSpec /\ Json!Fairness

-----------------------------------------------------------------------------
(* The values the keyring's variables take, and: split and join are        *)
(* inverse whatever was stored before: as long as no save has been cut     *)
(* short, an execution that reads the keyring under its lock puts together *)
(* exactly the last document saved, never a chunk of an older or a half-   *)
(* written one.                                                            *)
KeyringInv == Keyring!TypeOK /\ Keyring!ReadersJoinCommitted

(* The values the JSON store's variables take; an execution that may be    *)
(* writing the file is alone on it; and one that has got its lock to read  *)
(* finds the last completed save, or what an interrupted save left behind, *)
(* never the unfinished contents of a save in progress (json_store.go).    *)
JsonInv == Json!TypeOK /\ Json!WriterExcludesAll /\ Json!ReadersSeeCommitted

(* The JSON store refines the all-or-nothing document of SharedStore: a    *)
(* save of its file replaces the document at once or not at all.           *)
RefinesSharedStore == Json!RefinesSharedStore

(* An open, Save* or Delete* of the JSON store never hangs, and leaves     *)
(* storage.lock behind, however busy the other executions keep it.         *)
CallsReturn == Json!CallsReturn
=============================================================================
