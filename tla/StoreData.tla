----------------------------- MODULE StoreData -----------------------------
(***************************************************************************)
(* What every SecureStorage backend keeps in memory and writes as one      *)
(* JSON document: the maps of StorageData (registered clients, tokens,     *)
(* role and static credentials) and the ECS server's secrets, flattened    *)
(* into one function from keys to values.                                  *)
(***************************************************************************)

CONSTANTS
  Key,          \* <map, key> pairs of StorageData: "the SSO token of Main", ...
  Value,        \* what a key can hold
  NoValue,      \* the key is not in its map (or the secret is the empty string)
  StrictKey,    \* keys whose Delete* method refuses a key that is not there
  Unreadable,   \* stands for stored bytes that do not unmarshal
  NoData        \* nothing is stored: no file or an empty one, no keyring entry

ASSUME NoValueAssumption == NoValue \notin Value
ASSUME StrictKeyAssumption == StrictKey \subseteq Key
ASSUME UnreadableAssumption == Unreadable \notin [Key -> Value \union {NoValue}]

Snapshot == [Key -> Value \union {NoValue}]

ASSUME NoDataAssumption ==
  /\ NoData # Unreadable
  /\ NoData \notin Snapshot

NewStorageData == [k \in Key |-> NoValue]

(* Save<Kind>: the entry is added or replaced.                             *)
SaveEntry(data, k, v) == [data EXCEPT ![k] = v]

(* Delete<Kind>: the entry goes away; a strict key must be there.          *)
MayDelete(data, k) == k \in StrictKey => data[k] # NoValue
DeleteEntry(data, k) == [data EXCEPT ![k] = NoValue]

=============================================================================
