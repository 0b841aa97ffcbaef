--------------------------- MODULE MCSecureStore ---------------------------
(* Two executions, two keys of one store; JsonStore.cfg has the backend    *)
(* that is a file of aws-sso's own, SecureStore.cfg the other two.         *)
EXTENDS SecureStore, TLC

(* Executions are interchangeable, and so are the service's item IDs.      *)
Symmetry == Permutations(Proc) \union Permutations(ItemId)

=============================================================================
