---------------------------- MODULE MCEcsServer ----------------------------
EXTENDS EcsServer, TLC

(* Handlers are interchangeable, and so are profiles.                      *)
Symmetry == Permutations(Handler) \union Permutations(Profile)

=============================================================================
