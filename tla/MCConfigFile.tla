--------------------------- MODULE MCConfigFile ---------------------------
EXTENDS ConfigFile, TLC

(* Executions and the user's lines are interchangeable.                    *)
Symmetry == Permutations(Execution) \union Permutations(UserLine)

===========================================================================
