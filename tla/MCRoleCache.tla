---------------------------- MODULE MCRoleCache ----------------------------
(* RoleCache for TLC.  Of the four roles AWS may grant the first two,      *)
(* config.yaml may define the third, and nobody knows the fourth.          *)
EXTENDS RoleCache

Symmetry == Permutations(GrantRole)
=============================================================================
