---------------------------- MODULE MCRoleCreds ----------------------------
(***************************************************************************)
(* One execution after another, two roles.  No symmetry: AnyRole tells the *)
(* roles apart.                                                            *)
(***************************************************************************)
EXTENDS RoleCreds, TLC

=============================================================================
