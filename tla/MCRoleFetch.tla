----------------------------- MODULE MCRoleFetch ----------------------------
(* Main and a pool of two workers fetch three accounts.                    *)
EXTENDS RoleFetch
=============================================================================
