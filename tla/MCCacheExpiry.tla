-------------------------- MODULE MCCacheExpiry --------------------------
EXTENDS CacheExpiry, TLC

(* Executions are interchangeable; SSO instances are not (AnySSO).         *)
Symmetry == Permutations(Execution)

==========================================================================
