---------------------------- MODULE MCExecSession ----------------------------
EXTENDS ExecSession, TLC

CONSTANTS east, west, r1, r2, r3, p1, p2, p3, v1, prod, k1, k2

MCRegions == {east, west}

MCRoles == {r1, r2, r3}

(* Roles of two regions; one of them has the tag of EnvVarTags.            *)
MCRegionOf == (r1 :> east) @@ (r2 :> west) @@ (r3 :> west)

MCTagOf == (r1 :> prod) @@ (r2 :> Unset) @@ (r3 :> Unset)

MCUserValues == MCRegions \cup {Unset}

(* A role's tag may have the name of its profile, p1, as its value.        *)
MCValues == {v1, p1}

MCProfileOf == (r1 :> p1) @@ (r2 :> p2) @@ (r3 :> p3)

MCKeys == {k1, k2}

(* No definition tells the tag keys apart.                                 *)
MCSymmetry == Permutations(MCKeys)
=============================================================================
