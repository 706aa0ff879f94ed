------------------------ MODULE MCRetainedAdmission ------------------------
(***************************************************************************)
(* A small instance of RetainedAdmission: s1 and s2 share the key k1, s3   *)
(* has k2. One change revokes the grants of k1's user, the other is a hint *)
(* about k1's capture that revokes nothing.                                *)
(***************************************************************************)
EXTENDS RetainedAdmission, TLC

CONSTANTS s1, s2, s3, k1, k2, revoke, hint

MCKeyOf     == [s \in Subs |-> IF s = s3 THEN k2 ELSE k1]
MCScopeOf   == [c \in Changes |-> {k1}]
MCRevokedBy == [c \in Changes |-> IF c = revoke THEN {k1} ELSE {}]

SharedKey == Permutations({s1, s2})
=============================================================================
