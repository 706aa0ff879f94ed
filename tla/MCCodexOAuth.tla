---------------------------- MODULE MCCodexOAuth ----------------------------
(* Instances of CodexOAuth for TLC. *)
EXTENDS CodexOAuth, TLC

CONSTANTS l1, l2, m1, s1, s2

LeaseSymmetry == Permutations({l1, l2})
=============================================================================
