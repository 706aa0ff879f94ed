--------------------------- MODULE MCToolApproval ---------------------------
(***************************************************************************)
(* Instances of ToolApproval for TLC. All tool intents put one question    *)
(* and all network asks another, so that they meet at one entry, one row   *)
(* and the unique index.                                                   *)
(***************************************************************************)
EXTENDS ToolApproval, TLC

CONSTANTS w1, w2, w3, c1, c2, group, target

MCKeyOf == [w \in Asks |-> IF w \in ToolIntents THEN group ELSE target]

Interchangeable == Permutations({w1, w2}) \union Permutations({c1, c2})
=============================================================================
