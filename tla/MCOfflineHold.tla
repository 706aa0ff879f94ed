--------------------------- MODULE MCOfflineHold ---------------------------
(***************************************************************************)
(* A small instance of OfflineHold. Three requests for two targets, so     *)
(* that a release can meet a target that was not probed both at the head   *)
(* of the queue and behind it, and can have more to release than it may at *)
(* once; together the requests are larger than the byte limit.             *)
(***************************************************************************)
EXTENDS OfflineHold

CONSTANTS r1, r2, t1, t2

MCTargetOf == [r \in Requests |-> IF r \in {r1, r2} THEN t1 ELSE t2]
MCSizeOf   == [r \in Requests |-> IF r = r2 THEN 2 ELSE 1]
=============================================================================
