----------------------------- MODULE MCExchange -----------------------------
(***************************************************************************)
(* Three requests that do not fit together, and one stop. Requests meet in *)
(* the body credit and in the shutdown only: either one of them, executed  *)
(* in any way, meets one other, or all three pass their response through.  *)
(* MCFocus keeps a second one from executing once the free one has sent;   *)
(* its lease is released early only if it passes its response through and  *)
(* meets one other.                                                        *)
(***************************************************************************)
EXTENDS Exchange, TLC

CONSTANTS e1, e2, e3

MCCosts == {1, 2}
MCKindsOf == (e1 :> {"stream", "script", "complete", "original"}) @@ (e2 :> {"original"}) @@ (e3 :> {"original"})
Interchangeable == Permutations({e2, e3})

Executed == {x \in Exchanges : lease[x].executing}
Early    == {x \in Exchanges : lease[x].released /\ phase[x] # "gone"}
Pair     == \E x \in {e2, e3} : phase[x] = "idle"

MCFocus ==
    IF plan[e1].kind = "original"
    THEN Cardinality(Executed) <= 1 /\ (Early = {} \/ (Early = {e1} /\ Pair))
    ELSE Early = {} /\ Pair /\ (ledger[e1].sends = 0 \/ Executed \subseteq {e1})
=============================================================================
