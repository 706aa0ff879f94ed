--------------------------- MODULE MCRawEvidence ---------------------------
(***************************************************************************)
(* A small instance of RawEvidence: three requests of one Capture (r3      *)
(* through a CaptureBuffer), two calls that close its scope (t1 flushes,   *)
(* t2 does not), sizes for which the channel fills up and a batch          *)
(* overflows, fills up and runs out of workspace.                          *)
(***************************************************************************)
EXTENDS RawEvidence

CONSTANTS r1, r2, r3, t1, t2, run

MCScopeOf    == [r \in Requests |-> run]
MCTerminalOf == [t \in Terminals |-> run]
MCCharge     == [r \in Requests |-> 2]

\* Bound: how many requests, terminal calls, pauses, clears and shutdowns meet in
\* one behaviour. A CaptureBuffer counts as one more.
MCFocus ==
    pauses + clears + (IF shutdown = "idle" THEN 0 ELSE 1)
        + Cardinality({t \in Terminals : terminal[t] # "idle"})
        + Cardinality({r \in Requests : phase[r] # "idle"})
        + Cardinality({r \in Captures : phase[r] # "idle"}) <= 4

SamePath == Permutations({r1, r2})
=============================================================================
