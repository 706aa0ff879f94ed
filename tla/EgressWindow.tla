---------------------------- MODULE EgressWindow ----------------------------
(***************************************************************************)
(* What the offline-hold gate promises to the rest of the runtime, without *)
(* its queue, its counters, its probes or its revisions: a window for      *)
(* external egress that is shut only when nothing is in flight.            *)
(*                                                                         *)
(*   open      anybody may fly                                             *)
(*   closing   only operations from before the close may still fly         *)
(*   shut      nobody flies and nobody who could fly at once is around     *)
(*   trickle   the held requests leave, a bounded number at a time         *)
(*   gone      the process stops: flights land, none starts                *)
(***************************************************************************)
EXTENDS Integers

CONSTANTS
    Requests,   \* the egress requests
    Actions,    \* the logical operations
    Limit       \* how many held requests may be in flight at a time

VARIABLES
    window,     \* the state of the window
    flying,     \* the requests in flight
    elders      \* the operations begun while the window was open

vars == <<window, flying, elders>>

Init == window = "shut" /\ flying = {} /\ elders = {}

Open == /\ window \in {"shut", "trickle"}
        /\ window' = "open" /\ flying' = {}
        /\ UNCHANGED elders

Join == /\ window = "open"
        /\ \E a \in Actions : elders' = elders \union {a}
        /\ UNCHANGED <<window, flying>>

Fly == /\ window = "open" \/ (window = "closing" /\ elders # {})
       /\ \E r \in Requests \ flying : flying' = flying \union {r}
       /\ UNCHANGED <<window, elders>>

\* The window shuts in the step in which the last flight or elder goes.
Shuts == flying' = {} /\ elders' = {} /\ window' = "shut"

Close == /\ window = "open"
         /\ window' = "closing" \/ Shuts
         /\ UNCHANGED <<flying, elders>>

Land == /\ \E r \in flying : flying' = flying \ {r}
        /\ UNCHANGED elders
        /\ window' = window \/ (window = "closing" /\ Shuts)

Leave == /\ \E a \in elders : elders' = elders \ {a}
         /\ UNCHANGED flying
         /\ window' = window \/ (window = "closing" /\ Shuts)

\* At most Limit requests: each can have a slot of its own.
WithinLimit(S) ==
    \E slot \in [S -> 1..Limit] : \A r, s \in S : slot[r] = slot[s] => r = s

\* Held requests leave; the steps in which one lands and others leave included.
Trickle == /\ window \in {"shut", "trickle"}
           /\ window' = "trickle"
           /\ flying' \in SUBSET Requests /\ WithinLimit(flying')
           /\ UNCHANGED elders

ShutAgain == window = "trickle" /\ Shuts

Stop == window' = "gone" /\ UNCHANGED <<flying, elders>>

Next == Open \/ Join \/ Fly \/ Close \/ Land \/ Leave \/ Trickle \/ ShutAgain \/ Stop

Spec == Init /\ [][Next]_vars
=============================================================================
