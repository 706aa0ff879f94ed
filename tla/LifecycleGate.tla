--------------------------- MODULE LifecycleGate ---------------------------
(***************************************************************************)
(* The admission gate the managers of capture runs, manual captures and    *)
(* proxy clients share (internal/lifecyclegate): operations are admitted   *)
(* until CloseAdmission, which cancels them, and Drain waits for them.     *)
(*                                                                         *)
(* Begin counts the operation under the lock, and links its context to the *)
(* owner's only after the unlock, so CloseAdmission can fall in between.   *)
(***************************************************************************)
EXTENDS Integers, FiniteSets

CONSTANTS
    Operations,   \* the calls of Begin that may be made
    Drainers      \* the callers of Drain

ASSUME FiniteOperations == IsFiniteSet(Operations)

VARIABLES
    accepting,   \* Gate.accepting
    active,      \* Gate.active
    closes,      \* how often close(Gate.drained) was executed
    op,          \* where each operation stands
    canceled,    \* the operations whose context is canceled with the stopping error
    drain        \* where each call of Drain stands

vars == <<accepting, active, closes, op, canceled, drain>>

\* "admitted": counted, not yet linked to the owner's context.
OpPhases    == {"idle", "admitted", "running", "finished"}
DrainPhases == {"idle", "waiting", "returned", "gaveUp"}

Init ==
    /\ accepting = TRUE /\ active = 0 /\ closes = 0
    /\ op = [o \in Operations |-> "idle"]
    /\ canceled = {}
    /\ drain = [d \in Drainers |-> "idle"]

\* Mutant: an operation is admitted whatever the state of the gate.
BeginAlways(o) ==
    /\ op[o] = "idle"
    /\ active' = active + 1
    /\ op' = [op EXCEPT ![o] = "admitted"]
    /\ UNCHANGED <<accepting, closes, canceled, drain>>

\* Gate.Begin up to its unlock. A gate that is not accepting refuses.
Begin(o) ==
    /\ op[o] = "idle" /\ accepting
    /\ active' = active + 1
    /\ op' = [op EXCEPT ![o] = "admitted"]
    /\ UNCHANGED <<accepting, closes, canceled, drain>>

\* The rest of Begin: context.AfterFunc ties the operation to the owner.
Link(o) ==
    /\ op[o] = "admitted"
    /\ op' = [op EXCEPT ![o] = "running"]
    /\ UNCHANGED <<accepting, active, closes, canceled, drain>>

\* Mutant: only operations that were linked in time hear of the shutdown.
HearsOfCloseInTime(o) == op[o] = "running" /\ accepting

\* AfterFunc runs its function whether the owner is canceled before or after.
HearsOfClose(o) == op[o] = "running" /\ ~accepting

DeliverCancel(o) ==
    /\ HearsOfClose(o) /\ o \notin canceled
    /\ canceled' = canceled \union {o}
    /\ UNCHANGED <<accepting, active, closes, op, drain>>

LastOut(n) == ~accepting /\ n = 0

\* The operation's finish function, which runs once.
Finish(o) ==
    /\ op[o] = "running"
    /\ op' = [op EXCEPT ![o] = "finished"]
    /\ active' = active - 1
    /\ closes' = IF LastOut(active - 1) THEN closes + 1 ELSE closes
    /\ UNCHANGED <<accepting, canceled, drain>>

\* Mutant: the drain of an idle gate is left to the last operation.
CloseAdmissionOnly ==
    /\ accepting
    /\ accepting' = FALSE
    /\ UNCHANGED <<active, closes, op, canceled, drain>>

\* Gate.CloseAdmission. A second call returns at once.
CloseAdmission ==
    /\ accepting
    /\ accepting' = FALSE
    /\ closes' = IF active = 0 THEN closes + 1 ELSE closes
    /\ UNCHANGED <<active, op, canceled, drain>>

\* Gate.Drain looks at the counter, then waits for the channel or its context.
DrainBegins(d) ==
    /\ drain[d] = "idle"
    /\ drain' = [drain EXCEPT ![d] = IF ~accepting /\ active = 0 THEN "returned" ELSE "waiting"]
    /\ UNCHANGED <<accepting, active, closes, op, canceled>>

DrainReturns(d) ==
    /\ drain[d] = "waiting" /\ closes > 0
    /\ drain' = [drain EXCEPT ![d] = "returned"]
    /\ UNCHANGED <<accepting, active, closes, op, canceled>>

DrainGivesUp(d) ==
    /\ drain[d] = "waiting"
    /\ drain' = [drain EXCEPT ![d] = "gaveUp"]
    /\ UNCHANGED <<accepting, active, closes, op, canceled>>

Next ==
    \/ CloseAdmission
    \/ \E o \in Operations : Begin(o) \/ Link(o) \/ DeliverCancel(o) \/ Finish(o)
    \/ \E d \in Drainers : DrainBegins(d) \/ DrainReturns(d) \/ DrainGivesUp(d)

Spec == Init /\ [][Next]_vars
-----------------------------------------------------------------------------
InFlight == {o \in Operations : op[o] \in {"admitted", "running"}}

\* Every variable has the type of its Go field.
TypeOK ==
    /\ accepting \in BOOLEAN /\ active \in Nat /\ closes \in 0..1
    /\ op \in [Operations -> OpPhases]
    /\ canceled \subseteq Operations
    /\ drain \in [Drainers -> DrainPhases]

\* The channel Drain waits on is closed exactly when admission is closed and no
\* operation is in flight: never twice, which would panic (gate.go:88, 102), and
\* never too early or not at all, whichever of finish and CloseAdmission is last.
ClosedExactlyWhenDrained ==
    closes = (IF ~accepting /\ InFlight = {} THEN 1 ELSE 0)

\* When Drain has returned nil, no operation is in flight, and none ever will be:
\* the caller may tear down what the operations use.
DrainedForGood ==
    (\E d \in Drainers : drain[d] = "returned") => ~accepting /\ InFlight = {}

\* What CloseAdmission, finish and Drain promise between them: the end is announced
\* once, not too early, and nothing happens after it.
DrainSafe == ClosedExactlyWhenDrained /\ DrainedForGood

\* The counter is the number of operations in flight.
ActiveExact == active = Cardinality(InFlight)

\* Once admission is closed, every Drain that keeps waiting returns: each operation
\* hears of the close, also the one that was admitted just before it and links its
\* context to the owner just after it, and the last one out closes the channel.
DrainEnds == \A d \in Drainers : (~accepting /\ drain[d] = "waiting") ~> drain[d] # "waiting"

\* The inductive invariant of the gate.
IndInv == TypeOK /\ ActiveExact /\ ClosedExactlyWhenDrained /\ DrainedForGood
=============================================================================
