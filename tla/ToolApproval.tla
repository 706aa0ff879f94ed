---------------------------- MODULE ToolApproval ----------------------------
(***************************************************************************)
(* The tool-approval authority (internal/toolapproval): a call of Decide,  *)
(* AskNetwork or AskClientRoot blocks on a person. Identical questions     *)
(* share one durable row; a waiter registry in memory knows who waits on   *)
(* which row. The person's command, the waiter's own timer, the end of its *)
(* context, the revocation of its Capture, the clearing of the archive and *)
(* shutdown can all end a question, and each does so in several steps: the *)
(* row first, then the registry.                                           *)
(*                                                                         *)
(* An ask is one call. The row and the registry entry an ask creates are   *)
(* named by the ask (its proposed record ID). A row's revision is 1 while  *)
(* it is pending and 2 from then on, so comparing it is comparing the      *)
(* state. Cancellation and expiry are both "canceled": they differ in the  *)
(* reason code only. Each repository method is one transaction.            *)
(***************************************************************************)
EXTENDS Integers, FiniteSets

CONSTANTS
    Asks,          \* the calls that ask
    KeyOf,         \* the aggregate key of each question
    ToolIntents,   \* the asks made by Decide; the others go through awaitDecision
    Owned,         \* the tool intents that belong to the Capture that is revoked
    Commands,      \* the decision commands, by idempotency key
    Clears,        \* whether the archive is cleared
    Stops,         \* whether the runtime is shut down
    MaxRestarts,   \* bound: how often the process may be lost and started again
    StoreMayFail,  \* whether a repository call may fail
    None           \* no ask

ASSUME ApprovalAssumption ==
    \* the kind and the Exchange are part of the key
    /\ Owned \subseteq ToolIntents /\ ToolIntents \subseteq Asks
    /\ \A v, w \in Asks : KeyOf[v] = KeyOf[w] =>
           (v \in ToolIntents <=> w \in ToolIntents) /\ (v \in Owned <=> w \in Owned)
    /\ None \notin Asks \union Commands
    /\ MaxRestarts \in Nat
    /\ {Clears, Stops, StoreMayFail} \subseteq BOOLEAN

VARIABLES
    phase,         \* where the call of each ask stands
    entryOf,       \* the entry each ask waits on
    waiters,       \* registryEntry.waiters
    ready,         \* registryEntry.ready and created
    result,        \* waiter.result, a channel that holds one Record
    row,           \* tool_approvals.state
    lapsed,        \* the rows whose expires_at has passed
    requestCount,  \* tool_approvals.request_count
    waiterCount,   \* tool_approvals.waiter_count
    command,       \* where the DecideApproval call of each command stands
    decidedBy,     \* tool_approvals.decision_idempotency_key
    clear,         \* where ClearEvidence stands
    stale,         \* the asks whose recording fence is of an earlier epoch
    capture,       \* where the revocation of the Capture stands
    closing,       \* Authority.closing
    shutdown,      \* where Shutdown stands
    owed,          \* the rows a cancellation has written and not resolved yet
    orphaned,      \* the rows whose last waiter failed to cancel them
    refused,       \* the asks that still waited when the archive was cleared
    restarts       \* how often the process was started again

askVars      == <<phase, entryOf>>
registryVars == <<waiters, ready, result>>
rowVars      == <<row, lapsed, requestCount, waiterCount, decidedBy>>
endVars      == <<clear, stale, capture, closing, shutdown, owed>>
historyVars  == <<orphaned, refused, restarts>>
vars == <<askVars, registryVars, rowVars, command, endVars, historyVars>>

\* "begun": begin has let the call in; "admitted": it has a publication slot;
\* "creating", "created": it creates the row; "joining": it waits for somebody
\* else's row; "leavingEarly", "leaving": departFrom after the registry, with and
\* without the slot; then the outcome, or "lost" with the process.
Outcomes  == {"allowed", "rejected", "lost"}
AskPhases == Outcomes \union {"idle", "begun", "admitted", "creating", "created", "failed",
                              "joining", "waiting", "leavingEarly", "leaving"}
RowStates == {"none", "pending", "allowed", "denied", "canceled", "deleted"}
Terminal  == {"allowed", "denied", "canceled"}
NoCommand == [phase |-> "idle", rec |-> None, decision |-> "denied", got |-> "none"]
Cancelers == {"capture", "shutdown"}

Init ==
    /\ phase = [w \in Asks |-> "idle"]
    /\ entryOf = [w \in Asks |-> None]
    /\ waiters = [e \in Asks |-> {}]
    /\ ready = [e \in Asks |-> "no"]
    /\ result = [w \in Asks |-> "none"]
    /\ row = [e \in Asks |-> "none"]
    /\ lapsed = {}
    /\ requestCount = [e \in Asks |-> 1] /\ waiterCount = [e \in Asks |-> 1]
    /\ command = [c \in Commands |-> NoCommand]
    /\ decidedBy = [e \in Asks |-> None]
    /\ clear = "idle" /\ stale = {}
    /\ capture = "active"
    /\ closing = FALSE /\ shutdown = "idle"
    /\ owed = [x \in Cancelers |-> {}]
    /\ orphaned = {} /\ refused = {} /\ restarts = 0

Step(w, from, to) == phase[w] = from /\ phase' = [phase EXCEPT ![w] = to]
-----------------------------------------------------------------------------
(***************************************************************************)
(* The publication gate: a semaphore of which an ask or a decision takes   *)
(* one slot and clearing takes all. A waiting clear is first in the queue. *)
(***************************************************************************)
\* Mutant: the slot is kept while the person thinks.
AskHoldsOn(w) == phase[w] \notin Outcomes \union {"idle", "begun"}

AskHolds(w) ==
    phase[w] \in {"admitted", "creating", "created", "failed", "joining", "leavingEarly"}

\* Mutant: a decision is published outside the gate.
CommandHoldsNothing(c) == FALSE

CommandHolds(c) == command[c].phase \in {"admitted", "decided"}

SlotFree == clear \notin {"waiting", "held", "committed"}

\* Authority.begin, and the first look at closing.
Begin(w) ==
    /\ ~closing
    /\ Step(w, "idle", "begun")
    /\ UNCHANGED <<entryOf, registryVars, rowVars, command, endVars, historyVars>>

\* acquirePublication looks at closing again once it has the slot.
AcquirePublication(w) ==
    /\ SlotFree
    /\ Step(w, "begun", IF closing THEN "rejected" ELSE "admitted")
    /\ UNCHANGED <<entryOf, registryVars, rowVars, command, endVars, historyVars>>

\* The caller's context ends before there is a slot.
GiveUp(w) ==
    /\ Step(w, "begun", "rejected")
    /\ UNCHANGED <<entryOf, registryVars, rowVars, command, endVars, historyVars>>

\* byAggregate and byRecord: an entry is in both exactly as long as it has waiters.
OpenEntries(k) == {e \in Asks : KeyOf[e] = k /\ waiters[e] # {}}

\* waiterRegistry.join
Register(w) ==
    \E e \in IF OpenEntries(KeyOf[w]) = {} THEN {w} ELSE OpenEntries(KeyOf[w]) :
        /\ Step(w, "admitted", IF e = w THEN "creating" ELSE "joining")
        /\ entryOf' = [entryOf EXCEPT ![w] = e]
        /\ waiters' = [waiters EXCEPT ![e] = @ \union {w}]
        /\ UNCHANGED <<ready, result, rowVars, command, endVars, historyVars>>

\* Mutant: the row of a tool intent is written without the look at its owner.
MayCreateAnyway(w) == \A e \in Asks : KeyOf[e] = KeyOf[w] => row[e] # "pending"

\* The unique index on pending keys, and the fences of a tool intent's owner.
MayCreate(w) ==
    /\ \A e \in Asks : KeyOf[e] = KeyOf[w] => row[e] # "pending"
    /\ w \notin stale
    /\ w \in Owned => capture = "active"

\* repository.Create
Create(w) ==
    \E ok \in BOOLEAN :
        /\ ok => MayCreate(w)
        /\ ~ok => ~MayCreate(w) \/ StoreMayFail
        /\ Step(w, "creating", IF ok THEN "created" ELSE "failed")
        /\ row' = IF ok THEN [row EXCEPT ![w] = "pending"] ELSE row
        /\ UNCHANGED <<entryOf, registryVars, lapsed, requestCount, waiterCount, decidedBy,
                       command, endVars, historyVars>>

\* waiterRegistry.publish of a row, and the slot goes back.
Publish(w) ==
    /\ Step(w, "created", "waiting")
    /\ ready' = [ready EXCEPT ![w] = "created"]
    /\ UNCHANGED <<entryOf, waiters, result, rowVars, command, endVars, historyVars>>

\* waiterRegistry.remove
Without(w) == [waiters EXCEPT ![entryOf[w]] = @ \ {w}]

\* publish of a failure: the creator leaves, its joiners find out by themselves.
PublishFailure(w) ==
    /\ Step(w, "failed", "rejected")
    /\ ready' = [ready EXCEPT ![w] = "failed"]
    /\ waiters' = Without(w)
    /\ UNCHANGED <<entryOf, result, rowVars, command, endVars, historyVars>>

JoinerRejected(w) ==
    /\ Step(w, "joining", "rejected")
    /\ ready[entryOf[w]] = "failed"
    /\ waiters' = Without(w)
    /\ UNCHANGED <<entryOf, ready, result, rowVars, command, endVars, historyVars>>

\* repository.Join, whose failure is ignored, and the slot goes back.
JoinerWaits(w) ==
    LET e == entryOf[w]
    IN  /\ Step(w, "joining", "waiting")
        /\ ready[e] = "created"
        /\ \/ /\ row[e] = "pending"
              /\ requestCount' = [requestCount EXCEPT ![e] = @ + 1]
              /\ waiterCount' = [waiterCount EXCEPT ![e] = @ + 1]
           \/ /\ row[e] # "pending" \/ StoreMayFail
              /\ UNCHANGED <<requestCount, waiterCount>>
        /\ UNCHANGED <<entryOf, registryVars, row, lapsed, decidedBy, command, endVars,
                       historyVars>>

\* Mutant: only a refusal rejects.
OutcomeUnlessDenied(state) == IF state = "denied" THEN "rejected" ELSE "allowed"

\* What Decide and awaitDecision make of the Record they receive.
OutcomeOf(state) == IF state = "allowed" THEN "allowed" ELSE "rejected"

Receive(w) ==
    /\ result[w] # "none"
    /\ Step(w, "waiting", OutcomeOf(result[w]))
    /\ waiters' = Without(w)
    /\ UNCHANGED <<entryOf, ready, result, rowVars, command, endVars, historyVars>>

\* The timer fires or the caller's context ends, although an answer or the row
\* may be there already (select takes any): departFrom leaves the registry.
Depart(w) ==
    /\ \/ Step(w, "waiting", "leaving")
       \/ Step(w, "joining", "leavingEarly")
    /\ waiters' = Without(w)
    /\ UNCHANGED <<entryOf, ready, result, rowVars, command, endVars, historyVars>>

\* Mutant: the count may reach zero.
LeftDown(n) == n - 1

Left(n) == IF n > 1 THEN n - 1 ELSE 1

\* Mutant: a waiter only takes itself off the count.
LastOneNever(e) == FALSE

\* waiterRegistry.waiterCount is zero.
LastOne(e) == waiters[e] = {}

\* The rest of departFrom: the last one cancels the row, within a second and
\* unheard if that fails, and another one takes itself off the count.
Withdraw(w) ==
    LET e == entryOf[w]
    IN  /\ phase[w] \in {"leaving", "leavingEarly"}
        /\ phase' = [phase EXCEPT ![w] = "rejected"]
        /\ \/ /\ LastOne(e)
              /\ row' = [row EXCEPT ![e] = IF @ = "pending" THEN "canceled" ELSE @]
              /\ UNCHANGED <<waiterCount, orphaned>>
           \/ /\ LastOne(e) /\ StoreMayFail
              /\ orphaned' = orphaned \union {e}
              /\ UNCHANGED <<row, waiterCount>>
           \/ /\ ~LastOne(e)
              /\ waiterCount' = IF row[e] = "pending" THEN [waiterCount EXCEPT ![e] = Left(@)]
                                ELSE waiterCount
              /\ UNCHANGED <<row, orphaned>>
        /\ UNCHANGED <<entryOf, registryVars, lapsed, requestCount, decidedBy, command,
                       endVars, refused, restarts>>

Lapse(e) ==
    /\ row[e] = "pending" /\ e \notin lapsed
    /\ lapsed' = lapsed \union {e}
    /\ UNCHANGED <<askVars, registryVars, row, requestCount, waiterCount, decidedBy, command,
                   endVars, historyVars>>
-----------------------------------------------------------------------------
\* Mutant: only the caller that created the row hears of it.
ResolveCreator(e, state) ==
    /\ result' = [w \in Asks |-> IF w \in waiters[e] /\ w = e THEN state ELSE result[w]]
    /\ waiters' = [waiters EXCEPT ![e] = {}]

\* waiterRegistry.resolve: every waiter of the entry gets the record's state.
Resolve(e, state) ==
    /\ result' = [w \in Asks |-> IF w \in waiters[e] THEN state ELSE result[w]]
    /\ waiters' = [waiters EXCEPT ![e] = {}]

CommandStep(c, from, to) ==
    command[c].phase = from /\ command' = [command EXCEPT ![c].phase = to, ![c].got = "none"]

\* repository.Decide has returned the record, in the given state.
Returned(c, state) == command' = [command EXCEPT ![c].phase = "decided", ![c].got = state]

\* DecideApproval: a command about a row the person has seen, begin and its slot.
\* A command that failed may come again with its idempotency key.
BeginDecision(c) ==
    /\ ~closing /\ SlotFree
    /\ \/ /\ command[c].phase = "idle"
          /\ \E e \in Asks, d \in {"allowed", "denied"} :
                 /\ row[e] # "none"
                 /\ command' = [command EXCEPT ![c] =
                                    [phase |-> "admitted", rec |-> e, decision |-> d, got |-> "none"]]
       \/ CommandStep(c, "unheard", "admitted")
    /\ UNCHANGED <<askVars, registryVars, rowVars, endVars, historyVars>>

OwnerActive(e) == e \notin stale /\ (e \in Owned => capture = "active")

\* Mutant: the answer is written whoever came first.
MayDecideAnyway(e) == row[e] # "deleted" /\ e \notin lapsed

MayDecide(e) == row[e] = "pending" /\ e \notin lapsed

\* repository.Decide: a repeated command finds its own decision; a row that is
\* not pending any more, or lapsed, is a conflict; the question of an owner that
\* is gone is canceled instead.
DecideRow(c) ==
    command[c].phase = "admitted" /\
    LET e == command[c].rec
        replay == decidedBy[e] = c /\ row[e] # "deleted"
    IN  \/ /\ replay
           /\ Returned(c, row[e])
           /\ UNCHANGED <<row, decidedBy>>
        \/ /\ ~replay /\ MayDecide(e)
           /\ row' = [row EXCEPT ![e] = IF OwnerActive(e) THEN command[c].decision ELSE "canceled"]
           /\ Returned(c, row'[e])
           /\ decidedBy' = IF OwnerActive(e) THEN [decidedBy EXCEPT ![e] = c] ELSE decidedBy
        \/ /\ ~replay /\ ~MayDecide(e)
           /\ CommandStep(c, "admitted", "done")
           /\ UNCHANGED <<row, decidedBy>>
        \/ /\ StoreMayFail
           /\ CommandStep(c, "admitted", "unheard")
           /\ UNCHANGED <<row, decidedBy>>

Decide(c) ==
    /\ DecideRow(c)
    /\ UNCHANGED <<askVars, registryVars, lapsed, requestCount, waiterCount, endVars,
                   historyVars>>

\* Mutant: the waiters hear what was asked for, not what was recorded.
HeardAsAsked(c) == command[c].decision

\* The state of the record repository.Decide returned.
Heard(c) == command[c].got

PublishDecision(c) ==
    /\ CommandStep(c, "decided", "done")
    /\ Resolve(command[c].rec, Heard(c))
    /\ UNCHANGED <<askVars, ready, rowVars, endVars, historyVars>>

\* RulesRemembered fails, which only the answer to a network question asks for:
\* DecideApproval returns the error, the waiters wait on.
RememberFails(c) ==
    /\ StoreMayFail /\ command[c].rec \notin ToolIntents
    /\ CommandStep(c, "decided", "unheard")
    /\ UNCHANGED <<askVars, registryVars, rowVars, endVars, historyVars>>
-----------------------------------------------------------------------------
\* The rows of S that are pending become canceled, and the canceler x owes their
\* waiters the news.
CancelRows(x, S) ==
    LET P == {e \in S : row[e] = "pending"}
    IN  /\ row' = [e \in Asks |-> IF e \in P THEN "canceled" ELSE row[e]]
        /\ owed' = [owed EXCEPT ![x] = P]

\* The Capture is stopped in its own transaction ...
RevokeCapture ==
    /\ Owned # {} /\ capture = "active"
    /\ capture' = "revoked"
    /\ UNCHANGED <<askVars, registryVars, rowVars, command, clear, stale, closing, shutdown,
                   owed, historyVars>>

\* ... and CancelCaptureApprovals follows: the rows, then one waiter list after
\* the other. A closing authority refuses.
CancelCaptureApprovals ==
    /\ capture = "revoked" /\ ~closing
    /\ capture' = "canceling"
    /\ CancelRows("capture", Owned)
    /\ UNCHANGED <<askVars, registryVars, lapsed, requestCount, waiterCount, decidedBy, command,
                   clear, stale, closing, shutdown, historyVars>>

CaptureCanceled ==
    /\ capture = "canceling" /\ owed["capture"] = {}
    /\ capture' = "canceled"
    /\ UNCHANGED <<askVars, registryVars, rowVars, command, clear, stale, closing, shutdown,
                   owed, historyVars>>

\* The loop over the canceled records.
ResolveCanceled(x, e) ==
    /\ e \in owed[x]
    /\ owed' = [owed EXCEPT ![x] = @ \ {e}]
    /\ Resolve(e, "canceled")
    /\ UNCHANGED <<askVars, ready, rowVars, command, clear, stale, capture, closing, shutdown,
                   historyVars>>
-----------------------------------------------------------------------------
\* ClearEvidence: BeginArchiveClear queues for every slot ...
WantClear ==
    /\ Clears /\ clear = "idle" /\ ~closing
    /\ clear' = "waiting"
    /\ UNCHANGED <<askVars, registryVars, rowVars, command, stale, capture, closing, shutdown,
                   owed, historyVars>>

AcquireClear ==
    /\ clear = "waiting"
    /\ \A w \in Asks : ~AskHolds(w)
    /\ \A c \in Commands : ~CommandHolds(c)
    /\ clear' = IF closing THEN "done" ELSE "held"
    /\ UNCHANGED <<askVars, registryVars, rowVars, command, stale, capture, closing, shutdown,
                   owed, historyVars>>

\* The caller's context ends before every slot is free.
ClearGivesUp ==
    /\ clear = "waiting"
    /\ clear' = "done"
    /\ UNCHANGED <<askVars, registryVars, rowVars, command, stale, capture, closing, shutdown,
                   owed, historyVars>>

\* ... ClearRecordingArchive deletes every row and moves the epoch on, or fails ...
CommitClear ==
    /\ clear = "held"
    /\ clear' = "committed"
    /\ row' = [e \in Asks |-> IF row[e] = "none" THEN "none" ELSE "deleted"]
    /\ stale' = {w \in ToolIntents : phase[w] # "idle"}
    /\ refused' = {w \in Asks : phase[w] \notin Outcomes \union {"idle", "begun"}
                                /\ result[w] = "none"}
    /\ UNCHANGED <<askVars, registryVars, lapsed, requestCount, waiterCount, decidedBy, command,
                   capture, closing, shutdown, owed, orphaned, restarts>>

ClearFails ==
    /\ clear = "held"
    /\ clear' = "done"
    /\ UNCHANGED <<askVars, registryVars, rowVars, command, stale, capture, closing, shutdown,
                   owed, historyVars>>

\* Mutant: the registry is left to the decisions to come.
ClearedKept == UNCHANGED <<result, waiters>>

\* resolveArchiveClear: every waiter that is left is told so.
Cleared ==
    /\ result' = [w \in Asks |-> IF \E e \in Asks : w \in waiters[e] THEN "canceled" ELSE result[w]]
    /\ waiters' = [e \in Asks |-> {}]

\* ... and Complete(true) tells the waiters and opens the gate.
CompleteClear ==
    /\ clear = "committed"
    /\ clear' = "done"
    /\ Cleared
    /\ UNCHANGED <<askVars, ready, rowVars, command, stale, capture, closing, shutdown, owed,
                   historyVars>>
-----------------------------------------------------------------------------
CloseAuthority ==
    /\ Stops /\ ~closing
    /\ closing' = TRUE /\ shutdown' = "closing"
    /\ UNCHANGED <<askVars, registryVars, rowVars, command, clear, stale, capture, owed,
                   historyVars>>

\* Shutdown's CancelPending; when it fails nobody is told.
CancelPending ==
    /\ shutdown = "closing"
    /\ shutdown' = "canceling"
    /\ \/ CancelRows("shutdown", Asks)
       \/ StoreMayFail /\ UNCHANGED <<row, owed>>
    /\ UNCHANGED <<askVars, registryVars, lapsed, requestCount, waiterCount, decidedBy, command,
                   clear, stale, capture, closing, historyVars>>

\* Mutant: a call that is rejected stays counted.
ActiveStill == \E w \in ToolIntents : phase[w] \notin {"idle", "allowed"}

\* Authority.active: the calls begin has let in. A call that asks the network or
\* for a client root is not among them.
Active ==
    \/ \E w \in ToolIntents : phase[w] \notin Outcomes \union {"idle"}
    \/ \E c \in Commands : CommandHolds(c)
    \/ clear \in {"waiting", "held", "committed"}
    \/ capture = "canceling"

ShutdownReturns ==
    /\ shutdown = "canceling" /\ owed["shutdown"] = {}
    /\ ~Active
    /\ shutdown' = "returned"
    /\ UNCHANGED <<askVars, registryVars, rowVars, command, clear, stale, capture, closing, owed,
                   historyVars>>

\* The wait for active ends with Shutdown's context.
ShutdownGivesUp ==
    /\ shutdown = "canceling" /\ owed["shutdown"] = {}
    /\ Active
    /\ shutdown' = "gaveUp"
    /\ UNCHANGED <<askVars, registryVars, rowVars, command, clear, stale, capture, closing, owed,
                   historyVars>>

\* The process is lost and a new one recovers: memory is gone, and Recover cancels
\* what is pending.
Restart ==
    /\ restarts < MaxRestarts
    /\ restarts' = restarts + 1
    /\ phase' = [w \in Asks |-> IF phase[w] \in Outcomes \union {"idle"} THEN phase[w] ELSE "lost"]
    /\ waiters' = [e \in Asks |-> {}] /\ ready' = [e \in Asks |-> "no"]
    /\ result' = [w \in Asks |-> "none"]
    /\ row' = [e \in Asks |-> IF row[e] = "pending" THEN "canceled" ELSE row[e]]
    /\ command' = [c \in Commands |-> IF command[c].phase \in {"admitted", "decided"}
                                      THEN [command[c] EXCEPT !.phase = "unheard", !.got = "none"]
                                      ELSE command[c]]
    /\ clear' = IF clear = "idle" THEN "idle" ELSE "done"
    /\ capture' = IF capture = "canceling" THEN "revoked" ELSE capture
    /\ closing' = FALSE /\ shutdown' = "idle" /\ owed' = [x \in Cancelers |-> {}]
    /\ orphaned' = {}
    /\ UNCHANGED <<entryOf, lapsed, requestCount, waiterCount, decidedBy, stale, refused>>

Next ==
    \/ \E w \in Asks :
           \/ Begin(w) \/ AcquirePublication(w) \/ GiveUp(w) \/ Register(w) \/ Create(w)
           \/ Publish(w) \/ PublishFailure(w) \/ JoinerRejected(w) \/ JoinerWaits(w)
           \/ Receive(w) \/ Depart(w) \/ Withdraw(w) \/ Lapse(w)
    \/ \E c \in Commands : BeginDecision(c) \/ Decide(c) \/ PublishDecision(c) \/ RememberFails(c)
    \/ RevokeCapture \/ CancelCaptureApprovals \/ CaptureCanceled
    \/ \E x \in Cancelers, e \in Asks : ResolveCanceled(x, e)
    \/ WantClear \/ AcquireClear \/ ClearGivesUp \/ CommitClear \/ ClearFails \/ CompleteClear
    \/ CloseAuthority \/ CancelPending \/ ShutdownReturns \/ ShutdownGivesUp
    \/ Restart

Spec == Init /\ [][Next]_vars

(***************************************************************************)
(* Every goroutine that can run does, and a repository call returns.       *)
(* Nothing is assumed of the person, of callers that give up, of the       *)
(* process or, as long as the authority is open, of time. Once it closes,  *)
(* the timer every ask starts when it registers is counted on to fire.     *)
(***************************************************************************)
Fairness ==
    /\ \A w \in Asks :
           /\ WF_vars(AcquirePublication(w)) /\ WF_vars(Register(w)) /\ WF_vars(Create(w))
           /\ WF_vars(Publish(w)) /\ WF_vars(PublishFailure(w)) /\ WF_vars(JoinerRejected(w))
           /\ WF_vars(JoinerWaits(w)) /\ WF_vars(Receive(w)) /\ WF_vars(Withdraw(w))
           /\ WF_vars(closing /\ Depart(w))
    /\ \A c \in Commands : WF_vars(Decide(c)) /\ WF_vars(PublishDecision(c) \/ RememberFails(c))
    /\ \A x \in Cancelers, e \in Asks : WF_vars(ResolveCanceled(x, e))
    /\ WF_vars(CaptureCanceled)
    /\ WF_vars(AcquireClear) /\ WF_vars(CommitClear \/ ClearFails) /\ WF_vars(CompleteClear)
    /\ WF_vars(CancelPending) /\ WF_vars(ShutdownReturns)

FairSpec == Spec /\ Fairness
-----------------------------------------------------------------------------
(***************************************************************************)
(* Properties                                                              *)
(***************************************************************************)
\* Every variable has the type of its Go field or column.
TypeOK ==
    /\ phase \in [Asks -> AskPhases]
    /\ entryOf \in [Asks -> Asks \union {None}]
    /\ waiters \in [Asks -> SUBSET Asks]
    /\ ready \in [Asks -> {"no", "created", "failed"}]
    /\ result \in [Asks -> {"none"} \union Terminal]
    /\ row \in [Asks -> RowStates]
    /\ lapsed \subseteq Asks /\ stale \subseteq Asks
    /\ requestCount \in [Asks -> Int] /\ waiterCount \in [Asks -> Int]
    /\ command \in [Commands ->
           [phase : {"idle", "admitted", "decided", "unheard", "done"},
            rec : Asks \union {None}, decision : {"allowed", "denied"},
            got : {"none"} \union Terminal]]
    /\ decidedBy \in [Asks -> Commands \union {None}]
    /\ clear \in {"idle", "waiting", "held", "committed", "done"}
    /\ capture \in {"active", "revoked", "canceling", "canceled"}
    /\ closing \in BOOLEAN
    /\ shutdown \in {"idle", "closing", "canceling", "returned", "gaveUp"}
    /\ owed \in [Cancelers -> SUBSET Asks]
    /\ orphaned \subseteq Asks /\ refused \subseteq Asks /\ restarts \in 0..MaxRestarts

\* Nobody proceeds without a person: a caller that was allowed, or is about to
\* read that it was, waits on a row that a command to allow has decided. Every
\* timeout, failure, cancellation, clearing and shutdown rejects.
NobodyWithoutAnAllow ==
    \A w \in Asks :
        phase[w] = "allowed" \/ result[w] = "allowed" =>
            \E c \in Commands : decidedBy[entryOf[w]] = c /\ command[c].decision = "allowed"

\* What a waiter is told is what its row records, whoever told it and in whatever
\* order the cancelers came: no waiter hears an answer that lost the race.
AnswersAreRecorded ==
    \A w \in Asks : result[w] # "none" => row[entryOf[w]] \in {result[w], "deleted"}

\* A question with no one waiting is canceled rather than left standing
\* (tool_approval_repository.go:571): behind every pending row there is a waiter,
\* or a caller that is leaving and will see to it, unless its cancellation failed.
PendingHasAudience ==
    \A e \in Asks : row[e] = "pending" =>
        \/ waiters[e] # {}
        \/ \E w \in Asks : entryOf[w] = e /\ phase[w] \in {"leaving", "leavingEarly"}
        \/ e \in orphaned

\* Nobody is left waiting on a question that is over: whoever ended the row has
\* still to tell the waiters in the registry, or failed to put the rule in force
\* and may be asked again.
NobodyStranded ==
    \A e \in Asks : waiters[e] # {} /\ row[e] \in Terminal \union {"deleted"} =>
        \/ \E c \in Commands : command[c].rec = e /\
               (command[c].phase = "decided" \/ (decidedBy[e] = c /\ command[c].phase # "done"))
        \/ \E x \in Cancelers : e \in owed[x]
        \/ clear = "committed"

\* Clearing waits for every publication slot and lets nobody new have one: each
\* slot is held by a caller whose next step waits for no person and no timer, or by
\* one that joins a row whose creator is such a caller.
ClearNotBlocked ==
    clear = "waiting" => \A w \in Asks : AskHolds(w) =>
        \/ ENABLED (Register(w) \/ Create(w) \/ Publish(w) \/ PublishFailure(w)
                    \/ JoinerRejected(w) \/ JoinerWaits(w) \/ Withdraw(w))
        \/ phase[w] = "joining" /\ phase[entryOf[w]] \in {"creating", "created", "failed"}

\* Once CancelCaptureApprovals has returned, no question of the Capture is
\* pending, and a caller that was on its way does not open one.
RevokedCaptureIsQuiet ==
    capture = "canceled" => \A e \in Owned : row[e] # "pending"

\* Who still waited when the archive was cleared is never allowed afterwards: no
\* decision crosses the clear between its commit and its publication.
ClearedAreRefused == \A w \in refused : phase[w] # "allowed"

\* The counts of a row stay readable: Record.Validate refuses a row without a
\* waiter or with more waiters than requests, and a row that cannot be read
\* cannot be decided. Callers join and leave in any order, and a caller may leave
\* that never counted itself in.
CountsReadable ==
    \A e \in Asks : 1 <= waiterCount[e] /\ waiterCount[e] <= requestCount[e]

\* A row that is decided, canceled or expired stays as it is, whoever of the
\* person, the waiters, the Capture, shutdown and recovery comes second.
TerminalIsFinal ==
    [][\A e \in Asks : row[e] \in Terminal => row'[e] \in {row[e], "deleted"}]_vars

\* The registry and the rows are sound: types, and counts that can be read.
RowsReadable == TypeOK /\ CountsReadable

\* Every answer is a person's: nobody proceeds without a recorded Allow, what a
\* waiter is told is what the row records, and no decision crosses a clear.
AnswersAreDecisions == NobodyWithoutAnAllow /\ AnswersAreRecorded /\ ClearedAreRefused

\* A decision reaches everybody who waits on it, a joiner that came in between
\* included, without the help of any timer while the authority is open.
DecisionReachesAll ==
    \A w \in Asks :
        (phase[w] = "waiting" /\ row[entryOf[w]] \in Terminal) ~> phase[w] \in Outcomes

\* Shutdown returns, although a caller on its way in may open a question after
\* everything pending was canceled: that one waits for its timer.
ShutdownEnds == shutdown = "closing" ~> shutdown \in {"returned", "gaveUp"}

\* Nobody hangs: decisions reach their waiters and shutdown ends.
Progress == DecisionReachesAll /\ ShutdownEnds
=============================================================================
