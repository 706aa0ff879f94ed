----------------------------- MODULE RawEvidence -----------------------------
(***************************************************************************)
(* The raw-evidence writer (internal/rawevidence/manager.go and            *)
(* capture_buffer.go) with the budget it is charged to (internal/recording *)
(* /budget.go). Requests publish envelopes into a bounded channel; one     *)
(* worker batches and appends them. A Capture's scope is closed by a       *)
(* two-phase terminal transition that first drains the leases of the       *)
(* requests and then flushes what they published.                          *)
(*                                                                         *)
(* A request makes one observation, which is named by the request. Sizes   *)
(* are small numbers: Charge is the first reservation, Growth what a body  *)
(* or the trailers add, Scratch the workspace of an append. A stamp is     *)
(* stale once the archive epoch has advanced. A broadcast by closing       *)
(* scopeChanged signals the calls that wait on the channel then.           *)
(***************************************************************************)
EXTENDS Integers, Sequences, FiniteSetsExt, SequencesExt

CONSTANTS
    Requests,      \* the requests, each with one observation
    ScopeOf,       \* the Capture scope of each request
    Terminals,     \* the calls of PrepareTerminalScope and SealTerminalScope
    TerminalOf,    \* the scope each of them closes
    Flushing,      \* the calls that flush (PrepareTerminalScope)
    Owner,         \* the owner of the recording storage, who flushes in maintenance
    Captures,      \* the requests that observe through a CaptureBuffer
    Charge,        \* observationCharge of each observation
    Growth,        \* what a body or trailers add to it
    Scratch,       \* the workspace of commit
    RecordLimit,   \* recording.Limits.Records
    ByteLimit,     \* recording.Limits.Bytes
    QueueLimit,    \* Config.MaximumQueueRecords
    BatchLimit,    \* Config.MaximumBatchRecords
    BatchBytes,    \* Config.MaximumBatchBytes
    MaxPauses,     \* bound: how often maintenance pauses the offers
    MaxClears,     \* bound: how often the archive epoch advances
    None

ASSUME RawEvidenceAssumption ==
    /\ IsFiniteSet(Requests) /\ Owner \notin Terminals /\ Flushing \subseteq Terminals /\ Captures \subseteq Requests
    /\ {Growth, Scratch, RecordLimit, ByteLimit, QueueLimit, BatchLimit, BatchBytes}
           \subseteq Nat \ {0}
    /\ \A r \in Requests : Charge[r] \in Nat \ {0}
    /\ BatchLimit <= QueueLimit
    /\ {MaxPauses, MaxClears} \subseteq Nat
    /\ None \notin Requests \union Terminals \union {Owner}

VARIABLES
    lease,            \* the scope lease of each request
    phase,            \* where the observation of each request stands
    weight,           \* CaptureBuffer.weight, queuedEnvelope.weight
    charge,           \* Reservation.bytes, 0 once released
    reservedRecords,  \* Budget.statistics.ReservedRecords
    reservedBytes,    \* Budget.statistics.ReservedBytes
    stale,            \* the requests whose stamp is of an earlier epoch
    accepting,        \* Manager.accepting
    sequence,         \* the watermark of each admitted observation, 0 before
    scopeLatest,      \* Manager.scopeLatest, 0 when absent
    queue,            \* Manager.records
    batch,            \* the worker's batch
    worker,           \* where the worker stands
    settled,          \* Statistics.SettledSequence
    durable,          \* Statistics.DurableWatermark
    queueBytes,       \* Statistics.QueueBytes
    scope,            \* scopeState: active leases and phase
    scopeAccepting,   \* Manager.scopeAccepting
    terminal,         \* where each terminal call stands
    signaled,         \* the terminal calls whose channel was closed
    flush,            \* the flush of each caller
    shutdown,         \* where ShutdownOwned stands
    pauses, clears,   \* how often offers were paused, the epoch advanced
    maintenance       \* where the owner's maintenance stands

budgetVars == <<weight, charge, reservedRecords, reservedBytes>>
admitVars  == <<accepting, sequence, scopeLatest>>
workerVars == <<queue, batch, worker, settled, durable, queueBytes>>
scopeVars  == <<scope, scopeAccepting, terminal, signaled>>
ownerVars  == <<shutdown, pauses, maintenance>>
vars == <<lease, phase, budgetVars, stale, clears, admitVars, workerVars, scopeVars, flush, ownerVars>>

Scopes  == {ScopeOf[r] : r \in Requests} \union {TerminalOf[t] : t \in Terminals}
Callers == Terminals \union {Owner}

\* "offering" has a reservation and publishes next. The last three are settled.
Outcomes == {"persisted", "unconfirmed", "discarded"}
Phases   == Outcomes \union
                {"idle", "running", "reserved", "capturing", "offering", "queued", "dropped"}

\* "queued" waits for another terminal call, "draining" for the leases; "holding"
\* has the TerminalScope in hand; "joined" found the scope sealed.
TerminalPhases == {"idle", "queued", "draining", "drained", "flushing", "holding",
                   "committed", "aborted", "joined", "failed"}
Owners(s) == {t \in Terminals : TerminalOf[t] = s
                  /\ terminal[t] \in {"draining", "drained", "flushing", "holding"}}

NoFlush == [at |-> "idle", target |-> 0]
Idle    == [at |-> "select", why |-> "none", flusher |-> None, carry |-> None,
            outcome |-> "discarded", failed |-> FALSE]

\* The sum of f over S, as the size of a set with f[r] cells for each r.
Cells(f, S) == UNION {{r} \X (1 .. f[r]) : r \in S}
Total(f, S) == Cardinality(Cells(f, S))
Weight(S)   == Total(weight, S)
Charged(S)  == Total(charge, S)
Next1       == Cardinality({r \in Requests : sequence[r] > 0}) + 1

Init ==
    /\ lease = [r \in Requests |-> "none"] /\ phase = [r \in Requests |-> "idle"]
    /\ weight = [r \in Requests |-> 0] /\ charge = [r \in Requests |-> 0]
    /\ reservedRecords = 0 /\ reservedBytes = 0
    /\ stale = {} /\ clears = 0
    /\ accepting = TRUE /\ sequence = [r \in Requests |-> 0]
    /\ scopeLatest = [s \in Scopes |-> 0]
    /\ queue = <<>> /\ batch = <<>> /\ worker = Idle
    /\ settled = 0 /\ durable = 0 /\ queueBytes = 0
    /\ scope = [s \in Scopes |-> [active |-> 0, phase |-> "open"]] /\ scopeAccepting = TRUE
    /\ terminal = [t \in Terminals |-> "idle"] /\ signaled = {}
    /\ flush = [c \in Callers |-> NoFlush]
    /\ shutdown = "idle" /\ pauses = 0 /\ maintenance = "idle"

Step(r, from, to) == phase[r] = from /\ phase' = [phase EXCEPT ![r] = to]
-----------------------------------------------------------------------------
(***************************************************************************)
(* The scope lease of a request, and its observation. Every waiting call   *)
(* is signaled by notifyScopeLocked.                                       *)
(***************************************************************************)
Waiting == {t \in Terminals : terminal[t] \in {"queued", "draining"}}
Notify  == signaled' = signaled \union Waiting

\* BeginScope. The proxy goes on without a lease when it is refused.
BeginScope(r) ==
    LET s == ScopeOf[r]
        admitted == scopeAccepting /\ scope[s].phase = "open"
    IN  /\ Step(r, "idle", "running")
        /\ lease' = [lease EXCEPT ![r] = IF admitted THEN "held" ELSE "refused"]
        /\ \/ admitted /\ scope' = [scope EXCEPT ![s].active = @ + 1] /\ Notify
           \/ ~admitted /\ UNCHANGED <<scope, signaled>>
        /\ UNCHANGED <<budgetVars, stale, clears, admitVars, workerVars, scopeAccepting,
                       terminal, flush, ownerVars>>

\* Mutant: the last lease is returned without waking the terminal call.
ReleaseQuietly(r) ==
    /\ lease[r] = "held" /\ phase[r] \notin {"idle", "running", "reserved", "capturing", "offering"}
    /\ lease' = [lease EXCEPT ![r] = "released"]
    /\ scope' = [scope EXCEPT ![ScopeOf[r]].active = @ - 1]
    /\ UNCHANGED <<phase, budgetVars, stale, clears, admitVars, workerVars, scopeAccepting,
                   terminal, signaled, flush, ownerVars>>

\* requestScopeLease.Release, deferred until the exchange is over.
Release(r) ==
    /\ lease[r] = "held" /\ phase[r] \notin {"idle", "running", "reserved", "capturing", "offering"}
    /\ lease' = [lease EXCEPT ![r] = "released"]
    /\ scope' = [scope EXCEPT ![ScopeOf[r]].active = @ - 1] /\ Notify
    /\ UNCHANGED <<phase, budgetVars, stale, clears, admitVars, workerVars, scopeAccepting,
                   terminal, flush, ownerVars>>

\* Budget.TryReserve
CanReserve(n) == reservedRecords < RecordLimit /\ n <= ByteLimit - reservedBytes

Reserve(r) ==
    /\ charge' = [charge EXCEPT ![r] = Charge[r]] /\ weight' = [weight EXCEPT ![r] = Charge[r]]
    /\ reservedRecords' = reservedRecords + 1
    /\ reservedBytes' = reservedBytes + Charge[r]

\* Reservation.TryGrow
CanGrow(n) == n <= ByteLimit - reservedBytes

Grow(r, n) ==
    /\ charge' = [charge EXCEPT ![r] = @ + n]
    /\ reservedBytes' = reservedBytes + n

\* Mutant: the weight of the record is given back, and the workspace is not.
ReleaseWeights(S) ==
    /\ charge' = [r \in Requests |-> IF r \in S THEN 0 ELSE charge[r]]
    /\ reservedRecords' = reservedRecords - Cardinality({r \in S : charge[r] > 0})
    /\ reservedBytes' = reservedBytes - Weight(S)

\* Reservation.Release of each: what the reservation holds now, scratch included.
ReleaseAll(S) ==
    /\ charge' = [r \in Requests |-> IF r \in S THEN 0 ELSE charge[r]]
    /\ reservedRecords' = reservedRecords - Cardinality({r \in S : charge[r] > 0})
    /\ reservedBytes' = reservedBytes - Charged(S)

\* TryReserve of Observe and of Capture; a stale stamp and a full budget drop it.
Offer(r) ==
    /\ \/ /\ r \notin stale /\ CanReserve(Charge[r])
          /\ Step(r, "running", IF r \in Captures THEN "reserved" ELSE "offering")
          /\ Reserve(r)
       \/ /\ r \in stale \/ ~CanReserve(Charge[r])
          /\ Step(r, "running", "dropped")
          /\ UNCHANGED budgetVars
    /\ UNCHANGED <<lease, stale, clears, admitVars, workerVars, scopeVars, flush, ownerVars>>

\* Capture looks at the admission before it makes a buffer.
OpenCapture(r) ==
    LET open == accepting /\ scope[ScopeOf[r]].phase # "sealed"
    IN  /\ Step(r, "reserved", IF open THEN "capturing" ELSE "dropped")
        /\ \/ open /\ UNCHANGED <<charge, reservedRecords, reservedBytes>>
           \/ ~open /\ ReleaseAll({r})
        /\ UNCHANGED <<lease, weight, stale, clears, admitVars, workerVars, scopeVars, flush,
                       ownerVars>>

\* ObserveBytes; without budget the buffer is frozen and the prefix is kept.
\* Bound: a body grows once.
ObserveBytes(r) ==
    /\ phase[r] = "capturing" /\ weight[r] = Charge[r] /\ CanGrow(Growth)
    /\ Grow(r, Growth) /\ weight' = [weight EXCEPT ![r] = @ + Growth]
    /\ UNCHANGED <<lease, phase, reservedRecords, stale, clears, admitVars, workerVars,
                   scopeVars, flush, ownerVars>>

\* Finish up to publish: a stale stamp or trailers beyond the budget drop it.
FinishCapture(r) ==
    /\ \/ /\ r \notin stale /\ CanGrow(Growth)
          /\ Step(r, "capturing", "offering")
          /\ Grow(r, Growth) /\ weight' = [weight EXCEPT ![r] = @ + Growth]
          /\ UNCHANGED reservedRecords
       \/ /\ r \in stale \/ ~CanGrow(Growth)
          /\ Step(r, "capturing", "dropped")
          /\ ReleaseAll({r}) /\ UNCHANGED weight
    /\ UNCHANGED <<lease, stale, clears, admitVars, workerVars, scopeVars, flush,
                   ownerVars>>

Discard(r) ==
    /\ Step(r, "capturing", "dropped")
    /\ ReleaseAll({r})
    /\ UNCHANGED <<lease, weight, stale, clears, admitVars, workerVars, scopeVars, flush,
                   ownerVars>>

\* Mutant: publish does not look at accepting.
AdmitsAlways(r) ==
    /\ r \notin stale
    /\ scope[ScopeOf[r]].phase # "sealed"
    /\ Len(queue) < QueueLimit

\* Mutant: publish appends to the channel whatever it holds.
AdmitsUnbounded(r) ==
    /\ accepting
    /\ r \notin stale
    /\ scope[ScopeOf[r]].phase # "sealed"

\* publish's conditions: the manager, the stamp, the scope and the channel.
Admits(r) ==
    /\ accepting
    /\ r \notin stale
    /\ scope[ScopeOf[r]].phase # "sealed"
    /\ Len(queue) < QueueLimit

\* publish, under the admission lock.
Publish(r) ==
    \/ /\ Admits(r)
       /\ Step(r, "offering", "queued")
       /\ sequence' = [sequence EXCEPT ![r] = Next1]
       /\ scopeLatest' = [scopeLatest EXCEPT ![ScopeOf[r]] = Next1]
       /\ queue' = Append(queue, r)
       /\ queueBytes' = queueBytes + weight[r]
       /\ UNCHANGED <<lease, budgetVars, stale, clears, accepting, batch, worker, settled,
                      durable, scopeVars, flush, ownerVars>>
    \/ /\ ~Admits(r)
       /\ Step(r, "offering", "dropped")
       /\ ReleaseAll({r})
       /\ UNCHANGED <<lease, weight, stale, clears, admitVars, workerVars, scopeVars, flush,
                      ownerVars>>

\* The archive is cleared: every stamp that was issued is stale.
AdvanceEpoch ==
    /\ clears < MaxClears /\ clears' = clears + 1
    /\ stale' = {r \in Requests : phase[r] # "idle"}
    /\ UNCHANGED <<lease, phase, budgetVars, admitVars, workerVars, scopeVars, flush, ownerVars>>
-----------------------------------------------------------------------------
(***************************************************************************)
(* The worker: run, drainRecords, commit and settle. worker.why is what    *)
(* the commit under way is for, worker.flusher the request being served,   *)
(* worker.carry the record that did not fit into the batch.                *)
(***************************************************************************)
Full(b) == Len(b) >= BatchLimit \/ Weight(Range(b)) >= BatchBytes

\* commit: one stale stamp, or no workspace, discards the batch.
Commit(b, why, carry) ==
    LET appends == Range(b) \intersect stale = {} /\ CanGrow(Scratch)
    IN  /\ batch' = b
        /\ worker' = [worker EXCEPT !.why = why, !.carry = carry,
                          !.at = IF appends THEN "appending" ELSE "settling",
                          !.outcome = "discarded", !.failed = FALSE]
        /\ IF appends THEN Grow(b[1], Scratch) ELSE UNCHANGED <<charge, reservedBytes>>

Accept(r) ==
    LET b == Append(batch, r)
    IN  IF Full(b) THEN Commit(b, "full", None)
        ELSE /\ batch' = b
             /\ worker' = [worker EXCEPT !.carry = None,
                               !.at = IF worker.flusher = None THEN "select" ELSE "drain"]
             /\ UNCHANGED <<charge, reservedBytes>>

Working == UNCHANGED <<lease, phase, weight, reservedRecords, stale, clears, admitVars, settled,
                       durable, queueBytes, scopeVars, ownerVars>>

\* A record from the channel; when it does not fit, the batch goes first.
TakeRecord ==
    /\ worker.at \in {"select", "drain"} /\ queue # <<>>
    /\ queue' = Tail(queue)
    /\ LET r == Head(queue)
       IN  IF batch # <<>> /\ Weight(Range(batch)) + weight[r] > BatchBytes
           THEN Commit(batch, "overflow", r)
           ELSE Accept(r)
    /\ Working /\ UNCHANGED flush

AcceptCarry ==
    /\ worker.at = "carrying"
    /\ Accept(worker.carry)
    /\ Working /\ UNCHANGED <<queue, flush>>

FlushTimer ==
    /\ worker.at = "select" /\ batch # <<>>
    /\ Commit(batch, "timer", None)
    /\ Working /\ UNCHANGED <<queue, flush>>

\* The worker receives a flush request.
TakeFlush(c) ==
    /\ worker.at = "select" /\ flush[c].at = "asking"
    /\ flush' = [flush EXCEPT ![c].at = "asked"]
    /\ worker' = [worker EXCEPT !.at = "drain", !.flusher = c]
    /\ Working /\ UNCHANGED <<charge, reservedBytes, queue, batch>>

\* The caller may have left; the result channel is buffered.
Reply(c, ok) ==
    flush' = [flush EXCEPT ![c].at = IF @ # "asked" THEN @ ELSE IF ok THEN "ok" ELSE "error"]

\* drainRecords found the channel empty.
DrainEnds ==
    /\ worker.at = "drain" /\ queue = <<>>
    /\ \/ /\ batch # <<>> /\ Commit(batch, "flush", None) /\ UNCHANGED flush
       \/ /\ batch = <<>>
          /\ Reply(worker.flusher, settled >= flush[worker.flusher].target)
          /\ worker' = Idle
          /\ UNCHANGED <<charge, reservedBytes, batch>>
    /\ Working /\ UNCHANGED queue

\* AppendBatch returns. ErrObservationDiscarded and an ambiguous write are errors.
AppendReturns ==
    /\ worker.at = "appending"
    /\ \E outcome \in Outcomes :
           worker' = [worker EXCEPT !.at = "settling", !.outcome = outcome,
                                    !.failed = outcome # "persisted"]
    /\ Working /\ UNCHANGED <<charge, reservedBytes, queue, batch, flush>>

LastOf(b) == sequence[b[Len(b)]]

\* Mutant: the durable watermark is the highest persisted sequence.
DurableHighest(b) == LastOf(b)

\* The contiguous confirmed prefix.
DurableAfter(b) ==
    IF \E i \in DOMAIN b : sequence[b[i]] = durable + 1 THEN LastOf(b) ELSE durable

\* settle up to the admission lock: the statistics, and the scope watermarks that
\* the batch reaches.
SettleStatistics ==
    /\ worker.at = "settling"
    /\ worker' = [worker EXCEPT !.at = "releasing"]
    /\ durable' = IF worker.outcome = "persisted" THEN DurableAfter(batch) ELSE durable
    /\ queueBytes' = queueBytes - Weight(Range(batch))
    /\ scopeLatest' = [s \in Scopes |->
           IF \E r \in Range(batch) : ScopeOf[r] = s /\ scopeLatest[s] <= sequence[r]
           THEN 0 ELSE scopeLatest[s]]
    /\ UNCHANGED <<lease, phase, budgetVars, stale, clears, accepting, sequence, queue, batch,
                   settled, scopeVars, flush, ownerVars>>

\* The rest of settle, and what commit's caller does then. Only an append can
\* fail: a discarded batch is no error, and the error of an overflow is ignored.
SettleRelease ==
    LET failed == worker.failed
    IN  /\ worker.at = "releasing"
        /\ phase' = [r \in Requests |-> IF r \in Range(batch) THEN worker.outcome ELSE phase[r]]
        /\ ReleaseAll(Range(batch))
        /\ settled' = Max({settled, LastOf(batch)})
        /\ batch' = <<>>
        /\ CASE worker.why = "overflow" ->
                    /\ worker' = [worker EXCEPT !.at = "carrying", !.outcome = "discarded"]
                    /\ UNCHANGED flush
             [] worker.why = "exit" ->
                    /\ worker' = [worker EXCEPT !.at = "exiting"]
                    /\ UNCHANGED flush
             [] worker.why \in {"full", "flush"} /\ worker.flusher # None
                /\ (failed \/ worker.why = "flush") ->
                    /\ Reply(worker.flusher,
                             ~failed /\ settled' >= flush[worker.flusher].target)
                    /\ worker' = Idle
             [] OTHER ->
                    /\ worker' = [worker EXCEPT !.outcome = "discarded", !.failed = FALSE,
                                  !.at = IF worker.flusher = None THEN "select" ELSE "drain"]
                    /\ UNCHANGED flush
        /\ UNCHANGED <<lease, weight, stale, clears, admitVars, queue, durable, queueBytes,
                       scopeVars, ownerVars>>

Canceled == shutdown \in {"canceled", "joined"}

\* The worker's context ends: the batch, and then each record in the channel, is
\* settled as discarded.
Exit ==
    /\ \/ worker.at = "select" /\ Canceled
       \/ worker.at = "exiting"
    /\ LET rest == IF batch # <<>> \/ queue = <<>> THEN batch ELSE <<Head(queue)>>
       IN  /\ batch' = rest
           /\ queue' = IF batch # <<>> \/ queue = <<>> THEN queue ELSE Tail(queue)
           /\ worker' = [Idle EXCEPT !.why = "exit",
                             !.at = IF rest = <<>> THEN "exited" ELSE "settling"]
    /\ Working /\ UNCHANGED <<charge, reservedBytes, flush>>
-----------------------------------------------------------------------------
(***************************************************************************)
(* Flush, and the two-phase terminal transition of a scope.                *)
(***************************************************************************)
\* Flush(c, target) up to the request: everything the target covers may be settled.
Ask(c, target) ==
    flush' = [flush EXCEPT ![c] = [target |-> target,
                  at |-> IF settled >= target THEN "ok" ELSE "asking"]]

\* The caller's context ends, or the worker's.
FlushGivesUp(c) ==
    /\ flush[c].at \in {"asking", "asked"}
    /\ flush' = [flush EXCEPT ![c].at = "error"]
    /\ UNCHANGED <<lease, phase, budgetVars, stale, clears, admitVars, workerVars, scopeVars,
                   ownerVars>>

Terminally(t, from, to) ==
    terminal[t] \in from /\ terminal' = [terminal EXCEPT ![t] = to]

\* What a terminal call leaves alone.
Terminating == UNCHANGED <<lease, phase, budgetVars, stale, clears, accepting, sequence,
                           workerVars, scopeAccepting, ownerVars>>

\* prepareTerminalScope's loop: the first look, and one for each broadcast.
PrepareTerminalScope(t) ==
    LET s == TerminalOf[t]
        to == IF ~scopeAccepting THEN "failed"
              ELSE CASE scope[s].phase = "preparing" -> "queued"
                     [] scope[s].phase = "sealed" -> "joined"
                     [] scope[s].phase = "open" ->
                            IF scope[s].active = 0 THEN "drained" ELSE "draining"
    IN  /\ terminal[t] = "queued" => t \in signaled
        /\ Terminally(t, {"idle", "queued"}, to)
        /\ \/ /\ to \in {"drained", "draining"}
              /\ scope' = [scope EXCEPT ![s].phase = "preparing"]
              /\ signaled' = (signaled \union Waiting) \ {t}
           \/ /\ to \notin {"drained", "draining"}
              /\ signaled' = signaled \ {t} /\ UNCHANGED scope
        /\ Terminating /\ UNCHANGED <<scopeLatest, flush>>

\* The call wakes and looks at the leases again.
Drain(t) ==
    /\ t \in signaled /\ signaled' = signaled \ {t}
    /\ Terminally(t, {"draining"},
                  IF scope[TerminalOf[t]].active = 0 THEN "drained" ELSE "draining")
    /\ Terminating /\ UNCHANGED <<scope, scopeLatest, flush>>

\* reopenPreparingScope, or an abort: the scope is open again.
Reopen(t) ==
    /\ scope' = [scope EXCEPT ![TerminalOf[t]].phase = "open"]
    /\ signaled' = (signaled \union Waiting) \ {t}

\* The caller's context ends while it waits for the other call, or for the leases.
GiveUpQueued(t) ==
    /\ Terminally(t, {"queued"}, "failed")
    /\ signaled' = signaled \ {t}
    /\ Terminating /\ UNCHANGED <<scope, scopeLatest, flush>>

GiveUpDraining(t) ==
    /\ Terminally(t, {"draining"}, "failed")
    /\ Reopen(t)
    /\ Terminating /\ UNCHANGED <<scopeLatest, flush>>

\* Mutant: PrepareTerminalScope does not flush either.
FlushScopeNever(t) ==
    /\ Terminally(t, {"drained"}, "holding")
    /\ Terminating /\ UNCHANGED <<scope, signaled, scopeLatest, flush>>

\* FlushScope takes the scope's last watermark. SealTerminalScope does not flush.
FlushScope(t) ==
    LET latest == scopeLatest[TerminalOf[t]]
    IN  /\ \/ /\ t \notin Flushing \/ latest = 0
              /\ Terminally(t, {"drained"}, "holding") /\ UNCHANGED flush
           \/ /\ t \in Flushing /\ latest # 0
              /\ Terminally(t, {"drained"}, "flushing") /\ Ask(t, latest)
        /\ Terminating /\ UNCHANGED <<scope, signaled, scopeLatest>>

\* An error of Flush does not matter once the watermark is settled.
ScopeFlushed(t) ==
    /\ flush[t].at \in {"ok", "error"}
    /\ \/ /\ flush[t].at = "ok" \/ settled >= flush[t].target
          /\ Terminally(t, {"flushing"}, "holding")
          /\ scopeLatest' = [scopeLatest EXCEPT
                 ![TerminalOf[t]] = IF @ = flush[t].target THEN 0 ELSE @]
          /\ UNCHANGED <<scope, signaled>>
       \/ /\ flush[t].at = "error" /\ settled < flush[t].target
          /\ Terminally(t, {"flushing"}, "failed")
          /\ Reopen(t) /\ UNCHANGED scopeLatest
    /\ Terminating /\ UNCHANGED flush

\* terminalScopeLease.finish
FinishTerminal(t) ==
    /\ \/ /\ Terminally(t, {"holding"}, "committed")
          /\ scope' = [scope EXCEPT ![TerminalOf[t]].phase = "sealed"]
          /\ signaled' = signaled \union Waiting
       \/ Terminally(t, {"holding"}, "aborted") /\ Reopen(t)
    /\ Terminating /\ UNCHANGED <<scopeLatest, flush>>
-----------------------------------------------------------------------------
(***************************************************************************)
(* The goroutine that owns the recording storage (productruntime           *)
(* /recording_storage.go): it pauses the offers, flushes and then has the  *)
(* store to itself; it is also the one that shuts the writer down.         *)
(***************************************************************************)
Owning == UNCHANGED <<lease, phase, budgetVars, stale, clears, sequence, scopeLatest, workerVars,
                      scope, terminal>>

\* PauseOffers
PauseOffers ==
    /\ shutdown = "idle" /\ maintenance = "idle" /\ pauses < MaxPauses
    /\ maintenance' = "paused" /\ pauses' = pauses + 1
    /\ accepting' = FALSE
    /\ flush' = [flush EXCEPT ![Owner] = NoFlush]
    /\ Owning /\ UNCHANGED <<scopeAccepting, signaled, shutdown>>

\* Flush with the zero watermark: everything admitted so far.
OwnerFlushes ==
    /\ maintenance = "paused" /\ maintenance' = "flushing"
    /\ Ask(Owner, Next1 - 1)
    /\ Owning /\ UNCHANGED <<accepting, scopeAccepting, signaled, shutdown, pauses>>

\* A flush that failed ends the maintenance.
OwnerFlushed ==
    /\ maintenance = "flushing"
    /\ \/ flush[Owner].at = "ok" /\ maintenance' = "exclusive"
       \/ flush[Owner].at = "error" /\ maintenance' = "over"
    /\ Owning /\ UNCHANGED <<accepting, scopeAccepting, signaled, flush, shutdown, pauses>>

\* The function PauseOffers returns; it is not called once the owner's context
\* has ended or the store is no longer usable.
ResumeOffers ==
    /\ maintenance \in {"exclusive", "over"}
    /\ \/ maintenance' = "idle" /\ accepting' = (shutdown # "canceled" /\ scopeAccepting)
       \/ maintenance' = "stopped" /\ UNCHANGED accepting
    /\ Owning /\ UNCHANGED <<scopeAccepting, signaled, flush, shutdown, pauses>>

ShutdownOwned ==
    /\ shutdown = "idle" /\ maintenance \in {"idle", "stopped"}
    /\ shutdown' = "sealing"
    /\ accepting' = FALSE
    /\ Owning /\ UNCHANGED <<scopeAccepting, signaled, flush, pauses, maintenance>>

SealScopes ==
    /\ shutdown = "sealing" /\ shutdown' = "sealed"
    /\ scopeAccepting' = FALSE /\ Notify
    /\ Owning /\ UNCHANGED <<accepting, flush, pauses, maintenance>>

CancelWorker ==
    /\ shutdown = "sealed" /\ shutdown' = "canceled"
    /\ Owning /\ UNCHANGED <<accepting, scopeAccepting, signaled, flush, pauses, maintenance>>

\* executeShutdown: the worker has exited, the session is closed.
JoinWorker ==
    /\ shutdown = "canceled" /\ worker.at = "exited" /\ shutdown' = "joined"
    /\ Owning /\ UNCHANGED <<accepting, scopeAccepting, signaled, flush, pauses, maintenance>>

WorkerStep ==
    \/ TakeRecord \/ AcceptCarry \/ FlushTimer \/ DrainEnds \/ AppendReturns
    \/ SettleStatistics \/ SettleRelease \/ Exit
    \/ \E c \in Callers : TakeFlush(c)

Next ==
    \/ WorkerStep \/ AdvanceEpoch
    \/ \E r \in Requests :
           \/ BeginScope(r) \/ Offer(r) \/ OpenCapture(r) \/ ObserveBytes(r)
           \/ FinishCapture(r) \/ Discard(r) \/ Publish(r) \/ Release(r)
    \/ \E t \in Terminals :
           \/ PrepareTerminalScope(t) \/ Drain(t) \/ GiveUpQueued(t) \/ GiveUpDraining(t)
           \/ FlushScope(t) \/ ScopeFlushed(t) \/ FinishTerminal(t)
    \/ \E c \in Callers : FlushGivesUp(c)
    \/ PauseOffers \/ OwnerFlushes \/ OwnerFlushed \/ ResumeOffers
    \/ ShutdownOwned \/ SealScopes \/ CancelWorker \/ JoinWorker

Spec == Init /\ [][Next]_vars
-----------------------------------------------------------------------------
\* Admitted, and its append has not returned.
InFlight(r) ==
    phase[r] = "queued" /\ ~(r \in Range(batch) /\ worker.at \in {"settling", "releasing"})

TypeOK ==
    /\ lease \in [Requests -> {"none", "held", "refused", "released"}]
    /\ phase \in [Requests -> Phases]
    /\ weight \in [Requests -> Nat] /\ charge \in [Requests -> Nat]
    /\ stale \subseteq Requests /\ {accepting, scopeAccepting} \subseteq BOOLEAN
    /\ sequence \in [Requests -> 0..Cardinality(Requests)]
    /\ scopeLatest \in [Scopes -> 0..Cardinality(Requests)]
    /\ Range(queue) \union Range(batch) \subseteq Requests /\ Len(queue) <= QueueLimit
    /\ scope \in [Scopes -> [active : Nat, phase : {"open", "preparing", "sealed"}]]
    /\ terminal \in [Terminals -> TerminalPhases] /\ signaled \subseteq Waiting
    /\ flush \in [Callers -> [at : {"idle", "asking", "asked", "ok", "error"}, target : Nat]]

\* The observations that hold a reservation.
Live == {r \in Requests : phase[r] \in {"reserved", "capturing", "offering", "queued"}}

\* The records of the budget: each observation is counted once, from its offer until it
\* is dropped or settled, and the count stays within the limit.
RecordsExact ==
    /\ {r \in Requests : charge[r] > 0} = Live
    /\ reservedRecords = Cardinality(Live) /\ reservedRecords <= RecordLimit

\* The budget counts every record and every byte once. What it has reserved is what the
\* live observations hold, plus the workspace of the append under way; it stays below
\* the limits, and the bytes the statistics call queued are those of the records the
\* writer still owns.
BudgetExact ==
    LET owned  == {r \in Requests : phase[r] = "queued"}
        counted == IF worker.at = "releasing" THEN owned \ Range(batch) ELSE owned
        worked == worker.at = "appending"
    IN  /\ RecordsExact
        /\ reservedBytes = Charged(Live) /\ reservedBytes <= ByteLimit
        /\ worker.at \notin {"settling", "releasing"} =>
               reservedBytes = Weight(Live) + (IF worked THEN Scratch ELSE 0)
        /\ queueBytes = Weight(counted)

\* What recording keeps in memory is bounded: the budget is exact, and publish puts no
\* more into the channel than it holds.
MemoryBounded == BudgetExact /\ Len(queue) <= QueueLimit

\* The settled sequence is a watermark and the durable one a prefix: nothing at or
\* below the first is still owned by the writer, everything at or below the second
\* is persisted, however batches failed or were discarded in between.
WatermarksTrue ==
    \A r \in Requests : sequence[r] > 0 =>
        /\ sequence[r] <= settled <=> phase[r] \in Outcomes
        /\ sequence[r] <= durable =>
               \/ phase[r] = "persisted"
               \/ r \in Range(batch) /\ worker.at = "releasing" /\ worker.outcome = "persisted"

\* Nobody waits for what nobody will do. A scope in preparation has exactly one
\* owner, who will seal or reopen it; a call that waits for the leases, or for the
\* other call, has been woken when there is nothing left to wait for; a flush
\* request the worker has received is the one it is serving.
NobodyStranded ==
    /\ \A s \in Scopes :
           Cardinality(Owners(s)) = IF scope[s].phase = "preparing" THEN 1 ELSE 0
    /\ \A t \in Terminals :
           /\ terminal[t] = "draining" /\ scope[TerminalOf[t]].active = 0 => t \in signaled
           /\ terminal[t] = "queued" /\ t \notin signaled =>
                  scopeAccepting /\ scope[TerminalOf[t]].phase = "preparing"
    /\ \A c \in Callers : flush[c].at = "asked" => worker.flusher = c

\* Whoever has the TerminalScope in hand, or has committed it, shares the scope with
\* no request that holds a lease; if the call flushed, no append is under way, or
\* still to come, for a request that had one.
TerminalFence ==
    \A t \in Terminals : terminal[t] \in {"holding", "committed"} =>
        \A r \in Requests : ScopeOf[r] = TerminalOf[t] =>
            /\ lease[r] # "held"
            /\ t \in Flushing /\ lease[r] = "released" => ~InFlight(r)

\* The owner of the storage has it to itself: nothing is queued, batched or being
\* appended from the end of its flush until it resumes the offers, and nothing is
\* when the shutdown has joined the worker.
StorageAlone ==
    maintenance = "exclusive" \/ shutdown = "joined" => \A r \in Requests : ~InFlight(r)
=============================================================================
