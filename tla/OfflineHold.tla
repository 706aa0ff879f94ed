---------------------------- MODULE OfflineHold ----------------------------
(***************************************************************************)
(* The planned-offline gate of the runtime (internal/offlinehold): every   *)
(* external egress is admitted by Gate.Acquire under a logical action,     *)
(* and the operator can close the gate (Enter), know that nothing is in    *)
(* flight any more (SafeToDisconnect), probe the targets of the queued     *)
(* requests and let them go in order (Resume), or shut the gate down.      *)
(*                                                                         *)
(* A request is its RequestID together with the frozen Target and SizeBytes*)
(* of its AcquireRequest (TargetOf, SizeOf). Every action below is one     *)
(* critical section of Gate.mu. A call of Acquire that has to wait is      *)
(* followed through its select: phase[r] is where the call of request r    *)
(* stands. Gate.revision is an ever-growing counter that is only compared  *)
(* for equality with a number an operator has read earlier, so it is kept  *)
(* as the set of operators whose number is still the current one.          *)
(***************************************************************************)
EXTENDS Integers, Sequences, FiniteSets

CONSTANTS
    Requests,            \* the egress requests (AcquireRequest values)
    Actions,             \* the logical actions (ActionRequest.ActionID)
    Operators,           \* the control clients that call Enter and Resume
    Targets,             \* the probe targets
    TargetOf,            \* the frozen target of each request
    SizeOf,              \* the body size of each request
    MaxHeldRequests,     \* Config.MaxHeldRequests
    MaxHeldBytes,        \* Config.MaxHeldBytes
    ReleaseConcurrency   \* Config.ReleaseConcurrency

\* What Config.validate accepts, and validateAcquireRequest (SizeBytes >= 0).
ASSUME ConfigAssumption ==
    /\ MaxHeldRequests \in Nat \ {0}
    /\ MaxHeldBytes \in Nat \ {0}
    /\ ReleaseConcurrency \in Nat \ {0}

ASSUME RequestAssumption ==
    /\ IsFiniteSet(Requests)
    /\ IsFiniteSet(Actions)
    /\ TargetOf \in [Requests -> Targets]
    /\ SizeOf \in [Requests -> Nat]

VARIABLES
    state,        \* Gate.state
    actions,      \* the keys of Gate.actions: the action leases the gate owns
    beforeEnter,  \* those of them with ActionLease.beforeEnter
    entering,     \* Gate.entering
    active,       \* Gate.active
    queue,        \* Gate.queue, by request
    heldBytes,    \* Gate.heldBytes
    requestIDs,   \* the keys of Gate.requestIDs
    probed,       \* the keys of Gate.probed
    phase,        \* where the Acquire call of each request stands
    fresh,        \* the operators whose expected revision is Gate.revision
    control,      \* where the Enter or Resume call of each operator stands
    wanted,       \* the targets each operator read before calling Resume
    drained       \* Drain has returned nil

gateVars == <<state, actions, beforeEnter, entering, active, queue, heldBytes,
              requestIDs, probed, phase>>
vars == <<gateVars, fresh, control, wanted, drained>>

States == {"unbound", "online", "entering", "held", "probing", "releasing",
           "stopping"}

\* "queued": in Gate.queue; "granted": the waiter owns a lease its goroutine has
\* not collected yet; "canceled": shutdown canceled the waiter, its goroutine has
\* not noticed yet; "leased": the caller holds the lease.
Phases == {"none", "queued", "granted", "canceled", "leased"}
ControlPhases == {"idle", "entering", "resuming", "probing"}

\* The sizes of the requests in S together: the number of their bytes.
BytesOf(S) == Cardinality(UNION {{r} \X (1 .. SizeOf[r]) : r \in S})
PendingTargets == {TargetOf[queue[i]] : i \in 1..Len(queue)}

Init ==
    /\ state = "unbound"
    /\ actions = {} /\ beforeEnter = {} /\ entering = 0
    /\ active = 0 /\ queue = <<>> /\ heldBytes = 0
    /\ requestIDs = {} /\ probed = {}
    /\ phase = [r \in Requests |-> "none"]
    /\ fresh = {}
    /\ control = [o \in Operators |-> "idle"]
    /\ wanted = [o \in Operators |-> {}]
    /\ drained = FALSE

\* Mutant: a change that forgets to move the revision.
MutatedSilently == UNCHANGED fresh

\* mutatedLocked: the revision moves on, so no expected revision is current.
Mutated == fresh' = {}

ControlUnchanged == UNCHANGED <<control, wanted, drained>>
-----------------------------------------------------------------------------
\* Mutant: a release that does not compare with the probed targets.
ApprovedAlways(r, P) == TRUE

Approved(r, P) == TargetOf[r] \in P

\* The gate is back online only when nothing of the hold is left.
MayReopen(rest, n, acts) == rest = <<>> /\ n = 0 /\ acts = {}

\* The first k requests of the queue, those behind them, and the calls once the
\* requests of S have their lease.
Heads(q, k)  == {q[i] : i \in 1..k}
Rest(q, k)   == SubSeq(q, k + 1, Len(q))
Grant(ph, S) == [r \in Requests |-> IF r \in S THEN "granted" ELSE ph[r]]

(***************************************************************************)
(* releaseQueuedLocked, called with the state "releasing": q, n and bytes  *)
(* are the queue, the active count and the held bytes at the call, P the   *)
(* probed targets and acts the owned actions. k is the number of rounds of *)
(* the loop: the first k requests are granted, and the loop stops because  *)
(* the concurrency is used up, the queue is empty, or the next target was  *)
(* not probed; only one k satisfies this.                                  *)
(***************************************************************************)
ReleaseQueued(q, n, bytes, P, acts, ph) ==
    \E k \in 0..Len(q) :
        LET refused == /\ n + k < ReleaseConcurrency
                       /\ Rest(q, k) # <<>>
                       /\ ~Approved(q[k + 1], P)
            rehold  == refused /\ n + k = 0
            reopen  == MayReopen(Rest(q, k), n + k, acts)
        IN  /\ k > 0 => n + k <= ReleaseConcurrency
            /\ \A i \in 1..k : Approved(q[i], P)
            /\ \/ n + k >= ReleaseConcurrency
               \/ Rest(q, k) = <<>>
               \/ refused
            /\ queue' = Rest(q, k)
            /\ active' = n + k
            /\ heldBytes' = bytes - BytesOf(Heads(q, k))
            /\ phase' = Grant(ph, Heads(q, k))
            /\ state' = IF rehold THEN "held" ELSE IF reopen THEN "online" ELSE "releasing"
            /\ probed' = IF rehold \/ reopen THEN {} ELSE P

\* Mutant: the gate is held as soon as no egress is in flight.
QuietWithoutActions(n, e) == n = 0

\* Nothing that entered before the hold is left: Enter, release and releaseAction
\* move the gate from "entering" to "held" on this condition.
Quiet(n, e) == n = 0 /\ e = 0

\* Mutant: giving something back does not look at the queue of a release.
AfterReleaseForgetsQueue(n, e, acts, ph) ==
    /\ state' = IF state = "entering" /\ Quiet(n, e) THEN "held" ELSE state
    /\ active' = n
    /\ phase' = ph
    /\ UNCHANGED <<queue, heldBytes, probed>>

\* The tail of release and of releaseAction: what giving back a lease or an
\* action does to the state, with n leases, e entering actions, the owned actions
\* acts and the calls ph that are left.
AfterRelease(n, e, acts, ph) ==
    IF state = "releasing"
    THEN ReleaseQueued(queue, n, heldBytes, probed, acts, ph)
    ELSE /\ state' = IF state = "entering" /\ Quiet(n, e) THEN "held" ELSE state
         /\ active' = n
         /\ phase' = ph
         /\ UNCHANGED <<queue, heldBytes, probed>>

\* Gate.Start
Start ==
    /\ state = "unbound"
    /\ state' = "online"
    /\ Mutated /\ ControlUnchanged
    /\ UNCHANGED <<actions, beforeEnter, entering, active, queue, heldBytes,
                   requestIDs, probed, phase>>

\* Gate.BeginAction. A duplicate ActionID is refused and changes nothing.
BeginAction(a) ==
    /\ state \notin {"unbound", "stopping"}
    /\ a \notin actions
    /\ actions' = actions \union {a}
    /\ IF state = "online"
       THEN beforeEnter' = beforeEnter \union {a} /\ entering' = entering + 1
       ELSE UNCHANGED <<beforeEnter, entering>>
    /\ Mutated /\ ControlUnchanged
    /\ UNCHANGED <<state, active, queue, heldBytes, requestIDs, probed, phase>>

EnteringWithout(a) == IF a \in beforeEnter /\ entering > 0 THEN entering - 1 ELSE entering

\* ActionLease.Release, through releaseAction.
ReleaseAction(a) ==
    /\ a \in actions
    /\ actions' = actions \ {a}
    /\ beforeEnter' = beforeEnter \ {a}
    /\ entering' = EnteringWithout(a)
    /\ AfterRelease(active, entering', actions', phase)
    /\ Mutated /\ ControlUnchanged
    /\ UNCHANGED requestIDs
-----------------------------------------------------------------------------
\* The part of Gate.Acquire both outcomes share: the checks before admission.
Admissible(a, r) ==
    /\ state \notin {"unbound", "stopping"}
    /\ a \in actions
    /\ phase[r] = "none" /\ r \notin requestIDs

\* Mutants: a hold that admits every new action until it is complete, and a
\* release that lets new requests pass the queue.
ImmediateUntilHeld(a) == state \in {"online", "entering"}
ImmediateInRelease(a) == state \in {"online", "releasing"}

Immediate(a) == state = "online" \/ (state = "entering" /\ a \in beforeEnter)

\* Gate.Acquire that returns at once with a lease (grantLocked).
AcquireNow(a, r) ==
    /\ Admissible(a, r) /\ Immediate(a)
    /\ requestIDs' = requestIDs \union {r}
    /\ active' = active + 1
    /\ phase' = [phase EXCEPT ![r] = "leased"]
    /\ Mutated /\ ControlUnchanged
    /\ UNCHANGED <<state, actions, beforeEnter, entering, queue, heldBytes, probed>>

\* Mutant: the byte limit ignores the size of the new request.
HasCapacityLeft(r) == Len(queue) < MaxHeldRequests /\ heldBytes < MaxHeldBytes

HasCapacity(r) == Len(queue) < MaxHeldRequests /\ SizeOf[r] <= MaxHeldBytes - heldBytes

\* Mutant: a request that arrives during a release is only queued.
EnqueueOnly(q, bytes, ph) ==
    /\ queue' = q /\ heldBytes' = bytes /\ phase' = ph
    /\ UNCHANGED <<state, active, probed>>

\* The new queue takes effect, and a release looks at it at once.
Enqueue(q, bytes, ph) ==
    IF state = "releasing"
    THEN ReleaseQueued(q, active, bytes, probed, actions, ph)
    ELSE /\ queue' = q /\ heldBytes' = bytes /\ phase' = ph
         /\ UNCHANGED <<state, active, probed>>

\* Gate.Acquire that joins the queue, within the two capacity limits. Over a
\* limit it fails with ErrHeldCapacity and changes nothing.
AcquireQueued(a, r) ==
    /\ Admissible(a, r) /\ ~Immediate(a) /\ HasCapacity(r)
    /\ requestIDs' = requestIDs \union {r}
    /\ Enqueue(Append(queue, r), heldBytes + SizeOf[r], [phase EXCEPT ![r] = "queued"])
    /\ Mutated /\ ControlUnchanged
    /\ UNCHANGED <<actions, beforeEnter, entering>>

\* The waiter is woken: finishWaiter returns its lease ...
CollectLease(r) ==
    /\ phase[r] = "granted"
    /\ phase' = [phase EXCEPT ![r] = "leased"]
    /\ ControlUnchanged
    /\ UNCHANGED <<state, actions, beforeEnter, entering, active, queue, heldBytes,
                   requestIDs, probed, fresh>>

\* ... or reports that the gate is stopping (finishWaiter, or cancelWaiter when
\* the deadline fired first).
CollectCanceled(r) ==
    /\ phase[r] = "canceled"
    /\ phase' = [phase EXCEPT ![r] = "none"]
    /\ ControlUnchanged
    /\ UNCHANGED <<state, actions, beforeEnter, entering, active, queue, heldBytes,
                   requestIDs, probed, fresh>>

\* Gate.release of the one lease of request r.
ReleaseLease(r) ==
    /\ r \in requestIDs
    /\ requestIDs' = requestIDs \ {r}
    /\ AfterRelease(IF active > 0 THEN active - 1 ELSE active, entering, actions,
                    [phase EXCEPT ![r] = "none"])
    /\ Mutated /\ ControlUnchanged
    /\ UNCHANGED <<actions, beforeEnter, entering>>

\* The caller is done with its egress.
Release(r) == phase[r] = "leased" /\ ReleaseLease(r)

\* The caller's context or the hold timer ended although the grant was made:
\* finishWaiter and cancelWaiter give the lease back.
AbandonGrant(r) == phase[r] = "granted" /\ ReleaseLease(r)

\* Mutant: the request ID of a canceled waiter stays busy.
CancelWaiterKeepsID(r) ==
    /\ phase[r] = "queued"
    /\ \E i \in 1..Len(queue) :
           /\ queue[i] = r
           /\ queue' = SubSeq(queue, 1, i - 1) \o SubSeq(queue, i + 1, Len(queue))
    /\ heldBytes' = heldBytes - SizeOf[r]
    /\ phase' = [phase EXCEPT ![r] = "none"]
    /\ Mutated /\ ControlUnchanged
    /\ UNCHANGED <<state, actions, beforeEnter, entering, active, requestIDs, probed>>

\* The caller's context or the hold timer ended first: cancelWaiter leaves the
\* queue. It does not look at the rest of the queue.
CancelWaiter(r) ==
    /\ phase[r] = "queued"
    /\ \E i \in 1..Len(queue) :
           /\ queue[i] = r
           /\ queue' = SubSeq(queue, 1, i - 1) \o SubSeq(queue, i + 1, Len(queue))
    /\ heldBytes' = heldBytes - SizeOf[r]
    /\ requestIDs' = requestIDs \ {r}
    /\ phase' = [phase EXCEPT ![r] = "none"]
    /\ Mutated /\ ControlUnchanged
    /\ UNCHANGED <<state, actions, beforeEnter, entering, active, probed>>
-----------------------------------------------------------------------------
\* An operator reads Gate.Snapshot and so learns the current revision.
ReadSnapshot(o) ==
    /\ control[o] = "idle" /\ o \notin fresh
    /\ fresh' = fresh \union {o}
    /\ UNCHANGED <<gateVars, control, wanted, drained>>

\* Gate.Enter up to its wait: checkRevisionLocked, then "entering", and "held" at
\* once when nothing is in flight. With a stale revision, or in another state, the
\* call fails and changes nothing.
Enter(o) ==
    /\ control[o] = "idle" /\ o \in fresh
    /\ state = "online"
    /\ state' = IF Quiet(active, entering) THEN "held" ELSE "entering"
    /\ control' = [control EXCEPT ![o] = IF state' = "entering" THEN "entering" ELSE "idle"]
    /\ Mutated
    /\ UNCHANGED <<actions, beforeEnter, entering, active, queue, heldBytes,
                   requestIDs, probed, phase, wanted, drained>>

\* Gate.Enter returns from its wait: the state moved on, or the operator's
\* context ended, which leaves the gate entering.
EnterReturns(o) ==
    /\ control[o] = "entering" /\ state # "entering"
    /\ control' = [control EXCEPT ![o] = "idle"]
    /\ UNCHANGED <<gateVars, fresh, wanted, drained>>

EnterGivesUp(o) ==
    /\ control[o] = "entering"
    /\ control' = [control EXCEPT ![o] = "idle"]
    /\ UNCHANGED <<gateVars, fresh, wanted, drained>>

\* Runtime.ResumeOfflineHold reads the targets of the queue first ...
ReadTargets(o) ==
    /\ control[o] = "idle" /\ o \in fresh
    /\ control' = [control EXCEPT ![o] = "resuming"]
    /\ wanted' = [wanted EXCEPT ![o] = PendingTargets]
    /\ UNCHANGED <<gateVars, fresh, drained>>

ResumeAllowed(o) ==
    /\ o \in fresh
    /\ state = "held"
    /\ ~(wanted[o] = {} /\ queue # <<>>)

\* ... and then calls Gate.Resume, which starts the probe, or refuses: always
\* unless ResumeAllowed, and also when the operator's context has ended by then.
ResumeProbes(o) ==
    /\ control[o] = "resuming" /\ ResumeAllowed(o)
    /\ state' = "probing"
    /\ control' = [control EXCEPT ![o] = "probing"]
    /\ Mutated
    /\ UNCHANGED <<actions, beforeEnter, entering, active, queue, heldBytes,
                   requestIDs, probed, phase, wanted, drained>>

ResumeRefused(o) ==
    /\ control[o] = "resuming"
    /\ control' = [control EXCEPT ![o] = "idle"]
    /\ wanted' = [wanted EXCEPT ![o] = {}]
    /\ UNCHANGED <<gateVars, fresh, drained>>

\* The probe of Gate.Resume ends. A gate that is stopping stays so.
ProbeSucceeds(o) ==
    /\ control[o] = "probing"
    /\ state = "probing"
    /\ control' = [control EXCEPT ![o] = "idle"]
    /\ wanted' = [wanted EXCEPT ![o] = {}]
    /\ ReleaseQueued(queue, active, heldBytes, wanted[o], actions, phase)
    /\ Mutated
    /\ UNCHANGED <<actions, beforeEnter, entering, requestIDs, drained>>

ProbeFails(o) ==
    /\ control[o] = "probing"
    /\ state = "probing"
    /\ wanted[o] # {}
    /\ state' = "held"
    /\ control' = [control EXCEPT ![o] = "idle"]
    /\ wanted' = [wanted EXCEPT ![o] = {}]
    /\ Mutated
    /\ UNCHANGED <<actions, beforeEnter, entering, active, queue, heldBytes,
                   requestIDs, probed, phase, drained>>

ProbeTooLate(o) ==
    /\ control[o] = "probing"
    /\ state # "probing"
    /\ control' = [control EXCEPT ![o] = "idle"]
    /\ wanted' = [wanted EXCEPT ![o] = {}]
    /\ UNCHANGED <<gateVars, fresh, drained>>
-----------------------------------------------------------------------------
\* Mutant: the waiters are canceled but stay in the queue.
BeginShutdownKeepsQueue ==
    /\ state # "stopping"
    /\ state' = "stopping"
    /\ phase' = [r \in Requests |-> IF phase[r] = "queued" THEN "canceled" ELSE phase[r]]
    /\ requestIDs' = requestIDs \ {r \in Requests : phase[r] = "queued"}
    /\ Mutated /\ ControlUnchanged
    /\ UNCHANGED <<actions, beforeEnter, entering, active, queue, heldBytes, probed>>

\* Gate.BeginShutdown
BeginShutdown ==
    /\ state # "stopping"
    /\ state' = "stopping"
    /\ phase' = [r \in Requests |-> IF phase[r] = "queued" THEN "canceled" ELSE phase[r]]
    /\ requestIDs' = requestIDs \ {r \in Requests : phase[r] = "queued"}
    /\ queue' = <<>> /\ heldBytes' = 0 /\ probed' = {}
    /\ Mutated /\ ControlUnchanged
    /\ UNCHANGED <<actions, beforeEnter, entering, active>>

NothingLeft == active = 0 /\ queue = <<>> /\ actions = {}

\* Gate.Drain, which the runtime calls after BeginShutdown, returns nil.
DrainReturns ==
    /\ state = "stopping" /\ ~drained
    /\ NothingLeft
    /\ drained' = TRUE
    /\ UNCHANGED <<gateVars, fresh, control, wanted>>

\* After Drain the gate is at rest for good.
Stopped ==
    /\ drained /\ \A o \in Operators : control[o] = "idle"
    /\ UNCHANGED vars

Next ==
    \/ Start \/ BeginShutdown \/ DrainReturns \/ Stopped
    \/ \E a \in Actions : BeginAction(a) \/ ReleaseAction(a)
    \/ \E a \in Actions, r \in Requests : AcquireNow(a, r) \/ AcquireQueued(a, r)
    \/ \E r \in Requests :
           \/ CollectLease(r) \/ CollectCanceled(r) \/ Release(r)
           \/ AbandonGrant(r) \/ CancelWaiter(r)
    \/ \E o \in Operators :
           \/ ReadSnapshot(o) \/ Enter(o) \/ EnterReturns(o) \/ EnterGivesUp(o)
           \/ ReadTargets(o) \/ ResumeProbes(o) \/ ResumeRefused(o)
           \/ ProbeSucceeds(o) \/ ProbeFails(o) \/ ProbeTooLate(o)

Spec == Init /\ [][Next]_vars

(***************************************************************************)
(* Callers release what they were given: a lease ends with its egress, and *)
(* an action ends when its operation does, which is assumed only where no  *)
(* operation can be waiting at the gate itself: an action begun before     *)
(* Enter never queues, and shutdown has emptied the queue. A waiter that   *)
(* was woken runs, and a call of Enter or Drain whose wait is over         *)
(* returns. Nothing is assumed of the operators, the hold timer, the       *)
(* prober or new work.                                                     *)
(***************************************************************************)
Fairness ==
    /\ \A a \in Actions :
           WF_vars((a \in beforeEnter \/ state = "stopping") /\ ReleaseAction(a))
    /\ \A r \in Requests : WF_vars(CollectLease(r)) /\ WF_vars(Release(r))
    /\ \A o \in Operators : WF_vars(EnterReturns(o))
    /\ WF_vars(DrainReturns)

FairSpec == Spec /\ Fairness
-----------------------------------------------------------------------------
(***************************************************************************)
(* Properties                                                              *)
(***************************************************************************)
FlyingIn(ph) == {r \in Requests : ph[r] \in {"granted", "leased"}}
QueuedIn(ph) == {r \in Requests : ph[r] = "queued"}
InFlight == FlyingIn(phase)
Waiting  == QueuedIn(phase)

\* The sequence q holds each request of S once, and nothing else.
Lists(q, S) ==
    /\ Heads(q, Len(q)) = S
    /\ \A i, j \in 1..Len(q) : q[i] = q[j] => i = j

\* Every variable of the gate has the type its Go field has.
TypeOK ==
    /\ state \in States
    /\ actions \subseteq Actions /\ beforeEnter \subseteq actions
    /\ entering \in Nat /\ active \in Nat
    /\ queue \in Seq(Requests) /\ requestIDs \subseteq Requests
    /\ probed \subseteq Targets
    /\ phase \in [Requests -> Phases]
    /\ fresh \subseteq Operators
    /\ control \in [Operators -> ControlPhases]
    /\ wanted \in [Operators -> SUBSET Targets]
    /\ drained \in BOOLEAN

\* While the gate reports Held, and while it probes, nobody holds an egress
\* lease and no action that may still take one at once is open: a snapshot's
\* SafeToDisconnect (coordinator.go:656) is never withdrawn by work already
\* admitted. The counters say the same as the leases the callers really hold.
SafeToDisconnect ==
    state \in {"held", "probing"} =>
        InFlight = {} /\ beforeEnter = {} /\ active = 0 /\ entering = 0

\* The two counters Enter and Drain wait on count the leases and the old actions
\* that really exist, whatever order releases, cancellations and grants came in.
CountersExact ==
    /\ active = Cardinality(InFlight)
    /\ entering = Cardinality(beforeEnter)

\* The queue and the request IDs describe the same waiters: a request ID is busy
\* exactly while its call waits or holds a lease, nobody is queued twice, and the
\* queue stays within MaxHeldRequests.
QueueAccounting ==
    /\ Lists(queue, Waiting)
    /\ requestIDs = Waiting \union InFlight
    /\ Len(queue) <= MaxHeldRequests

\* The byte account is the size of what is queued, through grants, timeouts and
\* cancellations, and stays within MaxHeldBytes.
HeldBytesExact == heldBytes = BytesOf(Heads(queue, Len(queue))) /\ heldBytes <= MaxHeldBytes

\* A gate that is releasing always has somebody whose release will move it on:
\* a queued request waits behind a lease in flight, and an empty queue waits for
\* a lease or an action. Without the evaluation Acquire makes after it enqueues,
\* neither progress nor a second Resume would be possible.
ReleasingCanMove ==
    state = "releasing" =>
        /\ queue # <<>> => active > 0
        /\ queue = <<>> => active > 0 \/ actions # {}

\* Every egress in flight during a release goes to a target the last Resume
\* probed, and never more than ReleaseConcurrency of them at a time.
ReleasedWereProbed ==
    state = "releasing" =>
        /\ \A r \in InFlight : TargetOf[r] \in probed
        /\ active <= ReleaseConcurrency

\* An open gate holds nobody back: online, the queue is empty and every action
\* is one that Enter will wait for.
OnlineIsOpen == state = "online" => queue = <<>> /\ beforeEnter = actions /\ probed = {}

\* Once Drain has returned no egress is in flight and no action is open, and
\* there never will be again.
DrainedIsQuiet == drained => state = "stopping" /\ InFlight = {} /\ actions = {}

\* Releases are first come, first served: a request gets its lease during a
\* release only if nobody who has waited longer is left waiting, whether it comes
\* from the queue or straight from Acquire.
FifoRelease ==
    [][\A r \in Requests :
        (state \in {"probing", "releasing"} /\ r \in InFlight' \ InFlight) =>
            (\A i \in 1..Len(queue) :
                phase'[queue[i]] = "queued" => (\E j \in 1..(i - 1) : queue[j] = r))]_vars

\* Resume probes exactly the targets of the requests that are queued when the
\* probe starts, although it read them in an earlier critical section: any change
\* in between moves the revision, and the call is refused.
ProbesWhatIsQueued ==
    [][(state = "held" /\ state' = "probing") =>
        \E o \in Operators : control'[o] = "probing" /\ wanted[o] = PendingTargets]_vars

\* A resumption sends what was probed, and sends it in order.
ResumesInOrder == FifoRelease /\ ProbesWhatIsQueued

\* Closing the gate finishes: Enter's transition reaches Held, or shutdown, when
\* the callers it waits for come to an end.
EnterCompletes == state = "entering" ~> state # "entering"

\* Nobody is stuck in the queue of a release: the request gets its lease or
\* leaves, or the gate goes back to Held for another Resume, without the help of
\* the hold timer.
ReleaseServesQueue ==
    \A r \in Requests :
        (state = "releasing" /\ phase[r] = "queued")
            ~> (state # "releasing" \/ phase[r] # "queued")

\* Shutdown finishes: Drain returns once the callers have given back what they
\* hold.
DrainCompletes == state = "stopping" ~> drained

\* Nothing the gate starts hangs, as long as callers give back what they were
\* given: closing comes to an end, a release serves its queue, and Drain returns.
Progress == EnterCompletes /\ ReleaseServesQueue /\ DrainCompletes

\* What else a step relies on: where actions from before a hold, leases and
\* queued requests can be, and that the targets an operator has read are those of
\* the queue as long as its revision is current.
HoldDiscipline ==
    /\ state = "unbound" => actions = {} /\ active = 0 /\ queue = <<>> /\ probed = {}
    /\ state \in {"held", "probing", "releasing"} => beforeEnter = {}
    /\ state \in {"held", "probing"} => active = 0
    /\ state = "entering" => ~Quiet(active, entering)
    /\ state = "stopping" => queue = <<>>
    /\ \A o \in Operators :
           control[o] = "resuming" /\ o \in fresh => wanted[o] = PendingTargets

\* The inductive invariant of the gate: the counters Enter and Drain wait on count
\* the leases and actions that exist, a request ID is busy exactly while its call
\* waits or flies, an open gate holds nobody back, a drained one has nobody left,
\* and each state of the gate has only the work it may have.
IndInv ==
    /\ TypeOK /\ CountersExact /\ QueueAccounting /\ HoldDiscipline
    /\ OnlineIsOpen /\ ReleasingCanMove /\ ReleasedWereProbed /\ DrainedIsQuiet

(***************************************************************************)
(* The gate implements the window of EgressWindow.                         *)
(***************************************************************************)
WindowState ==
    CASE state = "online"    -> "open"
      [] state = "entering"  -> "closing"
      [] state = "releasing" -> "trickle"
      [] state = "stopping"  -> "gone"
      [] OTHER               -> "shut"

Window == INSTANCE EgressWindow
              WITH Limit <- ReleaseConcurrency, window <- WindowState,
                   flying <- InFlight, elders <- beforeEnter

\* Every behaviour of the gate is one of the abstract window: whatever the order
\* of acquisitions, grants, cancellations, probes and releases, the window is shut
\* only in a step that leaves nothing in flight, and stays shut until a Resume.
ImplementsWindow == Window!Spec
=============================================================================
