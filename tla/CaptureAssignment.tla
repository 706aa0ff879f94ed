------------------------- MODULE CaptureAssignment -------------------------
(***************************************************************************)
(* The assignment of one Capture to an Environment revision                *)
(* (internal/captureassignment). The durable assignment moves on with      *)
(* ApplyLatest while connections of the Capture are open and requests and  *)
(* leaf certificates are being admitted. Two locks guard a Capture: the    *)
(* writer lock orders everything that reads or writes the durable          *)
(* assignment, the short lock mu the flags and the connection records;     *)
(* every action below is one critical section of mu, or one transaction.   *)
(*                                                                         *)
(* An assignment is its revision, its Environment revision and the         *)
(* Environment revision the Capture was launched with (0: there is none).  *)
(* The snapshot and the binding of a connection are determined by its      *)
(* assignment and its origin, and are written with it.                     *)
(***************************************************************************)
EXTENDS Naturals, FiniteSets

CONSTANTS
    Connections,   \* connection IDs: never used twice
    Tools,         \* those to a native tool origin; the others are semantic
    Requests,      \* calls of BeginRequest
    ConnectionOf,  \* the connection of each request
    Applies,       \* calls of ApplyLatest
    Serves,        \* the connections each Environment revision can serve in their mode
    MaxHead,       \* bound: the last Environment revision that is published
    None           \* nobody

ASSUME AssignmentAssumption ==
    /\ Tools \subseteq Connections
    /\ ConnectionOf \in [Requests -> Connections]
    /\ MaxHead \in Nat \ {0}
    /\ Serves \in [1..MaxHead -> SUBSET Connections]
    /\ None \notin Connections \union Applies /\ Connections \intersect Applies = {}

VARIABLES
    head,           \* the latest published revision of the Environment
    durable,        \* the row of the Capture
    writer,         \* who holds captureState.writer
    known,          \* whether Manager.states has the Capture
    shutdown,       \* captureState.shutdown
    poisoned,       \* captureState.poisoned
    transitioning,  \* captureState.transitioning
    conn,           \* where each connection stands, and its record's assignment
    request,        \* where each call of BeginRequest stands, and its assignment
    leaf,           \* where the admitLeaf of each connection stands, and what it read
    apply,          \* where each call of ApplyLatest stands
    creating,       \* a call of CreateForLaunch is under way
    open,           \* lifecycleGate.open
    active,         \* lifecycleGate.active
    stop            \* where BeginShutdown and Drain stand

flagVars   == <<shutdown, poisoned, transitioning>>
gateVars   == <<open, active>>
caseVars   == <<conn, request, leaf, apply, creating>>
assignVars == <<head, durable, writer, known, flagVars, caseVars, gateVars, stop>>

Missing     == [rev |-> 0, env |-> 0, launch |-> 0]
Assignments == [rev : 0..(MaxHead + 1), env : 0..MaxHead, launch : 0..MaxHead]
At(phase)   == [phase |-> phase, a |-> Missing]
NoApply     == [phase |-> "idle", expected |-> 0, target |-> 0, bound |-> {}]

ConnPhases    == {"idle", "begun", "loaded", "open", "leaving", "closed"}
RequestPhases == {"idle", "begun", "admitted", "leased", "done"}
LeafPhases    == {"idle", "begun", "read", "admitted", "refused"}
ApplyPhases   == {"idle", "begun", "bound", "blocked", "revoked", "written", "leaving", "done"}

\* A process has started: the Capture is new, or was created by an earlier one.
AssignmentInit ==
    /\ head = 1
    /\ durable \in {Missing, [rev |-> 1, env |-> 1, launch |-> 1]}
    /\ writer = None /\ known = FALSE
    /\ shutdown = FALSE /\ poisoned = FALSE /\ transitioning = FALSE
    /\ conn = [c \in Connections |-> At("idle")]
    /\ request = [r \in Requests |-> At("idle")]
    /\ leaf = [c \in Connections |-> At("idle")]
    /\ apply = [x \in Applies |-> NoApply]
    /\ creating = FALSE
    /\ open = TRUE /\ active = 0
    /\ stop = "running"

\* Another revision of the Environment is published.
Publish ==
    /\ head < MaxHead
    /\ head' = head + 1
    /\ UNCHANGED <<durable, writer, known, flagVars, caseVars, gateVars, stop>>

-----------------------------------------------------------------------------
(* lifecycleGate                                                           *)

Enter  == open /\ active' = active + 1 /\ UNCHANGED open
Finish == active' = active - 1 /\ UNCHANGED open

-----------------------------------------------------------------------------
(* CreateForLaunch, of which nothing is seen before its write.            *)

Launched == [rev |-> 1, env |-> head, launch |-> head]

BeginCreate ==
    /\ ~creating /\ creating' = TRUE
    /\ Enter
    /\ UNCHANGED <<head, durable, writer, known, flagVars, conn, request, leaf, apply, stop>>

\* Written; a conflict or a failure; or an outcome nobody knows, which poisons.
Create ==
    /\ creating /\ writer = None
    /\ known' = TRUE /\ creating' = FALSE
    /\ \/ durable = Missing /\ durable' = Launched /\ UNCHANGED poisoned
       \/ UNCHANGED <<durable, poisoned>>
       \/ /\ durable' = durable \/ (durable = Missing /\ durable' = Launched)
          /\ poisoned' = TRUE
    /\ Finish
    /\ UNCHANGED <<head, writer, shutdown, transitioning, conn, request, leaf, apply, stop>>

-----------------------------------------------------------------------------
(* RegisterProviderConnection and Close                                    *)

ConnStep(c, from, to) == conn[c].phase = from /\ conn' = [conn EXCEPT ![c].phase = to]

BeginConnection(c) ==
    /\ Enter
    /\ ConnStep(c, "idle", "begun")
    /\ UNCHANGED <<head, durable, writer, known, flagVars, request, leaf, apply, creating, stop>>

\* The writer lock is taken here. A refusal finishes at once, while the deferred
\* unlock is still to come.
LoadAssignment(c) ==
    /\ writer = None /\ writer' = c
    /\ known' = TRUE
    /\ \/ /\ conn[c].phase = "begun"
          /\ durable # Missing /\ c \in Serves[durable.env]
          /\ conn' = [conn EXCEPT ![c] = [phase |-> "loaded", a |-> durable]]
          /\ UNCHANGED gateVars
       \/ \* no assignment, no binding, or the repository fails
          ConnStep(c, "begun", "leaving") /\ Finish
    /\ UNCHANGED <<head, durable, flagVars, request, leaf, apply, creating, stop>>

\* Mutant: the transition is not looked at.
BlockedByShutdown == shutdown \/ poisoned

Blocked == shutdown \/ poisoned \/ transitioning

RegisterConnection(c) ==
    /\ IF Blocked
       THEN ConnStep(c, "loaded", "leaving") /\ Finish /\ UNCHANGED writer
       ELSE ConnStep(c, "loaded", "open") /\ UNCHANGED gateVars /\ writer' = None
    /\ UNCHANGED <<head, durable, known, flagVars, request, leaf, apply, creating, stop>>

\* The deferred unlocks of a refused call, which is no longer counted. Of mu,
\* given back first, nothing is seen but that the others wait a little longer.
LeaveRefused(c) ==
    /\ ConnStep(c, "leaving", "closed")
    /\ writer' = None
    /\ UNCHANGED <<head, durable, known, flagVars, request, leaf, apply, creating, gateVars, stop>>

\* ConnectionLease.Close, whatever else the connection is used for.
CloseConnection(c) ==
    /\ ConnStep(c, "open", "closed")
    /\ Finish
    /\ UNCHANGED <<head, durable, writer, known, flagVars, request, leaf, apply, creating, stop>>

-----------------------------------------------------------------------------
(* BeginRequest. Once admitted, the request is counted and resolves its    *)
(* plan outside the lock, which may fail.                                  *)

RequestStep(r, from, to) ==
    request[r].phase = from /\ request' = [request EXCEPT ![r].phase = to]

BeginRequest(r) ==
    /\ Enter
    /\ conn[ConnectionOf[r]].phase \in {"open", "closed"}
    /\ RequestStep(r, "idle", "begun")
    /\ UNCHANGED <<head, durable, writer, known, flagVars, conn, leaf, apply, creating, stop>>

\* Refused also for what the binding and the operation are.
AdmitRequest(r) ==
    /\ request[r].phase = "begun"
    /\ \/ RequestStep(r, "begun", "done") /\ Finish
       \/ /\ ~Blocked /\ conn[ConnectionOf[r]].phase = "open"
          /\ request' = [request EXCEPT ![r] =
                            [phase |-> "admitted", a |-> conn[ConnectionOf[r]].a]]
          /\ UNCHANGED gateVars
    /\ UNCHANGED <<head, durable, writer, known, flagVars, conn, leaf, apply, creating, stop>>

ResolvePlan(r) ==
    /\ RequestStep(r, "admitted", "leased")
    /\ UNCHANGED <<head, durable, writer, known, flagVars, conn, leaf, apply, creating, gateVars,
                   stop>>

\* Mutant: a request that gets no plan stays counted.
ReleaseKeepsCount(r) ==
    /\ \/ RequestStep(r, "admitted", "done") /\ UNCHANGED gateVars
       \/ RequestStep(r, "leased", "done") /\ Finish
    /\ UNCHANGED <<head, durable, writer, known, flagVars, conn, leaf, apply, creating, stop>>

\* Mutant: a request that gets no plan releases twice.
ReleaseTwice(r) ==
    /\ \/ RequestStep(r, "admitted", "done") /\ active > 1 /\ active' = active - 2 /\ UNCHANGED open
       \/ RequestStep(r, "leased", "done") /\ Finish
    /\ UNCHANGED <<head, durable, writer, known, flagVars, conn, leaf, apply, creating, stop>>

\* The plan fails, or the lease is released.
Release(r) ==
    /\ \/ RequestStep(r, "admitted", "done")
       \/ RequestStep(r, "leased", "done")
    /\ Finish
    /\ UNCHANGED <<head, durable, writer, known, flagVars, conn, leaf, apply, creating, stop>>

-----------------------------------------------------------------------------
(* admitLeaf: the record is read, validated outside the lock, and the      *)
(* admission given out if the record has not changed meanwhile.            *)

LeafStep(c, from, to) == leaf[c].phase = from /\ leaf' = [leaf EXCEPT ![c].phase = to]

BeginLeaf(c) ==
    /\ Enter
    /\ conn[c].phase \in {"open", "closed"}
    /\ LeafStep(c, "idle", "begun")
    /\ UNCHANGED <<head, durable, writer, known, flagVars, conn, request, apply, creating, stop>>

ReadConnection(c) ==
    /\ leaf[c].phase = "begun"
    /\ IF Blocked \/ conn[c].phase # "open"
       THEN LeafStep(c, "begun", "refused") /\ Finish
       ELSE leaf' = [leaf EXCEPT ![c] = [phase |-> "read", a |-> conn[c].a]] /\ UNCHANGED gateVars
    /\ UNCHANGED <<head, durable, writer, known, flagVars, conn, request, apply, creating, stop>>

\* What the validation asks of the copy: a semantic connection gets a leaf only
\* at the revision the Capture was launched with.
LaunchAuthorized(c) == c \in Tools \/ leaf[c].a.env = leaf[c].a.launch

\* Mutant: the copy that was validated is taken at its word.
UnchangedAnyway(c) == ~shutdown /\ ~poisoned

\* The second look.
Unchanged(c) == ~Blocked /\ conn[c].phase = "open" /\ conn[c].a = leaf[c].a

\* Refused also for a name that is not the origin's, and tools beyond the launch.
AdmitLeaf(c) ==
    /\ \/ LeafStep(c, "read", "admitted") /\ LaunchAuthorized(c) /\ Unchanged(c)
       \/ LeafStep(c, "read", "refused")
    /\ Finish
    /\ UNCHANGED <<head, durable, writer, known, flagVars, conn, request, apply, creating, stop>>

\* leafRequestCurrent: the admission's connection is still the one it was given
\* for; the revision counts for native tools only.
Cacheable(c) ==
    /\ leaf[c].phase = "admitted"
    /\ ~Blocked /\ conn[c].phase = "open"
    /\ c \in Tools => conn[c].a = leaf[c].a

-----------------------------------------------------------------------------
(* ApplyLatest                                                             *)

ApplyStep(x, from, to) == apply[x].phase = from /\ apply' = [apply EXCEPT ![x].phase = to]

\* The caller expects the revision it last saw.
BeginApply(x) ==
    /\ Enter
    /\ durable.rev # 0
    /\ apply[x].phase = "idle"
    /\ apply' = [apply EXCEPT ![x].phase = "begun", ![x].expected = durable.rev]
    /\ UNCHANGED <<head, durable, writer, known, flagVars, conn, request, leaf, creating, stop>>

OpenConnections == {c \in Connections : conn[c].phase = "open"}

\* Under the writer lock: refused, nothing to do, or every open connection can be
\* bound to the latest revision.
BindConnections(x) ==
    /\ apply[x].phase = "begun" /\ writer = None
    /\ known' = TRUE
    /\ \/ /\ ~shutdown /\ ~poisoned
          /\ durable.rev = apply[x].expected /\ durable.env < head
          /\ OpenConnections \subseteq Serves[head]
          /\ writer' = x
          /\ apply' = [apply EXCEPT ![x].phase = "bound", ![x].target = head,
                                    ![x].bound = OpenConnections]
          /\ UNCHANGED gateVars
       \/ ApplyStep(x, "begun", "done") /\ Finish /\ UNCHANGED writer
    /\ UNCHANGED <<head, durable, flagVars, conn, request, leaf, creating, stop>>

\* Mutant: requests go on while the assignment moves.
BlockNothing(x) ==
    /\ ApplyStep(x, "bound", "blocked")
    /\ UNCHANGED <<head, durable, writer, known, flagVars, conn, request, leaf, creating, gateVars,
                   stop>>

Block(x) ==
    /\ ApplyStep(x, "bound", "blocked")
    /\ transitioning' = TRUE
    /\ UNCHANGED <<head, durable, writer, known, shutdown, poisoned, conn, request, leaf, creating,
                   gateVars, stop>>

\* NativeRevocation.Revoke joins what runs natively, or fails.
Revoke(x) ==
    /\ \/ ApplyStep(x, "blocked", "revoked") /\ UNCHANGED poisoned
       \/ ApplyStep(x, "blocked", "leaving") /\ poisoned' = TRUE
    /\ UNCHANGED <<head, durable, writer, known, shutdown, transitioning, conn, request, leaf,
                   gateVars, creating, stop>>

Successor(x) == [durable EXCEPT !.rev = @ + 1, !.env = apply[x].target]

\* Mutant: an outcome nobody knows is taken for a failure.
OutcomeUnpoisoned(x) ==
    \/ durable' = Successor(x) /\ ApplyStep(x, "revoked", "written") /\ UNCHANGED poisoned
    \/ /\ durable' \in {durable, Successor(x)}
       /\ ApplyStep(x, "revoked", "leaving")
       /\ UNCHANGED poisoned

\* repository.Write and finishWrite: committed; not committed; or unknown, or not
\* what was written, which poisons the Capture.
Outcome(x) ==
    \/ durable' = Successor(x) /\ ApplyStep(x, "revoked", "written") /\ UNCHANGED poisoned
    \/ UNCHANGED <<durable, poisoned>> /\ ApplyStep(x, "revoked", "leaving")
    \/ /\ durable' \in {durable, Successor(x)}
       /\ ApplyStep(x, "revoked", "leaving")
       /\ poisoned' = TRUE

WriteAssignment(x) ==
    /\ Outcome(x)
    /\ UNCHANGED <<head, writer, known, shutdown, transitioning, conn, request, leaf, creating,
                   gateVars, stop>>

\* The connections that were bound and are still there.
UpdateConnections(x) ==
    /\ ApplyStep(x, "written", "leaving")
    /\ conn' = [c \in Connections |->
                   IF c \in apply[x].bound /\ conn[c].phase = "open"
                   THEN [conn[c] EXCEPT !.a = durable] ELSE conn[c]]
    /\ UNCHANGED <<head, durable, writer, known, flagVars, request, leaf, creating, gateVars, stop>>

\* The deferred calls, in their order: the transition ends, then the writer lock
\* and the lifecycle are given back.
LeaveApply(x) ==
    /\ ApplyStep(x, "leaving", "done")
    /\ transitioning' = FALSE
    /\ writer' = None
    /\ Finish
    /\ UNCHANGED <<head, durable, known, shutdown, poisoned, conn, request, leaf, creating, stop>>

-----------------------------------------------------------------------------
(* BeginShutdown and Drain                                                 *)

CloseAdmission ==
    /\ stop = "running"
    /\ stop' = "closed" /\ open' = FALSE
    /\ UNCHANGED <<head, durable, writer, known, flagVars, caseVars, active>>

\* Only the Captures in Manager.states are marked, and their native work revoked.
\* Drain begins the shutdown once more.
MarkShutdown ==
    /\ stop \in {"closed", "draining"}
    /\ stop' = IF known THEN "marked" ELSE "draining"
    /\ shutdown' = known
    /\ UNCHANGED <<head, durable, writer, known, poisoned, transitioning, caseVars, gateVars>>

ShutdownRevokes ==
    /\ stop = "marked"
    /\ stop' = "draining"
    /\ poisoned' \in {poisoned, TRUE}
    /\ UNCHANGED <<head, durable, writer, known, shutdown, transitioning, caseVars, gateVars>>

DrainReturns ==
    /\ stop = "draining" /\ active = 0
    /\ stop' = "drained"
    /\ UNCHANGED <<head, durable, writer, known, flagVars, caseVars, gateVars>>

ConnectionStep(c) ==
    \/ BeginConnection(c) \/ LoadAssignment(c) \/ RegisterConnection(c)
    \/ LeaveRefused(c) \/ CloseConnection(c)
    \/ BeginLeaf(c) \/ ReadConnection(c) \/ AdmitLeaf(c)

AssignmentNext ==
    \/ Publish \/ BeginCreate \/ Create
    \/ \E c \in Connections : ConnectionStep(c)
    \/ \E r \in Requests :
           BeginRequest(r) \/ AdmitRequest(r) \/ ResolvePlan(r) \/ Release(r)
    \/ \E x \in Applies :
           \/ BeginApply(x) \/ BindConnections(x) \/ Block(x) \/ Revoke(x)
           \/ WriteAssignment(x) \/ UpdateConnections(x) \/ LeaveApply(x)
    \/ CloseAdmission \/ MarkShutdown \/ ShutdownRevokes \/ DrainReturns

AssignmentSpec == AssignmentInit /\ [][AssignmentNext]_assignVars

-----------------------------------------------------------------------------
(* Properties                                                              *)

TypeOK ==
    /\ head \in 1..MaxHead /\ durable \in Assignments
    /\ writer \in Connections \union Applies \union {None}
    /\ {known, shutdown, poisoned, transitioning, open, creating} \subseteq BOOLEAN
    /\ conn \in [Connections -> [phase : ConnPhases, a : Assignments]]
    /\ request \in [Requests -> [phase : RequestPhases, a : Assignments]]
    /\ leaf \in [Connections -> [phase : LeafPhases, a : Assignments]]
    /\ apply \in [Applies -> [phase : ApplyPhases, expected : 0..(MaxHead + 1),
                               target : 0..MaxHead, bound : SUBSET Connections]]
    /\ active \in Nat
    /\ stop \in {"running", "closed", "marked", "draining", "drained"}

\* Whenever requests can be admitted (no transition, no poison), the record of
\* every open connection is the durable assignment and one the connection can be
\* served under: ApplyLatest moves them all, or poisons, whatever its write turns
\* out to be and whichever connections come and go while it runs
\* (manager.go:212-258, 292-313, 447-461).
OneAssignment ==
    /\ TypeOK
    /\ ~transitioning /\ ~poisoned =>
           \A c \in OpenConnections : conn[c].a = durable /\ c \in Serves[durable.env]

NewRequest(r) == request[r].phase = "begun" /\ request'[r].phase = "admitted"
NewLeaf(c)    == leaf[c].phase = "read" /\ leaf'[c].phase = "admitted"

\* What is admitted in a step is admitted under the assignment of that moment: a
\* request under the durable row, a leaf under the row although it was validated
\* outside the lock on a copy; and no native work is admitted after it was revoked
\* for a new assignment (manager.go:518-554, leaf_issuance.go:164-190).
AdmittedAreCurrent ==
    [][/\ \A r \in Requests :
             NewRequest(r) => request'[r].a = durable /\ \A x \in Applies : apply[x].phase # "revoked"
       /\ \A c \in Connections : NewLeaf(c) => leaf'[c].a = durable]_assignVars

Held(f, phases) == {i \in DOMAIN f : f[i].phase \in phases}

\* Those the lifecycle waits for.
Inside ==
    Cardinality(Held(conn, {"begun", "loaded", "open"}))
      + Cardinality(Held(request, {"begun", "admitted", "leased"}))
      + Cardinality(Held(leaf, {"begun", "read"}))
      + Cardinality(Held(apply, ApplyPhases \ {"idle", "done"}))
      + (IF creating THEN 1 ELSE 0)

\* The lifecycle counts each of them once, on every path out of every call; so
\* that Drain returns when the last one has left, with no transition left behind.
\* The writer lock is then free, or with a registration that was refused and
\* finished before its deferred unlocks, the only thing it has still to do
\* (manager.go:422-454, 483-485, 555-563; lifecycle.go:21-69).
DrainedIsQuiet ==
    /\ active = Inside
    /\ stop = "drained" =>
           /\ ~transitioning
           /\ writer # None => writer \in Connections /\ conn[writer].phase = "leaving"
=============================================================================
