# Verification of the VibeRMate runtime

VibeRMate is a local runtime that sits between coding agents and model
providers: it captures the traffic of an agent process, decides under which
environment, provider account and policy a request leaves the machine, keeps
evidence of it, and asks the user before tools act. Its Go code
(`internal/`, about 211 000 lines without tests) is one process with many
small concurrent owners, each a mutex-protected structure whose methods are
called from proxied connections, the control API and background workers. This
directory holds TLA+ models of those owners, the TLC configurations that check
them and TLAPS proofs.

`docs/module-map.md` is the repository's own index of components.
`docs/formal/account-selector/AccountSelector.tla` is a specification the
repository already keeps; the account selector is therefore not modelled again.

## 1. Inventory

### How the parts interact

`productruntime.Start` builds the components in a fixed order and
`desktophost` publishes the result. A request runs through them in this order:
the proxy authenticates its Capture (`captureadmission`), the operation is
retained under that admission (`captureadmission/retained.go`), the Capture's
assignment names the Environment and a leaf certificate (`captureassignment`,
`localca`), the Environment snapshot gives the route and the account, each
attempt asks the offline-hold gate for an egress lease (`offlinehold`), the
commit ledger decides whether an attempt may still be replayed (`exchange`), and
evidence is written (`activity`, `rawevidence`). Tools that want to act ask the
tool-approval authority, which waits for the user. Commands of the control API
change the durable records in SQLite and then tell the owners in memory with a
hint (`BeginChange`/`Changed`). Shutdown withdraws admissions first, then drains
every owner.

### Components

| Component | State it keeps | Operations | What is hard | What makes it correct |
|---|---|---|---|---|
| Offline hold (`offlinehold/coordinator.go`) | gate state, action leases, egress leases, FIFO queue with byte account, probed targets, revision | Start, BeginAction, Acquire, release of both leases, Enter, Resume, Snapshot, BeginShutdown, Drain | waits interrupted by timers and contexts, grants that race with cancellations, a probe made outside the lock, optimistic revisions | nothing is in flight when it says the network may be unplugged; nobody is stranded in the queue; a resumed request goes to a probed target |
| Lifecycle gate (`lifecyclegate/gate.go`) | accepting flag, count of operations, drained channel | Begin, the returned finish, Shutdown | the last operation races with the closing; several callers drain | the drained channel is closed once, exactly when nothing runs, and nothing starts after it |
| Retained admissions (`captureadmission/retained.go`) | entries by admission key, subscriptions, versions, one worker | Retain, cleanup, BeginChange/Changed, expiry, BeginShutdown, Shutdown | the source of authority is read outside the lock; hints arrive during the read; owners unknown until the first read | a revocation that has returned left nobody running; no read hides a later revocation |
| Tool approval (`toolapproval`) | pending prompts by key, durable records with revision and waiter count, publication slots | Decide, AskNetwork, DecideApproval, CancelCaptureApprovals, archive clear, Shutdown | three authors of an outcome (user, timer, cancellation) race over one durable row; waiters join and leave while it is decided | nobody proceeds without a durable Allow; every waiter is answered |
| Codex OAuth (`codexoauth/manager.go`, used by `provideraccount/refresh.go`) | one refresh flight per credential revision (epoch), rotated credentials not yet saved, epochs known to be dead | prepare, refresh, persistRefresh, Inspect, Forget, Shutdown; login | the provider rotates the refresh token before the local save; the save can fail or lose a compare-and-swap | a rotated credential is never lost or overwritten by an older one |
| Capture assignment (`captureassignment`) | durable assignment per Capture, records of its connections, flags of a transition, a lifecycle count | CreateForLaunch, ApplyLatest, RegisterProviderConnection, BeginRequest and Release, admitLeaf, BeginShutdown, Drain | a new revision is applied to open connections in several critical sections; its write may have an unknown outcome; a leaf is validated outside the lock | all open connections and the durable row agree whenever something can be admitted; nothing is admitted under an assignment that was left |
| Exchange (`exchange`) | body credit and leases, active operations, one commit ledger per Exchange | AcquirePlan, Execute, resends, tool decisions, Release, BeginShutdown, Drain | provider and client fail at any byte; a retry is decided from what was recorded; two owners give one lease back | the client never sees two attempts, or a tool call nobody allowed; the credit is exact |
| Local CA (`localca`) | Root on disk, leaf cache, flights | load, reset, Issue, Shutdown | a flight outlives its callers; interrupted reset | after Shutdown no signer is used and no leaf is kept |
| Capture runs (`capturerun`, `evidencearchive/barrier.go`, `desktopcontrol/resource_deletion.go`) | rows in SQLite (created, attached, expired, finished, revoked), leases that run out, the archive barrier, the evidence closed by a stop | Create, Attach, Heartbeat, Finish, ListRuns, clear, delete, Shutdown | a call admitted before the close writes after it; a clear looks first and removes later; a stop whose commit has an unknown outcome | nothing is usable after Shutdown; a clear removes no running Capture; a finished run's evidence stays closed |
| Manual captures, grants (`manualcapture`, `capturegrant`) | rows in SQLite | create, rotate, grant | as capture runs; crash between create and grant | a Capture has one terminal state |
| Provider accounts (`provideraccount`) | record in SQLite, secret in the secret store | create, rotate, delete, recover | two stores, one failing | a record never names a missing secret |
| Raw evidence and recording (`rawevidence`, `recording`) | scopes with leases, a bounded channel, a batch, watermarks, a shared budget | TryObserve, Capture, PrepareTerminalScope, Flush, PauseOffers, Shutdown | many writers at the limit; a scope is closed while its requests publish; appends fail between others that do not | the budget is exact, the watermarks are true, a closed scope has nothing under way |
| Environments (`environment`) | draft and published aggregate | edit, publish | compare-and-swap publication | snapshots are immutable |
| Native tools (`nativetool`, `nativemcp`) | bound calls | bind, execute | duplicate delivery | a call is executed at most once |
| CLI installation (`cliinstall`, `filetransaction`) | files and a receipt | install, update, remove | crash between two renames | old or new, never half |
| Journals (`activity`, `connectionevent`, `egressaudit`) | attempts, connections | open, terminal | late terminal events | one terminal event |
| Persistence (`runtimepersistence`) | SQLite rows | one transaction per operation | - | its transactions are atomic steps of the components above |
| Proxies, codecs, transports, launcher, host, UI | connections, bytes | relay, translate | network and operating system | outside the models |

`PROJECT.json` lists all of them with their files, and under `hazards` the
places where the modelled code could go wrong in ways a test hardly reaches.

## 2. Plan

The order follows how much damage a wrong interleaving does and how far it is
from what a unit test can produce.

| Step | Module | Status |
|---|---|---|
| 1 | `OfflineHold`, with the abstract `EgressWindow` it implements | modelled, checked, proved |
| 2 | `LifecycleGate`, and `CaptureRuns` on top of it (the manager of capture runs, the archive barrier, clearing and deletion) | modelled, checked, proved |
| 3 | `RetainedAdmission` | modelled, checked, proved |
| 4 | `ToolApproval` | modelled, checked, proved |
| 5 | `CodexOAuth` | modelled, checked, proved; two of three properties for accounts that are not entered again after a deletion |
| 6 | `RawEvidence`, with the recording budget | modelled, checked, proved |
| 7 | `CaptureAssignment`, and `LeafIssuance` on top of it (the CA's flights and cache) | modelled, checked, proved |
| 8 | `Exchange`: body credit, attempts, the commit ledger, tool decisions | modelled, checked, proved |
| 9 | CLI installation and file transactions: a crash between two renames | open |
| 10 | Local CA: interrupted Root reset; provider accounts (two stores); manual captures and grants; native tools | open |
| 11 | Composition: shutdown of `productruntime` over the drained owners | open; `Exchange` has the part about bodies and Exchanges |

Every safety property of the modelled components that TLAPS can reason about is a
theorem (section 6; what is left to TLC is in section 7). An abstract specification is
worth stating for the file transaction of step 9 (old or new).

## 3. The modules

Every action is one critical section, one transaction of a repository, or one
step outside a lock whose place relative to the others matters. What a call
returns is kept only if a later step depends on it. Definitions marked "Mutant"
are variants of the definition after them with a plausible fault; they are not
part of any specification and show that the properties notice the fault.
`PROJECT.json` maps each definition to its lines.

### OfflineHold and EgressWindow

`OfflineHold` has the fields of `Gate` as variables. `phase[r]` follows the call
of `Acquire` for request `r` (queued, granted but not collected, canceled by
shutdown but not noticed, leased); `control[o]` follows an operator's `Enter` or
`Resume`. `Gate.revision` is only compared for equality with a number that was
read earlier, so it is the set `fresh` of operators whose number is current.

| Actions | Code |
|---|---|
| `Start`, `BeginAction`, `ReleaseAction` | `Start`, `BeginAction`, `releaseAction` |
| `AcquireNow`, `AcquireQueued` | `Acquire`, both outcomes of its critical section |
| `CollectLease`, `CollectCanceled`, `AbandonGrant`, `CancelWaiter` | the select of `Acquire`: `finishWaiter`, `cancelWaiter` |
| `Release` | `release` of a lease, with `releaseQueuedLocked` when releasing |
| `Enter`, `EnterReturns`, `EnterGivesUp` | `Enter` and its wait |
| `ReadTargets`, `BeginProbe`, the probe's results | `productruntime` `ResumeOfflineHold` and `Resume`; the probe runs outside the lock |
| `BeginShutdown`, `DrainReturns` | `BeginShutdown`, `Drain` |

`ReleaseQueued` states the loop of `releaseQueuedLocked` by its result: the number
of rounds is the only one that satisfies the loop condition.

`EgressWindow` is what the rest of the runtime relies on: a window that is shut
only when nothing is in flight, and a bounded trickle afterwards. The refinement
maps the seven gate states to its five, the requests in flight to `flying` and
the actions from before the hold to `elders`.

### LifecycleGate

`Begin` is two steps, the count under the lock and the link to the owner's context
after it, because `CloseAdmission` can fall in between. `closes` counts executions
of `close(drained)`: a second one would panic.

### CaptureRuns

`CaptureRuns` EXTENDS `LifecycleGate`: a launcher's call is an operation of the gate with a
`kind` (create, attach, heartbeat, finish), the run it is about and the place `at` which it
stands, so that an operation of the gate finishes only when its call has cleaned up. The
gate's variables change by the gate's own actions (`RunsUseGate`).

| Actions | Code |
|---|---|
| `BeginCall`, `EndCall` | the `Begin` and deferred finish of each method of `Manager` |
| `EnterBarrier`, `LeaveBarrier`, `GiveUp` | `BeginCaptureCreation` and its release, in `Create` and `Heartbeat`; a wait that ends with its context |
| `CreateRow`, `AttachRow`, `HeartbeatRow`, `WriteFails` | the transactions of the repository |
| `PrepareEvidence`, `FinishRow`, `SettleEvidence` | `Finish`: the evidence is closed and drained, the row is written, the evidence is committed or aborted |
| `Lapse`, `Recover` | a lease runs out; the recovery in `ListRuns` |
| `BeginClear` to `ClearReleases` | `clearArchive` under the barrier |
| `DeleteChecks`, `DeleteEnds` | `deleteCapture`, which does not take it |
| `RevokeActive` | the end of `Shutdown`, which may be called again |

The barrier is a readers/writer lock; in which order it serves its waiters is left open.
A commit of `Finish` succeeds, fails, or has an outcome that cannot be looked up; in the
last case the row may be either. `ended` (whose terminal state was committed) is a
history that the property compares with `sealed` (whose evidence was committed).
Initially the row is in any state that `NewManager`'s recovery can leave. `AuthorizeProxy`
and `GetRun` only read; `ActiveCount` recovers as `ListRuns` does. The revocation of native
tools that goes along with a stop is left out.

### RetainedAdmission

An entry is named by the subscription that created it, so that an old entry and
a new one under the same key are distinct, as the pointers in Go are. The source of
authority (`valid`, `expired`) is the repositories of the owners. The single worker selects an entry,
reads the source outside the lock, and applies the answer if the entry is still
registered at the version it was read at (`WorkerSelects`, `SourceAnswers`,
`WorkerApplies`); its cancel functions are called one by one after the unlock.
`Commit` is the revoking transaction of any of them (a login session, a managed run, a
manual Capture); `BeginChange`, `Join` and `ChangedReturns`
are `Changed`. Versions are natural numbers bounded by the numbers of
subscriptions and changes.

### ToolApproval

An ask is one blocked caller. Identical questions share a row of the store and
an entry of the waiter registry; both are named by the ask that proposed them.
The steps of an ask are those of `Decide`, `AskNetwork` and `departFrom`: a
publication slot, the registry, the row, the wait, and leaving (registry first,
row second). Decision commands, the revocation of a Capture, clearing of the
archive, shutdown and the recovery at the next start are actors of their own.
A row's revision is 1 while it is pending and 2 afterwards, so comparing it is
comparing the state.

### CodexOAuth

A refresh token is a pair of a line (which credential the Owner entered it stems
from) and a generation (how often it was rotated). The provider is external: it
consumes a token when it grants a rotation, and it may consume one and lose the
answer (`lost`). The store is a compare-and-swap on `rev`. `call[c]` follows a call
of `prepare`, `flight[e]` the refresh of an epoch, which goes on when its callers
have left; a flight that recovered a retained credential calls `prepare` itself.
`owner` follows the operations of `provideraccount` that replace or delete the
credential in one step and call `Forget` in another. `save` is the loop of
`Shutdown`.

### RawEvidence

A request makes one observation and goes through the steps of `TryObserve` or of a
`CaptureBuffer`: a lease on its Capture's scope, a reservation of the shared budget, a
sequence number and a place in the channel, under the manager's lock. The worker takes
records, batches them, appends (outside the lock; the append succeeds, fails, or is
canceled) and settles them. A call of `PrepareTerminalScope` closes the scope, waits for
its leases and flushes; a call of `SealTerminalScope` does not flush. The owner of the
storage pauses the offers, flushes, advances the archive epoch and resumes. A broadcast
on `scopeChanged` is the set of the calls it has woken.

### CaptureAssignment and LeafIssuance

`CaptureAssignment` is one Capture: the durable row, the published head of its
Environment, the writer lock and the flags of the short lock, and a record for every
connection. Each call is followed through its critical sections (`BeginConnection`,
`LoadAssignment`, `RegisterConnection`, `LeaveRefused`; `BeginApply`, `BindConnections`, `Revoke`,
`WriteAssignment`, `UpdateConnections`, `LeaveApply`; and so on). `Outcome` is
`finishWrite`: a write that failed is read back, and a Capture whose row cannot be
read is poisoned. How a plan follows from a snapshot is data: an Environment revision
serves a connection or does not (`Serves`). A registration that is refused leaves the
lifecycle count first and gives its locks back in a step of its own, as its deferred
unlocks run after `finish`; every other call gives them back first, and there the model
does both at once. `Publish` is the committed outcome of `environment.Manager.Publish`.

`LeafIssuance` EXTENDS it with the authority: `Issue` consumes an admission of
`admitLeaf`, hits or misses the cache, joins or leads the flight of its key; the flight
generates, asks `Cacheable` and offers its leaf to the cache, whether or not anybody
still waits; `Shutdown` waits for callers and generations and finalizes once.

### Exchange

`phase[x]` follows a request from `AcquirePlan` through `Execute` to the handler's
`Release`; `ReleaseEarly` is a release while Execute has not returned, which the lease is
made for (copies of it share one state, and a test of the repository does it) although the
one handler there is releases last. An Exchange runs in one goroutine, so a step may span several statements as
long as nobody else can tell: other requests see the body credit, the shutdown sees the
operations. `ledger` has the fields of `ledgerState` (byte counts as "some");
`client` is a history of what really went through the downstream writer, by attempt, so
that the properties do not trust the ledger. A request is executed as a stream, a
stream with a response script, a complete response or passed through. Every failure
may be one that is retryable (`net.Error`, an unexpected end, an idle provider, 502 to
504) or not; every write may reach the client wholly, in part or not at all. Both
settings of `AllowResendAfterProviderResponse` are initial states.

## 4. The runs

All runs with "pass" are exhaustive on their instance, within the constraint of their
MC module where it has one.

| Run | Instance | Distinct states | Shows |
|---|---|---|---|
| `offline_hold` | 3 requests to 2 targets, 2 actions, 2 operators, 3 held bytes for 4 requested, concurrency 2 | 61 395 | the gate's inductive invariant, what Held promises, byte account, FIFO, probes, the refinement of `EgressWindow`, and that Enter, a release and Drain end (`Progress`) |
| `capture_runs` | 2 calls of any kind through the gate, 1 run, a clear, a deletion, a caller of Shutdown | 649 114 | the gate's channel is closed once and at the right moment, a drained gate stays so; nothing is usable after Shutdown, a clear removes no running Capture, a finished run's evidence is closed, and Shutdown's Drain ends (`DrainEnds`) |
| `retained_safety` | 2 operations on one key, a revocation by user and a hint | 1 492 013 (symmetry on the operations) | a finished revocation or shutdown leaves nobody running (`JoinedMeansGone`), no read hides a revocation, a hint withdraws nobody, Changed waits only for what somebody will do |
| `retained_expiry` | 2 operations on one key that expires | 35 252 | Retain and Shutdown end, expiry alone withdraws (`Progress`) |
| `approval_safety` | 2 callers with one question, 2 commands, clearing, shutdown, a restart, a store that fails | about 2.5 million (symmetry on callers and commands) | rows stay readable and final, answers are a person's recorded decisions, no question without an audience, nobody is stranded, clearing is never blocked by a person |
| `approval_liveness` | 2 tool intents of a revoked Capture, a command, shutdown | 76 784 | no question outlives its Capture's revocation; a decision reaches all, shutdown ends |
| `oauth_rotation` | 2 leases, 1 manual refresh, 3 epochs, 2 entered credentials, 2 rotations of each | 1 250 111 (symmetry on the leases) | the replacement of a consumed token is never lost, and no consumed token is sent again |
| `oauth_shutdown` | 1 lease, 1 manual refresh, 2 calls of Shutdown, accounts entered again after deletion | 597 559 | a Shutdown that succeeded left nothing unsaved |
| `raw_evidence` | 3 requests of one Capture, one through a buffer, a flushing and a sealing terminal call, a pause, a clear, a shutdown; channel and batch of 2 | 564 563 | the budget is exact, the watermarks are true, nobody waits in vain, a closed scope is quiet, the owner of the storage has it alone |
| `capture_assignment` | 2 semantic connections, one to native tools with a request, 2 calls of ApplyLatest, 3 Environment revisions, 2 calls of the authority's Shutdown | 663 713 (symmetry) | one assignment for all, admissions under the assignment of the moment, exact lifecycle count, nothing left of the authority after Shutdown |
| `exchange` | 3 requests of cost 1 or 2 for a credit of 2, one resend, a stop | 1 778 617 (symmetry on the two that pass through) | no client sees two attempts, only allowed tool calls are seen, the credit is exact and nobody sleeps through a refund |
| `oauth_epoch_reuse` | small | - | a violation, section 8 |

Several properties are conjunctions of named parts: each part is a property of its own
in the module, with its own comment.

Why the bounds are enough to meet the hard cases:

- Offline hold: the queue can hold an unprobed target at its head and behind a
  probed one, a request can arrive during a release, the byte limit refuses, and
  two operators hold revisions of different age.
- Capture runs: one run is enough, since a call, a clear and a deletion meet in its row,
  and it starts in every state; two calls give a heartbeat against a creation or a stop,
  two stops of one run, and a last operation that is not the only one.
- Retained admissions: two operations share one entry and can leave it and
  register again, so an old and a new entry of one key exist at once; a change
  arrives before, during and after the read.
- Tool approval: a creator and a joiner; two commands for one row; a restart leaves
  rows of a lost process behind.
- OAuth: three epochs are a credential, its replacement or rotation, and one more,
  so that a late flight meets a store that has moved on twice; two leases and a
  manual refresh give a flight, a joiner that leaves and a recovery.
- Raw evidence: the channel overflows, a batch is full by number and by bytes, the
  workspace is refused, and a batch fails between two that are stored. `MCFocus` lets at
  most four of the requests, terminal calls, pauses, clears and shutdowns meet. The byte
  limit of the budget binds; the record limit is as large as the number of requests and
  does not, so that it is the theorems `RawEvidenceBudget` and `RawEvidenceMemoryBounded`
  that show it.
- Capture assignment: the second of three Environment revisions cannot serve the native
  tools, so ApplyLatest both fails and succeeds, and a second one follows. `MCFocus`
  lets at most five calls meet.
- Exchange: two requests of cost 1 fit and one of cost 2 does not, so waiters of
  different cost sleep together and only some fit when woken; one resend is enough to
  mix two attempts. Requests meet in the credit and the shutdown only, so one is
  executed in every way and the others pass their response through; `MCFocus` keeps a
  second one from executing once the first has sent, and a lease is released early only
  by a first request that passes its response through and meets one other.

`CHECK_DEADLOCK FALSE` is set where the calls of an instance can all have returned.
`OfflineHold` and `EgressWindow` never stop: an operator can always read a
snapshot or drop a revision.

## 5. Fairness

Safety runs assume none. The liveness properties use weak fairness of steps that
the Go scheduler or a time limit in the code guarantees:

- `OfflineHold`: a call whose wait is over returns; a caller gives its lease back
  (provider calls have timeouts); an action from before the hold, or any action
  once the gate stops, is released (its context is canceled). Operators, timers,
  the prober and new work owe nothing.
- `CaptureRuns`, for the gate and its calls: `Begin` runs to its end,
  `context.AfterFunc` runs, a call that waits neither at the barrier nor for evidence goes
  on, one that does leaves when its context is canceled, and a Drain whose channel is
  closed wakes up. Nothing is assumed of clears, of deletions or of the evidence.
- `RetainedAdmission`: the worker runs, its read ends (two seconds), cancel functions
  return, and an operation that failed or was canceled is cleaned up by its handler.
- `ToolApproval`: goroutines that can run do, repository calls return. The timer
  every ask starts is counted on only once the authority closes, so delivery of a
  decision is shown without any timer.

`RawEvidence`, `CaptureAssignment` and `Exchange` state no fairness: that nobody is
forgotten is an invariant there (a waiter that sleeps has a reason in the state, and
whoever removes the reason wakes it in the same step).

## 6. What is proved

There is one proof module for each of `OfflineHold`, `CaptureRuns` (which includes `LifecycleGate`),
`RetainedAdmission`, `ToolApproval`, `CodexOAuth`, `RawEvidence`, `Exchange` and
`LeafIssuance` (which includes `CaptureAssignment`). The theorems hold for every value
of the constants that satisfies the named assumption of the module; TLC evaluates those
assumptions in the runs. Each theorem follows from an inductive invariant, with one
lemma per action, or group of like actions, that shows that the action keeps it.
TLC checked each of these invariants on the instance of the module's run first.

Sums (held bytes, the body credit, the bytes of the recording budget) are written as the
size of a set that has as many cells for each member as the member weighs. Adding and
removing members is then a fact about cardinalities and needs no induction.

**OfflineHoldProofs.** `GateInvariant` is `IndInv` of `OfflineHold`, checked by the run
`offline_hold` as well. `SafeToDisconnect` alone is not inductive: whether the step to
Held is right depends on `activeActions` and `inFlight` being the true numbers of
leases (`CountersExact`), on the queue and the request phases naming the same waiters
(`QueueAccounting`), and on no lease starting outside the states that allow it
(`HoldDiscipline`). `ReleasingCanMove` and `ReleasedWereProbed` need them too, because
a grant taken from the queue is in flight before its caller has collected it.
From `IndInv` follow `GateTypes`, `GateSafeToDisconnect`, `GateReleasesProbed`,
`GateReleasingCanMove`, the action property `GateProbesQueued`, and
`GateImplementsWindow`: every step of the gate is a step of `EgressWindow` or leaves
the window as it is. `GateHeldBytes` is an invariant beside `IndInv`: the account is the
size of the calls that wait, and `releaseQueuedLocked` takes from both the same prefix.
`GateFifoRelease` needs only that a release grants a prefix of the queue, also of the
queue that `Acquire` has just appended to. `GateResumesInOrder` joins the two.

**CaptureRunsProofs.** Of the gate: `LifecycleDrainSafe`, from `LifecycleInvariant`. The
strengthening is that `active` counts the operations between `Begin` and their finish
(`ActiveExact`), which with finiteness of the set of operations gives that zero means none.

Of the manager: `RunsUseGate` shows that every step of the manager is a step of the gate or
leaves it alone, so the gate's theorems hold of the manager's calls, and a `Drain` that has
returned means that no call is left that could write a row. `RunsRevokedForGood`,
`RunsClearSparesRunning` and `RunsFinishedIsSealed` follow from `RunsInvariant`, for any
number of calls, runs, clears, deletions and calls of `Shutdown`:

- a call past `Begin` is one the gate counts (`CallsInFlight`); without this a call could
  write behind the revocation;
- a clear that has the barrier shares it with no creation and no renewal (`ClearAlone`),
  which is why what it saw is still true when it removes the rows;
- rows are revoked only behind a drained gate, and nothing is revocable afterwards
  (`Closed`), also though recovery, clears and deletions go on.

**CodexOAuthProofs.** In two layers. `BaseInv` is proved without an assumption
(`OAuthBase`) and gives `OAuthTypes` and `OAuthShutdownSavesAll`: a flight carries what its
phase says (`Carried`), an empty entry belongs to a flight that will fill or remove it
(`Addressed`), the saves of `Shutdown` begin only when no flight is in the air, and from
then on every entry is on the list, being saved, or counted as failed (`Closing`).

`OAuthRotationKept` and `OAuthNoReplay` need more, and hold for any number of leases,
manual refreshes, epochs, rotations and calls of `Shutdown` under `~Recreates`: no
credential is entered again after the account's secret was deleted. The assumption is
needed, since without it a revision that the store has left can come back (section 8).
`IndInv` adds to `BaseInv`:

- no flight, entry or save works on an epoch that the store has not reached
  (`NotAhead`), so an epoch that is not the store's is one it has left for good;
- a flight that has not yet retained its result finds its entry as long as its epoch is
  current (`Entries`); this is what `Forget`, which drops entries of other epochs, could
  break;
- what is at the provider is the stored token, or a token of a credential the Owner
  has replaced, and no two flights hold the same one (`SentOnce`);
- whatever may be written over the current credential is an unconsumed token of the
  same line (`Writable`), and every token is a rotation of a consumed one (`Genuine`).

**RetainedAdmissionProofs.** `RetainedRegistrySound`, `RetainedJoinedMeansGone`,
`RetainedRevocationNotLost`, `RetainedWaitsOnSomebody` and the action property
`RetainedHintsDoNotWithdraw`, from `RetainedInvariant`. That a finished `Changed` left
nobody running is about reads of the past, so the invariant says for every moment what
is still owed:

- entries and subscriptions point at each other (`Rooted`), and a subscriber is withdrawn
  exactly when its entry is not the registered one any more or the registry is closed
  (`Withdrawals`);
- an entry that nobody has marked was read at its own version (`Versions`), and a read
  under way speaks for the authority of the moment as long as it would be applied, or a
  revocation still has to mark the entry (`Answers`, `Standing`);
- whoever withdrew a subscriber owes its cancellation until it has made it (`Owing`), and
  a call of `Changed` waits for every entry that a read older than its mark could still
  keep alive (`Revocations`, `Barred`); after shutdown nobody is left (`Ended`).

**ToolApprovalProofs.** `ToolApprovalRowsReadable`, `ToolApprovalAnswers`,
`ToolApprovalAudience`, `ToolApprovalNobodyStranded`, `ToolApprovalRevokedIsQuiet` and the
action property `ToolApprovalTerminalIsFinal`, from `ToolApprovalInvariant`. The
properties about rows depend on calls that are between the two: an ask that has left the
registry and not yet the row, a command that has decided and not yet told. The invariant
ties the registry, the rows and the phases of the asks (`Registry`, `Progressing`), names
the one author of every settled row (`Decided`, `Deciding`), says that what an ask was
told is what the row says (`Told`, `Refusals`), that nobody is published through a closed
gate (`Gate`), and lists what the cancelers still owe (`Owing`).
`ToolApprovalJoinersServed` is the part of `ClearNotBlocked` that does not speak of
ENABLED: whoever joined a question waits on an entry that is published, or whose creator has yet
to publish its row or its failure.

**ExchangeProofs.** `ExchangeOneAttempt`, `ExchangeToolsAllowed` and `ExchangeCreditExact`,
from `ExchangeInvariant`. What the client has seen is not what the ledger says it has: a
write may fail after some bytes. The invariant is a story per Exchange over its own
variables (`Story`): the number of the attempt (`Sends`), what the client can have seen of
it (`Shown`), that the ledger permits a resend only while nothing was shown (`Replayable`),
what a terminal step leaves (`Ended`) and which tool calls were decided (`Decided`). Beside
it stand the leases of the bodies, refunded exactly when they are released and not
executing (`LeasesFollow`, and `RefundCredit` for the step that makes it so), the credit as the cells of its holders
(`Counted`), that whoever sleeps does not fit (`SleepersWait`) and the shutdown
(`Stopping`).

**LeafIssuanceProofs.** `AssignmentAgrees` (`OneAssignment`), `AssignmentDrains`
(`DrainedIsQuiet`), the action property `AdmissionsAreCurrent` (`AdmittedAreCurrent`) and
`AuthorityIsGone` (`AuthorityGone`), from `LeafIssuanceInvariant`. One writer holds the lock,
a refused registration until it has given it back (`Writers`); what a transition has done so far determines which connections may still have
the old plan (`Transition`, `Bound`, `Settled`), a row that was loaded is current while the
lock is held (`Loaded`), and the count of a Capture is the number of its calls inside
(`Counted`, `Stopped`). For the authority: finalization happens once and only when callers
and generations are gone, and nothing starts after it (`Closing`, `Still`). The proof
assumes that connections and calls of `ApplyLatest` have different names, since either may
hold the writer lock.

**RawEvidenceProofs.** `RawEvidenceTypes`, `RawEvidenceWatermarks`,
`RawEvidenceNobodyStranded`, `RawEvidenceTerminalFence`, `RawEvidenceStorageAlone` and
`RawEvidenceBudget`, from `RawEvidenceInvariant`, for finitely many requests.

- Whatever the worker owns stands in one line, the batch, the carried record, the
  channel, and is numbered without a gap from the settled sequence on (`Line`); this makes
  a number a watermark. `Places` says what the worker holds in each of its places,
  `Durables` that the durable prefix ends where a batch was not persisted.
- A scope counts the leases that are out, and a scope in preparation has exactly one
  owner (`ScopesTrue`); who waits without a signal has something to wait for (`Woken`).
- A flush that has returned reached its target, and the last watermark of a scope bounds
  what is in flight for it (`Flushes`); the owner's flush covers everything that was
  admitted before the pause (`Storage`).
- `RawEvidenceMemoryBounded` joins the budget with the limit of the channel.
- The budget: each live reservation holds the bytes of its record, the first of a batch
  also the workspace while the append is under way (`ChargesExact`), except between the
  append's return and the release, where only the release looks at it.

## 7. What is only model-checked

- Liveness: that Enter, releases, Drain, Retain, the delivery of decisions
  and the shutdowns end. The proof system does not reason about fairness.
- `ClearNotBlocked` of `ToolApproval`, which says that certain steps are enabled: ENABLED
  is out of the proof system's reach. What it rests on is proved
  (`ToolApprovalJoinersServed`).
- `OwnerNotOverwritten`, which is false (section 8).

## 8. Findings

A run that TLC must find violated:

- `oauth_epoch_reuse`, `OwnerNotOverwritten`: a deleted secret takes its revision along,
  and the next one starts at 1. A refresh from before the deletion whose exchange is
  denied then writes the old credential, marked for reconnection, over the new one:
  the compare-and-swap sees the revision it expects.

Observations on the way that no run checks:

- `deleteCapture` looks for holders with `GetRun` and removes the Capture in another
  transaction, without the archive barrier that it requires to be configured
  (`desktopcontrol/resource_deletion.go:208`). A heartbeat of a supervisor that slept can
  renew the expired run in between, and the deletion removes a Capture that is running
  again; line 307 says that evidence must not be deleted underneath a live Capture. In
  `CaptureRuns` this is a `HeartbeatRow` between `DeleteChecks` and `DeleteEnds`.
- When the outcome of a stop's commit is unknown, `Finish` commits the evidence although
  the row may still be active (`capturerun/manager.go:365`); line 52 says that this
  happens only once the terminal state is durable. In `CaptureRuns` this is
  `FinishRow(o, FALSE, "unknown")`.
- The number of callers on a pending question can stay one too high: a caller enters the
  registry and only then calls `Join`; if the other caller leaves in between, `Leave`
  keeps the count at one and the `Join` makes it two. `toolapproval/types.go` says the
  counts are kept true.
- A lease that may not refresh can rotate an OAuth credential: `prepare` takes the
  placeholder of a running flight for something to recover; when that flight fails
  before the lease joins it, the lease starts its own, and `refresh` does not ask for
  permission before the exchange.
- With a response script and `AllowResendAfterProviderResponse`, an Exchange that is sent
  again after its envelope was opened calls `Begin` a second time
  (`exchange/pipeline.go:2824` does not ask for the envelope as line 2597 does), so that
  the second, paid answer is always thrown away, although `exchange/ledger.go:80` says
  that a Hold envelope permits resends. The default policy does not set the flag.
- The goroutine of `decideStreamTools` may outlive its Exchange, and `Drain` does not
  count it.
- A semantic connection that registers after `ApplyLatest` moved its Capture to another
  Environment revision is refused a leaf (`captureassignment/leaf_issuance.go:184`),
  although `manager.go:157` says that `ApplyLatest` changes only the policy snapshot of
  later requests.
- A leaf may enter the CA's cache although a transition began after `Cacheable` was
  asked: the two steps share no lock (`localca/authority.go:558`). Its key has the old
  revision, so no admission asks for it again.
- `Drain` can return while a refused `RegisterProviderConnection` still holds both locks
  of its Capture: `fail` finishes (`captureassignment/manager.go:422`) before the deferred
  unlocks. It does nothing more, and `DrainedIsQuiet` says so.
- Deleting an expired Capture removes its pending questions
  (`runtimepersistence/recording_control.go:91`) and tells no waiter; they leave by their
  timers or contexts. The step is not in `ToolApproval`.
- A Capture's state that is created after the snapshot of `BeginShutdown` is marked only
  by the second `BeginShutdown` inside `Drain`.
- An observation whose request has no lease can still be published while a terminal call
  prepares its scope, after that call's flush: `publish` refuses a sealed scope only
  (`rawevidence/manager.go:584`; line 299 speaks of requests that do ask for a lease).
- A row of a pending question can outlive `Shutdown` when a late `Create` or a network
  ask, which the drain does not count, commits after it; the next start cancels it.
- If the `Cancel` that follows the last waiter's departure fails within its second, the
  row stays pending without an audience, and its key is refused until the next start.
- If remembering the rules of a decision fails, the decision stands and its waiters
  wait for the command to be repeated, or for their timers.
- Between the last waiter's removal from the registry and the cancellation of the
  row, a new caller with the same key is denied.
- When the provider consumes a token and its answer is lost, the token is sent again
  later and denied; the credential then has to be connected again. `lost` marks these
  tokens, and the OAuth properties leave them out.

## 9. What is not modelled

- The open steps of section 2. The models stand for about 7 100 lines, 3 % of the
  repository's 211 000: the owners with concurrent state. Most of the remainder is
  codecs, translation, validation, SQL, the user interface's API, the acceptance tool
  and the repository's own checks, where a model would repeat the code.
- In `Exchange`: the Codex turn state, the dry run, message transforms beyond their
  outcome, and the observation of an attempt. In `LeafIssuance`: the Root's files. In
  `RawEvidence`: the content of envelopes and the audited reads.
- Bytes: codecs, translation, relays, TLS, HTTP and the user interface hold no state
  that two of their calls could disagree on, or only that of the network and the
  operating system.
- SQLite and the secret store: a transaction or a compare-and-swap is one atomic step
  of the component that uses it, and may fail.
- Time: a timer may fire whenever it is armed. Durations are never compared, so a
  property that depends on one time limit being shorter than another is not stated.
- The login flow of `codexoauth`, which hands its credential to operations that are
  modelled; native tool decisions, which have their own repository; the removal of legacy
  rows, labels and paging in `toolapproval`.
- The account selector, for which the repository keeps a specification of its own.
