---------------------------- MODULE CaptureRuns ----------------------------
(***************************************************************************)
(* The manager of managed capture runs (internal/capturerun) on top of the *)
(* lifecycle gate: the calls of launchers (Create, Attach, Heartbeat,      *)
(* Finish), the rows they write, the archive barrier that creations and    *)
(* renewals share with the clearing of the archive, the deletion of a      *)
(* single run, and Shutdown, which revokes what is left.                   *)
(*                                                                         *)
(* Every step on a row is one transaction. A lease runs out at any time.   *)
(* The order in which the barrier serves its waiters is left open.         *)
(***************************************************************************)
EXTENDS LifecycleGate

CONSTANTS
    Runs,       \* run IDs, drawn at random and never drawn again
    Clears,     \* requests to clear the archive
    Deleters,   \* requests to delete one Capture
    None

ASSUME NoneIsNoRun == None \notin Runs

VARIABLES
    run,            \* capture_runs.state, "absent" before and "removed" after the row
    process,        \* the runs whose process_id is positive
    lapsed,         \* the runs whose expires_at has passed
    kind,           \* what each operation of the gate is, while it runs
    target,         \* the run it is about, while it runs
    at,             \* where it stands
    ended,          \* the runs whose terminal state this process has committed
    sealed,         \* the runs for which TerminalEvidence.Commit was called
    clear,          \* where each clear stands
    deletion,       \* the run a deletion has found without holders, or None
    stop,           \* how the last Shutdown of each caller ended
    activeRevoked   \* Manager.activeRevoked

rowVars   == <<run, process, lapsed>>
callVars  == <<kind, target, at>>
finishVars == <<ended, sealed>>
adminVars == <<clear, deletion>>
stopVars  == <<stop, activeRevoked>>
runsVars  == <<vars, rowVars, callVars, finishVars, adminVars, stopVars>>

Running    == {"created", "attached"}
Revocable  == {"created", "attached", "expired"}
Finishable == {"created", "attached", "expired", "finished"}
Rows       == {"created", "attached", "expired", "finished", "revoked"}

Kinds  == {"create", "attach", "heartbeat", "finish"}
Stages == {"idle", "entering", "preparing", "writing", "written",
           "committing", "aborting", "leaving", "left"}
ClearStages == {"idle", "holding", "recovered", "checked", "releasing", "done"}

\* What an earlier process left, after the Recover of NewManager.
RunsInit ==
    /\ Init
    /\ run \in [Runs -> {"absent"} \union Rows]
    /\ lapsed = {r \in Runs : run[r] = "expired"}
    /\ \E revivable \in SUBSET lapsed :
           process = revivable \union {r \in Runs : run[r] = "attached"}
    /\ kind = [o \in Operations |-> "attach"] /\ target = [o \in Operations |-> None]
    /\ at = [o \in Operations |-> "idle"]
    /\ ended = {} /\ sealed = {}
    /\ clear = [c \in Clears |-> "idle"] /\ deletion = [x \in Deleters |-> None]
    /\ stop = [d \in Drainers |-> "idle"] /\ activeRevoked = FALSE
-----------------------------------------------------------------------------
(* The calls of launchers.                                                 *)

\* What comes after Begin: the archive barrier, the evidence, or the row at once.
FirstStage(k) ==
    CASE k \in {"create", "heartbeat"} -> "entering"
      [] k = "finish" -> "preparing"
      [] OTHER -> "writing"

\* Who holds the control capability of a run has it from its Create.
BeginCall(o, k, r) ==
    /\ Begin(o)
    /\ IF k = "create" THEN r = None ELSE r \in Runs /\ run[r] # "absent"
    /\ kind' = [kind EXCEPT ![o] = k] /\ target' = [target EXCEPT ![o] = r]
    /\ at' = [at EXCEPT ![o] = FirstStage(k)]
    /\ UNCHANGED <<rowVars, finishVars, adminVars, stopVars>>

GateOnly == UNCHANGED <<rowVars, callVars, finishVars, adminVars, stopVars>>

\* A step of the call itself: the gate is left alone.
CallStep(o, from, to) ==
    /\ op[o] = "running" /\ at[o] = from
    /\ at' = [at EXCEPT ![o] = to]
    /\ UNCHANGED <<vars, kind, target, adminVars, stopVars>>

\* Mutant: nobody looks whether the archive is being cleared.
ClearHoldsNothing == FALSE

ClearHolds == \E c \in Clears : clear[c] \in {"holding", "recovered", "checked", "releasing"}

\* Barrier.BeginCaptureCreation.
EnterBarrier(o) ==
    /\ CallStep(o, "entering", "writing") /\ ~ClearHolds
    /\ UNCHANGED <<rowVars, finishVars>>

\* PrepareManagedRun has closed and drained the run's evidence.
PrepareEvidence(o) ==
    /\ CallStep(o, "preparing", "writing")
    /\ UNCHANGED <<rowVars, finishVars>>

\* Mutant: the wait at the barrier does not end with the context.
GiveUpOnEvidence(o) ==
    /\ CallStep(o, "preparing", "leaving")
    /\ UNCHANGED <<rowVars, finishVars>>

\* The context ends while the call waits, or the evidence cannot be prepared.
GiveUp(o) ==
    /\ \E from \in {"entering", "preparing"} : CallStep(o, from, "leaving")
    /\ UNCHANGED <<rowVars, finishVars>>

CreateRow(o) ==
    /\ kind[o] = "create" /\ CallStep(o, "writing", "written")
    /\ \E r \in Runs : run[r] = "absent" /\ run' = [run EXCEPT ![r] = "created"]
    /\ UNCHANGED <<process, lapsed, finishVars>>

AttachRow(o) ==
    /\ kind[o] = "attach" /\ CallStep(o, "writing", "written")
    /\ run[target[o]] \in Running /\ target[o] \notin lapsed
    /\ run' = [run EXCEPT ![target[o]] = "attached"]
    /\ process' = process \union {target[o]}
    /\ UNCHANGED <<lapsed, finishVars>>

\* Expiry takes the lease, not the right of an attached process to renew it.
HeartbeatRow(o) ==
    /\ kind[o] = "heartbeat" /\ CallStep(o, "writing", "written")
    /\ run[target[o]] \in {"attached", "expired"} /\ target[o] \in process
    /\ run' = [run EXCEPT ![target[o]] = "attached"]
    /\ lapsed' = lapsed \ {target[o]}
    /\ UNCHANGED <<process, finishVars>>

\* The statement matches no row, or the transaction fails.
WriteFails(o) ==
    /\ kind[o] # "finish" /\ CallStep(o, "writing", "written")
    /\ UNCHANGED <<rowVars, finishVars>>

\* Mutant: every error of the repository is a failed mutation.
SettlementOfError(answer) == IF answer = "ok" THEN "committing" ELSE "aborting"

\* What Manager.Finish does with the evidence when the repository has answered.
Settlement(answer) == IF answer = "failed" THEN "aborting" ELSE "committing"

\* What commitNativeStop can answer: a commit that fails is looked up, and where it
\* cannot be looked up the row may be either.
CommitAnswer(landed, answer) == (answer = "ok" => landed) /\ (answer = "failed" => ~landed)

\* Repository.Finish. Without a row that it matches nothing is committed.
FinishRow(o, landed, answer) ==
    /\ kind[o] = "finish" /\ CallStep(o, "writing", Settlement(answer))
    /\ answer # "failed" => run[target[o]] \in Finishable
    /\ CommitAnswer(landed, answer)
    /\ run' = IF landed THEN [run EXCEPT ![target[o]] = "finished"] ELSE run
    /\ ended' = IF landed THEN ended \union {target[o]} ELSE ended
    /\ UNCHANGED <<process, lapsed, sealed>>

\* TerminalEvidence.Commit and Abort.
SettleEvidence(o) ==
    /\ \/ CallStep(o, "committing", "leaving") /\ sealed' = sealed \union {target[o]}
       \/ CallStep(o, "aborting", "leaving") /\ sealed' = sealed
    /\ UNCHANGED <<rowVars, ended>>

\* The deferred release of the archive barrier, and the call's other clean-up.
LeaveBarrier(o) ==
    /\ CallStep(o, "written", "leaving")
    /\ UNCHANGED <<rowVars, finishVars>>

\* The deferred finish of the gate.
EndCall(o) ==
    /\ Finish(o) /\ at[o] = "leaving"
    /\ at' = [at EXCEPT ![o] = "left"]
    /\ kind' = [kind EXCEPT ![o] = "attach"] /\ target' = [target EXCEPT ![o] = None]
    /\ UNCHANGED <<rowVars, finishVars, adminVars, stopVars>>

Advance(o) ==
    \/ EnterBarrier(o) \/ PrepareEvidence(o)
    \/ CreateRow(o) \/ AttachRow(o) \/ HeartbeatRow(o) \/ WriteFails(o)
    \/ \E landed \in BOOLEAN, answer \in {"ok", "failed", "unknown"} : FinishRow(o, landed, answer)
    \/ SettleEvidence(o) \/ LeaveBarrier(o) \/ EndCall(o)
-----------------------------------------------------------------------------
(* Time, recovery, the archive and the end.                                *)

\* expires_at passes.
Lapse(r) ==
    /\ run[r] \in Running /\ r \notin lapsed
    /\ lapsed' = lapsed \union {r}
    /\ UNCHANGED <<vars, run, process, callVars, finishVars, adminVars, stopVars>>

Recovered == [r \in Runs |-> IF run[r] \in Running /\ r \in lapsed THEN "expired" ELSE run[r]]

\* Repository.Recover from ListRuns, which no gate holds back.
Recover ==
    /\ run' = Recovered
    /\ UNCHANGED <<vars, process, lapsed, callVars, finishVars, adminVars, stopVars>>

ClearStep(c, from, to) ==
    /\ clear[c] = from /\ clear' = [clear EXCEPT ![c] = to]
    /\ UNCHANGED <<vars, process, lapsed, callVars, finishVars, deletion, stopVars>>

\* The calls that hold a share of the barrier.
Inside == {o \in Operations : kind[o] \in {"create", "heartbeat"} /\ at[o] \in {"writing", "written"}}

\* Barrier.BeginClear takes all of the barrier.
BeginClear(c) ==
    /\ ClearStep(c, "idle", "holding") /\ ~ClearHolds /\ Inside = {}
    /\ UNCHANGED run

\* ListRuns for the holders: recover, then read.
ClearRecovers(c) == ClearStep(c, "holding", "recovered") /\ run' = Recovered

ClearLists(c) ==
    /\ ClearStep(c, "recovered", IF \E r \in Runs : run[r] \in Running THEN "releasing" ELSE "checked")
    /\ UNCHANGED run

\* ClearEvidence removes every row in one transaction.
ClearCommits(c) ==
    /\ ClearStep(c, "checked", "releasing")
    /\ run' = [r \in Runs |-> IF run[r] = "absent" THEN "absent" ELSE "removed"]

ClearFails(c) ==
    /\ \E from \in {"holding", "recovered", "checked"} : ClearStep(c, from, "releasing")
    /\ UNCHANGED run

ClearReleases(c) == ClearStep(c, "releasing", "done") /\ UNCHANGED run

\* deleteCapture: GetRun, whose answer has no holder if the run is not running.
DeleteChecks(x, r) ==
    /\ deletion[x] = None /\ run[r] \in Rows \ Running
    /\ deletion' = [deletion EXCEPT ![x] = r]
    /\ UNCHANGED <<vars, rowVars, callVars, finishVars, clear, stopVars>>

\* Archive.DeleteCapture: the row goes, or was gone, or the transaction fails.
DeleteEnds(x) ==
    /\ deletion[x] # None
    /\ \/ run' = run
       \/ run[deletion[x]] \in Rows /\ run' = [run EXCEPT ![deletion[x]] = "removed"]
    /\ deletion' = [deletion EXCEPT ![x] = None]
    /\ UNCHANGED <<vars, process, lapsed, callVars, finishVars, clear, stopVars>>

\* Mutant: an expired lease counts as gone.
RevokedRunning == [r \in Runs |-> IF run[r] \in Running THEN "revoked" ELSE run[r]]

Revoked == [r \in Runs |-> IF run[r] \in Revocable THEN "revoked" ELSE run[r]]

\* The end of Shutdown, after a Drain that returned nil, under shutdownMu. An
\* error of RevokeActive leaves it to the next call, also if it was committed;
\* a call after the first that succeeded has nothing to do.
RevokeActive(d) ==
    /\ drain[d] = "returned"
    /\ \/ run' = (IF activeRevoked THEN run ELSE Revoked) /\ activeRevoked' = TRUE
          /\ stop' = [stop EXCEPT ![d] = "done"]
       \/ ~activeRevoked /\ run' \in {run, Revoked} /\ activeRevoked' = FALSE
          /\ stop' = [stop EXCEPT ![d] = "failed"]
    /\ UNCHANGED <<vars, process, lapsed, callVars, finishVars, adminVars>>

RunsNext ==
    \/ CloseAdmission /\ GateOnly
    \/ \E o \in Operations :
           \/ \E k \in Kinds, r \in Runs \union {None} : BeginCall(o, k, r)
           \/ Link(o) /\ GateOnly
           \/ DeliverCancel(o) /\ GateOnly
           \/ Advance(o) \/ GiveUp(o)
    \/ \E d \in Drainers :
           \/ (DrainBegins(d) \/ DrainReturns(d) \/ DrainGivesUp(d)) /\ GateOnly
           \/ RevokeActive(d)
    \/ \E r \in Runs : Lapse(r)
    \/ Recover
    \/ \E c \in Clears : \/ BeginClear(c) \/ ClearRecovers(c) \/ ClearLists(c)
                         \/ ClearCommits(c) \/ ClearFails(c) \/ ClearReleases(c)
    \/ \E x \in Deleters : DeleteEnds(x) \/ \E r \in Runs : DeleteChecks(x, r)

RunsSpec == RunsInit /\ [][RunsNext]_runsVars

(***************************************************************************)
(* A call that can go on does, one that waits leaves when it is canceled,  *)
(* and a Drain whose channel is closed wakes up. Nothing is assumed of a   *)
(* clear or of the evidence: they may take their time.                     *)
(***************************************************************************)
RunsFairness ==
    /\ \A o \in Operations :
           /\ WF_runsVars(Link(o) /\ GateOnly) /\ WF_runsVars(DeliverCancel(o) /\ GateOnly)
           /\ WF_runsVars(at[o] \notin {"entering", "preparing"} /\ Advance(o))
           /\ WF_runsVars(o \in canceled /\ GiveUp(o))
    /\ \A d \in Drainers : WF_runsVars(DrainReturns(d) /\ GateOnly)

RunsFairSpec == RunsSpec /\ RunsFairness
-----------------------------------------------------------------------------
\* After a Shutdown that returned nil no run is left that a proxy admits or that a
\* heartbeat could bring back, whatever calls were under way when it began and
\* whatever ListRuns, clears and deletions do afterwards (manager.go:406-427).
RevokedForGood ==
    (\E d \in Drainers : stop[d] = "done") => \A r \in Runs : run[r] \notin Revocable

\* A clear that is past its look for holders finds no running Capture when it removes
\* the rows: neither a creation nor the renewal of an expired lease gets in between
\* (resource_deletion.go:268-293 against manager.go:313-319).
ClearSparesRunning ==
    (\E c \in Clears : clear[c] = "checked") => \A r \in Runs : run[r] \notin Running

\* A run whose terminal state this process has committed has its evidence closed for
\* good, or its Finish is about to do that, also when the repository could not tell
\* Finish whether the commit went through (manager.go:358-380).
FinishedIsSealed ==
    \A r \in ended : r \in sealed \/ \E o \in Operations : target[o] = r /\ at[o] = "committing"
=============================================================================
