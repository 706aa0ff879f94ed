------------------------- MODULE CaptureRunsProofs -------------------------
(***************************************************************************)
(* The lifecycle gate and the capture-run manager that uses it, for any    *)
(* number of operations, runs, clears, deletions and calls of Shutdown.    *)
(*                                                                         *)
(* First the gate: the channel Drain waits on is closed once, and exactly  *)
(* when nothing is left. Then the manager: its steps are steps of the gate *)
(* or leave it alone, so what holds of the gate holds here, and a drained  *)
(* gate means that no call will write a row any more.                      *)
(***************************************************************************)
EXTENDS CaptureRuns, FiniteSetTheorems, TLAPS

-----------------------------------------------------------------------------
(* The gate.                                                               *)

\* The operations in flight are finitely many, and the counter tells whether
\* there are any.
LEMMA InFlightCount ==
    ASSUME TypeOK, ActiveExact
    PROVE  IsFiniteSet(InFlight) /\ (active = 0 <=> InFlight = {})
<1>1. IsFiniteSet(InFlight)
  BY FiniteOperations, FS_Subset DEF InFlight
<1> QED
  BY <1>1, FS_EmptySet DEF ActiveExact

\* An operation that is admitted is one more in flight.
LEMMA BeginInv ==
    ASSUME IndInv, NEW o \in Operations, Begin(o)
    PROVE  IndInv'
<1> USE DEF IndInv
<1>1. InFlight' = InFlight \union {o} /\ o \notin InFlight
  BY DEF Begin, InFlight, TypeOK
<1>2. TypeOK'
  BY DEF Begin, TypeOK, OpPhases
<1>3. ActiveExact'
  <2>1. Cardinality(InFlight \union {o}) = Cardinality(InFlight) + 1
    BY <1>1, InFlightCount, FS_AddElement
  <2> QED
    BY <1>1, <2>1 DEF Begin, ActiveExact
<1>4. ClosedExactlyWhenDrained' /\ DrainedForGood'
  BY <1>1 DEF Begin, ClosedExactlyWhenDrained, DrainedForGood
<1> QED
  BY <1>2, <1>3, <1>4

\* An operation that finishes is one less in flight, and the last one closes the
\* channel if admission is closed already.
LEMMA FinishInv ==
    ASSUME IndInv, NEW o \in Operations, Finish(o)
    PROVE  IndInv'
<1> USE DEF IndInv
<1>1. InFlight' = InFlight \ {o} /\ o \in InFlight
  BY DEF Finish, InFlight, TypeOK
<1>2. active' = Cardinality(InFlight') /\ active' \in Nat /\ active' = active - 1
  <2>1. Cardinality(InFlight \ {o}) = Cardinality(InFlight) - 1
    BY <1>1, InFlightCount, FS_RemoveElement
  <2>2. active \in Nat /\ active > 0
    BY <1>1, InFlightCount DEF TypeOK
  <2> QED
    BY <1>1, <2>1, <2>2 DEF Finish, ActiveExact
<1>3. IsFiniteSet(InFlight') /\ (active' = 0 <=> InFlight' = {})
  <2>1. IsFiniteSet(InFlight')
    BY <1>1, InFlightCount, FS_RemoveElement
  <2> QED
    BY <1>2, <2>1, FS_EmptySet
<1>4. closes = 0
  BY <1>1 DEF ClosedExactlyWhenDrained
<1>5. accepting' = accepting /\ closes' = (IF ~accepting /\ InFlight' = {} THEN 1 ELSE 0)
  BY <1>2, <1>3, <1>4 DEF Finish, LastOut
<1>6. TypeOK'
  BY <1>2, <1>5 DEF Finish, TypeOK, OpPhases
<1>7. ActiveExact' /\ ClosedExactlyWhenDrained'
  BY <1>2, <1>5 DEF ActiveExact, ClosedExactlyWhenDrained
<1>8. DrainedForGood'
  BY <1>1 DEF Finish, DrainedForGood
<1> QED
  BY <1>6, <1>7, <1>8

\* The other steps leave the operations in flight alone.
LEMMA OtherInv ==
    ASSUME IndInv,
           \/ CloseAdmission
           \/ \E o \in Operations : Link(o) \/ DeliverCancel(o)
           \/ \E d \in Drainers : DrainBegins(d) \/ DrainReturns(d) \/ DrainGivesUp(d)
           \/ UNCHANGED vars
    PROVE  IndInv'
<1> USE DEF IndInv
<1>1. CASE CloseAdmission
  <2>1. InFlight' = InFlight /\ closes = 0
    BY <1>1 DEF CloseAdmission, InFlight, ClosedExactlyWhenDrained
  <2>2. closes' = IF InFlight = {} THEN 1 ELSE 0
    BY <1>1, <2>1, InFlightCount DEF CloseAdmission
  <2>3. TypeOK'
    <3>1. closes' \in 0..1
      BY <2>2
    <3>2. accepting' \in BOOLEAN
      BY <1>1 DEF CloseAdmission
    <3> QED
      BY <1>1, <3>1, <3>2 DEF CloseAdmission, TypeOK
  <2>4. ActiveExact' /\ DrainedForGood'
    BY <1>1, <2>1 DEF CloseAdmission, ActiveExact, DrainedForGood
  <2>5. ClosedExactlyWhenDrained'
    BY <1>1, <2>1, <2>2 DEF CloseAdmission, ClosedExactlyWhenDrained
  <2> QED
    BY <2>3, <2>4, <2>5
<1>2. ASSUME NEW o \in Operations, Link(o) \/ DeliverCancel(o) PROVE IndInv'
  <2>1. InFlight' = InFlight
    BY <1>2 DEF Link, DeliverCancel, InFlight, TypeOK
  <2>2. TypeOK'
    BY <1>2 DEF Link, DeliverCancel, TypeOK, OpPhases
  <2> QED
    BY <1>2, <2>1, <2>2
       DEF Link, DeliverCancel, ActiveExact, ClosedExactlyWhenDrained, DrainedForGood
<1>3. ASSUME NEW d \in Drainers, DrainBegins(d) \/ DrainReturns(d) \/ DrainGivesUp(d)
      PROVE  IndInv'
  <2>1. /\ InFlight' = InFlight /\ accepting' = accepting /\ active' = active
        /\ closes' = closes
    BY <1>3 DEF DrainBegins, DrainReturns, DrainGivesUp, InFlight
  <2>2. TypeOK'
    BY <1>3 DEF DrainBegins, DrainReturns, DrainGivesUp, TypeOK, DrainPhases
  <2>3. drain'[d] = "returned" => ~accepting /\ InFlight = {}
    BY <1>3, InFlightCount
       DEF DrainBegins, DrainReturns, DrainGivesUp, TypeOK, ClosedExactlyWhenDrained
  <2>4. \A c \in Drainers : c # d => drain'[c] = drain[c]
    BY <1>3 DEF DrainBegins, DrainReturns, DrainGivesUp, TypeOK
  <2> QED
    BY <2>1, <2>2, <2>3, <2>4 DEF ActiveExact, ClosedExactlyWhenDrained, DrainedForGood
<1>4. CASE UNCHANGED vars
  BY <1>4 DEF vars, TypeOK, ActiveExact, ClosedExactlyWhenDrained, DrainedForGood, InFlight
<1> QED
  BY <1>1, <1>2, <1>3, <1>4

\* The invariant of the gate holds from New on.
THEOREM LifecycleInvariant == Spec => []IndInv
<1>1. Init => IndInv
  <2> SUFFICES ASSUME Init PROVE IndInv
    OBVIOUS
  <2>1. InFlight = {}
    BY DEF Init, InFlight
  <2> QED
    BY <2>1, FS_EmptySet
       DEF Init, IndInv, TypeOK, OpPhases, DrainPhases, ActiveExact,
           ClosedExactlyWhenDrained, DrainedForGood
<1>2. IndInv /\ [Next]_vars => IndInv'
  BY BeginInv, FinishInv, OtherInv DEF Next
<1> QED
  BY <1>1, <1>2, PTL DEF Spec

\* close(Gate.drained) is executed once, exactly when admission is closed and no
\* operation is in flight, and after a Drain that returned nil nothing runs, for any
\* number of operations.
THEOREM LifecycleDrainSafe == Spec => []DrainSafe
<1>1. IndInv => DrainSafe
  BY DEF IndInv, DrainSafe
<1> QED
  BY <1>1, LifecycleInvariant, PTL

-----------------------------------------------------------------------------
(* The manager: its invariant.                                             *)

\* The variables of the manager have the types of their columns and fields.
RunsTypeOK ==
    /\ run \in [Runs -> {"absent", "removed"} \union Rows]
    /\ process \subseteq Runs /\ lapsed \subseteq Runs
    /\ kind \in [Operations -> Kinds] /\ target \in [Operations -> Runs \union {None}]
    /\ at \in [Operations -> Stages]
    /\ ended \subseteq Runs /\ sealed \subseteq Runs
    /\ clear \in [Clears -> ClearStages] /\ deletion \in [Deleters -> Runs \union {None}]
    /\ stop \in [Drainers -> {"idle", "done", "failed"}] /\ activeRevoked \in BOOLEAN

\* The calls follow the gate: who is past its first stage is counted in flight.
CallsInFlight ==
    \A o \in Operations :
        /\ at[o] \in Stages \ {"idle", "left"} <=> o \in InFlight
        /\ at[o] \notin {"idle", "left"} => (target[o] \in Runs <=> kind[o] # "create")
        /\ at[o] \in {"preparing", "committing", "aborting"} => kind[o] = "finish"
        /\ at[o] = "entering" => kind[o] \in {"create", "heartbeat"}

\* A clear that has the barrier shares it with no creation and no renewal.
ClearAlone == ClearHolds => Inside = {}

\* Once the rows are revoked the gate is drained and nothing is revocable.
Closed ==
    /\ \A d \in Drainers : stop[d] # "idle" => drain[d] = "returned"
    /\ \A d \in Drainers : stop[d] = "done" => activeRevoked
    /\ activeRevoked => /\ \E d \in Drainers : drain[d] = "returned"
                        /\ \A r \in Runs : run[r] \notin Revocable

\* The inductive invariant of the manager, beside that of the gate.
RunsInv ==
    RunsTypeOK /\ CallsInFlight /\ ClearAlone /\ Closed /\ ClearSparesRunning /\ FinishedIsSealed

-----------------------------------------------------------------------------
(* The manager uses the gate: the gate's theorems hold of it.              *)

\* A call's own steps leave the gate alone, but for the last, which is the gate's.
LEMMA AdvanceIsGateStep ==
    ASSUME NEW o \in Operations, Advance(o) \/ GiveUp(o)
    PROVE  Next \/ UNCHANGED vars
<1>1. CASE EndCall(o)
  BY <1>1 DEF EndCall, Next
<1>2. CASE \E from, to \in Stages : CallStep(o, from, to)
  BY <1>2 DEF CallStep
<1>3. CASE GiveUp(o)
  BY <1>3, <1>2 DEF GiveUp, Stages
<1>4. CASE \/ EnterBarrier(o) \/ PrepareEvidence(o) \/ CreateRow(o) \/ AttachRow(o)
           \/ HeartbeatRow(o) \/ WriteFails(o) \/ SettleEvidence(o) \/ LeaveBarrier(o)
  BY <1>4, <1>2 DEF EnterBarrier, PrepareEvidence, CreateRow, AttachRow, HeartbeatRow,
     WriteFails, SettleEvidence, LeaveBarrier, Stages
<1>5. CASE \E landed \in BOOLEAN, answer \in {"ok", "failed", "unknown"} :
               FinishRow(o, landed, answer)
  BY <1>5, <1>2 DEF FinishRow, Settlement, Stages
<1> QED
  BY <1>1, <1>3, <1>4, <1>5 DEF Advance

\* Every step of the manager is a step of the gate or leaves it as it is.
LEMMA RunsStepIsGateStep == [RunsNext]_runsVars => [Next]_vars
<1> SUFFICES ASSUME [RunsNext]_runsVars PROVE Next \/ UNCHANGED vars
  OBVIOUS
<1>1. CASE UNCHANGED runsVars
  BY <1>1 DEF runsVars
<1>2. CASE CloseAdmission
  BY <1>2 DEF Next
<1>3. ASSUME NEW o \in Operations,
             \/ \E k \in Kinds, r \in Runs \union {None} : BeginCall(o, k, r)
             \/ Link(o) \/ DeliverCancel(o)
      PROVE  Next
  BY <1>3 DEF BeginCall, Next
<1>4. ASSUME NEW d \in Drainers, DrainBegins(d) \/ DrainReturns(d) \/ DrainGivesUp(d)
      PROVE  Next
  BY <1>4 DEF Next
<1>5. CASE \/ \E d \in Drainers : RevokeActive(d)
           \/ Recover
           \/ \E r \in Runs : Lapse(r)
           \/ \E x \in Deleters : DeleteEnds(x) \/ \E r \in Runs : DeleteChecks(x, r)
  BY <1>5 DEF RevokeActive, Recover, Lapse, DeleteEnds, DeleteChecks
<1>6. ASSUME NEW c \in Clears,
             \/ BeginClear(c) \/ ClearRecovers(c) \/ ClearLists(c)
             \/ ClearCommits(c) \/ ClearFails(c) \/ ClearReleases(c)
      PROVE  UNCHANGED vars
  BY <1>6 DEF BeginClear, ClearRecovers, ClearLists, ClearCommits, ClearFails, ClearReleases,
     ClearStep
<1> QED
  BY <1>1, <1>2, <1>3, <1>4, <1>5, <1>6, AdvanceIsGateStep DEF RunsNext

\* The manager's behaviours are behaviours of the gate, so that its counter is exact
\* and a Drain that returned nil leaves no call of the manager in flight.
THEOREM RunsUseGate == RunsSpec => Spec
<1>1. RunsInit => Init
  BY DEF RunsInit
<1> QED
  BY <1>1, RunsStepIsGateStep, PTL DEF RunsSpec, Spec

-----------------------------------------------------------------------------
(* The steps preserve the invariant.                                       *)

\* While a call is in flight the rows are not revoked yet.
LEMMA InFlightNotRevoked ==
    ASSUME IndInv, RunsInv, NEW o \in Operations, op[o] = "running"
    PROVE  ~activeRevoked
  BY DEF IndInv, RunsInv, Closed, DrainedForGood, InFlight

\* A call's own step moves that call, keeps the calls in flight, and takes a share of
\* the barrier only when no clear has it.
LEMMA CallStepInv ==
    ASSUME IndInv, RunsInv, NEW o \in Operations,
           NEW from \in Stages \ {"idle", "left"},
           NEW to \in Stages \ {"idle", "left", "entering", "preparing"},
           CallStep(o, from, to),
           to \in {"committing", "aborting"} => kind[o] = "finish",
           to = "writing" => ~ClearHolds \/ kind[o] \notin {"create", "heartbeat"},
           to = "written" => from = "writing"
    PROVE  /\ at' \in [Operations -> Stages] /\ at'[o] = to
           /\ \A p \in Operations \ {o} : at'[p] = at[p]
           /\ ~activeRevoked /\ CallsInFlight' /\ ClearAlone'
<1> USE DEF RunsInv
<1>1. /\ at \in [Operations -> Stages] /\ at[o] = from /\ op[o] = "running"
      /\ at' = [at EXCEPT ![o] = to]
      /\ UNCHANGED <<op, kind, target, clear>>
  BY DEF CallStep, RunsTypeOK, vars, adminVars
<1>2. ~activeRevoked
  BY <1>1, InFlightNotRevoked
<1>3. InFlight' = InFlight
  BY <1>1 DEF InFlight
<1>4. CallsInFlight'
  BY <1>1, <1>3 DEF CallsInFlight, Stages
<1>5. ClearHolds' = ClearHolds
  BY <1>1 DEF ClearHolds
<1>6. ClearAlone'
  <2>1. \A p \in Operations : p \in Inside' => p \in Inside \/ p = o
    BY <1>1 DEF Inside
  <2>2. o \in Inside' => o \in Inside \/ ~ClearHolds
    BY <1>1 DEF Inside
  <2>3. ClearHolds => \A p \in Operations : p \notin Inside
    BY DEF ClearAlone
  <2>4. ClearHolds => \A p \in Operations : p \notin Inside'
    BY <2>1, <2>2, <2>3
  <2> QED
    BY <1>5, <2>4 DEF ClearAlone, Inside
<1> QED
  BY <1>1, <1>2, <1>4, <1>6

\* A call's step keeps the rest of the invariant if the row it writes keeps it: no row
\* becomes a running one while a clear is past its look.
LEMMA CallRowInv ==
    ASSUME IndInv, RunsInv, NEW o \in Operations,
           NEW from \in Stages \ {"idle", "left", "committing"},
           NEW to \in Stages \ {"idle", "left", "entering", "preparing"},
           CallStep(o, from, to),
           to \in {"committing", "aborting"} => kind[o] = "finish",
           to = "writing" => ~ClearHolds \/ kind[o] \notin {"create", "heartbeat"},
           to = "written" => from = "writing",
           run' \in [Runs -> {"absent", "removed"} \union Rows],
           process' \subseteq Runs, lapsed' \subseteq Runs,
           ended' \subseteq Runs, sealed' = sealed,
           ended' \subseteq ended \union (IF to = "committing" THEN {target[o]} ELSE {}),
           (\E c \in Clears : clear[c] = "checked") =>
               \A r \in Runs : run'[r] \in Running => run[r] \in Running
    PROVE  RunsInv'
<1>1. /\ at' \in [Operations -> Stages] /\ at'[o] = to
      /\ \A p \in Operations \ {o} : at'[p] = at[p]
      /\ ~activeRevoked /\ CallsInFlight' /\ ClearAlone'
  BY CallStepInv
<1>2. /\ at[o] = from
      /\ UNCHANGED <<drain, kind, target, clear, deletion, stop, activeRevoked>>
  BY DEF CallStep, vars, adminVars, stopVars
<1>3. RunsTypeOK'
  BY <1>1, <1>2 DEF RunsInv, RunsTypeOK
<1>4. Closed'
  BY <1>1, <1>2 DEF RunsInv, Closed
<1>5. ClearSparesRunning'
  BY <1>2 DEF RunsInv, RunsTypeOK, ClearSparesRunning
<1>6. FinishedIsSealed'
  <2> SUFFICES ASSUME NEW r \in ended'
               PROVE  r \in sealed \/ \E p \in Operations : target[p] = r /\ at'[p] = "committing"
    BY <1>2 DEF FinishedIsSealed
  <2>1. CASE r \in ended
    BY <1>1, <1>2, <2>1 DEF RunsInv, FinishedIsSealed
  <2>2. CASE r \notin ended
    BY <1>1, <2>2
  <2> QED
    BY <2>1, <2>2
<1> QED
  BY <1>1, <1>3, <1>4, <1>5, <1>6 DEF RunsInv

\* A call in flight that is no creation has a run.
LEMMA TargetIsRun ==
    ASSUME RunsInv, NEW o \in Operations, at[o] \notin {"idle", "left"}, kind[o] # "create"
    PROVE  target[o] \in Runs
  BY DEF RunsInv, CallsInFlight

\* Steps of a call that write no row.
LEMMA QuietCallInv ==
    ASSUME IndInv, RunsInv, NEW o \in Operations,
           \/ EnterBarrier(o) \/ PrepareEvidence(o) \/ GiveUp(o) \/ WriteFails(o) \/ LeaveBarrier(o)
    PROVE  RunsInv'
<1>1. /\ UNCHANGED <<run, process, lapsed, ended, sealed>>
      /\ \E from \in {"entering", "preparing", "writing", "written"},
            to \in {"writing", "written", "leaving"} :
             /\ CallStep(o, from, to)
             /\ to = "writing" => ~ClearHolds \/ kind[o] \notin {"create", "heartbeat"}
             /\ to = "written" => from = "writing"
  <2>1. PrepareEvidence(o) => kind[o] = "finish"
    BY DEF RunsInv, CallsInFlight, PrepareEvidence, CallStep
  <2> QED
    BY <2>1 DEF EnterBarrier, PrepareEvidence, GiveUp, WriteFails, LeaveBarrier, rowVars, finishVars
<1>2. PICK from \in {"entering", "preparing", "writing", "written"},
           to \in {"writing", "written", "leaving"} :
             /\ CallStep(o, from, to)
             /\ to = "writing" => ~ClearHolds \/ kind[o] \notin {"create", "heartbeat"}
             /\ to = "written" => from = "writing"
  BY <1>1
<1>3. /\ from \in Stages \ {"idle", "left", "committing"}
      /\ to \in Stages \ {"idle", "left", "entering", "preparing"}
      /\ to \notin {"committing", "aborting"}
  BY DEF Stages
<1>4. /\ run \in [Runs -> {"absent", "removed"} \union Rows]
      /\ process \subseteq Runs /\ lapsed \subseteq Runs /\ ended \subseteq Runs
  BY DEF RunsInv, RunsTypeOK
<1> QED
  BY <1>1, <1>2, <1>3, <1>4, CallRowInv

\* A creation and a renewal hold a share of the barrier, and an attachment finds its
\* run running.
LEMMA WriteRowInv ==
    ASSUME IndInv, RunsInv, NEW o \in Operations, CreateRow(o) \/ AttachRow(o) \/ HeartbeatRow(o)
    PROVE  RunsInv'
<1> USE DEF RunsInv
<1>1. /\ CallStep(o, "writing", "written") /\ UNCHANGED <<ended, sealed>>
      /\ kind[o] \in {"create", "attach", "heartbeat"}
  BY DEF CreateRow, AttachRow, HeartbeatRow, finishVars
<1>2. at[o] = "writing" /\ (kind[o] # "create" => target[o] \in Runs)
  BY <1>1, TargetIsRun DEF CallStep
<1>3. /\ run' \in [Runs -> {"absent", "removed"} \union Rows]
      /\ process' \subseteq Runs /\ lapsed' \subseteq Runs /\ ended' \subseteq Runs
  BY <1>1, <1>2 DEF CreateRow, AttachRow, HeartbeatRow, RunsTypeOK, Rows
<1>4. ASSUME \E c \in Clears : clear[c] = "checked"
      PROVE  \A r \in Runs : run'[r] \in Running => run[r] \in Running
  <2>1. o \notin Inside
    BY <1>4 DEF ClearAlone, ClearHolds
  <2>2. AttachRow(o)
    BY <1>2, <2>1 DEF Inside, CreateRow, HeartbeatRow
  <2> QED
    BY <2>2, <1>2 DEF AttachRow, RunsTypeOK
<1> QED
  BY <1>1, <1>3, <1>4, CallRowInv DEF Stages

\* A run that is finished is neither running nor revocable, and whoever finished it
\* will commit its evidence.
LEMMA FinishRowInv ==
    ASSUME IndInv, RunsInv, NEW o \in Operations, NEW landed \in BOOLEAN,
           NEW answer \in {"ok", "failed", "unknown"}, FinishRow(o, landed, answer)
    PROVE  RunsInv'
<1>1. /\ CallStep(o, "writing", Settlement(answer)) /\ kind[o] = "finish" /\ at[o] = "writing"
      /\ Settlement(answer) \in {"committing", "aborting"}
  BY DEF FinishRow, CallStep, Settlement
<1>2. target[o] \in Runs
  BY <1>1, TargetIsRun
<1>3. run \in [Runs -> {"absent", "removed"} \union Rows] /\ process \subseteq Runs
      /\ lapsed \subseteq Runs /\ ended \subseteq Runs
  BY DEF RunsInv, RunsTypeOK
<1>4. /\ run' \in [Runs -> {"absent", "removed"} \union Rows]
      /\ \A r \in Runs : run'[r] \in Running => run[r] \in Running
  BY <1>2, <1>3 DEF FinishRow, Rows, Running
<1>5. /\ process' \subseteq Runs /\ lapsed' \subseteq Runs /\ sealed' = sealed
      /\ ended' \subseteq Runs
      /\ ended' \subseteq ended \union (IF Settlement(answer) = "committing" THEN {target[o]} ELSE {})
  BY <1>2, <1>3 DEF FinishRow, CommitAnswer, Settlement
<1> QED
  BY <1>1, <1>4, <1>5, CallRowInv DEF Stages

\* Commit closes the evidence of the run it was held for.
LEMMA SettleInv ==
    ASSUME IndInv, RunsInv, NEW o \in Operations, SettleEvidence(o)
    PROVE  RunsInv'
<1>1. \/ CallStep(o, "committing", "leaving") /\ sealed' = sealed \union {target[o]}
      \/ CallStep(o, "aborting", "leaving") /\ sealed' = sealed
  BY DEF SettleEvidence
<1>2. /\ UNCHANGED <<run, process, lapsed, ended>>
      /\ UNCHANGED <<drain, kind, target, clear, deletion, stop, activeRevoked>>
      /\ at[o] \in {"committing", "aborting"}
      /\ at[o] = "committing" => sealed' = sealed \union {target[o]}
      /\ at[o] = "aborting" => sealed' = sealed
  BY <1>1 DEF SettleEvidence, CallStep, vars, rowVars, adminVars, stopVars
<1>3. target[o] \in Runs
  BY <1>2 DEF RunsInv, CallsInFlight
<1>4. /\ at' \in [Operations -> Stages]
      /\ \A p \in Operations \ {o} : at'[p] = at[p]
      /\ ~activeRevoked /\ CallsInFlight' /\ ClearAlone'
  BY <1>1, CallStepInv DEF Stages
<1>5. RunsTypeOK'
  BY <1>2, <1>3, <1>4 DEF RunsInv, RunsTypeOK
<1>6. Closed' /\ ClearSparesRunning'
  BY <1>2 DEF RunsInv, Closed, ClearSparesRunning
<1>7. FinishedIsSealed'
  BY <1>2, <1>4 DEF RunsInv, FinishedIsSealed
<1> QED
  BY <1>4, <1>5, <1>6, <1>7 DEF RunsInv

\* Begin puts a call in flight that was not, and takes no share of the barrier.
LEMMA BeginCallInv ==
    ASSUME IndInv, RunsInv, NEW o \in Operations, NEW k \in Kinds, NEW r \in Runs \union {None},
           BeginCall(o, k, r)
    PROVE  RunsInv'
<1>1. /\ op \in [Operations -> OpPhases] /\ op[o] = "idle" /\ op' = [op EXCEPT ![o] = "admitted"]
      /\ UNCHANGED <<run, process, lapsed, ended, sealed, drain, clear, deletion, stop, activeRevoked>>
  BY DEF BeginCall, Begin, IndInv, TypeOK, rowVars, finishVars, adminVars, stopVars
<1>2. /\ kind \in [Operations -> Kinds] /\ target \in [Operations -> Runs \union {None}]
      /\ at \in [Operations -> Stages]
      /\ kind' = [kind EXCEPT ![o] = k] /\ target' = [target EXCEPT ![o] = r]
      /\ at' = [at EXCEPT ![o] = FirstStage(k)]
      /\ r \in Runs <=> k # "create"
  BY NoneIsNoRun DEF BeginCall, RunsInv, RunsTypeOK
<1>3. /\ FirstStage(k) \in {"entering", "preparing", "writing"}
      /\ FirstStage(k) = "entering" <=> k \in {"create", "heartbeat"}
      /\ FirstStage(k) = "preparing" <=> k = "finish"
  BY DEF FirstStage, Kinds
<1>4. at[o] \in {"idle", "left"}
  BY <1>1, <1>2 DEF RunsInv, CallsInFlight, InFlight
<1>5. RunsTypeOK'
  BY <1>1, <1>2, <1>3 DEF RunsInv, RunsTypeOK, Stages
<1>6. CallsInFlight'
  <2>1. InFlight' = InFlight \union {o}
    BY <1>1 DEF InFlight
  <2>2. \A p \in Operations \ {o} :
            at'[p] = at[p] /\ kind'[p] = kind[p] /\ target'[p] = target[p]
    BY <1>2
  <2>3. at'[o] = FirstStage(k) /\ kind'[o] = k /\ target'[o] = r
    BY <1>2
  <2> QED
    BY <1>2, <1>3, <2>1, <2>2, <2>3 DEF RunsInv, CallsInFlight, Stages
<1>7. ClearAlone'
  <2>1. Inside' \subseteq Inside
    BY <1>2, <1>3 DEF Inside
  <2> QED
    BY <1>1, <2>1 DEF RunsInv, ClearAlone, ClearHolds
<1>8. Closed' /\ ClearSparesRunning'
  BY <1>1 DEF RunsInv, Closed, ClearSparesRunning
<1>9. FinishedIsSealed'
  BY <1>1, <1>2, <1>4 DEF RunsInv, FinishedIsSealed
<1> QED
  BY <1>5, <1>6, <1>7, <1>8, <1>9 DEF RunsInv

\* A call leaves the gate after it has left the barrier and settled its evidence.
LEMMA EndCallInv ==
    ASSUME IndInv, RunsInv, NEW o \in Operations, EndCall(o)
    PROVE  RunsInv'
<1>1. /\ op \in [Operations -> OpPhases] /\ op' = [op EXCEPT ![o] = "finished"]
      /\ UNCHANGED <<run, process, lapsed, ended, sealed, drain, clear, deletion, stop, activeRevoked>>
      /\ kind \in [Operations -> Kinds] /\ kind' = [kind EXCEPT ![o] = "attach"]
      /\ target \in [Operations -> Runs \union {None}] /\ target' = [target EXCEPT ![o] = None]
      /\ at \in [Operations -> Stages] /\ at[o] = "leaving" /\ at' = [at EXCEPT ![o] = "left"]
  BY DEF EndCall, Finish, IndInv, TypeOK, rowVars, finishVars, adminVars, stopVars, RunsInv, RunsTypeOK
<1>2. RunsTypeOK'
  BY <1>1 DEF RunsInv, RunsTypeOK, Stages, Kinds
<1>3. CallsInFlight'
  <2>1. InFlight' = InFlight \ {o}
    BY <1>1 DEF InFlight
  <2> QED
    BY <1>1, <2>1 DEF RunsInv, CallsInFlight
<1>4. ClearAlone'
  <2>1. Inside' \subseteq Inside
    BY <1>1 DEF Inside
  <2> QED
    BY <1>1, <2>1 DEF RunsInv, ClearAlone, ClearHolds
<1>5. Closed' /\ ClearSparesRunning' /\ FinishedIsSealed'
  BY <1>1 DEF RunsInv, Closed, ClearSparesRunning, FinishedIsSealed
<1> QED
  BY <1>2, <1>3, <1>4, <1>5 DEF RunsInv

\* Steps of the gate alone keep who is in flight and which Drain has returned.
LEMMA GateOnlyInv ==
    ASSUME IndInv, RunsInv, GateOnly, InFlight' = InFlight,
           \A d \in Drainers : drain[d] = "returned" => drain'[d] = "returned"
    PROVE  RunsInv'
<1> USE DEF GateOnly, rowVars, callVars, finishVars, adminVars, stopVars, RunsInv
<1>1. RunsTypeOK'
  BY DEF RunsTypeOK
<1>2. CallsInFlight'
  BY DEF CallsInFlight
<1>3. ClearAlone' /\ ClearSparesRunning' /\ FinishedIsSealed'
  BY DEF ClearAlone, ClearHolds, Inside, ClearSparesRunning, FinishedIsSealed
<1>4. Closed'
  BY DEF Closed
<1> QED
  BY <1>1, <1>2, <1>3, <1>4

\* Steps that change rows, clears, deletions or Shutdown and no call.
LEMMA AdminInv ==
    ASSUME RunsInv, UNCHANGED <<vars, callVars, finishVars>>, RunsTypeOK', Closed',
           ClearHolds' => ClearHolds \/ Inside = {}, ClearSparesRunning'
    PROVE  RunsInv'
<1>1. CallsInFlight' /\ FinishedIsSealed'
  BY DEF RunsInv, vars, callVars, finishVars, CallsInFlight, InFlight, FinishedIsSealed
<1>2. Inside' = Inside
  BY DEF callVars, Inside
<1> QED
  BY <1>1, <1>2 DEF RunsInv, ClearAlone

\* Recover turns running rows into expired ones, which are as revocable as before.
LEMMA RecoverInv ==
    ASSUME RunsInv, Recover \/ \E r \in Runs : Lapse(r)
    PROVE  RunsInv'
<1>1. /\ UNCHANGED <<vars, callVars, finishVars, adminVars, stopVars, process>>
      /\ run' \in {run, Recovered} /\ lapsed' \subseteq Runs
  BY DEF Recover, Lapse, RunsInv, RunsTypeOK
<1>2. /\ Recovered \in [Runs -> {"absent", "removed"} \union Rows]
      /\ \A r \in Runs : /\ Recovered[r] \in Running => run[r] \in Running
                         /\ Recovered[r] \in Revocable => run[r] \in Revocable
  BY DEF Recovered, RunsInv, RunsTypeOK, Rows, Running, Revocable
<1>3. RunsTypeOK'
  BY <1>1, <1>2 DEF RunsInv, RunsTypeOK, callVars, finishVars, adminVars, stopVars
<1>4. Closed'
  BY <1>1, <1>2 DEF RunsInv, Closed, stopVars, vars
<1>5. ClearSparesRunning' /\ ClearHolds' = ClearHolds
  BY <1>1, <1>2 DEF RunsInv, ClearSparesRunning, ClearHolds, adminVars
<1> QED
  BY <1>1, <1>3, <1>4, <1>5, AdminInv

\* A clear takes the barrier when nobody has a share of it, and is past its look only
\* if it saw no running row.
LEMMA ClearInv ==
    ASSUME RunsInv, NEW c \in Clears,
           \/ BeginClear(c) \/ ClearRecovers(c) \/ ClearLists(c)
           \/ ClearCommits(c) \/ ClearFails(c) \/ ClearReleases(c)
    PROVE  RunsInv'
<1>1. /\ UNCHANGED <<vars, process, lapsed, callVars, finishVars, deletion, stopVars>>
      /\ \E to \in ClearStages : clear' = [clear EXCEPT ![c] = to]
  BY DEF BeginClear, ClearRecovers, ClearLists, ClearCommits, ClearFails, ClearReleases, ClearStep,
     ClearStages
<1>2. clear \in [Clears -> ClearStages] /\ run \in [Runs -> {"absent", "removed"} \union Rows]
  BY DEF RunsInv, RunsTypeOK
<1>3. /\ run' \in [Runs -> {"absent", "removed"} \union Rows]
      /\ \A r \in Runs : /\ run'[r] \in Running => run[r] \in Running
                         /\ run'[r] \in Revocable => run[r] \in Revocable
  BY <1>2 DEF BeginClear, ClearRecovers, ClearLists, ClearCommits, ClearFails, ClearReleases,
     Recovered, Rows, Running, Revocable
<1>4. RunsTypeOK'
  BY <1>1, <1>2, <1>3 DEF RunsInv, RunsTypeOK, callVars, finishVars, stopVars
<1>5. Closed'
  BY <1>1, <1>3 DEF RunsInv, Closed, stopVars, vars
<1>6. clear'[c] = "checked" => \A r \in Runs : run[r] \notin Running
  BY <1>2 DEF BeginClear, ClearRecovers, ClearLists, ClearCommits, ClearFails, ClearReleases, ClearStep
<1>7. ClearSparesRunning'
  BY <1>1, <1>2, <1>3, <1>6 DEF RunsInv, ClearSparesRunning
<1>8. ClearHolds' => ClearHolds \/ Inside = {}
  <2>1. clear[c] = "idle" => BeginClear(c)
    BY DEF ClearRecovers, ClearLists, ClearCommits, ClearFails, ClearReleases, ClearStep
  <2>2. clear[c] \in {"idle", "holding", "recovered", "checked", "releasing"}
    BY DEF BeginClear, ClearRecovers, ClearLists, ClearCommits, ClearFails, ClearReleases, ClearStep
  <2>3. \A b \in Clears \ {c} : clear'[b] = clear[b]
    BY <1>1, <1>2
  <2> QED
    BY <2>1, <2>2, <2>3 DEF BeginClear, ClearHolds
<1> QED
  BY <1>1, <1>4, <1>5, <1>7, <1>8, AdminInv

\* A deletion only takes rows away.
LEMMA DeletionInv ==
    ASSUME RunsInv, NEW x \in Deleters, DeleteEnds(x) \/ \E r \in Runs : DeleteChecks(x, r)
    PROVE  RunsInv'
<1>1. UNCHANGED <<vars, process, lapsed, callVars, finishVars, clear, stopVars>>
  BY DEF DeleteEnds, DeleteChecks, rowVars
<1>2. /\ run \in [Runs -> {"absent", "removed"} \union Rows]
      /\ deletion \in [Deleters -> Runs \union {None}]
  BY DEF RunsInv, RunsTypeOK
<1>3. /\ run' \in [Runs -> {"absent", "removed"} \union Rows]
      /\ deletion' \in [Deleters -> Runs \union {None}]
      /\ \A r \in Runs : /\ run'[r] \in Running => run[r] \in Running
                         /\ run'[r] \in Revocable => run[r] \in Revocable
  BY <1>2 DEF DeleteEnds, DeleteChecks, rowVars, Running, Revocable
<1>4. RunsTypeOK'
  BY <1>1, <1>3 DEF RunsInv, RunsTypeOK, callVars, finishVars, stopVars
<1>5. Closed'
  BY <1>1, <1>3 DEF RunsInv, Closed, stopVars, vars
<1>6. ClearSparesRunning' /\ ClearHolds' = ClearHolds
  BY <1>1, <1>3 DEF RunsInv, ClearSparesRunning, ClearHolds
<1> QED
  BY <1>1, <1>4, <1>5, <1>6, AdminInv

\* Shutdown revokes behind a Drain that has returned.
LEMMA RevokeActiveInv ==
    ASSUME RunsInv, NEW d \in Drainers, RevokeActive(d)
    PROVE  RunsInv'
<1>1. /\ UNCHANGED <<vars, process, lapsed, callVars, finishVars, adminVars>>
      /\ drain[d] = "returned"
      /\ run' \in {run, Revoked} /\ activeRevoked' \in BOOLEAN
      /\ activeRevoked' => activeRevoked \/ run' = Revoked
      /\ activeRevoked => activeRevoked' /\ run' = run
      /\ stop' = [stop EXCEPT ![d] = IF activeRevoked' THEN "done" ELSE "failed"]
  BY DEF RevokeActive
<1>2. /\ run \in [Runs -> {"absent", "removed"} \union Rows]
      /\ stop \in [Drainers -> {"idle", "done", "failed"}]
  BY DEF RunsInv, RunsTypeOK
<1>3. /\ Revoked \in [Runs -> {"absent", "removed"} \union Rows]
      /\ \A r \in Runs : Revoked[r] \notin Revocable /\ Revoked[r] \notin Running
  BY <1>2 DEF Revoked, Rows, Running, Revocable
<1>4. RunsTypeOK'
  BY <1>1, <1>2, <1>3 DEF RunsInv, RunsTypeOK, callVars, finishVars, adminVars
<1>5. Closed'
  BY <1>1, <1>2, <1>3 DEF RunsInv, Closed, vars
<1>6. ClearSparesRunning' /\ ClearHolds' = ClearHolds
  BY <1>1, <1>3 DEF RunsInv, ClearSparesRunning, ClearHolds, adminVars
<1> QED
  BY <1>1, <1>4, <1>5, <1>6, AdminInv

\* Every step of the manager keeps its invariant.
LEMMA RunsNextInv == IndInv /\ RunsInv /\ [RunsNext]_runsVars => RunsInv'
<1> SUFFICES ASSUME IndInv, RunsInv, [RunsNext]_runsVars PROVE RunsInv'
  OBVIOUS
<1>1. CASE UNCHANGED runsVars
  <2>1. GateOnly /\ UNCHANGED <<op, drain>>
    BY <1>1 DEF runsVars, GateOnly, vars
  <2> QED
    BY <2>1, GateOnlyInv DEF InFlight
<1>2. CASE CloseAdmission /\ GateOnly
  BY <1>2, GateOnlyInv DEF CloseAdmission, InFlight
<1>3. ASSUME NEW o \in Operations, (Link(o) \/ DeliverCancel(o)) /\ GateOnly PROVE RunsInv'
  <2>1. InFlight' = InFlight /\ drain' = drain
    BY <1>3 DEF Link, DeliverCancel, InFlight, IndInv, TypeOK
  <2> QED
    BY <1>3, <2>1, GateOnlyInv
<1>4. ASSUME NEW d \in Drainers, (DrainBegins(d) \/ DrainReturns(d) \/ DrainGivesUp(d)) /\ GateOnly
      PROVE  RunsInv'
  <2>1. /\ InFlight' = InFlight
        /\ \A e \in Drainers : drain[e] = "returned" => drain'[e] = "returned"
    BY <1>4 DEF DrainBegins, DrainReturns, DrainGivesUp, InFlight, IndInv, TypeOK
  <2> QED
    BY <1>4, <2>1, GateOnlyInv
<1>5. ASSUME NEW o \in Operations, Advance(o) PROVE RunsInv'
  BY <1>5, QuietCallInv, WriteRowInv, FinishRowInv, SettleInv, EndCallInv DEF Advance
<1> QED
  BY <1>1, <1>2, <1>3, <1>4, <1>5, BeginCallInv, QuietCallInv, RevokeActiveInv, RecoverInv,
     ClearInv, DeletionInv DEF RunsNext

\* What NewManager finds and the manager's empty state satisfy the invariant.
LEMMA RunsInitInv == RunsInit => RunsInv
<1> SUFFICES ASSUME RunsInit PROVE RunsInv
  OBVIOUS
<1> USE DEF RunsInit
<1>1. RunsTypeOK
  BY DEF RunsTypeOK, Rows, Kinds, Stages, ClearStages
<1>2. CallsInFlight
  BY DEF CallsInFlight, Init, InFlight
<1>3. ClearAlone /\ ClearSparesRunning
  BY DEF ClearAlone, ClearHolds, ClearSparesRunning
<1>4. Closed /\ FinishedIsSealed
  BY DEF Closed, FinishedIsSealed
<1> QED
  BY <1>1, <1>2, <1>3, <1>4 DEF RunsInv

-----------------------------------------------------------------------------
(* What the manager promises.                                              *)

\* The invariants of the gate and of the manager hold throughout.
THEOREM RunsInvariant == RunsSpec => [](IndInv /\ RunsInv)
<1>1. RunsSpec => []IndInv
  BY RunsUseGate, LifecycleInvariant, PTL
<1>2. RunsSpec => []RunsInv
  BY <1>1, RunsInitInv, RunsNextInv, PTL DEF RunsSpec
<1> QED
  BY <1>1, <1>2, PTL

\* After a Shutdown that returned nil no run can be used or renewed, for any number of
\* launchers, clears, deletions and retries of Shutdown.
THEOREM RunsRevokedForGood == RunsSpec => []RevokedForGood
<1>1. RunsInv => RevokedForGood
  BY DEF RunsInv, Closed, RevokedForGood
<1> QED
  BY <1>1, RunsInvariant, PTL

\* Clearing the archive never removes a running Capture.
THEOREM RunsClearSparesRunning == RunsSpec => []ClearSparesRunning
<1>1. RunsInv => ClearSparesRunning
  BY DEF RunsInv
<1> QED
  BY <1>1, RunsInvariant, PTL

\* A run that was finished has its evidence closed, or is about to, whatever the
\* repository could tell about the commit.
THEOREM RunsFinishedIsSealed == RunsSpec => []FinishedIsSealed
<1>1. RunsInv => FinishedIsSealed
  BY DEF RunsInv
<1> QED
  BY <1>1, RunsInvariant, PTL
=============================================================================
