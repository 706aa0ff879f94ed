------------------------- MODULE LeafIssuanceProofs -------------------------
(***************************************************************************)
(* Proofs about CaptureAssignment and LeafIssuance for any number of       *)
(* connections, requests, calls of ApplyLatest and of Shutdown, and any    *)
(* Environment revisions. The writer lock is what makes the assignment and *)
(* the connection records agree: whoever holds it finds the row unchanged  *)
(* until it gives the lock back.                                           *)
(***************************************************************************)
EXTENDS LeafIssuance, FiniteSetTheorems, TLAPS

Cases(phases)  == [phase : phases, a : Assignments]
ApplyRecords   == [phase : ApplyPhases, expected : 0..(MaxHead + 1), target : 0..MaxHead,
                   bound : SUBSET Connections]
StopPhases     == {"running", "closed", "marked", "draining", "drained"}

Registering == {"loaded", "leaving"}   \* a connection with the writer lock
Holding  == {"bound", "blocked", "revoked", "written", "leaving"}   \* the writer lock
Blocking == {"blocked", "revoked", "written", "leaving"}            \* the transition
Before   == {"bound", "blocked", "revoked"}                         \* the row is as it was bound

RowTypes ==
    /\ head \in 1..MaxHead /\ durable \in Assignments
    /\ writer \in Connections \union Applies \union {None}
    /\ known \in BOOLEAN /\ shutdown \in BOOLEAN /\ poisoned \in BOOLEAN
    /\ transitioning \in BOOLEAN

CaseTypes ==
    /\ conn \in [Connections -> Cases(ConnPhases)]
    /\ request \in [Requests -> Cases(RequestPhases)]
    /\ leaf \in [Connections -> Cases(LeafPhases)]
    /\ apply \in [Applies -> ApplyRecords]
    /\ \A x \in Applies : apply[x].phase = "begun" => apply[x].expected # 0

\* Every assignment moves on by one revision, and the Environment by at least one.
Row ==
    durable # Missing => 1 <= durable.rev /\ durable.rev <= durable.env /\ durable.env <= head

\* Who holds the writer lock.
Writers ==
    /\ \A c \in Connections : conn[c].phase \in Registering => writer = c
    /\ \A x \in Applies : apply[x].phase \in Holding => writer = x
    /\ writer # None => \/ writer \in Connections /\ conn[writer].phase \in Registering
                        \/ writer \in Applies /\ apply[writer].phase \in Holding

Transition == transitioning <=> \E x \in Applies : apply[x].phase \in Blocking

\* A connection that is being registered has the row, one that is registered had one.
Loaded ==
    \A c \in Connections :
        /\ conn[c].phase = "loaded" => /\ conn[c].a = durable /\ durable # Missing
                                       /\ c \in Serves[durable.env]
        /\ conn[c].phase = "open" => conn[c].a # Missing

\* What an ApplyLatest under way has bound is all there is to move.
Bound ==
    \A x \in Applies :
        /\ apply[x].phase \in Before =>
               durable # Missing /\ durable.env < apply[x].target /\ apply[x].target <= head
        /\ apply[x].phase = "written" => durable # Missing /\ durable.env = apply[x].target
        /\ apply[x].phase \in Before \union {"written"} =>
               OpenConnections \subseteq apply[x].bound \intersect Serves[apply[x].target]

\* The records agree with the row, unless it has just been written.
Settled ==
    ~poisoned /\ (\A x \in Applies : apply[x].phase # "written") =>
        \A c \in Connections :
            conn[c].phase = "open" => conn[c].a = durable /\ c \in Serves[durable.env]

GateTypes ==
    /\ open \in BOOLEAN /\ creating \in BOOLEAN /\ stop \in StopPhases

ConnInside    == {"begun", "loaded", "open"}
RequestInside == {"begun", "admitted", "leased"}
LeafInside    == {"begun", "read"}
ApplyInside   == ApplyPhases \ {"idle", "done"}

Counted ==
    /\ IsFiniteSet(Held(conn, ConnInside)) /\ IsFiniteSet(Held(request, RequestInside))
    /\ IsFiniteSet(Held(leaf, LeafInside)) /\ IsFiniteSet(Held(apply, ApplyInside))
    /\ active = Inside

Stopped ==
    /\ stop # "running" => ~open
    /\ stop = "drained" => active = 0

AssignmentInv ==
    /\ RowTypes /\ CaseTypes /\ Row /\ Writers /\ Transition /\ Loaded /\ Bound /\ Settled
    /\ GateTypes /\ Counted /\ Stopped

IssueTypes ==
    /\ issue \in [Connections -> IssuePhases]
    /\ flight \in [Keys -> [leader : Connections \union {None}, phase : FlightPhases]]
    /\ cache \subseteq Keys
    /\ closed \in BOOLEAN /\ drained \in BOOLEAN
    /\ closer \in [Closers -> {"idle", "waiting", "finalizing", "returned", "gaveUp"}]

Still == closed /\ NoWaiters /\ NoGeneration /\ cache = {}

\* From the first finalizing on, nothing begins.
Closing ==
    /\ \A s \in Closers : closer[s] # "idle" => closed
    /\ drained => Still
    /\ \A s \in Closers : closer[s] = "finalizing" => Still
    /\ \A s \in Closers : closer[s] = "returned" => drained

AuthorityInv == IssueTypes /\ Closing

-----------------------------------------------------------------------------
(* Records, and those inside                                               *)

LEMMA AssignmentFields ==
    /\ Missing \in Assignments
    /\ \A v \in Assignments :
           v.rev \in 0..(MaxHead + 1) /\ v.env \in 0..MaxHead /\ v.launch \in 0..MaxHead
    /\ MaxHead \in Nat /\ MaxHead >= 1
<1>1. MaxHead \in Nat /\ MaxHead >= 1
  BY AssignmentAssumption
<1>2. Missing \in Assignments
  BY <1>1 DEF Missing, Assignments
<1> QED
  BY <1>1, <1>2 DEF Assignments

\* One case of a family moves to another phase, or gets a new record.
LEMMA CaseStep ==
    ASSUME NEW S, NEW P, NEW f \in [S -> Cases(P)], NEW i \in S, NEW to \in P, NEW g,
           g = [f EXCEPT ![i].phase = to]
    PROVE  /\ g \in [S -> Cases(P)]
           /\ g[i].phase = to /\ g[i].a = f[i].a
           /\ \A j \in S \ {i} : g[j] = f[j]
<1>1. f[i] \in Cases(P)
  OBVIOUS
<1>2. [f[i] EXCEPT !.phase = to] \in Cases(P)
  BY <1>1 DEF Cases
<1>3. [f[i] EXCEPT !.phase = to].phase = to /\ [f[i] EXCEPT !.phase = to].a = f[i].a
  BY <1>1 DEF Cases
<1>4. g = [f EXCEPT ![i] = [f[i] EXCEPT !.phase = to]]
  OBVIOUS
<1> QED
  BY <1>2, <1>3, <1>4

LEMMA CaseSet ==
    ASSUME NEW S, NEW P, NEW f \in [S -> Cases(P)], NEW i \in S, NEW to \in P,
           NEW v \in Assignments, NEW g, g = [f EXCEPT ![i] = [phase |-> to, a |-> v]]
    PROVE  /\ g \in [S -> Cases(P)]
           /\ g[i].phase = to /\ g[i].a = v
           /\ \A j \in S \ {i} : g[j] = f[j]
<1>1. [phase |-> to, a |-> v] \in Cases(P)
  BY DEF Cases
<1> QED
  BY <1>1

LEMMA ApplyRecord ==
    ASSUME apply \in [Applies -> ApplyRecords], NEW x \in Applies, NEW from, NEW to \in ApplyPhases,
           ApplyStep(x, from, to)
    PROVE  /\ apply' \in [Applies -> ApplyRecords] /\ apply[x].phase = from
           /\ apply'[x].phase = to /\ apply'[x].target = apply[x].target
           /\ apply'[x].bound = apply[x].bound
           /\ \A y \in Applies \ {x} : apply'[y] = apply[y]
<1> DEFINE o == apply[x]
           n == [o EXCEPT !.phase = to]
<1>1. o \in ApplyRecords /\ o.phase = from
  BY DEF ApplyStep
<1>2. n \in ApplyRecords /\ n.phase = to /\ n.target = o.target /\ n.bound = o.bound
  BY <1>1 DEF ApplyRecords
<1>3. apply' = [apply EXCEPT ![x] = n]
  BY DEF ApplyStep
<1> HIDE DEF n
<1> QED
  BY <1>1, <1>2, <1>3

\* Whether a phase is inside.
In(p, P) == IF p \in P THEN 1 ELSE 0

LEMMA HeldStep ==
    ASSUME NEW D, NEW f, NEW g, DOMAIN f = D, DOMAIN g = D, NEW i \in D, NEW P,
           IsFiniteSet(Held(f, P)), \A j \in D \ {i} : g[j].phase = f[j].phase
    PROVE  /\ IsFiniteSet(Held(g, P))
           /\ Cardinality(Held(g, P)) =
                  Cardinality(Held(f, P)) + In(g[i].phase, P) - In(f[i].phase, P)
           /\ Cardinality(Held(f, P)) \in Nat /\ Cardinality(Held(g, P)) \in Nat
<1>1. Cardinality(Held(f, P)) \in Nat
  BY FS_CardinalityType
<1>2. CASE (g[i].phase \in P) <=> (f[i].phase \in P)
  <2>1. Held(g, P) = Held(f, P)
    BY <1>2 DEF Held
  <2> QED
    BY <1>1, <1>2, <2>1 DEF In
<1>3. CASE g[i].phase \in P /\ f[i].phase \notin P
  <2>1. Held(g, P) = Held(f, P) \union {i} /\ i \notin Held(f, P)
    BY <1>3 DEF Held
  <2>2. /\ IsFiniteSet(Held(f, P) \union {i})
        /\ Cardinality(Held(f, P) \union {i}) = Cardinality(Held(f, P)) + 1
    BY <2>1, FS_AddElement
  <2> QED
    BY <1>1, <1>3, <2>1, <2>2 DEF In
<1>4. CASE g[i].phase \notin P /\ f[i].phase \in P
  <2>1. Held(g, P) = Held(f, P) \ {i} /\ i \in Held(f, P)
    BY <1>4 DEF Held
  <2>2. /\ IsFiniteSet(Held(f, P) \ {i})
        /\ Cardinality(Held(f, P) \ {i}) = Cardinality(Held(f, P)) - 1
    BY <2>1, FS_RemoveElement
  <2>3. Cardinality(Held(f, P) \ {i}) \in Nat
    BY <2>2, FS_CardinalityType
  <2> QED
    BY <1>1, <1>4, <2>1, <2>2, <2>3 DEF In
<1> QED
  BY <1>2, <1>3, <1>4

-----------------------------------------------------------------------------
(* The gate                                                                *)

GateInv == GateTypes /\ Counted /\ Stopped

\* A step inside the lifecycle, or into it while it is open, or out of it.
Passes == /\ open' = open /\ stop' = stop
          /\ active' = active \/ active' = active - 1 \/ (open /\ active' = active + 1)

LEMMA ActiveCounted ==
    ASSUME Counted, creating \in BOOLEAN
    PROVE  active \in Nat
<1>1. /\ Cardinality(Held(conn, ConnInside)) \in Nat /\ Cardinality(Held(request, RequestInside)) \in Nat
      /\ Cardinality(Held(leaf, LeafInside)) \in Nat /\ Cardinality(Held(apply, ApplyInside)) \in Nat
  BY FS_CardinalityType DEF Counted
<1>2. active = Cardinality(Held(conn, ConnInside)) + Cardinality(Held(request, RequestInside))
                 + Cardinality(Held(leaf, LeafInside)) + Cardinality(Held(apply, ApplyInside))
                 + (IF creating THEN 1 ELSE 0)
  BY DEF Counted, Inside, ConnInside, RequestInside, LeafInside, ApplyInside
<1> QED
  BY <1>1, <1>2

LEMMA PassesKeeps ==
    ASSUME GateInv, Counted', active' \in Nat, creating' \in BOOLEAN, Passes
    PROVE  GateInv'
<1>1. active \in Nat
  BY ActiveCounted DEF GateInv, GateTypes
<1>2. GateTypes'
  BY DEF GateInv, GateTypes, Passes
<1>3. Stopped'
  BY <1>1 DEF GateInv, Stopped, Passes
<1> QED
  BY <1>2, <1>3 DEF GateInv

\* Those inside, when the families are f, g, h and k.
CountsTo(n, f, g, h, k, b) ==
    n = Cardinality(Held(f, ConnInside)) + Cardinality(Held(g, RequestInside))
          + Cardinality(Held(h, LeafInside)) + Cardinality(Held(k, ApplyInside))
          + (IF b THEN 1 ELSE 0)

\* One case changes its phase, and the counter follows.
LEMMA ConnPasses ==
    ASSUME GateInv, CaseTypes, CaseTypes', NEW c \in Connections,
           \A j \in Connections \ {c} : conn'[j] = conn[j],
           UNCHANGED <<request, leaf, apply, creating>>, Passes,
           active' = active + In(conn'[c].phase, ConnInside) - In(conn[c].phase, ConnInside)
    PROVE  GateInv'
<1>1. /\ IsFiniteSet(Held(conn', ConnInside))
      /\ Cardinality(Held(conn', ConnInside)) =
             Cardinality(Held(conn, ConnInside)) + In(conn'[c].phase, ConnInside) - In(conn[c].phase, ConnInside)
      /\ Cardinality(Held(conn, ConnInside)) \in Nat /\ Cardinality(Held(conn', ConnInside)) \in Nat
  <2>1. IsFiniteSet(Held(conn, ConnInside))
    BY DEF GateInv, Counted
  <2>2. DOMAIN conn = Connections /\ DOMAIN conn' = Connections /\ \A j \in Connections \ {c} : conn'[j].phase = conn[j].phase
    BY DEF CaseTypes
  <2> QED
    BY <2>1, <2>2, HeldStep
<1>2. /\ Held(request', RequestInside) = Held(request, RequestInside)
      /\ Held(leaf', LeafInside) = Held(leaf, LeafInside)
      /\ Held(apply', ApplyInside) = Held(apply, ApplyInside)
  OBVIOUS
<1>3. /\ Cardinality(Held(request, RequestInside)) \in Nat
      /\ Cardinality(Held(leaf, LeafInside)) \in Nat
      /\ Cardinality(Held(apply, ApplyInside)) \in Nat
  BY FS_CardinalityType DEF GateInv, Counted
<1>4. /\ Held(conn, ConnInside)' = Held(conn', ConnInside)
      /\ Held(request, RequestInside)' = Held(request', RequestInside)
      /\ Held(leaf, LeafInside)' = Held(leaf', LeafInside)
      /\ Held(apply, ApplyInside)' = Held(apply', ApplyInside)
  BY DEF Held, ConnInside, RequestInside, LeafInside, ApplyInside
<1>5. creating' \in BOOLEAN /\ creating' = creating
  BY DEF GateInv, GateTypes
<1>6. CountsTo(active, conn, request, leaf, apply, creating)
  BY DEF GateInv, Counted, CountsTo, Inside, ConnInside, RequestInside, LeafInside, ApplyInside
<1>7. CountsTo(active', conn', request', leaf', apply', creating') /\ active' \in Nat
  BY <1>1, <1>2, <1>3, <1>5, <1>6 DEF CountsTo, In
<1>8. Counted'
  BY <1>1, <1>2, <1>4, <1>7 DEF GateInv, Counted, CountsTo, Inside, ConnInside, RequestInside,
     LeafInside, ApplyInside
<1> QED
  BY <1>5, <1>7, <1>8, PassesKeeps

LEMMA RequestPasses ==
    ASSUME GateInv, CaseTypes, CaseTypes', NEW r \in Requests,
           \A j \in Requests \ {r} : request'[j] = request[j],
           UNCHANGED <<conn, leaf, apply, creating>>, Passes,
           active' = active + In(request'[r].phase, RequestInside) - In(request[r].phase, RequestInside)
    PROVE  GateInv'
<1>1. /\ IsFiniteSet(Held(request', RequestInside))
      /\ Cardinality(Held(request', RequestInside)) =
             Cardinality(Held(request, RequestInside)) + In(request'[r].phase, RequestInside) - In(request[r].phase, RequestInside)
      /\ Cardinality(Held(request, RequestInside)) \in Nat /\ Cardinality(Held(request', RequestInside)) \in Nat
  <2>1. IsFiniteSet(Held(request, RequestInside))
    BY DEF GateInv, Counted
  <2>2. DOMAIN request = Requests /\ DOMAIN request' = Requests /\ \A j \in Requests \ {r} : request'[j].phase = request[j].phase
    BY DEF CaseTypes
  <2> QED
    BY <2>1, <2>2, HeldStep
<1>2. /\ Held(conn', ConnInside) = Held(conn, ConnInside)
      /\ Held(leaf', LeafInside) = Held(leaf, LeafInside)
      /\ Held(apply', ApplyInside) = Held(apply, ApplyInside)
  OBVIOUS
<1>3. /\ Cardinality(Held(conn, ConnInside)) \in Nat
      /\ Cardinality(Held(leaf, LeafInside)) \in Nat
      /\ Cardinality(Held(apply, ApplyInside)) \in Nat
  BY FS_CardinalityType DEF GateInv, Counted
<1>4. /\ Held(conn, ConnInside)' = Held(conn', ConnInside)
      /\ Held(request, RequestInside)' = Held(request', RequestInside)
      /\ Held(leaf, LeafInside)' = Held(leaf', LeafInside)
      /\ Held(apply, ApplyInside)' = Held(apply', ApplyInside)
  BY DEF Held, ConnInside, RequestInside, LeafInside, ApplyInside
<1>5. creating' \in BOOLEAN /\ creating' = creating
  BY DEF GateInv, GateTypes
<1>6. CountsTo(active, conn, request, leaf, apply, creating)
  BY DEF GateInv, Counted, CountsTo, Inside, ConnInside, RequestInside, LeafInside, ApplyInside
<1>7. CountsTo(active', conn', request', leaf', apply', creating') /\ active' \in Nat
  BY <1>1, <1>2, <1>3, <1>5, <1>6 DEF CountsTo, In
<1>8. Counted'
  BY <1>1, <1>2, <1>4, <1>7 DEF GateInv, Counted, CountsTo, Inside, ConnInside, RequestInside,
     LeafInside, ApplyInside
<1> QED
  BY <1>5, <1>7, <1>8, PassesKeeps

LEMMA LeafPasses ==
    ASSUME GateInv, CaseTypes, CaseTypes', NEW c \in Connections,
           \A j \in Connections \ {c} : leaf'[j] = leaf[j],
           UNCHANGED <<conn, request, apply, creating>>, Passes,
           active' = active + In(leaf'[c].phase, LeafInside) - In(leaf[c].phase, LeafInside)
    PROVE  GateInv'
<1>1. /\ IsFiniteSet(Held(leaf', LeafInside))
      /\ Cardinality(Held(leaf', LeafInside)) =
             Cardinality(Held(leaf, LeafInside)) + In(leaf'[c].phase, LeafInside) - In(leaf[c].phase, LeafInside)
      /\ Cardinality(Held(leaf, LeafInside)) \in Nat /\ Cardinality(Held(leaf', LeafInside)) \in Nat
  <2>1. IsFiniteSet(Held(leaf, LeafInside))
    BY DEF GateInv, Counted
  <2>2. DOMAIN leaf = Connections /\ DOMAIN leaf' = Connections /\ \A j \in Connections \ {c} : leaf'[j].phase = leaf[j].phase
    BY DEF CaseTypes
  <2> QED
    BY <2>1, <2>2, HeldStep
<1>2. /\ Held(conn', ConnInside) = Held(conn, ConnInside)
      /\ Held(request', RequestInside) = Held(request, RequestInside)
      /\ Held(apply', ApplyInside) = Held(apply, ApplyInside)
  OBVIOUS
<1>3. /\ Cardinality(Held(conn, ConnInside)) \in Nat
      /\ Cardinality(Held(request, RequestInside)) \in Nat
      /\ Cardinality(Held(apply, ApplyInside)) \in Nat
  BY FS_CardinalityType DEF GateInv, Counted
<1>4. /\ Held(conn, ConnInside)' = Held(conn', ConnInside)
      /\ Held(request, RequestInside)' = Held(request', RequestInside)
      /\ Held(leaf, LeafInside)' = Held(leaf', LeafInside)
      /\ Held(apply, ApplyInside)' = Held(apply', ApplyInside)
  BY DEF Held, ConnInside, RequestInside, LeafInside, ApplyInside
<1>5. creating' \in BOOLEAN /\ creating' = creating
  BY DEF GateInv, GateTypes
<1>6. CountsTo(active, conn, request, leaf, apply, creating)
  BY DEF GateInv, Counted, CountsTo, Inside, ConnInside, RequestInside, LeafInside, ApplyInside
<1>7. CountsTo(active', conn', request', leaf', apply', creating') /\ active' \in Nat
  BY <1>1, <1>2, <1>3, <1>5, <1>6 DEF CountsTo, In
<1>8. Counted'
  BY <1>1, <1>2, <1>4, <1>7 DEF GateInv, Counted, CountsTo, Inside, ConnInside, RequestInside,
     LeafInside, ApplyInside
<1> QED
  BY <1>5, <1>7, <1>8, PassesKeeps

LEMMA ApplyPasses ==
    ASSUME GateInv, CaseTypes, CaseTypes', NEW x \in Applies,
           \A j \in Applies \ {x} : apply'[j] = apply[j],
           Held(conn', ConnInside) = Held(conn, ConnInside), UNCHANGED <<request, leaf, creating>>, Passes,
           active' = active + In(apply'[x].phase, ApplyInside) - In(apply[x].phase, ApplyInside)
    PROVE  GateInv'
<1>1. /\ IsFiniteSet(Held(apply', ApplyInside))
      /\ Cardinality(Held(apply', ApplyInside)) =
             Cardinality(Held(apply, ApplyInside)) + In(apply'[x].phase, ApplyInside) - In(apply[x].phase, ApplyInside)
      /\ Cardinality(Held(apply, ApplyInside)) \in Nat /\ Cardinality(Held(apply', ApplyInside)) \in Nat
  <2>1. IsFiniteSet(Held(apply, ApplyInside))
    BY DEF GateInv, Counted
  <2>2. DOMAIN apply = Applies /\ DOMAIN apply' = Applies /\ \A j \in Applies \ {x} : apply'[j].phase = apply[j].phase
    BY DEF CaseTypes
  <2> QED
    BY <2>1, <2>2, HeldStep
<1>2. /\ Held(conn', ConnInside) = Held(conn, ConnInside)
      /\ Held(request', RequestInside) = Held(request, RequestInside)
      /\ Held(leaf', LeafInside) = Held(leaf, LeafInside)
  OBVIOUS
<1>3. /\ Cardinality(Held(conn, ConnInside)) \in Nat
      /\ Cardinality(Held(request, RequestInside)) \in Nat
      /\ Cardinality(Held(leaf, LeafInside)) \in Nat
  BY FS_CardinalityType DEF GateInv, Counted
<1>4. /\ Held(conn, ConnInside)' = Held(conn', ConnInside)
      /\ Held(request, RequestInside)' = Held(request', RequestInside)
      /\ Held(leaf, LeafInside)' = Held(leaf', LeafInside)
      /\ Held(apply, ApplyInside)' = Held(apply', ApplyInside)
  BY DEF Held, ConnInside, RequestInside, LeafInside, ApplyInside
<1>5. creating' \in BOOLEAN /\ creating' = creating
  BY DEF GateInv, GateTypes
<1>6. CountsTo(active, conn, request, leaf, apply, creating)
  BY DEF GateInv, Counted, CountsTo, Inside, ConnInside, RequestInside, LeafInside, ApplyInside
<1>7. CountsTo(active', conn', request', leaf', apply', creating') /\ active' \in Nat
  BY <1>1, <1>2, <1>3, <1>5, <1>6 DEF CountsTo, In
<1>8. Counted'
  BY <1>1, <1>2, <1>4, <1>7 DEF GateInv, Counted, CountsTo, Inside, ConnInside, RequestInside,
     LeafInside, ApplyInside
<1> QED
  BY <1>5, <1>7, <1>8, PassesKeeps

\* CreateForLaunch begins and ends.
LEMMA CreatePasses ==
    ASSUME GateInv, UNCHANGED <<conn, request, leaf, apply>>, Passes, creating' \in BOOLEAN,
           active' = active + (IF creating' THEN 1 ELSE 0) - (IF creating THEN 1 ELSE 0)
    PROVE  GateInv'
<1>1. /\ Held(conn, ConnInside)' = Held(conn, ConnInside)
      /\ Held(request, RequestInside)' = Held(request, RequestInside)
      /\ Held(leaf, LeafInside)' = Held(leaf, LeafInside)
      /\ Held(apply, ApplyInside)' = Held(apply, ApplyInside)
  BY DEF Held, ConnInside, RequestInside, LeafInside, ApplyInside
<1>2. /\ Cardinality(Held(conn, ConnInside)) \in Nat /\ Cardinality(Held(request, RequestInside)) \in Nat
      /\ Cardinality(Held(leaf, LeafInside)) \in Nat /\ Cardinality(Held(apply, ApplyInside)) \in Nat
  BY FS_CardinalityType DEF GateInv, Counted
<1>3. CountsTo(active, conn, request, leaf, apply, creating)
  BY DEF GateInv, Counted, CountsTo, Inside, ConnInside, RequestInside, LeafInside, ApplyInside
<1>4. creating \in BOOLEAN
  BY DEF GateInv, GateTypes
<1>5. CountsTo(active', conn, request, leaf, apply, creating') /\ active' \in Nat
  BY <1>2, <1>3, <1>4 DEF CountsTo
<1>6. Counted'
  BY <1>1, <1>5 DEF GateInv, Counted, CountsTo, Inside, ConnInside, RequestInside, LeafInside,
     ApplyInside
<1> QED
  BY <1>5, <1>6, PassesKeeps

\* Nobody moves.
LEMMA GateStill ==
    ASSUME GateInv, UNCHANGED <<conn, request, leaf, apply, creating, active>>,
           open' \in BOOLEAN, stop' \in StopPhases, stop' # "running" => ~open',
           stop' = "drained" => active = 0
    PROVE  GateInv'
<1>1. Counted'
  BY DEF GateInv, Counted, Held, Inside, ConnInside, RequestInside, LeafInside, ApplyInside
<1> QED
  BY <1>1 DEF GateInv, GateTypes, Stopped

-----------------------------------------------------------------------------
(* The row and the records                                                 *)

Core == Row /\ Writers /\ Transition /\ Loaded /\ Bound /\ Settled

LEMMA CoreStill ==
    ASSUME Core, UNCHANGED <<head, durable, writer, poisoned, transitioning, conn, apply>>
    PROVE  Core'
  BY DEF Core, Row, Writers, Transition, Loaded, Bound, Settled, OpenConnections

\* Nothing but the poison, which only weakens what the records promise.
LEMMA CorePoisoned ==
    ASSUME Core, UNCHANGED <<head, durable, writer, transitioning, conn, apply>>,
           poisoned' \in {poisoned, TRUE}
    PROVE  Core'
<1>1. Row' /\ Writers' /\ Transition'
  BY DEF Core, Row, Writers, Transition
<1>2. Loaded' /\ Bound'
  BY DEF Core, Loaded, Bound, OpenConnections
<1>3. Settled'
  BY DEF Core, Settled
<1> QED
  BY <1>1, <1>2, <1>3 DEF Core

LEMMA PublishKeeps ==
    ASSUME AssignmentInv, Publish
    PROVE  AssignmentInv'
<1>1. /\ head < MaxHead /\ head' = head + 1
      /\ UNCHANGED <<durable, writer, known, shutdown, poisoned, transitioning, conn, request, leaf,
                     apply, creating, open, active, stop>>
  BY DEF Publish, flagVars, caseVars, gateVars
<1>2. RowTypes'
  BY <1>1, AssignmentFields DEF AssignmentInv, RowTypes
<1>3. CaseTypes'
  BY <1>1 DEF AssignmentInv, CaseTypes
<1>4. GateInv'
  BY <1>1, GateStill DEF AssignmentInv, GateInv, GateTypes, Stopped
<1>5. head \in Int /\ durable \in Assignments /\ durable.env \in Int
  BY AssignmentFields DEF AssignmentInv, RowTypes
<1>6. Row'
  BY <1>1, <1>5 DEF AssignmentInv, Row
<1>7. Writers' /\ Transition' /\ Loaded' /\ Settled'
  BY <1>1 DEF AssignmentInv, Writers, Transition, Loaded, Settled
<1>8. Bound'
  <2>1. \A x \in Applies : apply[x].target \in Int
    BY AssignmentFields DEF AssignmentInv, CaseTypes, ApplyRecords
  <2> QED
    BY <1>1, <1>5, <2>1 DEF AssignmentInv, Bound, OpenConnections
<1> QED
  BY <1>2, <1>3, <1>4, <1>6, <1>7, <1>8 DEF AssignmentInv, GateInv

\* The steps that only calls of BeginRequest and admitLeaf take, and the shutdown.
LEMMA BesideKeeps ==
    ASSUME AssignmentInv, RowTypes', CaseTypes', GateInv',
           UNCHANGED <<head, durable, writer, transitioning, conn, apply>>,
           poisoned' \in {poisoned, TRUE}
    PROVE  AssignmentInv'
<1>1. Core'
  BY CorePoisoned DEF AssignmentInv, Core
<1> QED
  BY <1>1 DEF AssignmentInv, Core, GateInv

LEMMA RowTypesStill ==
    ASSUME RowTypes, UNCHANGED <<head, durable, writer, known, shutdown, poisoned, transitioning>>
    PROVE  RowTypes'
  BY DEF RowTypes

LEMMA RequestKeeps ==
    ASSUME AssignmentInv, NEW r \in Requests,
           BeginRequest(r) \/ AdmitRequest(r) \/ ResolvePlan(r) \/ Release(r)
    PROVE  AssignmentInv'
<1>1. UNCHANGED <<head, durable, writer, known, shutdown, poisoned, transitioning, conn, leaf, apply,
                  creating, stop>>
  BY DEF BeginRequest, AdmitRequest, ResolvePlan, Release, flagVars
<1>2. request \in [Requests -> Cases(RequestPhases)] /\ CaseTypes /\ GateInv
  BY DEF AssignmentInv, CaseTypes, GateInv
<1>3. RowTypes'
  BY <1>1, RowTypesStill DEF AssignmentInv
<1>4. ASSUME NEW from \in RequestPhases, NEW to \in RequestPhases, RequestStep(r, from, to),
             active' = active + In(to, RequestInside) - In(from, RequestInside), Passes
      PROVE  AssignmentInv'
  <2>1. /\ request' \in [Requests -> Cases(RequestPhases)]
        /\ request[r].phase = from /\ request'[r].phase = to
        /\ \A q \in Requests \ {r} : request'[q] = request[q]
    BY <1>2, <1>4, CaseStep DEF RequestStep
  <2>2. CaseTypes'
    BY <1>1, <1>2, <2>1 DEF CaseTypes
  <2>3. GateInv'
    BY <1>1, <1>2, <1>4, <2>1, <2>2, RequestPasses
  <2> QED
    BY <1>1, <1>3, <2>2, <2>3, BesideKeeps
<1>5. /\ In("idle", RequestInside) = 0 /\ In("begun", RequestInside) = 1 /\ In("done", RequestInside) = 0
      /\ In("admitted", RequestInside) = 1 /\ In("leased", RequestInside) = 1
      /\ {"idle", "begun", "admitted", "leased", "done"} = RequestPhases /\ active \in Nat
  BY <1>2, ActiveCounted DEF In, RequestInside, RequestPhases, GateInv, GateTypes
<1>6. CASE BeginRequest(r)
  <2>1. active' = active + In("begun", RequestInside) - In("idle", RequestInside) /\ Passes
    BY <1>1, <1>5, <1>6 DEF BeginRequest, Enter, Passes
  <2> QED
    BY <1>4, <1>5, <1>6, <2>1 DEF BeginRequest
<1>7. CASE ResolvePlan(r)
  <2>1. active' = active + In("leased", RequestInside) - In("admitted", RequestInside) /\ Passes
    BY <1>1, <1>5, <1>7 DEF ResolvePlan, Passes, gateVars
  <2> QED
    BY <1>4, <1>5, <1>7, <2>1 DEF ResolvePlan
<1>8. ASSUME NEW from \in {"begun", "admitted", "leased"}, RequestStep(r, from, "done"), Finish
      PROVE  AssignmentInv'
  <2>1. active' = active + In("done", RequestInside) - In(from, RequestInside) /\ Passes
    BY <1>1, <1>5, <1>8 DEF Finish, Passes
  <2> QED
    BY <1>4, <1>5, <1>8, <2>1
<1>9. CASE Release(r)
  BY <1>8, <1>9 DEF Release
<1>10. CASE AdmitRequest(r)
  <2>1. CASE RequestStep(r, "begun", "done") /\ Finish
    BY <1>8, <2>1
  <2>2. CASE /\ request[r].phase = "begun"
             /\ request' = [request EXCEPT ![r] =
                               [phase |-> "admitted", a |-> conn[ConnectionOf[r]].a]]
             /\ UNCHANGED gateVars
    <3>1. conn[ConnectionOf[r]].a \in Assignments
      BY <1>2, AssignmentAssumption DEF CaseTypes, Cases
    <3>2. /\ request' \in [Requests -> Cases(RequestPhases)]
          /\ request'[r].phase = "admitted" /\ \A q \in Requests \ {r} : request'[q] = request[q]
      <4>1. "admitted" \in RequestPhases
        BY <1>5
      <4> QED
        BY <1>2, <2>2, <3>1, <4>1, CaseSet
    <3>3. CaseTypes'
      BY <1>1, <1>2, <3>2 DEF CaseTypes
    <3>4. Passes /\ active' = active + In(request'[r].phase, RequestInside) - In(request[r].phase, RequestInside)
      BY <1>1, <1>5, <2>2, <3>2 DEF Passes, gateVars
    <3>5. GateInv'
      BY <1>1, <1>2, <3>2, <3>3, <3>4, RequestPasses
    <3> QED
      BY <1>1, <1>3, <3>3, <3>5, BesideKeeps
  <2> QED
    BY <1>10, <2>1, <2>2 DEF AdmitRequest
<1> QED
  BY <1>6, <1>7, <1>9, <1>10

LEMMA LeafKeeps ==
    ASSUME AssignmentInv, NEW c \in Connections, BeginLeaf(c) \/ ReadConnection(c) \/ AdmitLeaf(c)
    PROVE  AssignmentInv'
<1>1. UNCHANGED <<head, durable, writer, known, shutdown, poisoned, transitioning, conn, request, apply,
                  creating, stop>>
  BY DEF BeginLeaf, ReadConnection, AdmitLeaf, flagVars
<1>2. leaf \in [Connections -> Cases(LeafPhases)] /\ CaseTypes /\ GateInv
  BY DEF AssignmentInv, CaseTypes, GateInv
<1>3. RowTypes'
  BY <1>1, RowTypesStill DEF AssignmentInv
<1>4. ASSUME NEW from \in LeafPhases, NEW to \in LeafPhases, LeafStep(c, from, to),
             active' = active + In(to, LeafInside) - In(from, LeafInside), Passes
      PROVE  AssignmentInv'
  <2>1. /\ leaf' \in [Connections -> Cases(LeafPhases)]
        /\ leaf[c].phase = from /\ leaf'[c].phase = to
        /\ \A q \in Connections \ {c} : leaf'[q] = leaf[q]
    BY <1>2, <1>4, CaseStep DEF LeafStep
  <2>2. CaseTypes'
    BY <1>1, <1>2, <2>1 DEF CaseTypes
  <2>3. GateInv'
    BY <1>1, <1>2, <1>4, <2>1, <2>2, LeafPasses
  <2> QED
    BY <1>1, <1>3, <2>2, <2>3, BesideKeeps
<1>5. /\ In("idle", LeafInside) = 0 /\ In("begun", LeafInside) = 1 /\ In("read", LeafInside) = 1
      /\ In("admitted", LeafInside) = 0 /\ In("refused", LeafInside) = 0
      /\ {"idle", "begun", "read", "admitted", "refused"} = LeafPhases /\ active \in Nat
  BY <1>2, ActiveCounted DEF In, LeafInside, LeafPhases, GateInv, GateTypes
<1>6. CASE BeginLeaf(c)
  <2>1. active' = active + In("begun", LeafInside) - In("idle", LeafInside) /\ Passes
    BY <1>1, <1>5, <1>6 DEF BeginLeaf, Enter, Passes
  <2> QED
    BY <1>4, <1>5, <1>6, <2>1 DEF BeginLeaf
<1>7. ASSUME NEW from \in {"begun", "read"}, NEW to \in {"admitted", "refused"},
             LeafStep(c, from, to), Finish
      PROVE  AssignmentInv'
  <2>1. active' = active + In(to, LeafInside) - In(from, LeafInside) /\ Passes
    BY <1>1, <1>5, <1>7 DEF Finish, Passes
  <2> QED
    BY <1>4, <1>5, <1>7, <2>1
<1>8. CASE AdmitLeaf(c)
  BY <1>7, <1>8 DEF AdmitLeaf
<1>9. CASE ReadConnection(c)
  <2>1. CASE LeafStep(c, "begun", "refused") /\ Finish
    BY <1>7, <2>1
  <2>2. CASE leaf' = [leaf EXCEPT ![c] = [phase |-> "read", a |-> conn[c].a]] /\ UNCHANGED gateVars
    <3>1. conn[c].a \in Assignments
      BY <1>2 DEF CaseTypes, Cases
    <3>2. /\ leaf' \in [Connections -> Cases(LeafPhases)]
          /\ leaf'[c].phase = "read" /\ \A q \in Connections \ {c} : leaf'[q] = leaf[q]
      BY <1>2, <1>5, <2>2, <3>1, CaseSet
    <3>3. CaseTypes'
      BY <1>1, <1>2, <3>2 DEF CaseTypes
    <3>4. Passes /\ active' = active + In(leaf'[c].phase, LeafInside) - In(leaf[c].phase, LeafInside)
      BY <1>1, <1>5, <1>9, <2>2, <3>2 DEF Passes, gateVars, ReadConnection
    <3>5. GateInv'
      BY <1>1, <1>2, <3>2, <3>3, <3>4, LeafPasses
    <3> QED
      BY <1>1, <1>3, <3>3, <3>5, BesideKeeps
  <2> QED
    BY <1>9, <2>1, <2>2 DEF ReadConnection
<1> QED
  BY <1>6, <1>8, <1>9

LEMMA ShutdownKeeps ==
    ASSUME AssignmentInv, CloseAdmission \/ MarkShutdown \/ ShutdownRevokes \/ DrainReturns
    PROVE  AssignmentInv'
<1>1. /\ UNCHANGED <<head, durable, writer, known, transitioning, conn, request, leaf, apply, creating,
                     active>>
      /\ poisoned' \in {poisoned, TRUE} /\ shutdown' \in {shutdown, known}
  BY DEF CloseAdmission, MarkShutdown, ShutdownRevokes, DrainReturns, flagVars, caseVars, gateVars
<1>2. RowTypes'
  BY <1>1 DEF AssignmentInv, RowTypes
<1>3. CaseTypes'
  BY <1>1 DEF AssignmentInv, CaseTypes
<1>4. /\ open' \in BOOLEAN /\ stop' \in StopPhases /\ (stop' # "running" => ~open')
      /\ stop' = "drained" => active = 0
  <2>1. open \in BOOLEAN /\ (stop # "running" => ~open)
    BY DEF AssignmentInv, GateTypes, Stopped
  <2>2. CASE CloseAdmission
    BY <2>2 DEF CloseAdmission, StopPhases
  <2>3. CASE MarkShutdown \/ ShutdownRevokes
    <3>1. open' = open /\ stop' \in {"marked", "draining"} /\ stop # "running"
      BY <2>3 DEF MarkShutdown, ShutdownRevokes, gateVars
    <3> QED
      BY <2>1, <3>1 DEF StopPhases
  <2>4. CASE DrainReturns
    BY <2>1, <2>4 DEF DrainReturns, gateVars, StopPhases
  <2> QED
    BY <2>2, <2>3, <2>4
<1>5. GateInv'
  BY <1>1, <1>4, GateStill DEF AssignmentInv, GateInv
<1> QED
  BY <1>1, <1>2, <1>3, <1>5, BesideKeeps

-----------------------------------------------------------------------------
(* Connections                                                             *)

\* The only connection that is being registered is the one that holds the lock.
LEMMA WriterExcludes ==
    ASSUME AssignmentInv
    PROVE  /\ \A c \in Connections, d \in Connections :
                  conn[c].phase \in Registering /\ conn[d].phase \in Registering => c = d
           /\ \A c \in Connections, x \in Applies :
                  ~(conn[c].phase \in Registering /\ apply[x].phase \in Holding)
           /\ \A x \in Applies, y \in Applies :
                  apply[x].phase \in Holding /\ apply[y].phase \in Holding => x = y
           /\ writer = None => /\ \A c \in Connections : conn[c].phase \notin Registering
                               /\ \A x \in Applies : apply[x].phase \notin Holding
  BY AssignmentAssumption DEF AssignmentInv, Writers

LEMMA LaunchedRow ==
    ASSUME RowTypes
    PROVE  /\ Launched \in Assignments /\ Launched.rev = 1 /\ Launched.env = head /\ Launched # Missing
<1>1. head \in 0..MaxHead /\ 1 \in 0..(MaxHead + 1)
  BY AssignmentFields DEF RowTypes
<1>2. Launched.rev = 1 /\ Launched.env = head
  BY DEF Launched
<1>3. Launched # Missing
  BY <1>2 DEF Missing
<1> QED
  BY <1>1, <1>2, <1>3 DEF Launched, Assignments

LEMMA CreateKeeps ==
    ASSUME AssignmentInv, BeginCreate \/ Create
    PROVE  AssignmentInv'
<1>1. UNCHANGED <<head, writer, transitioning, shutdown, conn, request, leaf, apply, stop>>
  BY DEF BeginCreate, Create, flagVars
<1>2. CaseTypes'
  BY <1>1 DEF AssignmentInv, CaseTypes
<1>3. active \in Nat /\ GateInv
  BY ActiveCounted DEF AssignmentInv, GateInv, GateTypes
<1>4. CASE BeginCreate
  <2>1. /\ creating = FALSE /\ creating' = TRUE /\ open /\ active' = active + 1 /\ open' = open
        /\ UNCHANGED <<durable, known, poisoned>>
    BY <1>4 DEF BeginCreate, Enter, flagVars, AssignmentInv, GateTypes
  <2>2. Passes /\ active' = active + (IF creating' THEN 1 ELSE 0) - (IF creating THEN 1 ELSE 0)
    BY <1>1, <1>3, <2>1 DEF Passes
  <2>3. GateInv'
    BY <1>1, <1>3, <2>1, <2>2, CreatePasses
  <2>4. RowTypes'
    BY <1>1, <2>1, RowTypesStill DEF AssignmentInv
  <2> QED
    BY <1>1, <1>2, <2>1, <2>3, <2>4, BesideKeeps
<1>5. CASE Create
  <2>1. /\ creating = TRUE /\ creating' = FALSE /\ active' = active - 1 /\ open' = open
        /\ writer = None /\ known' = TRUE
        /\ durable' = durable \/ (durable = Missing /\ durable' = Launched)
        /\ poisoned' \in {poisoned, TRUE}
    BY <1>5 DEF Create, Finish, AssignmentInv, GateTypes
  <2>2. Passes /\ active' = active + (IF creating' THEN 1 ELSE 0) - (IF creating THEN 1 ELSE 0)
    BY <1>1, <1>3, <2>1 DEF Passes
  <2>3. GateInv'
    BY <1>1, <1>3, <2>1, <2>2, CreatePasses
  <2>4. RowTypes'
    BY <1>1, <2>1, LaunchedRow DEF AssignmentInv, RowTypes
  <2>5. CASE durable' = durable
    BY <1>1, <1>2, <2>1, <2>3, <2>4, <2>5, BesideKeeps
  <2>6. CASE durable = Missing /\ durable' = Launched
    <3>1. Row'
      BY <1>1, <2>6, LaunchedRow, AssignmentFields DEF AssignmentInv, RowTypes, Row
    <3>2. Writers' /\ Transition'
      BY <1>1 DEF AssignmentInv, Writers, Transition
    <3>3. /\ \A c \in Connections : conn[c].phase # "loaded"
          /\ \A x \in Applies : apply[x].phase \notin Holding
      BY <2>1, WriterExcludes DEF Registering
    <3>4. Loaded'
      BY <1>1, <3>3 DEF AssignmentInv, Loaded
    <3>5. Bound'
      BY <1>1, <3>3 DEF Bound, Holding, Before
    <3>6. Settled'
      <4>1. ASSUME ~poisoned, NEW c \in Connections, conn[c].phase = "open" PROVE FALSE
        <5>1. \A x \in Applies : apply[x].phase # "written"
          BY <3>3 DEF Holding
        <5>2. conn[c].a = durable /\ conn[c].a # Missing
          BY <4>1, <5>1 DEF AssignmentInv, Settled, Loaded
        <5> QED
          BY <2>6, <5>2
      <4>2. poisoned' = FALSE => ~poisoned
        BY <2>1
      <4>3. poisoned' \in BOOLEAN
        BY <2>4 DEF RowTypes
      <4> QED
        BY <1>1, <4>1, <4>2, <4>3 DEF Settled
    <3> QED
      BY <1>2, <2>3, <2>4, <3>1, <3>2, <3>4, <3>5, <3>6 DEF AssignmentInv, GateInv
  <2> QED
    BY <2>1, <2>5, <2>6
<1> QED
  BY <1>4, <1>5

\* What a step of one connection has to show.
LEMMA ConnKeeps ==
    ASSUME AssignmentInv, NEW c \in Connections, CaseTypes', GateInv',
           \A d \in Connections \ {c} : conn'[d] = conn[d],
           UNCHANGED <<head, durable, shutdown, poisoned, transitioning, apply>>, known' \in BOOLEAN,
           writer' \in Connections \union Applies \union {None},
           Writers', Loaded',
           conn'[c].phase = "open" =>
               /\ conn'[c].a = durable /\ c \in Serves[durable.env]
               /\ \A x \in Applies : apply[x].phase \notin Holding
    PROVE  AssignmentInv'
<1>1. RowTypes' /\ Row' /\ Transition'
  BY DEF AssignmentInv, RowTypes, Row, Transition
<1>2. Settled'
  BY DEF AssignmentInv, Settled
<1>3. Bound'
  <2>1. ASSUME NEW x \in Applies, apply[x].phase \in Holding
        PROVE  OpenConnections' \subseteq OpenConnections
    BY <2>1 DEF OpenConnections
  <2> QED
    BY <2>1 DEF AssignmentInv, Bound, Before, Holding
<1> QED
  BY <1>1, <1>2, <1>3 DEF AssignmentInv, GateInv

LEMMA ConnPhaseFacts ==
    /\ In("idle", ConnInside) = 0 /\ In("begun", ConnInside) = 1 /\ In("loaded", ConnInside) = 1
    /\ In("open", ConnInside) = 1 /\ In("leaving", ConnInside) = 0
    /\ In("closed", ConnInside) = 0
    /\ {"idle", "begun", "loaded", "open", "leaving", "closed"} = ConnPhases
    /\ {"loaded", "leaving"} = Registering
  BY DEF In, ConnInside, ConnPhases, Registering

LEMMA BeginConnectionKeeps ==
    ASSUME AssignmentInv, NEW c \in Connections, BeginConnection(c)
    PROVE  AssignmentInv'
<1>1. /\ UNCHANGED <<head, durable, writer, known, shutdown, poisoned, transitioning, request, leaf,
                     apply, creating, stop>>
      /\ open /\ active' = active + 1 /\ open' = open
      /\ conn[c].phase = "idle" /\ conn' = [conn EXCEPT ![c].phase = "begun"]
  BY DEF BeginConnection, Enter, ConnStep, flagVars
<1>2. conn \in [Connections -> Cases(ConnPhases)] /\ CaseTypes /\ GateInv /\ active \in Nat
  BY ActiveCounted DEF AssignmentInv, CaseTypes, GateInv, GateTypes
<1>3. /\ conn' \in [Connections -> Cases(ConnPhases)] /\ conn'[c].phase = "begun"
      /\ \A d \in Connections \ {c} : conn'[d] = conn[d]
  <2>1. "begun" \in ConnPhases
    BY DEF ConnPhases
  <2>2. conn' = [conn EXCEPT ![c].phase = "begun"] /\ conn \in [Connections -> Cases(ConnPhases)]
    BY <1>1, <1>2
  <2> QED
    BY <2>1, <2>2, CaseStep
<1>4. CaseTypes'
  BY <1>1, <1>2, <1>3 DEF CaseTypes
<1>5. GateInv'
  BY <1>1, <1>2, <1>3, <1>4, ConnPhaseFacts, ConnPasses DEF Passes
<1>6. \A d \in Connections : conn'[d].phase \in Registering \union {"open"} => conn'[d] = conn[d]
  BY <1>3 DEF Registering
<1>7. Writers'
  BY <1>1, <1>3, <1>6 DEF AssignmentInv, Writers, Registering
<1>8. Loaded'
  BY <1>1, <1>3, <1>6, ConnPhaseFacts DEF AssignmentInv, Loaded
<1> QED
  BY <1>1, <1>3, <1>4, <1>5, <1>7, <1>8, ConnKeeps DEF AssignmentInv, RowTypes

LEMMA LoadAssignmentKeeps ==
    ASSUME AssignmentInv, NEW c \in Connections, LoadAssignment(c)
    PROVE  AssignmentInv'
<1>1. /\ UNCHANGED <<head, durable, shutdown, poisoned, transitioning, request, leaf, apply, creating,
                     stop>>
      /\ writer = None /\ writer' = c /\ conn[c].phase = "begun" /\ known' = TRUE
  BY DEF LoadAssignment, ConnStep, flagVars
<1>2. conn \in [Connections -> Cases(ConnPhases)] /\ CaseTypes /\ GateInv /\ active \in Nat
  BY ActiveCounted DEF AssignmentInv, CaseTypes, GateInv, GateTypes
<1>3. CASE /\ durable # Missing /\ c \in Serves[durable.env]
           /\ conn' = [conn EXCEPT ![c] = [phase |-> "loaded", a |-> durable]] /\ UNCHANGED gateVars
  <2>1. durable \in Assignments /\ "loaded" \in ConnPhases
    BY DEF AssignmentInv, RowTypes, ConnPhases
  <2>2. /\ conn' \in [Connections -> Cases(ConnPhases)] /\ conn'[c].phase = "loaded"
        /\ conn'[c].a = durable /\ \A d \in Connections \ {c} : conn'[d] = conn[d]
    BY <1>2, <1>3, <2>1, CaseSet
  <2>3. CaseTypes'
    BY <1>1, <1>2, <2>2 DEF CaseTypes
  <2>4. GateInv'
    BY <1>1, <1>2, <1>3, <2>2, <2>3, ConnPhaseFacts, ConnPasses DEF Passes, gateVars
  <2>5. Writers'
    BY <1>1, <2>2, WriterExcludes, ConnPhaseFacts, AssignmentAssumption DEF Writers
  <2>6. Loaded'
    BY <1>1, <1>3, <2>2 DEF AssignmentInv, Loaded
  <2> QED
    BY <1>1, <1>3, <2>2, <2>3, <2>4, <2>5, <2>6, ConnKeeps
<1>4. CASE ConnStep(c, "begun", "leaving") /\ Finish
  <2>1. /\ conn' \in [Connections -> Cases(ConnPhases)] /\ conn'[c].phase = "leaving"
        /\ \A d \in Connections \ {c} : conn'[d] = conn[d]
    BY <1>2, <1>4, ConnPhaseFacts, CaseStep DEF ConnStep
  <2>2. CaseTypes'
    BY <1>1, <1>2, <2>1 DEF CaseTypes
  <2>3. GateInv'
    BY <1>1, <1>2, <1>4, <2>1, <2>2, ConnPhaseFacts, ConnPasses DEF Passes, Finish
  <2>4. Writers'
    BY <1>1, <2>1, WriterExcludes, ConnPhaseFacts, AssignmentAssumption DEF Writers
  <2>5. Loaded'
    BY <1>1, <2>1 DEF AssignmentInv, Loaded
  <2> QED
    BY <1>1, <1>4, <2>1, <2>2, <2>3, <2>4, <2>5, ConnKeeps DEF AssignmentInv, RowTypes
<1> QED
  BY <1>3, <1>4 DEF LoadAssignment

\* The record goes in under the row that was read, for the lock was kept.
LEMMA RegisterConnectionKeeps ==
    ASSUME AssignmentInv, NEW c \in Connections, RegisterConnection(c)
    PROVE  AssignmentInv'
<1>1. /\ UNCHANGED <<head, durable, known, shutdown, poisoned, transitioning, request, leaf, apply,
                     creating, stop>>
      /\ conn[c].phase = "loaded"
  BY DEF RegisterConnection, ConnStep, flagVars
<1>2. conn \in [Connections -> Cases(ConnPhases)] /\ CaseTypes /\ GateInv /\ active \in Nat
  BY ActiveCounted DEF AssignmentInv, CaseTypes, GateInv, GateTypes
<1>3. PICK to \in {"leaving", "open"} :
          /\ conn' = [conn EXCEPT ![c].phase = to]
          /\ to = "leaving" => Finish /\ writer' = writer
          /\ to = "open" => UNCHANGED gateVars /\ writer' = None
  BY DEF RegisterConnection, ConnStep
<1>4. /\ conn' \in [Connections -> Cases(ConnPhases)] /\ conn'[c].phase = to /\ conn'[c].a = conn[c].a
      /\ \A d \in Connections \ {c} : conn'[d] = conn[d]
  BY <1>2, <1>3, ConnPhaseFacts, CaseStep
<1>5. CaseTypes'
  BY <1>1, <1>2, <1>4 DEF CaseTypes
<1>6. GateInv'
  BY <1>1, <1>2, <1>3, <1>4, <1>5, ConnPhaseFacts, ConnPasses DEF Passes, Finish, gateVars
<1>7. /\ \A d \in Connections : conn[d].phase \in Registering => d = c
      /\ \A x \in Applies : apply[x].phase \notin Holding
      /\ writer = c
  BY <1>1, WriterExcludes, ConnPhaseFacts DEF AssignmentInv, Writers
<1>8. Writers'
  BY <1>1, <1>3, <1>4, <1>7, ConnPhaseFacts, AssignmentAssumption DEF Writers
<1>9. conn[c].a = durable /\ durable # Missing /\ c \in Serves[durable.env]
  BY <1>1 DEF AssignmentInv, Loaded
<1>10. Loaded'
  BY <1>1, <1>3, <1>4, <1>9 DEF AssignmentInv, Loaded
<1> QED
  BY <1>1, <1>3, <1>4, <1>5, <1>6, <1>7, <1>8, <1>9, <1>10, ConnKeeps DEF AssignmentInv, RowTypes

\* A refused registration that gives its locks back is not counted any more.
LEMMA LeaveRefusedKeeps ==
    ASSUME AssignmentInv, NEW c \in Connections, LeaveRefused(c)
    PROVE  AssignmentInv'
<1>1. /\ UNCHANGED <<head, durable, known, shutdown, poisoned, transitioning, request, leaf, apply,
                     creating, open, active, stop>>
      /\ conn[c].phase = "leaving" /\ conn' = [conn EXCEPT ![c].phase = "closed"] /\ writer' = None
  BY DEF LeaveRefused, ConnStep, flagVars, gateVars
<1>2. conn \in [Connections -> Cases(ConnPhases)] /\ CaseTypes /\ GateInv /\ active \in Nat
  BY ActiveCounted DEF AssignmentInv, CaseTypes, GateInv, GateTypes
<1>3. /\ conn' \in [Connections -> Cases(ConnPhases)] /\ conn'[c].phase = "closed"
      /\ \A d \in Connections \ {c} : conn'[d] = conn[d]
  <2>1. "closed" \in ConnPhases
    BY DEF ConnPhases
  <2>2. conn' = [conn EXCEPT ![c].phase = "closed"] /\ conn \in [Connections -> Cases(ConnPhases)]
    BY <1>1, <1>2
  <2> QED
    BY <2>1, <2>2, CaseStep
<1>4. CaseTypes'
  BY <1>1, <1>2, <1>3 DEF CaseTypes
<1>5. GateInv'
  BY <1>1, <1>2, <1>3, <1>4, ConnPhaseFacts, ConnPasses DEF Passes
<1>6. /\ \A d \in Connections : conn[d].phase \in Registering => d = c
      /\ \A x \in Applies : apply[x].phase \notin Holding
  BY <1>1, WriterExcludes, ConnPhaseFacts
<1>7. Writers'
  BY <1>1, <1>3, <1>6, ConnPhaseFacts DEF Writers
<1>8. Loaded'
  BY <1>1, <1>3 DEF AssignmentInv, Loaded
<1> QED
  BY <1>1, <1>3, <1>4, <1>5, <1>7, <1>8, ConnKeeps DEF AssignmentInv, RowTypes

LEMMA CloseConnectionKeeps ==
    ASSUME AssignmentInv, NEW c \in Connections, CloseConnection(c)
    PROVE  AssignmentInv'
<1>1. /\ UNCHANGED <<head, durable, writer, known, shutdown, poisoned, transitioning, request, leaf,
                     apply, creating, stop>>
      /\ conn[c].phase = "open" /\ conn' = [conn EXCEPT ![c].phase = "closed"] /\ Finish
  BY DEF CloseConnection, ConnStep, flagVars
<1>2. conn \in [Connections -> Cases(ConnPhases)] /\ CaseTypes /\ GateInv /\ active \in Nat
  BY ActiveCounted DEF AssignmentInv, CaseTypes, GateInv, GateTypes
<1>3. /\ conn' \in [Connections -> Cases(ConnPhases)] /\ conn'[c].phase = "closed"
      /\ \A d \in Connections \ {c} : conn'[d] = conn[d]
  <2>1. "closed" \in ConnPhases
    BY DEF ConnPhases
  <2>2. conn' = [conn EXCEPT ![c].phase = "closed"] /\ conn \in [Connections -> Cases(ConnPhases)]
    BY <1>1, <1>2
  <2> QED
    BY <2>1, <2>2, CaseStep
<1>4. CaseTypes'
  BY <1>1, <1>2, <1>3 DEF CaseTypes
<1>5. GateInv'
  BY <1>1, <1>2, <1>3, <1>4, ConnPhaseFacts, ConnPasses DEF Passes, Finish
<1>6. \A d \in Connections : conn'[d].phase \in Registering \union {"open"} => conn'[d] = conn[d]
  BY <1>3 DEF Registering
<1>7. Writers'
  BY <1>1, <1>3, <1>6 DEF AssignmentInv, Writers, Registering
<1>8. Loaded'
  BY <1>1, <1>3, <1>6, ConnPhaseFacts DEF AssignmentInv, Loaded
<1> QED
  BY <1>1, <1>3, <1>4, <1>5, <1>7, <1>8, ConnKeeps DEF AssignmentInv, RowTypes

-----------------------------------------------------------------------------
(* ApplyLatest                                                             *)

LEMMA ApplyPhaseFacts ==
    /\ ApplyInside = {"begun"} \union Holding /\ Holding \subseteq ApplyPhases
    /\ Blocking \subseteq Holding /\ Before \subseteq Holding /\ "written" \in Holding
    /\ {"idle", "begun", "done"} \subseteq ApplyPhases \ Holding
  BY DEF ApplyInside, ApplyPhases, Holding, Blocking, Before

\* What a step of the ApplyLatest that holds the lock has to show.
LEMMA HolderKeeps ==
    ASSUME AssignmentInv, NEW x \in Applies, apply[x].phase \in Holding,
           RowTypes', CaseTypes', GateInv', Row', Settled',
           \A y \in Applies \ {x} : apply'[y] = apply[y], head' = head,
           \A c \in Connections : /\ conn'[c].phase = conn[c].phase
                                  /\ conn'[c].phase = "open" => conn'[c].a # Missing,
           \/ writer' = writer /\ apply'[x].phase \in Holding
           \/ writer' = None /\ apply'[x].phase \notin Holding,
           transitioning' <=> apply'[x].phase \in Blocking,
           apply'[x].phase \in Before =>
               durable' # Missing /\ durable'.env < apply'[x].target /\ apply'[x].target <= head,
           apply'[x].phase = "written" => durable' # Missing /\ durable'.env = apply'[x].target,
           apply'[x].phase \in Before \union {"written"} =>
               OpenConnections \subseteq apply'[x].bound \intersect Serves[apply'[x].target]
    PROVE  AssignmentInv'
<1>1. /\ \A y \in Applies \ {x} : apply[y].phase \notin Holding
      /\ \A c \in Connections : conn[c].phase \notin Registering
      /\ writer = x
  BY WriterExcludes DEF AssignmentInv, Writers
<1>2. Writers'
  BY <1>1 DEF Writers
<1>3. Transition'
  BY <1>1, ApplyPhaseFacts DEF Transition
<1>4. Loaded'
  BY <1>1, ConnPhaseFacts DEF Loaded
<1>5. OpenConnections' = OpenConnections
  BY DEF OpenConnections
<1>6. Bound'
  <2>1. ASSUME NEW y \in Applies, y # x PROVE apply'[y].phase \notin Before \union {"written"}
    BY <1>1, <2>1, ApplyPhaseFacts
  <2> QED
    BY <1>5, <2>1 DEF Bound
<1> QED
  BY <1>2, <1>3, <1>4, <1>6 DEF AssignmentInv, GateInv

LEMMA BeginApplyKeeps ==
    ASSUME AssignmentInv, NEW x \in Applies, BeginApply(x)
    PROVE  AssignmentInv'
<1>1. /\ UNCHANGED <<head, durable, writer, known, shutdown, poisoned, transitioning, conn, request,
                     leaf, creating, stop>>
      /\ open /\ active' = active + 1 /\ open' = open /\ apply[x].phase = "idle"
  BY DEF BeginApply, Enter, flagVars
<1>2. CaseTypes /\ GateInv /\ active \in Nat
  BY ActiveCounted DEF AssignmentInv, GateInv, GateTypes
<1> DEFINE n == [apply[x] EXCEPT !.phase = "begun", !.expected = durable.rev]
<1>3. apply[x] \in ApplyRecords /\ durable.rev \in 0..(MaxHead + 1)
  BY <1>2, AssignmentFields DEF CaseTypes, AssignmentInv, RowTypes
<1>4. n \in ApplyRecords /\ n.phase = "begun" /\ n.expected = durable.rev /\ durable.rev # 0
  BY <1>3 DEF ApplyRecords, ApplyPhases, BeginApply
<1>5. apply' = [apply EXCEPT ![x] = n]
  BY DEF BeginApply
<1> HIDE DEF n
<1>6. /\ apply' \in [Applies -> ApplyRecords] /\ apply'[x].phase = "begun" /\ apply'[x].expected # 0
      /\ \A y \in Applies \ {x} : apply'[y] = apply[y]
  BY <1>2, <1>4, <1>5 DEF CaseTypes
<1>7. CaseTypes'
  BY <1>1, <1>2, <1>6 DEF CaseTypes
<1>8. In("begun", ApplyInside) = 1 /\ In("idle", ApplyInside) = 0
  BY DEF In, ApplyInside, ApplyPhases
<1>9. GateInv'
  BY <1>1, <1>2, <1>6, <1>7, <1>8, ApplyPasses DEF Passes
<1>10. RowTypes'
  BY <1>1, RowTypesStill DEF AssignmentInv
<1>11. \A y \in Applies : /\ apply'[y].phase \in Holding => apply'[y] = apply[y]
                          /\ apply[y].phase \in Holding => apply'[y] = apply[y]
  BY <1>1, <1>6, ApplyPhaseFacts
<1>12. Writers' /\ Transition'
  BY <1>1, <1>11, ApplyPhaseFacts DEF AssignmentInv, Writers, Transition
<1>13. Row' /\ Loaded'
  BY <1>1 DEF AssignmentInv, Row, Loaded
<1>14. Bound'
  BY <1>1, <1>11, ApplyPhaseFacts DEF AssignmentInv, Bound, OpenConnections
<1>15. Settled'
  BY <1>1, <1>11, ApplyPhaseFacts DEF AssignmentInv, Settled
<1> QED
  BY <1>7, <1>9, <1>10, <1>12, <1>13, <1>14, <1>15 DEF AssignmentInv, GateInv

LEMMA BindConnectionsKeeps ==
    ASSUME AssignmentInv, NEW x \in Applies, BindConnections(x)
    PROVE  AssignmentInv'
<1>1. /\ UNCHANGED <<head, durable, shutdown, poisoned, transitioning, conn, request, leaf, creating,
                     stop>>
      /\ apply[x].phase = "begun" /\ writer = None /\ known' = TRUE
  BY DEF BindConnections, flagVars
<1>2. CaseTypes /\ GateInv /\ active \in Nat
  BY ActiveCounted DEF AssignmentInv, GateInv, GateTypes
<1>3. /\ In("begun", ApplyInside) = 1 /\ In("bound", ApplyInside) = 1 /\ In("done", ApplyInside) = 0
      /\ "begun" \notin Holding /\ "done" \notin Holding /\ "bound" \in Holding
      /\ "bound" \notin Blocking /\ "bound" # "written"
  BY DEF In, ApplyInside, ApplyPhases, Holding, Blocking
<1>4. /\ \A y \in Applies : apply[y].phase \notin Holding
      /\ \A c \in Connections : conn[c].phase \notin Registering
  BY <1>1, WriterExcludes
<1>5. Held(conn', ConnInside) = Held(conn, ConnInside)
  BY <1>1
<1>6. Row' /\ Loaded'
  BY <1>1 DEF AssignmentInv, Row, Loaded
<1>7. CASE ApplyStep(x, "begun", "done") /\ Finish /\ UNCHANGED writer
  <2>1. /\ apply' \in [Applies -> ApplyRecords] /\ apply'[x].phase = "done"
        /\ \A y \in Applies \ {x} : apply'[y] = apply[y]
    BY <1>2, <1>7, ApplyPhaseFacts, ApplyRecord DEF CaseTypes
  <2>2. CaseTypes'
    BY <1>1, <1>2, <2>1 DEF CaseTypes
  <2>3. GateInv'
    BY <1>1, <1>2, <1>3, <1>5, <1>7, <2>1, <2>2, ApplyPasses DEF Passes, Finish
  <2>4. \A y \in Applies : apply'[y].phase \notin Holding
    BY <1>3, <1>4, <2>1
  <2>5. RowTypes'
    BY <1>1, <1>7 DEF AssignmentInv, RowTypes
  <2>6. Writers' /\ Transition'
    BY <1>1, <1>4, <1>7, <2>4, ApplyPhaseFacts DEF AssignmentInv, Writers, Transition
  <2>7. Bound'
    BY <2>4, ApplyPhaseFacts DEF Bound
  <2>8. Settled'
    BY <1>1, <1>4, ApplyPhaseFacts DEF AssignmentInv, Settled
  <2> QED
    BY <1>6, <2>2, <2>3, <2>5, <2>6, <2>7, <2>8 DEF AssignmentInv, GateInv
<1>8. CASE /\ durable.rev = apply[x].expected /\ durable.env < head
           /\ OpenConnections \subseteq Serves[head]
           /\ writer' = x
           /\ apply' = [apply EXCEPT ![x].phase = "bound", ![x].target = head,
                                     ![x].bound = OpenConnections]
           /\ UNCHANGED gateVars
  <2> DEFINE n == [apply[x] EXCEPT !.phase = "bound", !.target = head, !.bound = OpenConnections]
  <2>1. apply[x] \in ApplyRecords /\ head \in 0..MaxHead /\ OpenConnections \in SUBSET Connections
    BY <1>2, AssignmentFields DEF CaseTypes, AssignmentInv, RowTypes, OpenConnections
  <2>2. n \in ApplyRecords /\ n.phase = "bound" /\ n.target = head /\ n.bound = OpenConnections
    BY <2>1 DEF ApplyRecords, ApplyPhases
  <2>3. apply' = [apply EXCEPT ![x] = n]
    BY <1>2, <1>8 DEF CaseTypes
  <2> HIDE DEF n
  <2>4. /\ apply' \in [Applies -> ApplyRecords] /\ apply'[x] = n
        /\ \A y \in Applies \ {x} : apply'[y] = apply[y]
    BY <1>2, <2>2, <2>3 DEF CaseTypes
  <2>5. CaseTypes'
    BY <1>1, <1>2, <2>2, <2>4 DEF CaseTypes
  <2>6. GateInv'
    BY <1>1, <1>2, <1>3, <1>5, <1>8, <2>2, <2>4, <2>5, ApplyPasses DEF Passes, gateVars
  <2>7. RowTypes'
    BY <1>1, <1>8 DEF AssignmentInv, RowTypes
  <2>8. \A y \in Applies \ {x} : apply'[y].phase \notin Holding
    BY <1>4, <2>4
  <2>9. Writers' /\ Transition'
    <3>1. Writers'
      BY <1>1, <1>3, <1>4, <1>8, <2>2, <2>4, <2>8 DEF Writers
    <3>2. ~transitioning /\ \A y \in Applies : apply'[y].phase \notin Blocking
      BY <1>3, <1>4, <2>2, <2>4, <2>8, ApplyPhaseFacts DEF AssignmentInv, Transition
    <3> QED
      BY <1>1, <3>1, <3>2 DEF Transition
  <2>10. Bound'
    <3>1. durable # Missing
      <4>1. durable.rev # 0
        BY <1>1, <1>2, <1>8 DEF CaseTypes
      <4> QED
        BY <4>1 DEF Missing
    <3>2. OpenConnections' = OpenConnections /\ head <= head
      BY <1>1, <2>1 DEF OpenConnections
    <3> QED
      BY <1>1, <1>8, <2>2, <2>4, <2>8, <3>1, <3>2, ApplyPhaseFacts DEF Bound
  <2>11. Settled'
    BY <1>1, <1>4, ApplyPhaseFacts DEF AssignmentInv, Settled
  <2> QED
    BY <1>6, <2>5, <2>6, <2>7, <2>9, <2>10, <2>11 DEF AssignmentInv, GateInv
<1> QED
  BY <1>7, <1>8 DEF BindConnections

\* A step that only moves the ApplyLatest that holds the lock on.
LEMMA HolderMoves ==
    ASSUME AssignmentInv, NEW x \in Applies, NEW from \in Holding, NEW to \in Holding,
           ApplyStep(x, from, to), UNCHANGED <<request, leaf, creating, open, active, stop>>,
           conn' \in [Connections -> Cases(ConnPhases)],
           \A c \in Connections : conn'[c].phase = conn[c].phase
    PROVE  /\ CaseTypes' /\ GateInv' /\ apply[x].phase = from /\ apply'[x].phase = to
           /\ apply'[x].target = apply[x].target /\ apply'[x].bound = apply[x].bound
           /\ \A y \in Applies \ {x} : apply'[y] = apply[y]
<1>1. CaseTypes /\ GateInv /\ active \in Nat
  BY ActiveCounted DEF AssignmentInv, GateInv, GateTypes
<1>2. /\ apply' \in [Applies -> ApplyRecords] /\ apply[x].phase = from
      /\ apply'[x].phase = to /\ apply'[x].target = apply[x].target
      /\ apply'[x].bound = apply[x].bound
      /\ \A y \in Applies \ {x} : apply'[y] = apply[y]
  <2>1. to \in ApplyPhases
    BY ApplyPhaseFacts
  <2> QED
    BY <1>1, <2>1, ApplyRecord DEF CaseTypes
<1>3. CaseTypes'
  BY <1>1, <1>2 DEF CaseTypes, Holding
<1>4. Held(conn', ConnInside) = Held(conn, ConnInside)
  BY <1>1 DEF Held, CaseTypes
<1>5. In(from, ApplyInside) = 1 /\ In(to, ApplyInside) = 1
  BY ApplyPhaseFacts DEF In
<1>6. Passes /\ active' = active + In(apply'[x].phase, ApplyInside) - In(apply[x].phase, ApplyInside)
  BY <1>1, <1>2, <1>5 DEF Passes
<1>7. GateInv'
  BY <1>1, <1>2, <1>3, <1>4, <1>6, ApplyPasses
<1> QED
  BY <1>2, <1>3, <1>7

LEMMA BlockKeeps ==
    ASSUME AssignmentInv, NEW x \in Applies, Block(x) \/ Revoke(x)
    PROVE  AssignmentInv'
<1>1. /\ UNCHANGED <<head, durable, writer, known, shutdown, conn, request, leaf, creating, open,
                     active, stop>>
      /\ poisoned' \in {poisoned, TRUE}
  BY DEF Block, Revoke, gateVars
<1>2. PICK from \in {"bound", "blocked"}, to \in {"blocked", "revoked", "leaving"} :
          ApplyStep(x, from, to) /\ transitioning' \in {transitioning, TRUE}
                                 /\ (from = "bound" => transitioning' = TRUE)
  BY DEF Block, Revoke
<1>3. from \in Holding /\ to \in Holding /\ to \in Blocking /\ from \in Before /\ to # "written"
  BY DEF Holding, Blocking, Before
<1>4. /\ CaseTypes' /\ GateInv' /\ apply[x].phase = from /\ apply'[x].phase = to
      /\ apply'[x].target = apply[x].target /\ apply'[x].bound = apply[x].bound
      /\ \A y \in Applies \ {x} : apply'[y] = apply[y]
  BY <1>1, <1>2, <1>3, HolderMoves DEF AssignmentInv, CaseTypes
<1>5. transitioning' = TRUE
  BY <1>2, <1>4 DEF AssignmentInv, Transition, RowTypes, Blocking
<1>6. RowTypes'
  BY <1>1, <1>5 DEF AssignmentInv, RowTypes
<1>7. Row'
  BY <1>1 DEF AssignmentInv, Row
<1>8. Settled'
  <2>1. \A y \in Applies : apply[y].phase # "written"
    BY <1>3, <1>4, WriterExcludes, ApplyPhaseFacts DEF Before
  <2> QED
    BY <1>1, <2>1 DEF AssignmentInv, Settled
<1>9. /\ durable # Missing /\ durable.env < apply[x].target /\ apply[x].target <= head
      /\ OpenConnections \subseteq apply[x].bound \intersect Serves[apply[x].target]
  BY <1>3, <1>4 DEF AssignmentInv, Bound
<1>10. \A c \in Connections : conn[c].phase = "open" => conn[c].a # Missing
  BY DEF AssignmentInv, Loaded
<1> QED
  BY <1>1, <1>3, <1>4, <1>5, <1>6, <1>7, <1>8, <1>9, <1>10, HolderKeeps

LEMMA SuccessorRow ==
    ASSUME AssignmentInv, NEW x \in Applies, apply[x].phase = "revoked"
    PROVE  /\ Successor(x) \in Assignments /\ Successor(x) # Missing
           /\ Successor(x).env = apply[x].target /\ Successor(x).rev = durable.rev + 1
           /\ 1 <= Successor(x).rev /\ Successor(x).rev <= Successor(x).env
           /\ Successor(x).env <= head
<1>1. /\ durable # Missing /\ durable.env < apply[x].target /\ apply[x].target <= head
      /\ 1 <= durable.rev /\ durable.rev <= durable.env
  BY DEF AssignmentInv, Bound, Before, Row
<1>2. durable \in Assignments /\ apply[x] \in ApplyRecords /\ head \in 1..MaxHead
  BY DEF AssignmentInv, RowTypes, CaseTypes
<1>3. apply[x].target \in 0..MaxHead
  BY <1>2 DEF ApplyRecords
<1>4. durable.rev \in Int /\ durable.env \in Int /\ MaxHead \in Int /\ durable.launch \in 0..MaxHead
  BY <1>2, AssignmentFields
<1>5. Successor(x).rev = durable.rev + 1 /\ Successor(x).env = apply[x].target
  BY <1>2 DEF Successor, Assignments
<1>6. durable.rev + 1 \in 0..(MaxHead + 1) /\ durable.rev + 1 <= apply[x].target /\ 1 <= durable.rev + 1
  BY <1>1, <1>2, <1>3, <1>4
<1>7. Successor(x) \in Assignments
  BY <1>2, <1>3, <1>6 DEF Successor, Assignments
<1>8. Successor(x) # Missing
  BY <1>4, <1>5, <1>6 DEF Missing
<1> QED
  BY <1>1, <1>5, <1>6, <1>7, <1>8

LEMMA WriteAssignmentKeeps ==
    ASSUME AssignmentInv, NEW x \in Applies, WriteAssignment(x)
    PROVE  AssignmentInv'
<1>1. UNCHANGED <<head, writer, known, shutdown, transitioning, conn, request, leaf, creating, open,
                  active, stop>>
  BY DEF WriteAssignment, gateVars
<1>2. PICK to \in {"written", "leaving"} :
          /\ ApplyStep(x, "revoked", to) /\ poisoned' \in {poisoned, TRUE}
          /\ to = "written" => durable' = Successor(x)
          /\ to = "leaving" => durable' = durable \/ (poisoned' = TRUE /\ durable' = Successor(x))
  BY DEF WriteAssignment, Outcome
<1>3. "revoked" \in Holding /\ to \in Holding /\ to \in Blocking /\ to \notin Before
  BY DEF Holding, Blocking, Before
<1>4. /\ CaseTypes' /\ GateInv' /\ apply[x].phase = "revoked" /\ apply'[x].phase = to
      /\ apply'[x].target = apply[x].target /\ apply'[x].bound = apply[x].bound
      /\ \A y \in Applies \ {x} : apply'[y] = apply[y]
  BY <1>1, <1>2, <1>3, HolderMoves DEF AssignmentInv, CaseTypes
<1>5. durable' = durable \/ durable' = Successor(x)
  BY <1>2
<1>6. transitioning' = TRUE
  BY <1>1, <1>4 DEF AssignmentInv, Transition, RowTypes, Blocking
<1>7. RowTypes'
  BY <1>1, <1>2, <1>4, <1>5, SuccessorRow DEF AssignmentInv, RowTypes
<1>8. Row'
  BY <1>1, <1>4, <1>5, SuccessorRow DEF AssignmentInv, Row
<1>9. Settled'
  <2>1. CASE to = "written"
    BY <1>4, <2>1 DEF Settled
  <2>2. CASE to = "leaving" /\ durable' = durable
    <3>1. \A y \in Applies : apply[y].phase # "written"
      BY <1>3, <1>4, WriterExcludes, ApplyPhaseFacts
    <3>2. ~poisoned' => ~poisoned
      BY <1>2
    <3> QED
      BY <1>1, <2>2, <3>1, <3>2 DEF AssignmentInv, Settled
  <2>3. CASE to = "leaving" /\ poisoned' = TRUE
    BY <2>3 DEF Settled
  <2> QED
    BY <1>2, <2>1, <2>2, <2>3
<1>10. OpenConnections \subseteq apply[x].bound \intersect Serves[apply[x].target]
  BY <1>4 DEF AssignmentInv, Bound, Before
<1>11. \A c \in Connections : conn[c].phase = "open" => conn[c].a # Missing
  BY DEF AssignmentInv, Loaded
<1>12. to = "written" => durable' # Missing /\ durable'.env = apply[x].target
  BY <1>2, <1>4, SuccessorRow
<1> QED
  BY <1>1, <1>3, <1>4, <1>6, <1>7, <1>8, <1>9, <1>10, <1>11, <1>12, HolderKeeps

\* Every open connection was bound, so that every one of them moves.
LEMMA UpdateConnectionsKeeps ==
    ASSUME AssignmentInv, NEW x \in Applies, UpdateConnections(x)
    PROVE  AssignmentInv'
<1>1. /\ UNCHANGED <<head, durable, writer, known, shutdown, poisoned, transitioning, request, leaf,
                     creating, open, active, stop>>
      /\ ApplyStep(x, "written", "leaving")
  BY DEF UpdateConnections, gateVars, flagVars
<1>2. conn \in [Connections -> Cases(ConnPhases)] /\ durable \in Assignments
  BY DEF AssignmentInv, CaseTypes, RowTypes
<1>3. ASSUME NEW c \in Connections
      PROVE  /\ conn'[c] \in Cases(ConnPhases) /\ conn'[c].phase = conn[c].phase
             /\ IF c \in apply[x].bound /\ conn[c].phase = "open"
                THEN conn'[c].a = durable ELSE conn'[c] = conn[c]
  <2>1. conn'[c] = IF c \in apply[x].bound /\ conn[c].phase = "open"
                   THEN [conn[c] EXCEPT !.a = durable] ELSE conn[c]
    BY DEF UpdateConnections
  <2>2. conn[c] \in Cases(ConnPhases)
    BY <1>2
  <2>3. /\ [conn[c] EXCEPT !.a = durable] \in Cases(ConnPhases)
        /\ [conn[c] EXCEPT !.a = durable].phase = conn[c].phase
        /\ [conn[c] EXCEPT !.a = durable].a = durable
    BY <1>2, <2>2 DEF Cases
  <2> QED
    BY <2>1, <2>2, <2>3
<1>4. conn' \in [Connections -> Cases(ConnPhases)]
  <2>1. conn' = [c \in Connections |-> conn'[c]]
    BY DEF UpdateConnections
  <2> QED
    BY <1>3, <2>1
<1>5. "written" \in Holding /\ "leaving" \in Holding /\ "leaving" \in Blocking /\ "leaving" \notin Before
  BY DEF Holding, Blocking, Before
<1>6. /\ CaseTypes' /\ GateInv' /\ apply[x].phase = "written" /\ apply'[x].phase = "leaving"
      /\ \A y \in Applies \ {x} : apply'[y] = apply[y]
  BY <1>1, <1>3, <1>4, <1>5, HolderMoves
<1>7. /\ durable # Missing /\ durable.env = apply[x].target
      /\ OpenConnections \subseteq apply[x].bound \intersect Serves[apply[x].target]
  BY <1>6 DEF AssignmentInv, Bound
<1>8. \A c \in Connections : conn'[c].phase = "open" =>
          conn'[c].a = durable /\ c \in Serves[durable.env]
  BY <1>3, <1>7 DEF OpenConnections
<1>9. RowTypes' /\ Row'
  BY <1>1 DEF AssignmentInv, RowTypes, Row
<1>10. Settled'
  BY <1>1, <1>8 DEF Settled
<1>11. transitioning' = TRUE
  BY <1>1, <1>6 DEF AssignmentInv, Transition, RowTypes, Blocking
<1> QED
  BY <1>1, <1>3, <1>5, <1>6, <1>7, <1>8, <1>9, <1>10, <1>11, HolderKeeps

LEMMA LeaveApplyKeeps ==
    ASSUME AssignmentInv, NEW x \in Applies, LeaveApply(x)
    PROVE  AssignmentInv'
<1>1. /\ UNCHANGED <<head, durable, known, shutdown, poisoned, conn, request, leaf, creating, stop>>
      /\ ApplyStep(x, "leaving", "done") /\ transitioning' = FALSE /\ writer' = None
      /\ active' = active - 1 /\ open' = open
  BY DEF LeaveApply, Finish
<1>2. CaseTypes /\ GateInv /\ active \in Nat
  BY ActiveCounted DEF AssignmentInv, GateInv, GateTypes
<1>3. /\ "leaving" \in Holding /\ "done" \notin Holding /\ "done" \notin Blocking /\ "done" \notin Before
      /\ "done" \in ApplyPhases /\ In("leaving", ApplyInside) = 1 /\ In("done", ApplyInside) = 0
  BY DEF Holding, Blocking, Before, In, ApplyInside, ApplyPhases
<1>4. /\ apply' \in [Applies -> ApplyRecords] /\ apply[x].phase = "leaving" /\ apply'[x].phase = "done"
      /\ \A y \in Applies \ {x} : apply'[y] = apply[y]
  BY <1>1, <1>2, <1>3, ApplyRecord DEF CaseTypes
<1>5. CaseTypes'
  BY <1>1, <1>2, <1>4 DEF CaseTypes
<1>6. Held(conn', ConnInside) = Held(conn, ConnInside)
  BY <1>1
<1>7. GateInv'
  BY <1>1, <1>2, <1>3, <1>4, <1>5, <1>6, ApplyPasses DEF Passes
<1>8. RowTypes' /\ Row'
  BY <1>1 DEF AssignmentInv, RowTypes, Row
<1>9. Settled'
  <2>1. \A y \in Applies : apply[y].phase # "written"
    BY <1>3, <1>4, WriterExcludes, ApplyPhaseFacts
  <2> QED
    BY <1>1, <2>1 DEF AssignmentInv, Settled
<1>10. \A c \in Connections : conn[c].phase = "open" => conn[c].a # Missing
  BY DEF AssignmentInv, Loaded
<1> QED
  BY <1>1, <1>3, <1>4, <1>5, <1>7, <1>8, <1>9, <1>10, HolderKeeps

-----------------------------------------------------------------------------
(* The assignment, put together                                            *)

LEMMA AssignmentInitInv == AssignmentInit => AssignmentInv
<1> SUFFICES ASSUME AssignmentInit PROVE AssignmentInv
  OBVIOUS
<1>1. At("idle") \in Cases(ConnPhases) /\ At("idle") \in Cases(RequestPhases)
      /\ At("idle") \in Cases(LeafPhases) /\ At("idle").phase = "idle"
  BY AssignmentFields DEF At, Cases, ConnPhases, RequestPhases, LeafPhases
<1>2. NoApply \in ApplyRecords /\ NoApply.phase = "idle"
  BY AssignmentFields DEF NoApply, ApplyRecords, ApplyPhases
<1>3. /\ head = 1 /\ durable \in {Missing, [rev |-> 1, env |-> 1, launch |-> 1]} /\ writer = None
      /\ known = FALSE /\ shutdown = FALSE /\ poisoned = FALSE /\ transitioning = FALSE
      /\ open = TRUE /\ creating = FALSE /\ active = 0 /\ stop = "running"
  BY DEF AssignmentInit
<1>4. /\ \A c \in Connections : conn[c] = At("idle") /\ leaf[c] = At("idle")
      /\ \A r \in Requests : request[r] = At("idle")
      /\ \A x \in Applies : apply[x] = NoApply
  BY DEF AssignmentInit
<1>5. durable \in Assignments /\ Row
  BY <1>3, AssignmentFields DEF Assignments, Row, Missing
<1>6. RowTypes
  <2>1. head \in 1..MaxHead
    BY <1>3, AssignmentFields
  <2>2. writer \in Connections \union Applies \union {None}
    BY <1>3
  <2>3. known \in BOOLEAN /\ shutdown \in BOOLEAN /\ poisoned \in BOOLEAN /\ transitioning \in BOOLEAN
    BY <1>3, Zenon
  <2> QED
    BY <1>5, <2>1, <2>2, <2>3, Zenon DEF RowTypes
<1>7. CaseTypes
  <2>1. conn \in [Connections -> Cases(ConnPhases)] /\ leaf \in [Connections -> Cases(LeafPhases)]
    BY <1>1 DEF AssignmentInit
  <2>2. request \in [Requests -> Cases(RequestPhases)] /\ apply \in [Applies -> ApplyRecords]
    BY <1>1, <1>2 DEF AssignmentInit
  <2> QED
    BY <1>2, <1>4, <2>1, <2>2 DEF CaseTypes
<1>8. Writers
  BY <1>1, <1>2, <1>3, <1>4 DEF Writers, Holding, Registering
<1>9. Transition /\ Loaded
  BY <1>1, <1>2, <1>3, <1>4 DEF Transition, Loaded, Blocking
<1>10. Bound /\ Settled
  BY <1>1, <1>2, <1>3, <1>4 DEF Bound, Settled, Before
<1>11. GateTypes
  BY <1>3, Zenon DEF GateTypes, StopPhases
<1>12. /\ Held(conn, ConnInside) = {} /\ Held(request, RequestInside) = {}
       /\ Held(leaf, LeafInside) = {} /\ Held(apply, ApplyInside) = {}
  BY <1>1, <1>2, <1>4, <1>7 DEF Held, CaseTypes, ConnInside, RequestInside, LeafInside, ApplyInside
<1>13. Counted
  <2>1. CountsTo(0, conn, request, leaf, apply, creating)
    BY <1>3, <1>12, FS_EmptySet DEF CountsTo
  <2> QED
    BY <1>3, <1>12, <2>1, FS_EmptySet DEF Counted, CountsTo, Inside, ConnInside, RequestInside, LeafInside,
       ApplyInside
<1>14. Stopped
  BY <1>3 DEF Stopped
<1> QED
  BY <1>5, <1>6, <1>7, <1>8, <1>9, <1>10, <1>11, <1>13, <1>14 DEF AssignmentInv

LEMMA AssignmentNextInv ==
    ASSUME AssignmentInv, AssignmentNext
    PROVE  AssignmentInv'
  BY PublishKeeps, CreateKeeps, BeginConnectionKeeps, LoadAssignmentKeeps, RegisterConnectionKeeps,
     LeaveRefusedKeeps, CloseConnectionKeeps, LeafKeeps, RequestKeeps, BeginApplyKeeps, BindConnectionsKeeps, BlockKeeps,
     WriteAssignmentKeeps, UpdateConnectionsKeeps, LeaveApplyKeeps, ShutdownKeeps
     DEF AssignmentNext, ConnectionStep

LEMMA AssignmentStutter ==
    ASSUME AssignmentInv, UNCHANGED assignVars
    PROVE  AssignmentInv'
<1>1. UNCHANGED <<head, durable, writer, known, shutdown, poisoned, transitioning, conn, request, leaf,
                  apply, creating, open, active, stop>>
  BY DEF assignVars, flagVars, caseVars, gateVars
<1>2. RowTypes'
  BY <1>1, RowTypesStill DEF AssignmentInv
<1>3. CaseTypes'
  BY <1>1 DEF AssignmentInv, CaseTypes
<1>4. GateInv'
  BY <1>1, GateStill DEF AssignmentInv, GateInv, GateTypes, Stopped
<1> QED
  BY <1>1, <1>2, <1>3, <1>4, BesideKeeps

-----------------------------------------------------------------------------
(* The authority                                                           *)

LEMMA AuthorityInitInv == Init => AuthorityInv
<1> SUFFICES ASSUME Init PROVE AuthorityInv
  OBVIOUS
<1>1. /\ closed = FALSE /\ drained = FALSE /\ cache = {}
      /\ \A s \in Closers : closer[s] = "idle"
  BY DEF Init
<1>2. NoFlight \in [leader : Connections \union {None}, phase : FlightPhases]
  BY DEF NoFlight, FlightPhases
<1>3. IssueTypes
  <2>1. issue \in [Connections -> IssuePhases]
    BY DEF Init, IssuePhases
  <2>2. flight \in [Keys -> [leader : Connections \union {None}, phase : FlightPhases]]
    BY <1>2 DEF Init
  <2>3. closer \in [Closers -> {"idle", "waiting", "finalizing", "returned", "gaveUp"}]
    BY DEF Init
  <2>4. closed \in BOOLEAN /\ drained \in BOOLEAN /\ cache \subseteq Keys
    BY <1>1, Zenon
  <2> QED
    BY <2>1, <2>2, <2>3, <2>4, Zenon DEF IssueTypes
<1>4. Closing
  BY <1>1 DEF Closing
<1> QED
  BY <1>3, <1>4 DEF AuthorityInv

\* Once the authority is still, no call and no flight makes it move again.
LEMMA StillStays ==
    ASSUME IssueTypes, Still, closed' = closed, cache' \subseteq cache,
           \A c \in Connections : issue'[c] \in {"begun", "missed", "waiting"} =>
                                      issue[c] \in {"begun", "missed", "waiting"},
           \A k \in Keys : flight'[k].phase \in {"generating", "generated", "adding", "ending"} =>
                               flight[k].phase \in {"generating", "generated", "adding", "ending"}
    PROVE  Still'
  BY DEF Still, NoWaiters, NoGeneration, Generating

LEMMA ClosingStays ==
    ASSUME AuthorityInv, UNCHANGED <<drained, closer>>, closed => closed', Still => Still'
    PROVE  Closing'
  BY DEF AuthorityInv, Closing

LEMMA IssueMoves ==
    ASSUME AuthorityInv, NEW c \in Connections, NEW from, NEW to \in IssuePhases, IssueStep(c, from, to)
    PROVE  /\ issue' \in [Connections -> IssuePhases] /\ issue'[c] = to /\ issue[c] = from
           /\ \A d \in Connections \ {c} : issue'[d] = issue[d]
  BY DEF AuthorityInv, IssueTypes, IssueStep

LEMMA IssueKeeps ==
    ASSUME AuthorityInv, NEW c \in Connections, Issue(c)
    PROVE  AuthorityInv'
<1>1. UNCHANGED <<flight, cache, drained, closer>>
  BY DEF Issue
<1>2. "begun" \in IssuePhases /\ "failed" \in IssuePhases
  BY DEF IssuePhases
<1>3. CASE IssueStep(c, "idle", "begun") /\ ~closed /\ ~drained /\ UNCHANGED closed
  <2>1. issue' \in [Connections -> IssuePhases]
    BY <1>2, <1>3, IssueMoves
  <2>2. IssueTypes'
    BY <1>1, <1>3, <2>1 DEF AuthorityInv, IssueTypes
  <2>3. Closing'
    BY <1>1, <1>3, ClosingStays DEF Still
  <2> QED
    BY <2>2, <2>3 DEF AuthorityInv
<1>4. CASE IssueStep(c, "idle", "failed") /\ closed' \in {closed, TRUE}
  <2>1. /\ issue' \in [Connections -> IssuePhases] /\ issue'[c] = "failed"
        /\ \A d \in Connections \ {c} : issue'[d] = issue[d]
    BY <1>2, <1>4, IssueMoves
  <2>2. closed \in BOOLEAN
    BY DEF AuthorityInv, IssueTypes
  <2>3. IssueTypes'
    BY <1>1, <1>4, <2>1, <2>2 DEF AuthorityInv, IssueTypes
  <2>4. closed => closed'
    BY <1>4
  <2>5. Still => Still'
    BY <1>1, <2>1, <2>4 DEF Still, NoWaiters, NoGeneration, Generating
  <2>6. Closing'
    BY <1>1, <2>4, <2>5, ClosingStays
  <2> QED
    BY <2>3, <2>6 DEF AuthorityInv
<1> QED
  BY <1>3, <1>4 DEF Issue

\* A waiter is one only because it was one before.
LEMMA WaiterKeeps ==
    ASSUME AuthorityInv, NEW c \in Connections,
           CacheHit(c) \/ CacheMiss(c) \/ WaiterGivesUp(c) \/ JoinFlight(c)
    PROVE  AuthorityInv'
<1>1. UNCHANGED <<cache, closed, drained, closer>>
  BY DEF CacheHit, CacheMiss, WaiterGivesUp, JoinFlight
<1>2. PICK from \in {"begun", "missed", "waiting"}, to \in {"served", "missed", "failed", "waiting"} :
          IssueStep(c, from, to)
  BY DEF CacheHit, CacheMiss, WaiterGivesUp, JoinFlight
<1>3. /\ issue' \in [Connections -> IssuePhases] /\ issue[c] = from
      /\ \A d \in Connections \ {c} : issue'[d] = issue[d]
  BY <1>2, IssueMoves DEF IssuePhases
<1>4. \/ flight' = flight
      \/ flight' = [flight EXCEPT ![KeyOf(c)] = [leader |-> c, phase |-> "starting"]]
  BY DEF CacheHit, CacheMiss, WaiterGivesUp, JoinFlight
<1>5. [leader |-> c, phase |-> "starting"] \in [leader : Connections \union {None}, phase : FlightPhases]
  BY DEF FlightPhases
<1>6. /\ flight \in [Keys -> [leader : Connections \union {None}, phase : FlightPhases]]
      /\ flight' \in [Keys -> [leader : Connections \union {None}, phase : FlightPhases]]
      /\ \A k \in Keys : flight'[k] = flight[k] \/ flight'[k].phase = "starting"
  BY <1>4, <1>5 DEF AuthorityInv, IssueTypes
<1>7. IssueTypes'
  BY <1>1, <1>3, <1>6 DEF AuthorityInv, IssueTypes
<1>8. Still => Still'
  BY <1>1, <1>2, <1>3, <1>6, StillStays DEF AuthorityInv
<1>9. Closing'
  BY <1>1, <1>8, ClosingStays
<1> QED
  BY <1>7, <1>9 DEF AuthorityInv

LEMMA DeliverTypes ==
    ASSUME AuthorityInv, NEW k \in Keys, NEW outcome \in {"served", "failed"}, Deliver(k, outcome)
    PROVE  /\ issue' \in [Connections -> IssuePhases]
           /\ flight' \in [Keys -> [leader : Connections \union {None}, phase : FlightPhases]]
           /\ \A c \in Connections : issue'[c] = issue[c] \/ issue'[c] \in {"served", "failed"}
           /\ \A j \in Keys : flight'[j] = flight[j] \/ flight'[j].phase = "none"
<1>1. NoFlight \in [leader : Connections \union {None}, phase : FlightPhases] /\ NoFlight.phase = "none"
  BY DEF NoFlight, FlightPhases
<1>2. outcome \in IssuePhases
  BY DEF IssuePhases
<1>3. /\ issue' \in [Connections -> IssuePhases]
      /\ \A c \in Connections : issue'[c] = issue[c] \/ issue'[c] \in {"served", "failed"}
  BY <1>2 DEF Deliver, AuthorityInv, IssueTypes
<1>4. /\ flight' \in [Keys -> [leader : Connections \union {None}, phase : FlightPhases]]
      /\ \A j \in Keys : flight'[j] = flight[j] \/ flight'[j].phase = "none"
  BY <1>1 DEF Deliver, AuthorityInv, IssueTypes
<1> QED
  BY <1>3, <1>4

LEMMA FlightMoves ==
    ASSUME AuthorityInv, NEW k \in Keys, NEW from, NEW to \in FlightPhases, FlightStep(k, from, to)
    PROVE  /\ flight' \in [Keys -> [leader : Connections \union {None}, phase : FlightPhases]]
           /\ flight[k].phase = from /\ flight'[k].phase = to
           /\ \A j \in Keys \ {k} : flight'[j] = flight[j]
<1> DEFINE F == [leader : Connections \union {None}, phase : FlightPhases]
<1>1. flight \in [Keys -> F] /\ flight[k] \in F
  BY DEF AuthorityInv, IssueTypes
<1>2. [flight[k] EXCEPT !.phase = to] \in F /\ [flight[k] EXCEPT !.phase = to].phase = to
  BY <1>1
<1>3. flight' = [flight EXCEPT ![k] = [flight[k] EXCEPT !.phase = to]] /\ flight[k].phase = from
  BY DEF FlightStep
<1> HIDE DEF F
<1>4. flight' \in [Keys -> F] /\ flight'[k].phase = to /\ \A j \in Keys \ {k} : flight'[j] = flight[j]
  BY <1>1, <1>2, <1>3
<1> QED
  BY <1>3, <1>4 DEF F

LEMMA FlightKeeps ==
    ASSUME AuthorityInv, NEW k \in Keys, FlightNext(k)
    PROVE  AuthorityInv'
<1> DEFINE F == [leader : Connections \union {None}, phase : FlightPhases]
           Late == {"generating", "generated", "adding", "ending"}
<1>1. UNCHANGED <<closed, drained, closer>>
  BY DEF FlightNext, FlightHits, BeginGeneration, Generate, GenerationFails, CacheDecides, CacheAdds,
     FinishGeneration
<1>2. ASSUME NEW outcome \in {"served", "failed"}, Deliver(k, outcome), UNCHANGED cache
      PROVE  AuthorityInv'
  <2>1. IssueTypes'
    BY <1>1, <1>2, DeliverTypes DEF AuthorityInv, IssueTypes
  <2>2. Still => Still'
    BY <1>1, <1>2, DeliverTypes, StillStays DEF AuthorityInv
  <2>3. Closing'
    BY <1>1, <2>2, ClosingStays
  <2> QED
    BY <2>1, <2>3 DEF AuthorityInv
<1>3. ASSUME NEW from, NEW to \in FlightPhases, FlightStep(k, from, to), UNCHANGED issue,
             cache' = cache \/ (cache' = cache \union {k} /\ from \in Late),
             from \in Late \/ ~closed
      PROVE  AuthorityInv'
  <2>1. /\ flight' \in [Keys -> F] /\ flight[k].phase = from /\ flight'[k].phase = to
        /\ \A j \in Keys \ {k} : flight'[j] = flight[j]
    BY <1>3, FlightMoves
  <2>2. IssueTypes'
    BY <1>1, <1>3, <2>1 DEF AuthorityInv, IssueTypes
  <2>3. Still => FALSE
    BY <1>3, <2>1 DEF Still, NoGeneration, Generating
  <2>4. Closing'
    BY <1>1, <2>3, ClosingStays
  <2> QED
    BY <2>2, <2>4 DEF AuthorityInv
<1>4. {"generating", "generated", "adding", "ending"} \subseteq FlightPhases
  BY DEF FlightPhases
<1>5. CASE FlightHits(k) \/ GenerationFails(k) \/ FinishGeneration(k)
  BY <1>2, <1>5 DEF FlightHits, GenerationFails, FinishGeneration
<1>6. CASE BeginGeneration(k)
  <2>1. CASE MayGenerate /\ FlightStep(k, "starting", "generating") /\ UNCHANGED issue
    BY <1>3, <1>4, <1>6, <2>1 DEF BeginGeneration, MayGenerate
  <2>2. CASE Deliver(k, "failed")
    BY <1>2, <1>6, <2>2 DEF BeginGeneration
  <2> QED
    BY <1>6, <2>1, <2>2 DEF BeginGeneration
<1>7. CASE Generate(k)
  BY <1>3, <1>4, <1>7 DEF Generate
<1>8. CASE CacheDecides(k)
  <2>1. PICK to \in {"adding", "ending"} : FlightStep(k, "generated", to)
    BY <1>8 DEF CacheDecides
  <2>2. UNCHANGED <<issue, cache>>
    BY <1>8 DEF CacheDecides
  <2> QED
    BY <1>3, <1>4, <2>1, <2>2
<1>9. CASE CacheAdds(k)
  BY <1>3, <1>4, <1>9 DEF CacheAdds
<1> QED
  BY <1>5, <1>6, <1>7, <1>8, <1>9 DEF FlightNext

LEMMA EvictKeeps ==
    ASSUME AuthorityInv, Evict
    PROVE  AuthorityInv'
<1>1. UNCHANGED <<issue, flight, closed, drained, closer>> /\ cache' \subseteq cache
  BY DEF Evict
<1>2. IssueTypes'
  BY <1>1 DEF AuthorityInv, IssueTypes
<1>3. Still => Still'
  BY <1>1, StillStays DEF AuthorityInv
<1>4. Closing'
  BY <1>1, <1>3, ClosingStays
<1> QED
  BY <1>2, <1>4 DEF AuthorityInv

LEMMA CloserKeeps ==
    ASSUME AuthorityInv, NEW s \in Closers,
           CloseAuthority(s) \/ BeginFinalizing(s) \/ EndFinalizing(s) \/ CloserReturns(s)
    PROVE  AuthorityInv'
<1>1. UNCHANGED <<issue, flight>>
  BY DEF CloseAuthority, BeginFinalizing, EndFinalizing, CloserReturns
<1>2. /\ closer \in [Closers -> {"idle", "waiting", "finalizing", "returned", "gaveUp"}]
      /\ closed \in BOOLEAN /\ drained \in BOOLEAN /\ cache \subseteq Keys /\ Closing
  BY DEF AuthorityInv, IssueTypes
<1>3. PICK to \in {"waiting", "finalizing", "returned", "gaveUp"} : closer' = [closer EXCEPT ![s] = to]
  BY DEF CloseAuthority, BeginFinalizing, EndFinalizing, CloserReturns
<1>4. /\ closer' \in [Closers -> {"idle", "waiting", "finalizing", "returned", "gaveUp"}]
      /\ closer'[s] = to /\ \A q \in Closers \ {s} : closer'[q] = closer[q]
  BY <1>2, <1>3
<1>5. CASE CloseAuthority(s)
  <2>1. /\ closed' = TRUE /\ UNCHANGED <<cache, drained>>
        /\ closer'[s] = IF drained THEN "returned" ELSE "waiting"
    BY <1>2, <1>5 DEF CloseAuthority
  <2>2. IssueTypes'
    BY <1>1, <1>2, <1>4, <2>1 DEF AuthorityInv, IssueTypes
  <2>3. Still => Still'
    BY <1>1, <2>1 DEF Still, NoWaiters, NoGeneration, Generating
  <2>4. Closing'
    BY <1>2, <1>4, <2>1, <2>3 DEF Closing
  <2> QED
    BY <2>2, <2>4 DEF AuthorityInv
<1>6. CASE BeginFinalizing(s)
  <2>1. /\ UNCHANGED <<closed, drained>> /\ cache' = {} /\ closer[s] = "waiting" /\ Quiet
        /\ closer'[s] = "finalizing"
    BY <1>2, <1>6 DEF BeginFinalizing
  <2>2. IssueTypes'
    BY <1>1, <1>2, <1>4, <2>1 DEF AuthorityInv, IssueTypes
  <2>3. Still'
    BY <1>1, <1>2, <2>1 DEF Still, Closing, Quiet, NoWaiters, NoGeneration, Generating
  <2>4. Closing'
    BY <1>2, <1>4, <2>1, <2>3 DEF Closing
  <2> QED
    BY <2>2, <2>4 DEF AuthorityInv
<1>7. CASE EndFinalizing(s)
  <2>1. /\ UNCHANGED <<closed, cache>> /\ drained' = TRUE /\ closer[s] = "finalizing"
        /\ closer'[s] = "returned"
    BY <1>2, <1>7 DEF EndFinalizing
  <2>2. IssueTypes'
    BY <1>1, <1>2, <1>4, <2>1 DEF AuthorityInv, IssueTypes
  <2>3. Still /\ (Still => Still')
    BY <1>1, <1>2, <2>1 DEF Closing, Still, NoWaiters, NoGeneration, Generating
  <2>4. Closing'
    BY <1>2, <1>4, <2>1, <2>3 DEF Closing
  <2> QED
    BY <2>2, <2>4 DEF AuthorityInv
<1>8. CASE CloserReturns(s)
  <2>1. /\ UNCHANGED <<closed, cache, drained>> /\ closer[s] = "waiting"
        /\ closer'[s] = IF drained THEN "returned" ELSE "gaveUp"
    BY <1>2, <1>8 DEF CloserReturns
  <2>2. IssueTypes'
    BY <1>1, <1>2, <1>4, <2>1 DEF AuthorityInv, IssueTypes
  <2>3. Still => Still'
    BY <1>1, <2>1 DEF Still, NoWaiters, NoGeneration, Generating
  <2>4. Closing'
    BY <1>2, <1>4, <2>1, <2>3 DEF Closing
  <2> QED
    BY <2>2, <2>4 DEF AuthorityInv
<1> QED
  BY <1>5, <1>6, <1>7, <1>8

LEMMA AuthorityStutter ==
    ASSUME AuthorityInv, UNCHANGED caVars
    PROVE  AuthorityInv'
  BY DEF AuthorityInv, IssueTypes, Closing, Still, NoWaiters, NoGeneration, Generating, caVars

LEMMA CANextInv ==
    ASSUME AuthorityInv, CANext
    PROVE  AuthorityInv' /\ UNCHANGED assignVars
<1>1. UNCHANGED assignVars
  BY Zenon DEF CANext, Issue, CacheHit, CacheMiss, JoinFlight, WaiterGivesUp, FlightNext, FlightHits,
     BeginGeneration, Generate, GenerationFails, CacheDecides, CacheAdds, FinishGeneration, Evict,
     CloseAuthority, BeginFinalizing, EndFinalizing, CloserReturns
<1> QED
  BY <1>1, IssueKeeps, WaiterKeeps, FlightKeeps, EvictKeeps, CloserKeeps DEF CANext

-----------------------------------------------------------------------------
(* Who is admitted                                                         *)

RequestAction(q) == BeginRequest(q) \/ AdmitRequest(q) \/ ResolvePlan(q) \/ Release(q)

LeafAction(c) == BeginLeaf(c) \/ ReadConnection(c) \/ AdmitLeaf(c)

LEMMA OthersLeaveRequests ==
    ASSUME AssignmentNext
    PROVE  request' = request \/ \E q \in Requests : RequestAction(q)
<1>1. CASE Publish \/ BeginCreate \/ Create
  BY <1>1 DEF Publish, BeginCreate, Create, caseVars
<1>2. CASE \E c \in Connections : ConnectionStep(c)
  BY <1>2 DEF ConnectionStep, BeginConnection, LoadAssignment, RegisterConnection, LeaveRefused,
     CloseConnection, BeginLeaf, ReadConnection, AdmitLeaf
<1>3. CASE \E x \in Applies : \/ BeginApply(x) \/ BindConnections(x) \/ Block(x) \/ Revoke(x)
                              \/ WriteAssignment(x) \/ UpdateConnections(x) \/ LeaveApply(x)
  BY <1>3 DEF BeginApply, BindConnections, Block, Revoke, WriteAssignment, UpdateConnections, LeaveApply
<1>4. CASE CloseAdmission \/ MarkShutdown \/ ShutdownRevokes \/ DrainReturns
  BY <1>4 DEF CloseAdmission, MarkShutdown, ShutdownRevokes, DrainReturns, caseVars
<1> QED
  BY <1>1, <1>2, <1>3, <1>4, Zenon DEF AssignmentNext, RequestAction

LEMMA OthersLeaveLeaves ==
    ASSUME AssignmentNext
    PROVE  leaf' = leaf \/ \E d \in Connections : LeafAction(d)
<1>1. CASE Publish \/ BeginCreate \/ Create
  BY <1>1 DEF Publish, BeginCreate, Create, caseVars
<1>2. CASE \E c \in Connections : ConnectionStep(c)
  <2>1. PICK c \in Connections : ConnectionStep(c)
    BY <1>2
  <2>2. \/ LeafAction(c)
        \/ BeginConnection(c) \/ LoadAssignment(c) \/ RegisterConnection(c) \/ LeaveRefused(c)
        \/ CloseConnection(c)
    BY <2>1, Zenon DEF ConnectionStep, LeafAction
  <2>3. LeafAction(c) \/ leaf' = leaf
    BY <2>2 DEF BeginConnection, LoadAssignment, RegisterConnection, LeaveRefused, CloseConnection
  <2> QED
    BY <2>3
<1>3. CASE \E r \in Requests : BeginRequest(r) \/ AdmitRequest(r) \/ ResolvePlan(r) \/ Release(r)
  BY <1>3 DEF BeginRequest, AdmitRequest, ResolvePlan, Release
<1>4. CASE \E x \in Applies : \/ BeginApply(x) \/ BindConnections(x) \/ Block(x) \/ Revoke(x)
                              \/ WriteAssignment(x) \/ UpdateConnections(x) \/ LeaveApply(x)
  BY <1>4 DEF BeginApply, BindConnections, Block, Revoke, WriteAssignment, UpdateConnections, LeaveApply
<1>5. CASE CloseAdmission \/ MarkShutdown \/ ShutdownRevokes \/ DrainReturns
  BY <1>5 DEF CloseAdmission, MarkShutdown, ShutdownRevokes, DrainReturns, caseVars
<1> QED
  BY <1>1, <1>2, <1>3, <1>4, <1>5, Zenon DEF AssignmentNext

\* Only a request that is not blocked, over an open connection, is admitted, and
\* under that connection's record.
LEMMA AdmittedRequest ==
    ASSUME AssignmentInv, NEW r \in Requests, NEW q \in Requests, RequestAction(q), NewRequest(r)
    PROVE  /\ ~Blocked /\ conn[ConnectionOf[r]].phase = "open"
           /\ request'[r].a = conn[ConnectionOf[r]].a
<1>1. request \in [Requests -> Cases(RequestPhases)] /\ request[q] \in Cases(RequestPhases)
  BY DEF AssignmentInv, CaseTypes
<1>2. request[r].phase = "begun" /\ request'[r].phase = "admitted"
  BY DEF NewRequest
<1>3. ASSUME NEW from, NEW to, to # "admitted", RequestStep(q, from, to)
      PROVE  FALSE
  <2>1. request' = [request EXCEPT ![q] = [request[q] EXCEPT !.phase = to]]
    BY <1>3 DEF RequestStep
  <2>2. [request[q] EXCEPT !.phase = to].phase = to
    BY <1>1 DEF Cases
  <2> QED
    BY <1>1, <1>2, <1>3, <2>1, <2>2
<1>4. CASE BeginRequest(q)
  BY <1>3, <1>4 DEF BeginRequest
<1>5. CASE ResolvePlan(q)
  BY <1>3, <1>5 DEF ResolvePlan
<1>6. CASE Release(q)
  BY <1>3, <1>6 DEF Release
<1>7. CASE AdmitRequest(q)
  <2>1. /\ ~Blocked /\ conn[ConnectionOf[q]].phase = "open"
        /\ request' = [request EXCEPT ![q] = [phase |-> "admitted", a |-> conn[ConnectionOf[q]].a]]
    BY <1>3, <1>7 DEF AdmitRequest
  <2>2. q = r
    BY <1>1, <1>2, <2>1
  <2> QED
    BY <1>1, <2>1, <2>2
<1> QED
  BY <1>4, <1>5, <1>6, <1>7 DEF RequestAction

LEMMA AdmittedLeaf ==
    ASSUME AssignmentInv, NEW c \in Connections, NEW d \in Connections, LeafAction(d), NewLeaf(c)
    PROVE  ~Blocked /\ conn[c].phase = "open" /\ leaf'[c].a = conn[c].a
<1>1. leaf \in [Connections -> Cases(LeafPhases)] /\ leaf[d] \in Cases(LeafPhases)
  BY DEF AssignmentInv, CaseTypes
<1>2. leaf[c].phase = "read" /\ leaf'[c].phase = "admitted"
  BY DEF NewLeaf
<1>3. ASSUME NEW from, NEW to, LeafStep(d, from, to)
      PROVE  to = "admitted" /\ c = d /\ leaf'[c].a = leaf[c].a
  <2>1. leaf' = [leaf EXCEPT ![d] = [leaf[d] EXCEPT !.phase = to]]
    BY <1>3 DEF LeafStep
  <2>2. /\ [leaf[d] EXCEPT !.phase = to].phase = to
        /\ [leaf[d] EXCEPT !.phase = to].a = leaf[d].a
    BY <1>1 DEF Cases
  <2> QED
    BY <1>1, <1>2, <2>1, <2>2
<1>4. CASE BeginLeaf(d)
  BY <1>3, <1>4 DEF BeginLeaf
<1>5. CASE ReadConnection(d)
  <2>1. \/ LeafStep(d, "begun", "refused")
        \/ leaf' = [leaf EXCEPT ![d] = [phase |-> "read", a |-> conn[d].a]]
    BY <1>5 DEF ReadConnection
  <2> QED
    BY <1>1, <1>2, <1>3, <2>1
<1>6. CASE AdmitLeaf(d)
  BY <1>3, <1>6 DEF AdmitLeaf, Unchanged
<1> QED
  BY <1>4, <1>5, <1>6 DEF LeafAction

-----------------------------------------------------------------------------
(* Theorems                                                                *)

LEMMA NextInv ==
    ASSUME AssignmentInv, AuthorityInv, [Next]_vars
    PROVE  AssignmentInv' /\ AuthorityInv'
<1>1. CASE AssignmentNext /\ UNCHANGED caVars
  BY <1>1, AssignmentNextInv, AuthorityStutter
<1>2. CASE CANext
  BY <1>2, CANextInv, AssignmentStutter
<1>3. CASE UNCHANGED vars
  BY <1>3, AssignmentStutter, AuthorityStutter DEF vars
<1> QED
  BY <1>1, <1>2, <1>3 DEF Next

\* Every state of the assignment and of the authority satisfies its invariant.
THEOREM LeafIssuanceInvariant == Spec => [](AssignmentInv /\ AuthorityInv)
<1>1. Init => AssignmentInv /\ AuthorityInv
  BY AssignmentInitInv, AuthorityInitInv DEF Init
<1>2. (AssignmentInv /\ AuthorityInv) /\ [Next]_vars => (AssignmentInv /\ AuthorityInv)'
  BY NextInv
<1> QED
  BY <1>1, <1>2, PTL DEF Spec

\* While requests can be admitted every open connection's record is the durable row,
\* and one the connection can be served under, however many calls of ApplyLatest run
\* into how many connections, and whatever their writes turn out to be.
THEOREM AssignmentAgrees == Spec => []OneAssignment
<1>1. AssignmentInv => OneAssignment
  <2> SUFFICES ASSUME AssignmentInv PROVE OneAssignment
    OBVIOUS
  <2>1. {known, shutdown, poisoned, transitioning, open, creating} \subseteq BOOLEAN
    BY Zenon DEF AssignmentInv, RowTypes, GateTypes
  <2>2. active \in Nat
    BY ActiveCounted DEF AssignmentInv, GateTypes
  <2>3. TypeOK
    BY <2>1, <2>2, Zenon DEF AssignmentInv, RowTypes, CaseTypes, GateTypes, TypeOK, Cases, ApplyRecords,
       StopPhases
  <2>4. ASSUME ~transitioning, ~poisoned, NEW c \in OpenConnections
        PROVE  conn[c].a = durable /\ c \in Serves[durable.env]
    <3>1. \A x \in Applies : apply[x].phase # "written"
      BY <2>4 DEF AssignmentInv, Transition, Blocking
    <3> QED
      BY <2>4, <3>1 DEF AssignmentInv, Settled, OpenConnections
  <2> QED
    BY <2>3, <2>4 DEF OneAssignment
<1> QED
  BY <1>1, LeafIssuanceInvariant, PTL

\* The lifecycle counts whoever is inside exactly once; a Drain that has returned leaves
\* no transition behind, and the writer lock with nobody but a registration that was
\* refused and has only to give it back.
THEOREM AssignmentDrains == Spec => []DrainedIsQuiet
<1>1. AssignmentInv => DrainedIsQuiet
  <2> SUFFICES ASSUME AssignmentInv PROVE DrainedIsQuiet
    OBVIOUS
  <2>1. active = Inside
    BY DEF AssignmentInv, Counted
  <2>2. ASSUME stop = "drained"
        PROVE  /\ ~transitioning
               /\ writer # None => writer \in Connections /\ conn[writer].phase = "leaving"
    <3>1. CountsTo(0, conn, request, leaf, apply, creating)
      BY <2>1, <2>2 DEF AssignmentInv, Stopped, CountsTo, Inside, ConnInside, RequestInside, LeafInside,
         ApplyInside
    <3>2. /\ Cardinality(Held(conn, ConnInside)) \in Nat /\ Cardinality(Held(request, RequestInside)) \in Nat
          /\ Cardinality(Held(leaf, LeafInside)) \in Nat /\ Cardinality(Held(apply, ApplyInside)) \in Nat
      BY FS_CardinalityType DEF AssignmentInv, Counted
    <3>3. Cardinality(Held(conn, ConnInside)) = 0 /\ Cardinality(Held(apply, ApplyInside)) = 0
      BY <3>1, <3>2 DEF CountsTo
    <3>4. Held(conn, ConnInside) = {} /\ Held(apply, ApplyInside) = {}
      BY <3>3, FS_EmptySet DEF AssignmentInv, Counted
    <3>5. /\ \A c \in Connections : conn[c].phase # "loaded"
          /\ \A x \in Applies : apply[x].phase \notin Holding
      BY <3>4, ApplyPhaseFacts DEF AssignmentInv, CaseTypes, Held, ConnInside
    <3> QED
      BY <3>5, ApplyPhaseFacts DEF AssignmentInv, Writers, Transition, Registering
  <2> QED
    BY <2>1, <2>2 DEF DrainedIsQuiet
<1> QED
  BY <1>1, LeafIssuanceInvariant, PTL

\* A request and a leaf are admitted under the row of that moment, although a leaf is
\* validated outside the lock, and no request once native work was revoked.
THEOREM AdmissionsAreCurrent == Spec => AdmittedAreCurrent
<1> DEFINE Current == /\ \A r \in Requests :
                             NewRequest(r) => /\ request'[r].a = durable
                                              /\ \A x \in Applies : apply[x].phase # "revoked"
                      /\ \A c \in Connections : NewLeaf(c) => leaf'[c].a = durable
<1>1. ASSUME AssignmentInv, AuthorityInv, [Next]_vars PROVE [Current]_assignVars
  <2>1. CASE UNCHANGED assignVars
    BY <2>1
  <2>2. CASE AssignmentNext
    <3>1. ASSUME ~Blocked, NEW c \in Connections, conn[c].phase = "open"
          PROVE  conn[c].a = durable /\ \A x \in Applies : apply[x].phase # "revoked"
      <4>1. \A x \in Applies : apply[x].phase \notin Blocking
        BY <1>1, <3>1 DEF AssignmentInv, Transition, Blocked
      <4>2. \A x \in Applies : apply[x].phase # "written" /\ apply[x].phase # "revoked"
        BY <4>1 DEF Blocking
      <4> QED
        BY <1>1, <3>1, <4>2 DEF AssignmentInv, Settled, Blocked
    <3>2. ASSUME NEW r \in Requests, NewRequest(r)
          PROVE  request'[r].a = durable /\ \A x \in Applies : apply[x].phase # "revoked"
      <4>1. PICK q \in Requests : RequestAction(q)
        BY <2>2, <3>2, OthersLeaveRequests DEF NewRequest
      <4>2. /\ ~Blocked /\ conn[ConnectionOf[r]].phase = "open"
            /\ request'[r].a = conn[ConnectionOf[r]].a
        BY <1>1, <3>2, <4>1, AdmittedRequest
      <4>3. ConnectionOf[r] \in Connections
        BY AssignmentAssumption
      <4> QED
        BY <3>1, <4>2, <4>3
    <3>3. ASSUME NEW c \in Connections, NewLeaf(c) PROVE leaf'[c].a = durable
      <4>1. PICK d \in Connections : LeafAction(d)
        BY <2>2, <3>3, OthersLeaveLeaves DEF NewLeaf
      <4> QED
        BY <1>1, <3>1, <3>3, <4>1, AdmittedLeaf
    <3> QED
      BY <3>2, <3>3
  <2> QED
    BY <1>1, <2>1, <2>2, CANextInv DEF Next, vars
<1>2. (AssignmentInv /\ AuthorityInv) /\ [Next]_vars =>
        [/\ \A r \in Requests :
               NewRequest(r) => request'[r].a = durable /\ \A x \in Applies : apply[x].phase # "revoked"
         /\ \A c \in Connections : NewLeaf(c) => leaf'[c].a = durable]_assignVars
  BY <1>1, Zenon
<1> QED
  BY <1>2, LeafIssuanceInvariant, PTL DEF Spec, AdmittedAreCurrent

\* Once a Shutdown of the authority has returned no caller is inside, nothing is being
\* generated and no leaf is cached, for any number of calls of Shutdown.
THEOREM AuthorityIsGone == Spec => []AuthorityGone
<1>1. AuthorityInv => AuthorityGone
  <2> SUFFICES ASSUME AuthorityInv PROVE AuthorityGone
    OBVIOUS
  <2>1. {closed, drained} \subseteq BOOLEAN
    BY Zenon DEF AuthorityInv, IssueTypes
  <2>2. TypeOKCA
    BY <2>1, Zenon DEF AuthorityInv, IssueTypes, TypeOKCA
  <2> QED
    BY <2>2 DEF AuthorityInv, Closing, Still, AuthorityGone
<1> QED
  BY <1>1, LeafIssuanceInvariant, PTL
=============================================================================
