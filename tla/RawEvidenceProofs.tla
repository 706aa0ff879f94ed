-------------------------- MODULE RawEvidenceProofs --------------------------
(***************************************************************************)
(* Proofs about RawEvidence for any requests, scopes, terminal calls,      *)
(* sizes and limits. Whatever the worker owns stands in one line: the      *)
(* batch, the record that did not fit, the channel, numbered without a gap *)
(* from the settled sequence on. The watermarks, the flushes and what they *)
(* promise to a terminal call and to the owner of the storage follow from  *)
(* that line. The sums of the budget are counted as cells, so that adding  *)
(* and removing observations needs no induction.                           *)
(***************************************************************************)
EXTENDS RawEvidence, FiniteSetTheorems, TLAPS

Before == {"idle", "running", "reserved", "capturing", "offering"}

WorkerRecords ==
    [at : {"select", "drain", "carrying", "appending", "settling", "releasing", "exiting", "exited"},
     why : {"none", "full", "overflow", "timer", "flush", "exit"},
     flusher : Callers \union {None}, carry : Requests \union {None},
     outcome : Outcomes, failed : BOOLEAN]

Admitted == {r \in Requests : sequence[r] > 0}
Carried  == IF worker.carry = None THEN 0 ELSE 1

Types ==
    /\ TypeOK
    /\ queue \in Seq(Requests) /\ batch \in Seq(Requests)
    /\ worker \in WorkerRecords
    /\ settled \in Nat /\ durable \in Nat
    /\ shutdown \in {"idle", "sealing", "sealed", "canceled", "joined"}
    /\ maintenance \in {"idle", "paused", "flushing", "exclusive", "over", "stopped"}

\* What the worker does in each of its places.
Places ==
    /\ worker.at \in {"appending", "settling", "releasing"} => batch # <<>>
    /\ worker.at \in {"carrying", "exiting", "exited"} => batch = <<>>
    /\ worker.at = "carrying" => worker.carry # None
    /\ worker.carry # None =>
           \/ worker.at = "carrying"
           \/ worker.at \in {"appending", "settling", "releasing"} /\ worker.why = "overflow"
    /\ worker.at \in {"appending", "settling", "releasing"} /\ worker.why = "overflow" => worker.carry # None
    /\ worker.at = "drain" => worker.flusher # None
    /\ worker.at \in {"select", "exiting", "exited"} => worker.flusher = None
    /\ worker.at \in {"settling", "releasing"} /\ worker.why = "exit" => worker.flusher = None
    /\ worker.at \in {"appending", "settling", "releasing"} /\ worker.why = "flush" => worker.flusher # None
    /\ worker.at \in {"settling", "releasing"} /\ worker.why = "exit" => Canceled
    /\ worker.at \in {"exiting", "exited"} => Canceled
    /\ worker.at = "exited" => queue = <<>>
    /\ worker.at = "appending" => worker.why # "exit"

\* The line: its members, their numbers, and that nobody else is queued.
Line ==
    /\ \A i \in 1..Len(batch) : phase[batch[i]] = "queued" /\ sequence[batch[i]] = settled + i
    /\ worker.carry # None =>
           phase[worker.carry] = "queued" /\ sequence[worker.carry] = settled + Len(batch) + 1
    /\ \A i \in 1..Len(queue) :
           phase[queue[i]] = "queued" /\ sequence[queue[i]] = settled + Len(batch) + Carried + i
    /\ Cardinality(Admitted) = settled + Len(batch) + Carried + Len(queue)
    /\ \A r \in Requests :
           /\ sequence[r] = 0 => phase[r] \in Before \union {"dropped"}
           /\ sequence[r] > 0 => phase[r] = "queued" \/ (phase[r] \in Outcomes /\ sequence[r] <= settled)
           /\ phase[r] = "queued" =>
                  \/ \E i \in 1..Len(batch) : batch[i] = r
                  \/ worker.carry = r
                  \/ \E i \in 1..Len(queue) : queue[i] = r

\* Everything up to the durable watermark is persisted.
Durables ==
    /\ durable <= settled \/ ( /\ worker.at = "releasing" /\ worker.outcome = "persisted"
                               /\ durable = settled + Len(batch) )
    /\ \A r \in Requests : sequence[r] > 0 /\ sequence[r] <= durable /\ sequence[r] <= settled =>
           phase[r] = "persisted"

\* A scope knows how many leases are out, and who prepares it.
Holders(s) == {r \in Requests : ScopeOf[r] = s /\ lease[r] = "held"}
ScopesTrue ==
    /\ \A s \in Scopes : scope[s].active = Cardinality(Holders(s))
    /\ \A r \in Requests :
           /\ phase[r] = "idle" => lease[r] = "none"
           /\ lease[r] = "released" => phase[r] \notin Before
    /\ \A s \in Scopes : scope[s].phase = "preparing" => \E t \in Terminals : Owners(s) = {t}
    /\ \A s \in Scopes : scope[s].phase # "preparing" => Owners(s) = {}
    /\ \A t \in Terminals : terminal[t] = "committed" => scope[TerminalOf[t]].phase = "sealed"
    /\ \A t \in Terminals : terminal[t] \in {"drained", "flushing", "holding", "committed"} =>
           Holders(TerminalOf[t]) = {}

Woken ==
    \A t \in Terminals :
        /\ terminal[t] = "draining" /\ scope[TerminalOf[t]].active = 0 => t \in signaled
        /\ terminal[t] = "queued" /\ t \notin signaled =>
               scopeAccepting /\ scope[TerminalOf[t]].phase = "preparing"

\* What a flush that has returned, or a scope without a watermark, says.
Flushes ==
    /\ \A c \in Callers : flush[c].at = "ok" => settled >= flush[c].target
    /\ \A c \in Callers : flush[c].at = "asked" => worker.flusher = c
    /\ \A r \in Requests : InFlight(r) => sequence[r] <= scopeLatest[ScopeOf[r]]
    /\ \A t \in Terminals : t \in Flushing => \A r \in Requests :
           ScopeOf[r] = TerminalOf[t] /\ lease[r] = "released" /\ InFlight(r) =>
               /\ terminal[t] \notin {"holding", "committed"}
               /\ terminal[t] = "flushing" => sequence[r] <= flush[t].target

\* The owner of the storage.
Storage ==
    /\ maintenance # "idle" \/ shutdown # "idle" => ~accepting
    /\ maintenance \in {"paused", "flushing", "exclusive", "over"} => shutdown = "idle"
    /\ maintenance \in {"flushing", "exclusive"} => flush[Owner].target = Cardinality(Admitted)
    /\ maintenance = "exclusive" => flush[Owner].at = "ok"
    /\ shutdown = "joined" => worker.at = "exited"

IndInv == Types /\ Places /\ Line /\ Durables /\ ScopesTrue /\ Woken /\ Flushes /\ Storage

-----------------------------------------------------------------------------
(* Sequences, sets and parts of the state                                  *)

LEMMA Appended ==
    ASSUME NEW S, NEW s \in Seq(S), NEW x \in S
    PROVE  /\ Append(s, x) \in Seq(S) /\ Len(Append(s, x)) = Len(s) + 1 /\ Append(s, x) # <<>>
           /\ \A i \in 1..Len(s) : Append(s, x)[i] = s[i]
           /\ Append(s, x)[Len(s) + 1] = x
  OBVIOUS

LEMMA Shortened ==
    ASSUME NEW S, NEW s \in Seq(S), s # <<>>
    PROVE  /\ Tail(s) \in Seq(S) /\ Len(Tail(s)) = Len(s) - 1 /\ Len(s) >= 1
           /\ \A i \in 1..(Len(s) - 1) : Tail(s)[i] = s[i + 1]
           /\ Head(s) = s[1] /\ Head(s) \in S
  OBVIOUS

LEMMA RangeIs ==
    ASSUME NEW S, NEW s \in Seq(S)
    PROVE  /\ \A x : x \in Range(s) <=> \E i \in 1..Len(s) : s[i] = x
           /\ Range(s) \subseteq S
  BY DEF Range

LEMMA LengthIs ==
    ASSUME NEW S, NEW s \in Seq(S)
    PROVE  /\ Len(s) \in Nat /\ (s = <<>> <=> Len(s) = 0)
           /\ \A i \in 1..Len(s) : s[i] \in S
  OBVIOUS

LEMMA MaxIs ==
    ASSUME NEW a \in Int, NEW b \in Int, a <= b
    PROVE  Max({a, b}) = b
  BY DEF Max

LEMMA Constants ==
    /\ IsFiniteSet(Requests) /\ Owner \notin Terminals /\ Flushing \subseteq Terminals
    /\ Growth \in Nat /\ Scratch \in Nat /\ QueueLimit \in Nat
    /\ \A r \in Requests : Charge[r] \in Nat
    /\ None \notin Requests /\ None \notin Callers /\ Owner \in Callers /\ Terminals \subseteq Callers
    /\ \A r \in Requests : ScopeOf[r] \in Scopes
    /\ \A t \in Terminals : TerminalOf[t] \in Scopes
  BY RawEvidenceAssumption DEF Callers, Scopes

LEMMA TypeParts ==
    ASSUME Types
    PROVE  /\ lease \in [Requests -> {"none", "held", "refused", "released"}]
           /\ phase \in [Requests -> Phases]
           /\ weight \in [Requests -> Nat] /\ charge \in [Requests -> Nat]
           /\ stale \subseteq Requests /\ accepting \in BOOLEAN /\ scopeAccepting \in BOOLEAN
           /\ sequence \in [Requests -> 0..Cardinality(Requests)]
           /\ scopeLatest \in [Scopes -> 0..Cardinality(Requests)]
           /\ queue \in Seq(Requests) /\ batch \in Seq(Requests) /\ Len(queue) <= QueueLimit
           /\ scope \in [Scopes -> [active : Nat, phase : {"open", "preparing", "sealed"}]]
           /\ terminal \in [Terminals -> TerminalPhases] /\ signaled \subseteq Waiting
           /\ flush \in [Callers -> [at : {"idle", "asking", "asked", "ok", "error"}, target : Nat]]
           /\ worker \in WorkerRecords
           /\ settled \in Nat /\ durable \in Nat
           /\ shutdown \in {"idle", "sealing", "sealed", "canceled", "joined"}
           /\ maintenance \in {"idle", "paused", "flushing", "exclusive", "over", "stopped"}
<1>1. {accepting, scopeAccepting} \subseteq BOOLEAN => accepting \in BOOLEAN /\ scopeAccepting \in BOOLEAN
  BY Zenon
<1> QED
  BY <1>1, Zenon DEF Types, TypeOK

LEMMA TypesTogether ==
    ASSUME lease' \in [Requests -> {"none", "held", "refused", "released"}],
           phase' \in [Requests -> Phases],
           weight' \in [Requests -> Nat], charge' \in [Requests -> Nat],
           stale' \subseteq Requests, accepting' \in BOOLEAN, scopeAccepting' \in BOOLEAN,
           sequence' \in [Requests -> 0..Cardinality(Requests)],
           scopeLatest' \in [Scopes -> 0..Cardinality(Requests)],
           queue' \in Seq(Requests), batch' \in Seq(Requests), Len(queue') <= QueueLimit,
           scope' \in [Scopes -> [active : Nat, phase : {"open", "preparing", "sealed"}]],
           terminal' \in [Terminals -> TerminalPhases], signaled' \subseteq Waiting',
           flush' \in [Callers -> [at : {"idle", "asking", "asked", "ok", "error"}, target : Nat]],
           worker' \in WorkerRecords, settled' \in Nat, durable' \in Nat,
           shutdown' \in {"idle", "sealing", "sealed", "canceled", "joined"},
           maintenance' \in {"idle", "paused", "flushing", "exclusive", "over", "stopped"}
    PROVE  Types'
<1>1. Range(queue') \union Range(batch') \subseteq Requests
  BY RangeIs
<1>2. {accepting', scopeAccepting'} \subseteq BOOLEAN
  BY Zenon
<1> QED
  BY <1>1, <1>2, Zenon DEF Types, TypeOK

\* Of the requests that have a number.
LEMMA AdmittedIsFinite ==
    ASSUME Types
    PROVE  /\ IsFiniteSet(Admitted) /\ Cardinality(Admitted) \in Nat
           /\ Cardinality(Admitted) <= Cardinality(Requests) /\ Cardinality(Requests) \in Nat
           /\ Next1 = Cardinality(Admitted) + 1
<1>1. Admitted \in SUBSET Requests
  BY DEF Admitted
<1>2. IsFiniteSet(Requests)
  BY Constants
<1>3. IsFiniteSet(Admitted) /\ Cardinality(Admitted) <= Cardinality(Requests)
  BY <1>1, <1>2, FS_Subset
<1>4. Cardinality(Admitted) \in Nat /\ Cardinality(Requests) \in Nat
  BY <1>2, <1>3, FS_CardinalityType
<1>5. Next1 = Cardinality(Admitted) + 1
  BY DEF Next1, Admitted
<1> QED
  BY <1>3, <1>4, <1>5

LEMMA HoldersAreFinite ==
    ASSUME NEW s
    PROVE  IsFiniteSet(Holders(s)) /\ Cardinality(Holders(s)) \in Nat
<1>1. Holders(s) \in SUBSET Requests
  BY DEF Holders
<1> QED
  BY <1>1, Constants, FS_Subset, FS_CardinalityType

\* Waiting, the line and the flights of the next state.
LEMMA FlightIs ==
    ASSUME Types, NEW r \in Requests
    PROVE  InFlight(r) <=> /\ phase[r] = "queued"
                           /\ worker.at \in {"settling", "releasing"} => \A i \in 1..Len(batch) : batch[i] # r
<1>1. batch \in Seq(Requests)
  BY Zenon DEF Types
<1> QED
  BY <1>1, RangeIs DEF InFlight

LEMMA FlightWillBe ==
    ASSUME Types', NEW r \in Requests
    PROVE  InFlight(r)' <=> /\ phase'[r] = "queued"
                            /\ worker'.at \in {"settling", "releasing"} => \A i \in 1..Len(batch') : batch'[i] # r
<1>1. batch' \in Seq(Requests)
  BY Zenon DEF Types
<1> QED
  BY <1>1, RangeIs DEF InFlight

-----------------------------------------------------------------------------
(* What a step leaves alone                                                *)

LEMMA PlacesStay ==
    ASSUME Places, UNCHANGED <<worker, batch>>, worker.at = "exited" => queue' = queue, Canceled => Canceled'
    PROVE  Places'
  BY DEF Places

LEMMA LineStays ==
    ASSUME Types, Line, UNCHANGED <<queue, batch, worker, settled, sequence>>,
           \A r \in Requests : phase'[r] = phase[r]
                               \/ (phase[r] \in Before /\ phase'[r] \in Before \union {"dropped"})
    PROVE  Line'
<1>1. \A r \in Requests : phase[r] \in Before =>
          /\ sequence[r] = 0 /\ worker.carry # r
          /\ \A i \in 1..Len(batch) : batch[i] # r
          /\ \A i \in 1..Len(queue) : queue[i] # r
  <2>1. \A r \in Requests : sequence[r] \in Nat
    BY TypeParts, AdmittedIsFinite
  <2>2. None \notin Requests
    BY Constants
  <2> QED
    BY <2>1, <2>2 DEF Line, Before, Outcomes
<1>2. /\ \A i \in 1..Len(batch) : batch[i] \in Requests
      /\ \A i \in 1..Len(queue) : queue[i] \in Requests
      /\ worker.carry # None => worker.carry \in Requests
  BY TypeParts, LengthIs DEF WorkerRecords
<1>3. \A r \in Requests : phase[r] = "queued" => phase'[r] = "queued"
  BY DEF Before
<1>4. Admitted' = Admitted /\ Carried' = Carried
  BY DEF Admitted, Carried
<1>5. \A r \in Requests :
           /\ sequence[r] = 0 => phase'[r] \in Before \union {"dropped"}
           /\ sequence[r] > 0 => phase'[r] = "queued" \/ (phase'[r] \in Outcomes /\ sequence[r] <= settled)
           /\ phase'[r] = "queued" => phase[r] = "queued"
  <2>1. ASSUME NEW r \in Requests, phase'[r] # phase[r]
        PROVE  sequence[r] = 0 /\ phase'[r] \in Before \union {"dropped"}
    BY <1>1, <2>1
  <2> QED
    BY <2>1 DEF Line, Before
<1>6. /\ \A i \in 1..Len(batch) : phase'[batch[i]] = "queued"
      /\ worker.carry # None => phase'[worker.carry] = "queued"
      /\ \A i \in 1..Len(queue) : phase'[queue[i]] = "queued"
  BY <1>2, <1>3 DEF Line
<1> QED
  BY <1>4, <1>5, <1>6 DEF Line

LEMMA DurablesStay ==
    ASSUME Types, Line, Durables, UNCHANGED <<batch, worker, settled, durable, sequence>>,
           \A r \in Requests : phase'[r] = phase[r] \/ phase[r] \in Before
    PROVE  Durables'
  BY DEF Durables, Before

LEMMA ScopesStay ==
    ASSUME ScopesTrue, UNCHANGED <<lease, scope, terminal>>,
           \A r \in Requests : phase'[r] = phase[r] \/ (phase[r] \in Before \ {"idle"} /\ phase'[r] # "idle")
    PROVE  ScopesTrue'
<1>1. /\ \A s \in Scopes : Holders(s)' = Holders(s) /\ Owners(s)' = Owners(s)
      /\ \A t \in Terminals : Holders(TerminalOf[t])' = Holders(TerminalOf[t])
  BY DEF Holders, Owners
<1>2. \A r \in Requests : /\ phase'[r] = "idle" => lease[r] = "none"
                          /\ lease[r] = "released" => phase'[r] \notin Before
  BY DEF ScopesTrue
<1> QED
  BY <1>1, <1>2 DEF ScopesTrue

LEMMA WokenStay ==
    ASSUME Woken, UNCHANGED <<scope, terminal, signaled, scopeAccepting>>
    PROVE  Woken'
  BY DEF Woken

LEMMA FlushesStay ==
    ASSUME Types, Flushes, UNCHANGED <<flush, terminal, lease, scopeLatest, settled, sequence>>,
           \A c \in Callers : flush[c].at = "asked" => worker'.flusher = c,
           \A r \in Requests : InFlight(r)' => InFlight(r)
    PROVE  Flushes'
  BY DEF Flushes

LEMMA FlightsStay ==
    ASSUME Types, Line, UNCHANGED <<batch, worker>>,
           \A r \in Requests : phase'[r] = phase[r] \/ phase'[r] # "queued"
    PROVE  \A r \in Requests : InFlight(r)' => InFlight(r)
  BY DEF InFlight

LEMMA StorageStays ==
    ASSUME Storage, UNCHANGED <<maintenance, shutdown, accepting, sequence>>, flush'[Owner] = flush[Owner],
           worker.at = "exited" => worker'.at = "exited"
    PROVE  Storage'
<1>1. Admitted' = Admitted
  BY DEF Admitted
<1> QED
  BY <1>1 DEF Storage

LEMMA WaitingSame == ASSUME UNCHANGED terminal PROVE Waiting' = Waiting
  BY DEF Waiting

\* Where a queued record stands, by its number.
LEMMA InLine ==
    ASSUME Types, Line, NEW r \in Requests, phase[r] = "queued"
    PROVE  /\ sequence[r] \in Nat /\ settled < sequence[r] /\ sequence[r] <= Cardinality(Admitted)
           /\ (\E i \in 1..Len(batch) : batch[i] = r) <=> sequence[r] <= settled + Len(batch)
<1>1. settled \in Nat /\ Len(batch) \in Nat /\ Len(queue) \in Nat /\ Carried \in {0, 1}
  BY TypeParts, LengthIs DEF Carried
<1>2. r # None
  BY Constants
<1>3. CASE \E i \in 1..Len(batch) : batch[i] = r
  BY <1>1, <1>3 DEF Line
<1>4. CASE worker.carry = r /\ ~(\E i \in 1..Len(batch) : batch[i] = r)
  <2>1. Carried = 1
    BY <1>2, <1>4 DEF Carried
  <2> QED
    BY <1>1, <1>2, <1>4, <2>1 DEF Line
<1>5. CASE (\E i \in 1..Len(queue) : queue[i] = r) /\ ~(\E i \in 1..Len(batch) : batch[i] = r)
  <2>1. PICK i \in 1..Len(queue) : queue[i] = r
    BY <1>5
  <2>2. sequence[r] = settled + Len(batch) + Carried + i
    BY <2>1 DEF Line
  <2> QED
    BY <1>1, <1>5, <2>1, <2>2 DEF Line
<1> QED
  BY <1>3, <1>4, <1>5 DEF Line

-----------------------------------------------------------------------------
(* The requests                                                            *)

\* A request's own steps, and steps that only cost budget or age a stamp.
LEMMA LocalKeeps ==
    ASSUME IndInv, phase' \in [Requests -> Phases],
           \A r \in Requests : \/ phase'[r] = phase[r]
                               \/ /\ phase[r] \in Before \ {"idle"}
                                  /\ phase'[r] \in (Before \ {"idle"}) \union {"dropped"},
           weight' \in [Requests -> Nat], charge' \in [Requests -> Nat], stale' \subseteq Requests,
           UNCHANGED <<lease, accepting, sequence, scopeLatest, queue, batch, worker, settled, durable,
                       scope, scopeAccepting, terminal, signaled, flush, shutdown, maintenance>>
    PROVE  IndInv'
<1>1. Types /\ Places /\ Line /\ Durables /\ ScopesTrue /\ Woken /\ Flushes /\ Storage
  BY DEF IndInv
<1>2. Types'
  BY <1>1, WaitingSame, TypeParts, TypesTogether
<1>3. Places'
  BY <1>1, PlacesStay DEF Canceled
<1>4. Line' /\ Durables'
  BY <1>1, LineStays, DurablesStay
<1>5. ScopesTrue' /\ Woken'
  <2>1. \A r \in Requests : phase'[r] = phase[r] \/ (phase[r] \in Before \ {"idle"} /\ phase'[r] # "idle")
    BY DEF Before
  <2> QED
    BY <1>1, <2>1, ScopesStay, WokenStay
<1>6. Flushes'
  <2>1. \A r \in Requests : phase'[r] = phase[r] \/ phase'[r] # "queued"
    BY DEF Before
  <2>2. \A r \in Requests : InFlight(r)' => InFlight(r)
    BY <1>1, <2>1, FlightsStay
  <2>3. \A c \in Callers : flush[c].at = "asked" => worker'.flusher = c
    BY <1>1 DEF Flushes
  <2> QED
    BY <1>1, <2>2, <2>3, FlushesStay
<1>7. Storage'
  BY <1>1, StorageStays
<1> QED
  BY <1>2, <1>3, <1>4, <1>5, <1>6, <1>7 DEF IndInv

LEMMA PhaseMoves ==
    ASSUME Types, NEW r \in Requests, NEW to \in Phases, phase' = [phase EXCEPT ![r] = to]
    PROVE  /\ phase' \in [Requests -> Phases] /\ phase'[r] = to
           /\ \A q \in Requests \ {r} : phase'[q] = phase[q]
  BY TypeParts

LEMMA ReleasedCharge ==
    ASSUME Types, NEW S, ReleaseAll(S)
    PROVE  charge' \in [Requests -> Nat]
  BY TypeParts DEF ReleaseAll

LEMMA ObservationKeeps ==
    ASSUME IndInv, NEW r \in Requests,
           \/ Offer(r) \/ OpenCapture(r) \/ ObserveBytes(r) \/ FinishCapture(r) \/ Discard(r)
           \/ (Publish(r) /\ ~Admits(r))
    PROVE  IndInv'
<1>1. UNCHANGED <<lease, stale, accepting, sequence, scopeLatest, queue, batch, worker, settled, durable,
                  scope, scopeAccepting, terminal, signaled, flush, shutdown, maintenance>>
  BY DEF Offer, OpenCapture, ObserveBytes, FinishCapture, Discard, Publish, admitVars, workerVars, scopeVars,
         ownerVars
<1>2. Types
  BY DEF IndInv
<1>3. PICK to \in (Before \ {"idle"}) \union {"dropped"} :
          phase[r] \in Before \ {"idle"} /\ phase' = [phase EXCEPT ![r] = to]
  <2>1. CASE ObserveBytes(r)
    <3>1. phase[r] = "capturing" /\ phase' = phase
      BY <2>1 DEF ObserveBytes
    <3>2. phase = [phase EXCEPT ![r] = "capturing"]
      BY <1>2, <3>1, TypeParts
    <3> QED
      BY <3>1, <3>2 DEF Before
  <2>2. CASE ~ObserveBytes(r)
    BY <2>2 DEF Offer, OpenCapture, FinishCapture, Discard, Publish, Step, Before
  <2> QED
    BY <2>1, <2>2
<1>4. to \in Phases
  BY <1>3 DEF Before, Phases
<1>5. /\ phase' \in [Requests -> Phases] /\ phase'[r] = to
      /\ \A q \in Requests \ {r} : phase'[q] = phase[q]
  BY <1>2, <1>3, <1>4, PhaseMoves
<1>6. charge' \in [Requests -> Nat] /\ weight' \in [Requests -> Nat]
  <2>1. charge \in [Requests -> Nat] /\ weight \in [Requests -> Nat] /\ Growth \in Nat /\ Charge[r] \in Nat
    BY <1>2, TypeParts, Constants
  <2>2. CASE ReleaseAll({r}) /\ UNCHANGED weight
    BY <1>2, <2>1, <2>2, ReleasedCharge
  <2>3. CASE Grow(r, Growth) /\ weight' = [weight EXCEPT ![r] = @ + Growth]
    BY <2>1, <2>3 DEF Grow
  <2>4. CASE Reserve(r)
    BY <2>1, <2>4 DEF Reserve
  <2>5. CASE UNCHANGED <<weight, charge>>
    BY <2>1, <2>5
  <2> QED
    BY <2>2, <2>3, <2>4, <2>5 DEF Offer, OpenCapture, ObserveBytes, FinishCapture, Discard, Publish, budgetVars
<1>7. stale' \subseteq Requests
  BY <1>1, <1>2, TypeParts
<1> QED
  BY <1>1, <1>3, <1>5, <1>6, <1>7, LocalKeeps

LEMMA AdvanceEpochKeeps ==
    ASSUME IndInv, AdvanceEpoch
    PROVE  IndInv'
<1>1. UNCHANGED <<phase, weight, charge, lease, accepting, sequence, scopeLatest, queue, batch, worker, settled,
                  durable, scope, scopeAccepting, terminal, signaled, flush, shutdown, maintenance>>
  BY DEF AdvanceEpoch, budgetVars, admitVars, workerVars, scopeVars, ownerVars
<1>2. stale' \subseteq Requests
  BY DEF AdvanceEpoch
<1>3. Types
  BY DEF IndInv
<1>4. phase' \in [Requests -> Phases] /\ weight' \in [Requests -> Nat] /\ charge' \in [Requests -> Nat]
  BY <1>1, <1>3, TypeParts
<1> QED
  BY <1>1, <1>2, <1>4, LocalKeeps

\* The count of a scope's leases moves; its phase does not.
LEMMA ActiveMoves ==
    ASSUME Types, NEW s \in Scopes, NEW n \in Nat, scope' = [scope EXCEPT ![s].active = n]
    PROVE  /\ scope' \in [Scopes -> [active : Nat, phase : {"open", "preparing", "sealed"}]]
           /\ scope'[s].active = n
           /\ \A x \in Scopes : scope'[x].phase = scope[x].phase
           /\ \A x \in Scopes \ {s} : scope'[x] = scope[x]
<1>1. scope \in [Scopes -> [active : Nat, phase : {"open", "preparing", "sealed"}]]
  BY TypeParts
<1> QED
  BY <1>1

\* A lease comes or goes: the phase of no scope, and no terminal call, moves.
LEMMA LeasesMove ==
    ASSUME ScopesTrue, UNCHANGED terminal, \A s \in Scopes : scope'[s].phase = scope[s].phase,
           \A s \in Scopes : scope'[s].active = Cardinality(Holders(s)'),
           \A q \in Requests : /\ phase'[q] = "idle" => lease'[q] = "none"
                               /\ lease'[q] = "released" => phase'[q] \notin Before,
           \A t \in Terminals : terminal[t] \in {"drained", "flushing", "holding", "committed"} =>
               Holders(TerminalOf[t])' = {}
    PROVE  ScopesTrue'
<1>1. \A s \in Scopes : Owners(s)' = Owners(s)
  BY DEF Owners
<1>2. \A s \in Scopes : scope'[s].phase = "preparing" => \E t \in Terminals : Owners(s)' = {t}
  BY <1>1 DEF ScopesTrue
<1>3. \A s \in Scopes : scope'[s].phase # "preparing" => Owners(s)' = {}
  BY <1>1 DEF ScopesTrue
<1>4. \A t \in Terminals : terminal[t] = "committed" => scope'[TerminalOf[t]].phase = "sealed"
  BY Constants DEF ScopesTrue
<1> QED
  BY <1>2, <1>3, <1>4 DEF ScopesTrue

LEMMA BeginScopeKeeps ==
    ASSUME IndInv, NEW r \in Requests, BeginScope(r)
    PROVE  IndInv'
<1> DEFINE s == ScopeOf[r]
<1>1. UNCHANGED <<weight, charge, stale, accepting, sequence, scopeLatest, queue, batch, worker, settled, durable,
                  scopeAccepting, terminal, flush, shutdown, maintenance>>
  BY DEF BeginScope, budgetVars, admitVars, workerVars, ownerVars
<1>2. Types /\ Places /\ Line /\ Durables /\ ScopesTrue /\ Woken /\ Flushes /\ Storage
  BY DEF IndInv
<1>3. phase[r] = "idle" /\ phase' = [phase EXCEPT ![r] = "running"]
  BY DEF BeginScope, Step
<1>4. /\ phase' \in [Requests -> Phases] /\ phase'[r] = "running"
      /\ \A q \in Requests \ {r} : phase'[q] = phase[q]
  BY <1>2, <1>3, PhaseMoves DEF Phases
<1>5. s \in Scopes
  BY Constants
<1>6. \/ /\ scope[s].phase = "open" /\ lease' = [lease EXCEPT ![r] = "held"]
         /\ scope' = [scope EXCEPT ![s].active = @ + 1] /\ signaled' = signaled \union Waiting
      \/ lease' = [lease EXCEPT ![r] = "refused"] /\ UNCHANGED <<scope, signaled>>
  BY DEF BeginScope, Notify
<1>7. /\ lease' \in [Requests -> {"none", "held", "refused", "released"}]
      /\ lease'[r] \in {"held", "refused"} /\ \A q \in Requests \ {r} : lease'[q] = lease[q]
  BY <1>2, <1>6, TypeParts
<1>8. Line' /\ Durables'
  <2>1. \A q \in Requests : phase'[q] = phase[q] \/ (phase[q] \in Before /\ phase'[q] \in Before \union {"dropped"})
    BY <1>3, <1>4 DEF Before
  <2> QED
    BY <1>1, <1>2, <2>1, LineStays, DurablesStay
<1>9. Places'
  BY <1>1, <1>2, PlacesStay DEF Canceled
<1>10. Storage'
  BY <1>1, <1>2, StorageStays
<1>11. Flushes'
  <2>1. \A q \in Requests : phase'[q] = phase[q] \/ phase'[q] # "queued"
    BY <1>4
  <2>2. \A q \in Requests : InFlight(q)' => InFlight(q)
    BY <1>1, <1>2, <2>1, FlightsStay
  <2>3. \A q \in Requests : lease'[q] = "released" => lease[q] = "released"
    BY <1>7
  <2> QED
    BY <1>1, <1>2, <2>2, <2>3 DEF Flushes
<1>12. \A q \in Requests : /\ phase'[q] = "idle" => lease'[q] = "none"
                           /\ lease'[q] = "released" => phase'[q] \notin Before
  BY <1>2, <1>4, <1>7 DEF ScopesTrue
<1>13. \A x \in Scopes : Owners(x)' = Owners(x)
  BY <1>1 DEF Owners
<1>14. CASE lease' = [lease EXCEPT ![r] = "refused"] /\ UNCHANGED <<scope, signaled>>
  <2>1. \A x : Holders(x)' = Holders(x)
    <3>1. lease[r] = "none" /\ lease'[r] = "refused"
      BY <1>2, <1>3, <1>14, TypeParts DEF ScopesTrue
    <3>2. \A q \in Requests : lease'[q] = "held" <=> lease[q] = "held"
      BY <1>7, <3>1
    <3> QED
      BY <3>2 DEF Holders
  <2>2. ScopesTrue'
    BY <1>1, <1>2, <1>12, <1>13, <1>14, <2>1 DEF ScopesTrue
  <2>3. Woken'
    BY <1>1, <1>2, <1>14, WokenStay
  <2>4. Types'
    BY <1>1, <1>2, <1>4, <1>7, <1>14, WaitingSame, TypeParts, TypesTogether
  <2> QED
    BY <1>8, <1>9, <1>10, <1>11, <2>2, <2>3, <2>4 DEF IndInv
<1>15. CASE /\ scope[s].phase = "open" /\ lease' = [lease EXCEPT ![r] = "held"]
            /\ scope' = [scope EXCEPT ![s].active = @ + 1] /\ signaled' = signaled \union Waiting
  <2>1. scope[s].active \in Nat /\ scope' = [scope EXCEPT ![s].active = scope[s].active + 1]
    BY <1>2, <1>5, <1>15, TypeParts
  <2>2. /\ scope' \in [Scopes -> [active : Nat, phase : {"open", "preparing", "sealed"}]]
        /\ scope'[s].active = scope[s].active + 1
        /\ \A x \in Scopes : scope'[x].phase = scope[x].phase
        /\ \A x \in Scopes \ {s} : scope'[x] = scope[x]
    <3> HIDE DEF s
    <3>1. scope[s].active + 1 \in Nat
      BY <2>1
    <3> QED
      BY <1>2, <1>5, <2>1, <3>1, ActiveMoves
  <2>3. Types'
    <3>1. signaled' \subseteq Waiting'
      BY <1>1, <1>2, <1>15, WaitingSame, TypeParts
    <3> QED
      BY <1>1, <1>2, <1>4, <1>7, <2>2, <3>1, TypeParts, TypesTogether
  <2>4. /\ lease'[r] = "held" /\ lease[r] = "none"
    BY <1>2, <1>3, <1>15, TypeParts DEF ScopesTrue
  <2>5. r \notin Holders(s) /\ Holders(s)' = Holders(s) \union {r}
    BY <1>7, <2>4 DEF Holders
  <2>6. \A x \in Scopes \ {s} : Holders(x)' = Holders(x)
    BY <1>7, <2>4 DEF Holders
  <2>7. Cardinality(Holders(s)') = Cardinality(Holders(s)) + 1
    BY <2>5, HoldersAreFinite, FS_AddElement
  <2>8. \A t \in Terminals : terminal[t] \in {"drained", "flushing", "holding", "committed"} => TerminalOf[t] # s
    <3>1. Owners(s) = {}
      BY <1>2, <1>5, <1>15 DEF ScopesTrue
    <3>2. \A t \in Terminals : terminal[t] = "committed" => TerminalOf[t] # s
      BY <1>2, <1>15 DEF ScopesTrue
    <3> QED
      BY <3>1, <3>2 DEF Owners
  <2>9. ScopesTrue'
    <3>1. \A x \in Scopes : scope'[x].active = Cardinality(Holders(x)')
      BY <1>2, <1>5, <2>2, <2>6, <2>7 DEF ScopesTrue
    <3>2. \A t \in Terminals : terminal[t] \in {"drained", "flushing", "holding", "committed"} =>
              Holders(TerminalOf[t])' = {}
      BY <1>2, <2>6, <2>8, Constants DEF ScopesTrue
    <3> QED
      BY <1>1, <1>2, <1>12, <2>2, <3>1, <3>2, LeasesMove
  <2>10. Woken'
    BY <1>1, <1>15 DEF Woken, Waiting
  <2> QED
    BY <1>8, <1>9, <1>10, <1>11, <2>3, <2>9, <2>10 DEF IndInv
<1> QED
  BY <1>6, <1>14, <1>15

LEMMA ReleaseKeeps ==
    ASSUME IndInv, NEW r \in Requests, Release(r)
    PROVE  IndInv'
<1> DEFINE s == ScopeOf[r]
<1>1. UNCHANGED <<phase, weight, charge, stale, accepting, sequence, scopeLatest, queue, batch, worker, settled,
                  durable, scopeAccepting, terminal, flush, shutdown, maintenance>>
  BY DEF Release, budgetVars, admitVars, workerVars, ownerVars
<1>2. Types /\ Places /\ Line /\ Durables /\ ScopesTrue /\ Woken /\ Flushes /\ Storage
  BY DEF IndInv
<1>3. /\ lease[r] = "held" /\ phase[r] \notin Before /\ lease' = [lease EXCEPT ![r] = "released"]
      /\ scope' = [scope EXCEPT ![s].active = @ - 1] /\ signaled' = signaled \union Waiting
  BY DEF Release, Notify, Before
<1>4. s \in Scopes
  BY Constants
<1>5. /\ lease' \in [Requests -> {"none", "held", "refused", "released"}]
      /\ lease'[r] = "released" /\ \A q \in Requests \ {r} : lease'[q] = lease[q]
  BY <1>2, <1>3, TypeParts
<1>6. r \in Holders(s) /\ Holders(s)' = Holders(s) \ {r}
  BY <1>3, <1>5 DEF Holders
<1>7. \A x \in Scopes \ {s} : Holders(x)' = Holders(x)
  BY <1>3, <1>5 DEF Holders
<1>8. Cardinality(Holders(s)') = Cardinality(Holders(s)) - 1 /\ Cardinality(Holders(s)') \in Nat
  <2>1. IsFiniteSet(Holders(s)) /\ Cardinality(Holders(s)) \in Nat
    BY HoldersAreFinite
  <2>2. IsFiniteSet(Holders(s) \ {r}) /\ Cardinality(Holders(s) \ {r}) = Cardinality(Holders(s)) - 1
    BY <1>6, <2>1, FS_RemoveElement
  <2> QED
    BY <1>6, <2>2, FS_CardinalityType
<1>9. /\ scope' \in [Scopes -> [active : Nat, phase : {"open", "preparing", "sealed"}]]
      /\ scope'[s].active = Cardinality(Holders(s)')
      /\ \A x \in Scopes : scope'[x].phase = scope[x].phase
      /\ \A x \in Scopes \ {s} : scope'[x] = scope[x]
  <2>1. scope[s].active = Cardinality(Holders(s))
    BY <1>2, <1>4 DEF ScopesTrue
  <2>2. scope' = [scope EXCEPT ![s].active = Cardinality(Holders(s)')]
    BY <1>2, <1>3, <1>4, <1>8, <2>1, TypeParts
  <2> QED
    BY <1>2, <1>4, <1>8, <2>2, ActiveMoves
<1>10. Types'
  <2>1. signaled' \subseteq Waiting'
    BY <1>1, <1>2, <1>3, WaitingSame, TypeParts
  <2> QED
    BY <1>1, <1>2, <1>5, <1>9, <2>1, TypeParts, TypesTogether
<1>11. Line' /\ Durables' /\ Places' /\ Storage'
  BY <1>1, <1>2, LineStays, DurablesStay, PlacesStay, StorageStays DEF Canceled
<1>12. \A t \in Terminals : terminal[t] \in {"drained", "flushing", "holding", "committed"} => TerminalOf[t] # s
  BY <1>2, <1>6 DEF ScopesTrue
<1>13. ScopesTrue'
  <2>1. \A q \in Requests : /\ phase'[q] = "idle" => lease'[q] = "none"
                            /\ lease'[q] = "released" => phase'[q] \notin Before
    BY <1>1, <1>2, <1>3, <1>5 DEF ScopesTrue, Before
  <2>2. \A x \in Scopes : scope'[x].active = Cardinality(Holders(x)')
    BY <1>2, <1>7, <1>9 DEF ScopesTrue
  <2>3. \A t \in Terminals : terminal[t] \in {"drained", "flushing", "holding", "committed"} =>
            Holders(TerminalOf[t])' = {}
    BY <1>2, <1>7, <1>12, Constants DEF ScopesTrue
  <2> QED
    BY <1>1, <1>2, <1>9, <2>1, <2>2, <2>3, LeasesMove
<1>14. Woken'
  BY <1>1, <1>3 DEF Woken, Waiting
<1>15. Flushes'
  <2>1. \A q \in Requests : InFlight(q)' => InFlight(q)
    BY <1>1 DEF InFlight
  <2> QED
    BY <1>1, <1>2, <1>5, <1>12, <2>1 DEF Flushes
<1> QED
  BY <1>10, <1>11, <1>13, <1>14, <1>15 DEF IndInv

LEMMA PublishKeeps ==
    ASSUME IndInv, NEW r \in Requests, Publish(r)
    PROVE  IndInv'
<1> DEFINE s == ScopeOf[r]
           n == Cardinality(Admitted) + 1
<1>1. CASE ~Admits(r)
  BY <1>1, ObservationKeeps
<1>2. CASE Admits(r)
  <2>1. UNCHANGED <<lease, weight, charge, stale, accepting, batch, worker, settled, durable, scope, scopeAccepting,
                    terminal, signaled, flush, shutdown, maintenance>>
    BY <1>2 DEF Publish, budgetVars, scopeVars, ownerVars
  <2>2. Types /\ Places /\ Line /\ Durables /\ ScopesTrue /\ Woken /\ Flushes /\ Storage
    BY DEF IndInv
  <2>3. /\ phase[r] = "offering" /\ phase' = [phase EXCEPT ![r] = "queued"]
        /\ sequence' = [sequence EXCEPT ![r] = n]
        /\ scopeLatest' = [scopeLatest EXCEPT ![s] = n] /\ queue' = Append(queue, r)
    BY <1>2, <2>2, AdmittedIsFinite DEF Publish, Step
  <2>4. accepting /\ Len(queue) < QueueLimit
    BY <1>2 DEF Admits
  <2>5. s \in Scopes
    BY Constants
  <2>6. /\ phase' \in [Requests -> Phases] /\ phase'[r] = "queued"
        /\ \A q \in Requests \ {r} : phase'[q] = phase[q]
    BY <2>2, <2>3, PhaseMoves DEF Phases
  <2>7. sequence[r] = 0 /\ r \notin Admitted
    <3>1. sequence[r] \in Nat
      BY <2>2, TypeParts, AdmittedIsFinite
    <3>2. sequence[r] = 0
      BY <2>2, <2>3, <3>1 DEF Line, Outcomes
    <3> QED
      BY <3>2 DEF Admitted
  <2>8. n \in Nat /\ n >= 1 /\ n <= Cardinality(Requests) /\ Cardinality(Requests) \in Nat
    <3>1. Admitted \union {r} \in SUBSET Requests
      BY DEF Admitted
    <3>2. IsFiniteSet(Admitted) /\ Cardinality(Admitted \union {r}) = n
      BY <2>2, <2>7, AdmittedIsFinite, FS_AddElement
    <3>3. Cardinality(Admitted \union {r}) <= Cardinality(Requests)
      BY <3>1, Constants, FS_Subset
    <3> QED
      BY <2>2, <3>2, <3>3, AdmittedIsFinite
  <2> HIDE DEF n
  <2>9. /\ sequence' \in [Requests -> 0..Cardinality(Requests)] /\ sequence'[r] = n
        /\ \A q \in Requests \ {r} : sequence'[q] = sequence[q]
    BY <2>2, <2>3, <2>8, TypeParts
  <2>10. /\ scopeLatest' \in [Scopes -> 0..Cardinality(Requests)] /\ scopeLatest'[s] = n
         /\ \A x \in Scopes \ {s} : scopeLatest'[x] = scopeLatest[x]
    BY <2>2, <2>3, <2>5, <2>8, TypeParts
  <2>11. /\ queue' \in Seq(Requests) /\ Len(queue') = Len(queue) + 1
         /\ \A i \in 1..Len(queue) : queue'[i] = queue[i]
         /\ queue'[Len(queue) + 1] = r
    BY <2>2, <2>3, TypeParts, Appended
  <2>12. Len(queue) \in Nat /\ Len(batch) \in Nat /\ settled \in Nat /\ durable \in Nat
    BY <2>2, TypeParts, LengthIs
  <2>13. Types'
    <3>1. Len(queue') <= QueueLimit
      BY <2>4, <2>11, <2>12, Constants
    <3> QED
      BY <2>1, <2>2, <2>6, <2>9, <2>10, <2>11, <3>1, WaitingSame, TypeParts, TypesTogether
  <2>14. Places'
    <3>1. worker.at # "exited"
      BY <2>2, <2>4 DEF Places, Storage, Canceled
    <3> QED
      BY <2>1, <2>2, <3>1, PlacesStay DEF Canceled
  <2>15. Admitted' = Admitted \union {r} /\ Cardinality(Admitted') = n /\ n = Cardinality(Admitted) + 1
    <3>1. Admitted' = Admitted \union {r}
      BY <2>8, <2>9 DEF Admitted
    <3>2. IsFiniteSet(Admitted)
      BY <2>2, AdmittedIsFinite
    <3>3. Cardinality(Admitted \union {r}) = Cardinality(Admitted) + 1
      BY <2>7, <3>2, FS_AddElement
    <3> QED
      BY <3>1, <3>3 DEF n
  <2>16. Cardinality(Admitted) = settled + Len(batch) + Carried + Len(queue) /\ Carried' = Carried /\ Carried \in {0, 1}
    BY <2>1, <2>2 DEF Line, Carried
  <2>17. Line'
    <3>1. \A i \in 1..Len(batch) : batch[i] \in Requests \ {r}
      BY <2>2, <2>3, TypeParts, LengthIs DEF Line
    <3>2. worker.carry # None => worker.carry \in Requests \ {r}
      BY <2>2, <2>3, TypeParts DEF Line, WorkerRecords
    <3>3. \A i \in 1..Len(queue) : queue[i] \in Requests \ {r}
      BY <2>2, <2>3, TypeParts, LengthIs DEF Line
    <3>4. \A i \in 1..Len(batch) : phase'[batch[i]] = "queued" /\ sequence'[batch[i]] = settled + i
      BY <2>2, <2>6, <2>9, <3>1 DEF Line
    <3>5. worker.carry # None => phase'[worker.carry] = "queued" /\ sequence'[worker.carry] = settled + Len(batch) + 1
      BY <2>2, <2>6, <2>9, <3>2 DEF Line
    <3>6. ASSUME NEW i \in 1..Len(queue')
          PROVE  phase'[queue'[i]] = "queued" /\ sequence'[queue'[i]] = settled + Len(batch) + Carried + i
      <4>1. CASE i \in 1..Len(queue)
        <5>1. queue'[i] = queue[i] /\ queue[i] \in Requests \ {r}
          BY <2>11, <3>3, <4>1
        <5>2. phase[queue[i]] = "queued" /\ sequence[queue[i]] = settled + Len(batch) + Carried + i
          BY <2>2, <4>1 DEF Line
        <5> QED
          BY <2>6, <2>9, <5>1, <5>2
      <4>2. CASE i = Len(queue) + 1
        <5>1. queue'[i] = r /\ phase'[r] = "queued" /\ sequence'[r] = n
          BY <2>6, <2>9, <2>11, <4>2
        <5>2. n = settled + Len(batch) + Carried + i
          BY <2>12, <2>15, <2>16, <4>2
        <5> QED
          BY <5>1, <5>2
      <4> QED
        BY <2>11, <2>12, <4>1, <4>2
    <3>7. Cardinality(Admitted') = settled + Len(batch) + Carried + Len(queue')
      BY <2>11, <2>12, <2>15, <2>16
    <3>8. ASSUME NEW q \in Requests
          PROVE  /\ sequence'[q] = 0 => phase'[q] \in Before \union {"dropped"}
                 /\ sequence'[q] > 0 => phase'[q] = "queued" \/ (phase'[q] \in Outcomes /\ sequence'[q] <= settled)
                 /\ phase'[q] = "queued" =>
                        \/ \E i \in 1..Len(batch) : batch[i] = q
                        \/ worker.carry = q
                        \/ \E i \in 1..Len(queue') : queue'[i] = q
      <4>1. CASE q = r
        <5>1. phase'[q] = "queued" /\ sequence'[q] # 0
          BY <2>6, <2>8, <2>9, <4>1
        <5>2. Len(queue) + 1 \in 1..Len(queue') /\ queue'[Len(queue) + 1] = q
          BY <2>11, <2>12, <4>1
        <5> QED
          BY <5>1, <5>2
      <4>2. CASE q # r
        <5>1. \A i \in 1..Len(queue) : i \in 1..Len(queue') /\ queue'[i] = queue[i]
          BY <2>11, <2>12
        <5>2. phase'[q] = phase[q] /\ sequence'[q] = sequence[q]
          BY <2>6, <2>9, <4>2
        <5>3. /\ sequence[q] = 0 => phase[q] \in Before \union {"dropped"}
              /\ sequence[q] > 0 => phase[q] = "queued" \/ (phase[q] \in Outcomes /\ sequence[q] <= settled)
          BY <2>2 DEF Line
        <5>4. phase[q] = "queued" =>
                  \/ \E i \in 1..Len(batch) : batch[i] = q
                  \/ worker.carry = q
                  \/ \E i \in 1..Len(queue) : queue[i] = q
          BY <2>2 DEF Line
        <5>5. (\E i \in 1..Len(queue) : queue[i] = q) => \E i \in 1..Len(queue') : queue'[i] = q
          BY <5>1
        <5> QED
          BY <5>2, <5>3, <5>4, <5>5
      <4> QED
        BY <4>1, <4>2
    <3> QED
      BY <2>1, <2>16, <3>4, <3>5, <3>6, <3>7, <3>8 DEF Line
  <2>18. Durables'
    <3>1. n > settled
      BY <2>12, <2>15, <2>16
    <3> QED
      BY <2>1, <2>2, <2>6, <2>9, <2>12, <3>1 DEF Durables
  <2>19. ScopesTrue' /\ Woken'
    <3>1. \A q \in Requests : phase'[q] = phase[q] \/ (phase[q] \in Before \ {"idle"} /\ phase'[q] # "idle")
      BY <2>3, <2>6 DEF Before
    <3> QED
      BY <2>1, <2>2, <3>1, ScopesStay, WokenStay
  <2>20. Flushes'
    <3>1. ASSUME NEW q \in Requests, InFlight(q)'
          PROVE  sequence'[q] <= scopeLatest'[ScopeOf[q]] /\ (q # r => InFlight(q) /\ sequence'[q] = sequence[q])
      <4>1. CASE q = r
        BY <2>9, <2>10, <2>8, <4>1
      <4>2. CASE q # r
        <5>1. InFlight(q)
          BY <2>1, <2>6, <3>1, <4>2 DEF InFlight
        <5>2. sequence[q] \in Nat /\ sequence[q] <= Cardinality(Admitted) /\ sequence[q] <= scopeLatest[ScopeOf[q]]
          BY <2>2, <5>1, InLine DEF Flushes, InFlight
        <5>3. sequence[q] < n
          BY <2>8, <2>15, <2>16, <2>12, <5>2
        <5>4. ScopeOf[q] \in Scopes
          BY Constants
        <5> QED
          BY <2>8, <2>9, <2>10, <4>2, <5>1, <5>2, <5>3, <5>4
      <4> QED
        BY <4>1, <4>2
    <3>2. lease[r] # "released"
      BY <2>2, <2>3 DEF ScopesTrue, Before
    <3> QED
      BY <2>1, <2>2, <3>1, <3>2 DEF Flushes
  <2>21. Storage'
    BY <2>1, <2>2, <2>4 DEF Storage
  <2> QED
    BY <2>13, <2>14, <2>17, <2>18, <2>19, <2>20, <2>21 DEF IndInv
<1> QED
  BY <1>1, <1>2

-----------------------------------------------------------------------------
(* The worker                                                              *)

\* A step of the worker that settles nothing: it moves the line, or serves a flush.
LEMMA WorkerKeeps ==
    ASSUME IndInv, Places', Line',
           UNCHANGED <<lease, phase, weight, stale, accepting, sequence, scopeLatest, settled, durable, scope,
                       scopeAccepting, terminal, signaled, shutdown, maintenance>>,
           charge' \in [Requests -> Nat], queue' \in Seq(Requests), batch' \in Seq(Requests),
           Len(queue') <= Len(queue), worker' \in WorkerRecords,
           flush' \in [Callers -> [at : {"idle", "asking", "asked", "ok", "error"}, target : Nat]],
           worker.at \notin {"settling", "releasing", "exited"},
           \A c \in Callers : /\ flush'[c].target = flush[c].target
                              /\ flush[c].at = "ok" => flush'[c].at = "ok"
                              /\ flush'[c].at = "ok" => flush[c].at = "ok" \/ settled >= flush[c].target
                              /\ flush'[c].at = "asked" => worker'.flusher = c
    PROVE  IndInv'
<1>1. Types /\ Line /\ Durables /\ ScopesTrue /\ Woken /\ Flushes /\ Storage
  BY DEF IndInv
<1>2. Types'
  <2>1. Len(queue') <= QueueLimit
    BY <1>1, TypeParts, LengthIs, Constants
  <2> QED
    BY <1>1, <2>1, WaitingSame, TypeParts, TypesTogether
<1>3. Durables'
  BY <1>1 DEF Durables
<1>4. ScopesTrue' /\ Woken'
  BY <1>1, ScopesStay, WokenStay
<1>5. Flushes'
  <2>1. \A r \in Requests : InFlight(r)' => InFlight(r)
    BY DEF InFlight
  <2>2. Terminals \subseteq Callers
    BY Constants
  <2> QED
    BY <1>1, <2>1, <2>2 DEF Flushes
<1>6. Storage'
  <2>1. Admitted' = Admitted /\ Owner \in Callers
    BY Constants DEF Admitted
  <2> QED
    BY <1>1, <2>1 DEF Storage
<1> QED
  BY <1>2, <1>3, <1>4, <1>5, <1>6 DEF IndInv

\* The three ways the line moves.
LEMMA LineTaken ==
    ASSUME Types, Line, worker.carry = None, worker'.carry = None, queue # <<>>,
           queue' = Tail(queue), batch' = Append(batch, Head(queue)), UNCHANGED <<phase, sequence, settled>>
    PROVE  Line' /\ queue' \in Seq(Requests) /\ batch' \in Seq(Requests) /\ Len(queue') <= Len(queue)
<1>1. queue \in Seq(Requests) /\ batch \in Seq(Requests) /\ settled \in Nat
  BY TypeParts
<1>2. /\ queue' \in Seq(Requests) /\ Len(queue') = Len(queue) - 1 /\ Len(queue) >= 1
      /\ \A i \in 1..(Len(queue) - 1) : queue'[i] = queue[i + 1]
      /\ Head(queue) = queue[1] /\ queue[1] \in Requests
  BY <1>1, Shortened
<1>3. /\ batch' \in Seq(Requests) /\ Len(batch') = Len(batch) + 1
      /\ \A i \in 1..Len(batch) : batch'[i] = batch[i]
      /\ batch'[Len(batch) + 1] = queue[1]
  BY <1>1, <1>2, Appended
<1>4. Len(queue) \in Nat /\ Len(batch) \in Nat
  BY <1>1, LengthIs
<1>5. Carried = 0 /\ Carried' = 0 /\ Admitted' = Admitted
  BY DEF Carried, Admitted
<1>6. ASSUME NEW i \in 1..Len(batch')
      PROVE  phase[batch'[i]] = "queued" /\ sequence[batch'[i]] = settled + i
  <2>1. CASE i \in 1..Len(batch)
    BY <1>3, <2>1 DEF Line
  <2>2. CASE i = Len(batch) + 1
    <3>1. 1 \in 1..Len(queue)
      BY <1>2, <1>4
    <3>2. phase[queue[1]] = "queued" /\ sequence[queue[1]] = settled + Len(batch) + 0 + 1
      BY <1>5, <3>1 DEF Line
    <3> QED
      BY <1>1, <1>3, <1>4, <2>2, <3>2
  <2> QED
    BY <1>3, <1>4, <2>1, <2>2
<1>7. ASSUME NEW i \in 1..Len(queue')
      PROVE  phase[queue'[i]] = "queued" /\ sequence[queue'[i]] = settled + Len(batch') + 0 + i
  <2>1. i \in 1..(Len(queue) - 1) /\ i + 1 \in 1..Len(queue) /\ i \in Nat
    BY <1>2, <1>4
  <2>2. phase[queue[i + 1]] = "queued" /\ sequence[queue[i + 1]] = settled + Len(batch) + 0 + (i + 1)
    BY <1>5, <2>1 DEF Line
  <2>3. queue'[i] = queue[i + 1]
    BY <1>2, <2>1
  <2> QED
    BY <1>1, <1>3, <1>4, <2>1, <2>2, <2>3
<1>8. Cardinality(Admitted) = settled + Len(batch') + 0 + Len(queue')
  BY <1>1, <1>2, <1>3, <1>4, <1>5 DEF Line
<1>9. ASSUME NEW r \in Requests, phase[r] = "queued"
      PROVE  (\E i \in 1..Len(batch') : batch'[i] = r) \/ (\E i \in 1..Len(queue') : queue'[i] = r)
  <2>1. r # None
    BY Constants
  <2>2. CASE \E i \in 1..Len(batch) : batch[i] = r
    BY <1>3, <1>4, <2>2
  <2>3. CASE \E i \in 1..Len(queue) : queue[i] = r
    <3>1. PICK i \in 1..Len(queue) : queue[i] = r
      BY <2>3
    <3>2. CASE i = 1
      BY <1>3, <1>4, <3>1, <3>2
    <3>3. CASE i # 1
      <4>1. i - 1 \in 1..(Len(queue) - 1) /\ i - 1 \in 1..Len(queue') /\ (i - 1) + 1 = i
        BY <1>2, <1>4, <3>3
      <4>2. queue'[i - 1] = queue[i]
        BY <1>2, <4>1
      <4> QED
        BY <3>1, <4>1, <4>2
    <3> QED
      BY <3>2, <3>3
  <2> QED
    BY <1>9, <2>1, <2>2, <2>3 DEF Line
<1>10. \A r \in Requests :
           /\ sequence[r] = 0 => phase[r] \in Before \union {"dropped"}
           /\ sequence[r] > 0 => phase[r] = "queued" \/ (phase[r] \in Outcomes /\ sequence[r] <= settled)
  BY DEF Line
<1>11. Line'
  BY <1>5, <1>6, <1>7, <1>8, <1>9, <1>10 DEF Line
<1> QED
  BY <1>2, <1>3, <1>4, <1>11

LEMMA LineCarries ==
    ASSUME Types, Line, worker.carry = None, queue # <<>>, worker'.carry = Head(queue),
           queue' = Tail(queue), UNCHANGED <<batch, phase, sequence, settled>>
    PROVE  Line' /\ queue' \in Seq(Requests) /\ Len(queue') <= Len(queue) /\ Head(queue) \in Requests
<1>1. queue \in Seq(Requests) /\ batch \in Seq(Requests) /\ settled \in Nat
  BY TypeParts
<1>2. /\ queue' \in Seq(Requests) /\ Len(queue') = Len(queue) - 1 /\ Len(queue) >= 1
      /\ \A i \in 1..(Len(queue) - 1) : queue'[i] = queue[i + 1]
      /\ Head(queue) = queue[1] /\ queue[1] \in Requests
  BY <1>1, Shortened
<1>4. Len(queue) \in Nat /\ Len(batch) \in Nat
  BY <1>1, LengthIs
<1>5. Carried = 0 /\ Carried' = 1 /\ Admitted' = Admitted
  BY <1>2, Constants DEF Carried, Admitted
<1>6. phase[queue[1]] = "queued" /\ sequence[queue[1]] = settled + Len(batch) + 1
  <2>1. 1 \in 1..Len(queue)
    BY <1>2, <1>4
  <2>2. phase[queue[1]] = "queued" /\ sequence[queue[1]] = settled + Len(batch) + 0 + 1
    BY <1>5, <2>1 DEF Line
  <2> QED
    BY <1>1, <1>4, <2>2
<1>7. ASSUME NEW i \in 1..Len(queue')
      PROVE  phase[queue'[i]] = "queued" /\ sequence[queue'[i]] = settled + Len(batch) + 1 + i
  <2>1. i \in 1..(Len(queue) - 1) /\ i + 1 \in 1..Len(queue) /\ i \in Nat
    BY <1>2, <1>4
  <2>2. phase[queue[i + 1]] = "queued" /\ sequence[queue[i + 1]] = settled + Len(batch) + 0 + (i + 1)
    BY <1>5, <2>1 DEF Line
  <2>3. queue'[i] = queue[i + 1]
    BY <1>2, <2>1
  <2> QED
    BY <1>1, <1>4, <2>1, <2>2, <2>3
<1>8. Cardinality(Admitted) = settled + Len(batch) + 1 + Len(queue')
  BY <1>1, <1>2, <1>4, <1>5 DEF Line
<1>9. ASSUME NEW r \in Requests, phase[r] = "queued"
      PROVE  \/ \E i \in 1..Len(batch) : batch[i] = r
             \/ queue[1] = r
             \/ \E i \in 1..Len(queue') : queue'[i] = r
  <2>1. r # None
    BY Constants
  <2>3. CASE \E i \in 1..Len(queue) : queue[i] = r
    <3>1. PICK i \in 1..Len(queue) : queue[i] = r
      BY <2>3
    <3>3. CASE i # 1
      <4>1. i - 1 \in 1..(Len(queue) - 1) /\ i - 1 \in 1..Len(queue') /\ (i - 1) + 1 = i
        BY <1>2, <1>4, <3>3
      <4>2. queue'[i - 1] = queue[i]
        BY <1>2, <4>1
      <4> QED
        BY <3>1, <4>1, <4>2
    <3> QED
      BY <3>1, <3>3
  <2> QED
    BY <1>9, <2>1, <2>3 DEF Line
<1>10. \A r \in Requests :
           /\ sequence[r] = 0 => phase[r] \in Before \union {"dropped"}
           /\ sequence[r] > 0 => phase[r] = "queued" \/ (phase[r] \in Outcomes /\ sequence[r] <= settled)
  BY DEF Line
<1>11. \A i \in 1..Len(batch) : phase[batch[i]] = "queued" /\ sequence[batch[i]] = settled + i
  BY DEF Line
<1> QED
  BY <1>2, <1>4, <1>5, <1>6, <1>7, <1>8, <1>9, <1>10, <1>11 DEF Line

LEMMA LineUncarries ==
    ASSUME Types, Line, worker.carry \in Requests, batch = <<>>, worker'.carry = None,
           batch' = Append(batch, worker.carry), UNCHANGED <<queue, phase, sequence, settled>>
    PROVE  Line' /\ batch' \in Seq(Requests)
<1>1. queue \in Seq(Requests) /\ batch \in Seq(Requests) /\ settled \in Nat
  BY TypeParts
<1>2. Len(batch) = 0 /\ Len(queue) \in Nat
  BY <1>1, LengthIs
<1>3. batch' \in Seq(Requests) /\ Len(batch') = 1 /\ batch'[1] = worker.carry
  <2>1. batch' \in Seq(Requests) /\ Len(batch') = Len(batch) + 1 /\ batch'[Len(batch) + 1] = worker.carry
    BY <1>1, Appended
  <2> QED
    BY <1>2, <2>1
<1>4. Carried = 1 /\ Carried' = 0 /\ Admitted' = Admitted
  BY Constants DEF Carried, Admitted
<1>5. \A i \in 1..Len(batch') : i = 1
  BY <1>3
<1>6. phase[batch'[1]] = "queued" /\ sequence[batch'[1]] = settled + 1
  BY <1>1, <1>2, <1>3, Constants DEF Line
<1>7. \A i \in 1..Len(queue) : phase[queue[i]] = "queued" /\ sequence[queue[i]] = settled + 1 + 0 + i
  <2>1. \A i \in 1..Len(queue) : phase[queue[i]] = "queued" /\ sequence[queue[i]] = settled + 0 + 1 + i
    BY <1>2, <1>4 DEF Line
  <2> QED
    BY <1>1, <2>1
<1>8. Cardinality(Admitted) = settled + 1 + 0 + Len(queue)
  BY <1>1, <1>2, <1>4 DEF Line
<1>9. \A r \in Requests : phase[r] = "queued" =>
          (\E i \in 1..Len(batch') : batch'[i] = r) \/ (\E i \in 1..Len(queue) : queue[i] = r)
  <2>1. 1 \in 1..Len(batch') /\ 1..Len(batch) = {}
    BY <1>2, <1>3
  <2> QED
    BY <1>3, <2>1 DEF Line
<1>10. \A r \in Requests :
           /\ sequence[r] = 0 => phase[r] \in Before \union {"dropped"}
           /\ sequence[r] > 0 => phase[r] = "queued" \/ (phase[r] \in Outcomes /\ sequence[r] <= settled)
  BY DEF Line
<1> QED
  BY <1>3, <1>4, <1>5, <1>6, <1>7, <1>8, <1>9, <1>10 DEF Line

LEMMA LineSame ==
    ASSUME Line, worker'.carry = worker.carry, UNCHANGED <<queue, batch, phase, sequence, settled>>
    PROVE  Line'
<1>1. Carried' = Carried /\ Admitted' = Admitted
  BY DEF Carried, Admitted
<1> QED
  BY <1>1 DEF Line

LEMMA CommitGives ==
    ASSUME Types, NEW b \in Seq(Requests), b # <<>>, NEW why \in {"full", "overflow", "timer", "flush"},
           NEW carry \in Requests \union {None}, Commit(b, why, carry)
    PROVE  /\ batch' = b /\ worker' \in WorkerRecords /\ worker'.at \in {"appending", "settling"}
           /\ worker'.why = why /\ worker'.carry = carry /\ worker'.flusher = worker.flusher
           /\ charge' \in [Requests -> Nat]
<1>1. worker \in WorkerRecords /\ charge \in [Requests -> Nat] /\ Scratch \in Nat
  BY TypeParts, Constants
<1>2. PICK at \in {"appending", "settling"} :
          worker' = [worker EXCEPT !.why = why, !.carry = carry, !.at = at,
                                   !.outcome = "discarded", !.failed = FALSE]
  BY DEF Commit
<1>3. worker' = [at |-> at, why |-> why, flusher |-> worker.flusher, carry |-> carry,
                 outcome |-> "discarded", failed |-> FALSE]
  BY <1>1, <1>2 DEF WorkerRecords
<1>4. worker' \in WorkerRecords
  BY <1>1, <1>3 DEF WorkerRecords, Outcomes
<1>5. b[1] \in Requests
  BY LengthIs
<1>6. charge' \in [Requests -> Nat]
  BY <1>1, <1>5 DEF Commit, Grow
<1> QED
  BY <1>3, <1>4, <1>6 DEF Commit

LEMMA AcceptGives ==
    ASSUME Types, NEW r \in Requests, Accept(r)
    PROVE  /\ batch' = Append(batch, r) /\ batch' # <<>> /\ worker' \in WorkerRecords
           /\ worker'.carry = None /\ worker'.flusher = worker.flusher
           /\ charge' \in [Requests -> Nat]
           /\ \/ worker'.at \in {"appending", "settling"} /\ worker'.why = "full"
              \/ worker'.at = "select" /\ worker.flusher = None
              \/ worker'.at = "drain" /\ worker.flusher # None
<1> DEFINE b == Append(batch, r)
<1>1. worker \in WorkerRecords /\ charge \in [Requests -> Nat] /\ batch \in Seq(Requests)
  BY TypeParts
<1>2. b \in Seq(Requests) /\ b # <<>>
  BY <1>1, Appended
<1>3. CASE Full(b)
  <2>1. Commit(b, "full", None)
    BY <1>3 DEF Accept
  <2> HIDE DEF b
  <2> QED
    BY <1>2, <2>1, CommitGives DEF b
<1>4. CASE ~Full(b)
  <2>1. /\ batch' = b /\ charge' = charge
        /\ worker' = [worker EXCEPT !.carry = None, !.at = IF worker.flusher = None THEN "select" ELSE "drain"]
    BY <1>4 DEF Accept
  <2>2. worker' = [at |-> IF worker.flusher = None THEN "select" ELSE "drain", why |-> worker.why,
                   flusher |-> worker.flusher, carry |-> None,
                   outcome |-> worker.outcome, failed |-> worker.failed]
    BY <1>1, <2>1 DEF WorkerRecords
  <2>3. worker' \in WorkerRecords
    BY <1>1, <2>2 DEF WorkerRecords
  <2> QED
    BY <1>1, <1>2, <2>1, <2>2, <2>3
<1> QED
  BY <1>3, <1>4

\* A commit begins, or the worker has accepted the record.
LEMMA CommitPlaces ==
    ASSUME Places, batch' # <<>>,
           \/ worker'.at \in {"appending", "settling"} /\ worker'.why \in {"full", "timer"} /\ worker'.carry = None
           \/ worker'.at \in {"appending", "settling"} /\ worker'.why = "overflow" /\ worker'.carry # None
           \/ worker'.at \in {"appending", "settling"} /\ worker'.why = "flush" /\ worker'.carry = None
              /\ worker'.flusher # None
           \/ worker'.at = "select" /\ worker'.carry = None /\ worker'.flusher = None
           \/ worker'.at = "drain" /\ worker'.carry = None /\ worker'.flusher # None
    PROVE  Places'
  BY DEF Places

LEMMA WorkingFacts ==
    ASSUME Working
    PROVE  UNCHANGED <<lease, phase, weight, stale, accepting, sequence, scopeLatest, settled, durable, scope,
                       scopeAccepting, terminal, signaled, shutdown, maintenance>>
  BY DEF Working, admitVars, scopeVars, ownerVars

\* Nothing about the flushes moves.
LEMMA FlushIdle ==
    ASSUME IndInv, UNCHANGED flush, worker'.flusher = worker.flusher
    PROVE  /\ flush' \in [Callers -> [at : {"idle", "asking", "asked", "ok", "error"}, target : Nat]]
           /\ \A c \in Callers : /\ flush'[c].target = flush[c].target
                                 /\ flush[c].at = "ok" => flush'[c].at = "ok"
                                 /\ flush'[c].at = "ok" => flush[c].at = "ok" \/ settled >= flush[c].target
                                 /\ flush'[c].at = "asked" => worker'.flusher = c
  BY TypeParts DEF IndInv, Flushes

LEMMA CarryNone ==
    ASSUME Places, worker.at \in {"select", "drain", "exiting", "exited"}
    PROVE  worker.carry = None
  BY DEF Places

LEMMA TakeRecordKeeps ==
    ASSUME IndInv, TakeRecord
    PROVE  IndInv'
<1> DEFINE r == Head(queue)
<1>1. Types /\ Places /\ Line
  BY DEF IndInv
<1>2. /\ worker.at \in {"select", "drain"} /\ queue # <<>> /\ queue' = Tail(queue) /\ UNCHANGED flush
      /\ (Commit(batch, "overflow", r) /\ batch # <<>>) \/ Accept(r)
  BY DEF TakeRecord
<1>3. Working
  BY DEF TakeRecord
<1>4. UNCHANGED <<lease, phase, weight, stale, accepting, sequence, scopeLatest, settled, durable, scope,
                  scopeAccepting, terminal, signaled, shutdown, maintenance>>
  BY <1>3, WorkingFacts
<1>5. worker.carry = None
  BY <1>1, <1>2, CarryNone
<1>6. r \in Requests /\ batch \in Seq(Requests) /\ None \notin Requests
  BY <1>1, <1>2, TypeParts, Shortened, Constants
<1> HIDE DEF r
<1>7. CASE Accept(r)
  <2>1. /\ batch' = Append(batch, r) /\ batch' # <<>> /\ worker' \in WorkerRecords
        /\ worker'.carry = None /\ worker'.flusher = worker.flusher
        /\ charge' \in [Requests -> Nat]
        /\ \/ worker'.at \in {"appending", "settling"} /\ worker'.why = "full"
           \/ worker'.at = "select" /\ worker.flusher = None
           \/ worker'.at = "drain" /\ worker.flusher # None
    BY <1>1, <1>6, <1>7, AcceptGives
  <2>2. Line' /\ queue' \in Seq(Requests) /\ batch' \in Seq(Requests) /\ Len(queue') <= Len(queue)
    BY <1>1, <1>2, <1>4, <1>5, <2>1, LineTaken DEF r
  <2>3. Places'
    BY <1>1, <2>1, CommitPlaces
  <2> QED
    BY <1>2, <1>4, <2>1, <2>2, <2>3, FlushIdle, WorkerKeeps
<1>8. CASE Commit(batch, "overflow", r) /\ batch # <<>>
  <2>1. /\ batch' = batch /\ worker' \in WorkerRecords /\ worker'.at \in {"appending", "settling"}
        /\ worker'.why = "overflow" /\ worker'.carry = r /\ worker'.flusher = worker.flusher
        /\ charge' \in [Requests -> Nat]
    BY <1>1, <1>6, <1>8, CommitGives
  <2>2. Line' /\ queue' \in Seq(Requests) /\ Len(queue') <= Len(queue)
    BY <1>1, <1>2, <1>4, <1>5, <2>1, LineCarries DEF r
  <2>3. Places'
    BY <1>1, <1>6, <1>8, <2>1, CommitPlaces
  <2>4. batch' \in Seq(Requests)
    BY <1>6, <2>1
  <2> QED
    BY <1>2, <1>4, <2>1, <2>2, <2>3, <2>4, FlushIdle, WorkerKeeps
<1> QED
  BY <1>2, <1>7, <1>8

LEMMA AcceptCarryKeeps ==
    ASSUME IndInv, AcceptCarry
    PROVE  IndInv'
<1>1. Types /\ Places /\ Line
  BY DEF IndInv
<1>2. worker.at = "carrying" /\ Accept(worker.carry) /\ Working /\ UNCHANGED <<queue, flush>>
  BY DEF AcceptCarry
<1>3. UNCHANGED <<lease, phase, weight, stale, accepting, sequence, scopeLatest, settled, durable, scope,
                  scopeAccepting, terminal, signaled, shutdown, maintenance>>
  BY <1>2, WorkingFacts
<1>4. worker.carry \in Requests /\ batch = <<>>
  BY <1>1, <1>2, TypeParts DEF Places, WorkerRecords
<1>5. /\ batch' = Append(batch, worker.carry) /\ batch' # <<>> /\ worker' \in WorkerRecords
      /\ worker'.carry = None /\ worker'.flusher = worker.flusher
      /\ charge' \in [Requests -> Nat]
      /\ \/ worker'.at \in {"appending", "settling"} /\ worker'.why = "full"
         \/ worker'.at = "select" /\ worker.flusher = None
         \/ worker'.at = "drain" /\ worker.flusher # None
  BY <1>1, <1>2, <1>4, AcceptGives
<1>6. Line' /\ batch' \in Seq(Requests)
  BY <1>1, <1>2, <1>3, <1>4, <1>5, LineUncarries
<1>7. Places'
  BY <1>1, <1>5, CommitPlaces
<1>8. queue' \in Seq(Requests) /\ Len(queue') <= Len(queue)
  BY <1>1, <1>2, TypeParts, LengthIs
<1> QED
  BY <1>2, <1>3, <1>5, <1>6, <1>7, <1>8, FlushIdle, WorkerKeeps

LEMMA FlushTimerKeeps ==
    ASSUME IndInv, FlushTimer
    PROVE  IndInv'
<1>1. Types /\ Places /\ Line
  BY DEF IndInv
<1>2. worker.at = "select" /\ batch # <<>> /\ Commit(batch, "timer", None) /\ Working /\ UNCHANGED <<queue, flush>>
  BY DEF FlushTimer
<1>3. UNCHANGED <<lease, phase, weight, stale, accepting, sequence, scopeLatest, settled, durable, scope,
                  scopeAccepting, terminal, signaled, shutdown, maintenance>>
  BY <1>2, WorkingFacts
<1>4. worker.carry = None /\ batch \in Seq(Requests) /\ queue \in Seq(Requests)
  BY <1>1, <1>2, CarryNone, TypeParts
<1>5. /\ batch' = batch /\ worker' \in WorkerRecords /\ worker'.at \in {"appending", "settling"}
      /\ worker'.why = "timer" /\ worker'.carry = None /\ worker'.flusher = worker.flusher
      /\ charge' \in [Requests -> Nat]
  BY <1>1, <1>2, <1>4, CommitGives
<1>6. Line'
  BY <1>1, <1>2, <1>3, <1>4, <1>5, LineSame
<1>7. Places'
  BY <1>1, <1>2, <1>5, CommitPlaces
<1>8. batch' \in Seq(Requests) /\ queue' \in Seq(Requests) /\ Len(queue') <= Len(queue)
  BY <1>2, <1>4, <1>5, LengthIs
<1> QED
  BY <1>2, <1>3, <1>5, <1>6, <1>7, <1>8, FlushIdle, WorkerKeeps

LEMMA AppendReturnsKeeps ==
    ASSUME IndInv, AppendReturns
    PROVE  IndInv'
<1>1. Types /\ Places /\ Line
  BY DEF IndInv
<1>2. worker.at = "appending" /\ Working /\ UNCHANGED <<charge, queue, batch, flush>>
  BY DEF AppendReturns
<1>3. UNCHANGED <<lease, phase, weight, stale, accepting, sequence, scopeLatest, settled, durable, scope,
                  scopeAccepting, terminal, signaled, shutdown, maintenance>>
  BY <1>2, WorkingFacts
<1>4. PICK outcome \in Outcomes :
          worker' = [worker EXCEPT !.at = "settling", !.outcome = outcome, !.failed = outcome # "persisted"]
  BY DEF AppendReturns
<1>5. worker \in WorkerRecords
  BY <1>1, TypeParts
<1>6. worker' = [at |-> "settling", why |-> worker.why, flusher |-> worker.flusher, carry |-> worker.carry,
                 outcome |-> outcome, failed |-> outcome # "persisted"]
  BY <1>4, <1>5 DEF WorkerRecords
<1>7. worker' \in WorkerRecords
  <2>1. (outcome # "persisted") \in BOOLEAN
    BY Zenon
  <2> QED
    BY <1>5, <1>6, <2>1 DEF WorkerRecords
<1>8. Line'
  BY <1>1, <1>2, <1>3, <1>6, LineSame
<1>9. Places'
  <2>1. worker.why # "exit"
    BY <1>1, <1>2 DEF Places
  <2> QED
    BY <1>1, <1>2, <1>3, <1>6, <2>1 DEF Places
<1>10. charge' \in [Requests -> Nat] /\ batch' \in Seq(Requests) /\ queue' \in Seq(Requests) /\ Len(queue') <= Len(queue)
  BY <1>1, <1>2, TypeParts, LengthIs
<1>11. worker'.flusher = worker.flusher
  BY <1>6
<1> QED
  BY <1>2, <1>3, <1>7, <1>8, <1>9, <1>10, <1>11, FlushIdle, WorkerKeeps

LEMMA FlushMoves ==
    ASSUME Types, NEW c \in Callers, NEW to \in {"idle", "asking", "asked", "ok", "error"},
           flush' = [flush EXCEPT ![c].at = to]
    PROVE  /\ flush' \in [Callers -> [at : {"idle", "asking", "asked", "ok", "error"}, target : Nat]]
           /\ flush'[c].at = to /\ flush'[c].target = flush[c].target
           /\ \A x \in Callers \ {c} : flush'[x] = flush[x]
<1>1. flush \in [Callers -> [at : {"idle", "asking", "asked", "ok", "error"}, target : Nat]]
  BY TypeParts
<1> QED
  BY <1>1

\* The worker answers the flush it serves, and serves nobody then.
LEMMA ReplyGives ==
    ASSUME Types, Flushes, NEW ok, worker.flusher \in Callers, Reply(worker.flusher, ok)
    PROVE  /\ flush' \in [Callers -> [at : {"idle", "asking", "asked", "ok", "error"}, target : Nat]]
           /\ \A c \in Callers : /\ flush'[c].target = flush[c].target
                                 /\ flush[c].at = "ok" => flush'[c].at = "ok"
                                 /\ flush'[c].at = "ok" => flush[c].at = "ok" \/ (c = worker.flusher /\ ok)
                                 /\ flush'[c].at # "asked"
<1> DEFINE w == worker.flusher
           to == IF flush[w].at # "asked" THEN flush[w].at ELSE IF ok THEN "ok" ELSE "error"
<1>1. flush \in [Callers -> [at : {"idle", "asking", "asked", "ok", "error"}, target : Nat]]
  BY TypeParts
<1>2. w \in Callers /\ to \in {"idle", "asking", "asked", "ok", "error"} /\ to # "asked"
  BY <1>1
<1>3. /\ to = "ok" => flush[w].at = "ok" \/ ok
      /\ flush[w].at = "ok" => to = "ok"
  OBVIOUS
<1>4. flush' = [flush EXCEPT ![w].at = to]
  BY <1>1 DEF Reply
<1>5. \A c \in Callers : flush[c].at = "asked" => c = w
  BY DEF Flushes
<1> HIDE DEF w, to
<1>6. /\ flush' \in [Callers -> [at : {"idle", "asking", "asked", "ok", "error"}, target : Nat]]
      /\ flush'[w].at = to /\ flush'[w].target = flush[w].target
      /\ \A x \in Callers \ {w} : flush'[x] = flush[x]
  BY <1>2, <1>4, FlushMoves
<1> QED
  BY <1>2, <1>3, <1>5, <1>6 DEF w

LEMMA IdleWorker ==
    /\ Idle \in WorkerRecords /\ Idle.at = "select" /\ Idle.flusher = None /\ Idle.carry = None
  BY DEF Idle, WorkerRecords, Outcomes

LEMMA TakeFlushKeeps ==
    ASSUME IndInv, NEW c \in Callers, TakeFlush(c)
    PROVE  IndInv'
<1>1. Types /\ Places /\ Line /\ Flushes
  BY DEF IndInv
<1>2. /\ worker.at = "select" /\ flush[c].at = "asking" /\ flush' = [flush EXCEPT ![c].at = "asked"]
      /\ worker' = [worker EXCEPT !.at = "drain", !.flusher = c]
      /\ Working /\ UNCHANGED <<charge, queue, batch>>
  BY DEF TakeFlush
<1>3. UNCHANGED <<lease, phase, weight, stale, accepting, sequence, scopeLatest, settled, durable, scope,
                  scopeAccepting, terminal, signaled, shutdown, maintenance>>
  BY <1>2, WorkingFacts
<1>4. worker \in WorkerRecords /\ c # None
  BY <1>1, TypeParts, Constants
<1>5. worker' = [at |-> "drain", why |-> worker.why, flusher |-> c, carry |-> worker.carry,
                 outcome |-> worker.outcome, failed |-> worker.failed]
  BY <1>2, <1>4 DEF WorkerRecords
<1>6. worker' \in WorkerRecords
  BY <1>4, <1>5 DEF WorkerRecords
<1>7. Line'
  BY <1>1, <1>2, <1>3, <1>5, LineSame
<1>8. worker.carry = None /\ worker.flusher = None
  BY <1>1, <1>2 DEF Places
<1>9. Places'
  BY <1>1, <1>2, <1>3, <1>4, <1>5, <1>8 DEF Places
<1>10. charge' \in [Requests -> Nat] /\ batch' \in Seq(Requests) /\ queue' \in Seq(Requests) /\ Len(queue') <= Len(queue)
  BY <1>1, <1>2, TypeParts, LengthIs
<1>11. /\ flush' \in [Callers -> [at : {"idle", "asking", "asked", "ok", "error"}, target : Nat]]
       /\ flush'[c].at = "asked" /\ flush'[c].target = flush[c].target
       /\ \A x \in Callers \ {c} : flush'[x] = flush[x]
  BY <1>1, <1>2, FlushMoves
<1>12. \A x \in Callers : flush[x].at # "asked"
  BY <1>1, <1>8, Constants DEF Flushes
<1>13. \A x \in Callers : /\ flush'[x].target = flush[x].target
                          /\ flush[x].at = "ok" => flush'[x].at = "ok"
                          /\ flush'[x].at = "ok" => flush[x].at = "ok" \/ settled >= flush[x].target
                          /\ flush'[x].at = "asked" => worker'.flusher = x
  BY <1>2, <1>5, <1>11, <1>12
<1> QED
  BY <1>2, <1>3, <1>6, <1>7, <1>9, <1>10, <1>11, <1>13, WorkerKeeps

LEMMA DrainEndsKeeps ==
    ASSUME IndInv, DrainEnds
    PROVE  IndInv'
<1>1. Types /\ Places /\ Line /\ Flushes
  BY DEF IndInv
<1>2. worker.at = "drain" /\ Working /\ UNCHANGED queue
  BY DEF DrainEnds
<1>3. UNCHANGED <<lease, phase, weight, stale, accepting, sequence, scopeLatest, settled, durable, scope,
                  scopeAccepting, terminal, signaled, shutdown, maintenance>>
  BY <1>2, WorkingFacts
<1>4. /\ worker.carry = None /\ batch \in Seq(Requests) /\ queue \in Seq(Requests)
      /\ queue' \in Seq(Requests) /\ Len(queue') <= Len(queue)
  BY <1>1, <1>2, CarryNone, TypeParts, LengthIs
<1>5. worker.flusher # None /\ worker.flusher \in Callers
  BY <1>1, <1>2, TypeParts DEF Places, WorkerRecords
<1>6. CASE batch # <<>> /\ Commit(batch, "flush", None) /\ UNCHANGED flush
  <2>1. /\ batch' = batch /\ worker' \in WorkerRecords /\ worker'.at \in {"appending", "settling"}
        /\ worker'.why = "flush" /\ worker'.carry = None /\ worker'.flusher = worker.flusher
        /\ charge' \in [Requests -> Nat]
    BY <1>1, <1>4, <1>6, CommitGives
  <2>2. Line'
    BY <1>1, <1>2, <1>3, <1>4, <2>1, LineSame
  <2>3. Places'
    BY <1>1, <1>5, <1>6, <2>1, CommitPlaces
  <2>4. batch' \in Seq(Requests)
    BY <1>4, <2>1
  <2> QED
    BY <1>2, <1>3, <1>4, <1>6, <2>1, <2>2, <2>3, <2>4, FlushIdle, WorkerKeeps
<1>7. CASE /\ batch = <<>> /\ Reply(worker.flusher, settled >= flush[worker.flusher].target)
           /\ worker' = Idle /\ UNCHANGED <<charge, batch>>
  <2>1. /\ flush' \in [Callers -> [at : {"idle", "asking", "asked", "ok", "error"}, target : Nat]]
        /\ \A c \in Callers :
               /\ flush'[c].target = flush[c].target
               /\ flush[c].at = "ok" => flush'[c].at = "ok"
               /\ flush'[c].at = "ok" =>
                      flush[c].at = "ok" \/ (c = worker.flusher /\ settled >= flush[worker.flusher].target)
               /\ flush'[c].at # "asked"
    <3> DEFINE ok == settled >= flush[worker.flusher].target
    <3>1. Reply(worker.flusher, ok)
      BY <1>7
    <3> HIDE DEF ok
    <3>2. /\ flush' \in [Callers -> [at : {"idle", "asking", "asked", "ok", "error"}, target : Nat]]
          /\ \A c \in Callers :
                 /\ flush'[c].target = flush[c].target
                 /\ flush[c].at = "ok" => flush'[c].at = "ok"
                 /\ flush'[c].at = "ok" => flush[c].at = "ok" \/ (c = worker.flusher /\ ok)
                 /\ flush'[c].at # "asked"
      BY <1>1, <1>5, <3>1, ReplyGives
    <3> QED
      BY <3>2 DEF ok
  <2>2. \A c \in Callers : /\ flush'[c].target = flush[c].target
                           /\ flush[c].at = "ok" => flush'[c].at = "ok"
                           /\ flush'[c].at = "ok" => flush[c].at = "ok" \/ settled >= flush[c].target
                           /\ flush'[c].at = "asked" => worker'.flusher = c
    BY <2>1
  <2>3. worker' \in WorkerRecords /\ worker'.carry = None /\ worker'.at = "select" /\ worker'.flusher = None
    BY <1>7, IdleWorker
  <2>4. Line'
    BY <1>1, <1>2, <1>3, <1>4, <1>7, <2>3, LineSame
  <2>5. Places'
    BY <1>7, <2>3 DEF Places
  <2>6. charge' \in [Requests -> Nat] /\ batch' \in Seq(Requests)
    BY <1>1, <1>4, <1>7, TypeParts
  <2> QED
    BY <1>2, <1>3, <1>4, <2>1, <2>2, <2>3, <2>4, <2>5, <2>6, WorkerKeeps
<1> QED
  BY <1>6, <1>7 DEF DrainEnds

LEMMA ExitKeeps ==
    ASSUME IndInv, Exit
    PROVE  IndInv'
<1>1. Types /\ Places /\ Line /\ Flushes
  BY DEF IndInv
<1>2. Working /\ UNCHANGED <<charge, flush>> /\ worker.at \in {"select", "exiting"}
  BY DEF Exit
<1>3. UNCHANGED <<lease, phase, weight, stale, accepting, sequence, scopeLatest, settled, durable, scope,
                  scopeAccepting, terminal, signaled, shutdown, maintenance>>
  BY <1>2, WorkingFacts
<1>4. Canceled /\ Canceled'
  <2>1. Canceled
    BY <1>1 DEF Exit, Places
  <2> QED
    BY <1>3, <2>1 DEF Canceled
<1>5. worker.carry = None /\ worker.flusher = None /\ batch \in Seq(Requests) /\ queue \in Seq(Requests)
  BY <1>1, <1>2, TypeParts DEF Places
<1>6. PICK at \in {"exited", "settling"} :
          /\ worker' = [Idle EXCEPT !.why = "exit", !.at = at]
          /\ batch' = <<>> <=> at = "exited"
  BY DEF Exit
<1>7. worker' = [at |-> at, why |-> "exit", flusher |-> None, carry |-> None,
                 outcome |-> "discarded", failed |-> FALSE]
  BY <1>6 DEF Idle
<1>8. worker' \in WorkerRecords
  BY <1>7 DEF WorkerRecords, Outcomes
<1>9. /\ Line' /\ batch' \in Seq(Requests) /\ queue' \in Seq(Requests) /\ Len(queue') <= Len(queue)
      /\ batch' = <<>> => queue' = <<>>
  <2>1. CASE batch # <<>> \/ queue = <<>>
    <3>1. UNCHANGED <<batch, queue>>
      BY <2>1 DEF Exit
    <3>2. Line'
      BY <1>1, <1>3, <1>5, <1>7, <3>1, LineSame
    <3> QED
      BY <1>5, <2>1, <3>1, <3>2, LengthIs
  <2>2. CASE ~(batch # <<>> \/ queue = <<>>)
    <3>1. batch' = <<Head(queue)>> /\ queue' = Tail(queue)
      BY <2>2 DEF Exit
    <3>2. Head(queue) \in Requests /\ batch = <<>> /\ queue # <<>>
      BY <1>5, <2>2, Shortened
    <3>3. batch' = Append(batch, Head(queue)) /\ batch' # <<>>
      BY <3>1, <3>2
    <3>4. Line' /\ queue' \in Seq(Requests) /\ batch' \in Seq(Requests) /\ Len(queue') <= Len(queue)
      BY <1>1, <1>3, <1>5, <1>7, <3>1, <3>2, <3>3, LineTaken
    <3> QED
      BY <3>3, <3>4
  <2> QED
    BY <2>1, <2>2
<1>10. Places'
  <2>1. /\ worker'.at = at /\ worker'.why = "exit" /\ worker'.flusher = None /\ worker'.carry = None
        /\ at = "settling" => batch' # <<>>
        /\ at = "exited" => batch' = <<>> /\ queue' = <<>>
    <3>1. worker'.at = at /\ worker'.why = "exit" /\ worker'.flusher = None /\ worker'.carry = None
      BY <1>7
    <3>2. (batch' = <<>>) <=> (at = "exited")
      BY <1>6, Zenon
    <3> QED
      BY <1>9, <3>1, <3>2, Zenon
  <2>2. CASE at = "exited"
    BY <1>4, <2>1, <2>2 DEF Places
  <2>3. CASE at = "settling"
    BY <1>4, <2>1, <2>3 DEF Places
  <2> QED
    BY <2>2, <2>3
<1>11. worker'.flusher = worker.flusher /\ charge' \in [Requests -> Nat]
  BY <1>1, <1>2, <1>5, <1>7, TypeParts
<1> QED
  BY <1>2, <1>3, <1>8, <1>9, <1>10, <1>11, FlushIdle, WorkerKeeps

-----------------------------------------------------------------------------
(* settle                                                                  *)

\* The last of the batch, by its number.
LEMMA LastIs ==
    ASSUME Types, Line, batch # <<>>
    PROVE  /\ Len(batch) \in Nat /\ Len(batch) >= 1 /\ settled \in Nat /\ durable \in Nat
           /\ LastOf(batch) = settled + Len(batch)
           /\ \A i \in 1..Len(batch) : sequence[batch[i]] = settled + i
<1>1. batch \in Seq(Requests) /\ settled \in Nat /\ durable \in Nat
  BY TypeParts
<1>2. Len(batch) \in Nat /\ Len(batch) # 0
  BY <1>1, LengthIs
<1>3. Len(batch) \in 1..Len(batch)
  BY <1>2
<1> QED
  BY <1>1, <1>2, <1>3 DEF Line, LastOf

LEMMA SettleStatisticsKeeps ==
    ASSUME IndInv, SettleStatistics
    PROVE  IndInv'
<1>1. Types /\ Places /\ Line /\ Durables /\ ScopesTrue /\ Woken /\ Flushes /\ Storage
  BY DEF IndInv
<1>2. UNCHANGED <<lease, phase, weight, charge, stale, accepting, sequence, queue, batch, settled, scope,
                  scopeAccepting, terminal, signaled, flush, shutdown, maintenance>>
  BY DEF SettleStatistics, budgetVars, scopeVars, ownerVars
<1>3. worker.at = "settling" /\ worker' = [worker EXCEPT !.at = "releasing"]
  BY DEF SettleStatistics
<1>4. worker \in WorkerRecords /\ batch \in Seq(Requests) /\ batch # <<>>
  BY <1>1, <1>3, TypeParts DEF Places
<1>5. worker' = [at |-> "releasing", why |-> worker.why, flusher |-> worker.flusher, carry |-> worker.carry,
                 outcome |-> worker.outcome, failed |-> worker.failed]
  BY <1>3, <1>4 DEF WorkerRecords
<1>6. worker' \in WorkerRecords
  BY <1>4, <1>5 DEF WorkerRecords
<1>7. /\ Len(batch) \in Nat /\ Len(batch) >= 1 /\ settled \in Nat /\ durable \in Nat
      /\ LastOf(batch) = settled + Len(batch)
      /\ \A i \in 1..Len(batch) : sequence[batch[i]] = settled + i
  BY <1>1, <1>4, LastIs
<1>8. durable <= settled
  BY <1>1, <1>3 DEF Durables
<1>9. \/ durable' = durable
      \/ worker.outcome = "persisted" /\ durable' = settled + Len(batch) /\ durable = settled
  <2>1. CASE worker.outcome = "persisted" /\ (\E i \in DOMAIN batch : sequence[batch[i]] = durable + 1)
    <3>1. PICK i \in 1..Len(batch) : sequence[batch[i]] = durable + 1
      BY <1>4, <2>1
    <3>2. durable = settled
      BY <1>7, <1>8, <3>1
    <3>3. durable' = LastOf(batch)
      BY <2>1 DEF SettleStatistics, DurableAfter
    <3> QED
      BY <1>7, <2>1, <3>2, <3>3
  <2>2. CASE ~(worker.outcome = "persisted" /\ (\E i \in DOMAIN batch : sequence[batch[i]] = durable + 1))
    BY <2>2 DEF SettleStatistics, DurableAfter
  <2> QED
    BY <2>1, <2>2
<1>10. scopeLatest' \in [Scopes -> 0..Cardinality(Requests)]
  BY <1>1, TypeParts, AdmittedIsFinite DEF SettleStatistics
<1>11. Types'
  <2>1. durable' \in Nat
    BY <1>7, <1>9
  <2> QED
    BY <1>1, <1>2, <1>6, <1>10, <2>1, WaitingSame, TypeParts, TypesTogether
<1>12. Line'
  BY <1>1, <1>2, <1>5, LineSame
<1>13. Places'
  BY <1>1, <1>2, <1>3, <1>5 DEF Places, Canceled
<1>14. Durables'
  <2>1. \A r \in Requests : sequence[r] \in Nat
    BY <1>1, TypeParts, AdmittedIsFinite
  <2>2. CASE durable' = durable
    BY <1>1, <1>2, <1>8, <2>2 DEF Durables
  <2>3. CASE worker.outcome = "persisted" /\ durable' = settled + Len(batch) /\ durable = settled
    <3>1. \A r \in Requests : sequence[r] > 0 /\ sequence[r] <= settled => phase[r] = "persisted"
      BY <1>1, <2>1, <2>3 DEF Durables
    <3> QED
      BY <1>2, <1>5, <2>3, <3>1 DEF Durables
  <2> QED
    BY <1>9, <2>2, <2>3
<1>15. ScopesTrue' /\ Woken' /\ Storage'
  BY <1>1, <1>2, <1>3, ScopesStay, WokenStay, StorageStays
<1>16. \A r \in Requests : InFlight(r)' => InFlight(r) /\ phase[r] = "queued" /\ ~(\E i \in 1..Len(batch) : batch[i] = r)
  BY <1>2, <1>3, <1>4, <1>5, RangeIs DEF InFlight
<1>17. ASSUME NEW r \in Requests, InFlight(r)'
       PROVE  sequence[r] <= scopeLatest'[ScopeOf[r]]
  <2>1. sequence[r] \in Nat /\ sequence[r] > settled + Len(batch)
    BY <1>1, <1>7, <1>16, <1>17, InLine
  <2>2. sequence[r] <= scopeLatest[ScopeOf[r]] /\ ScopeOf[r] \in Scopes
    BY <1>1, <1>16, <1>17, Constants DEF Flushes
  <2>3. scopeLatest[ScopeOf[r]] \in Nat
    BY <1>1, <2>2, TypeParts, AdmittedIsFinite
  <2>4. ~(\E q \in Range(batch) : ScopeOf[q] = ScopeOf[r] /\ scopeLatest[ScopeOf[r]] <= sequence[q])
    <3>1. \A q \in Range(batch) : sequence[q] \in Nat /\ sequence[q] <= settled + Len(batch)
      BY <1>4, <1>7, RangeIs
    <3> QED
      BY <1>7, <2>1, <2>2, <2>3, <3>1
  <2>5. scopeLatest'[ScopeOf[r]] = scopeLatest[ScopeOf[r]]
    BY <2>2, <2>4 DEF SettleStatistics
  <2> QED
    BY <2>2, <2>5
<1>18. Flushes'
  <2>1. worker'.flusher = worker.flusher
    BY <1>5
  <2> QED
    BY <1>1, <1>2, <1>16, <1>17, <2>1 DEF Flushes
<1> QED
  BY <1>11, <1>12, <1>13, <1>14, <1>15, <1>18 DEF IndInv

\* What commit's caller does with the worker, and with the flush it serves.
LEMMA SettlerGives ==
    ASSUME Types, Places, Flushes, SettleRelease, settled' \in Nat, settled' >= settled
    PROVE  /\ worker' \in WorkerRecords /\ worker'.carry = worker.carry
           /\ \/ worker'.at = "carrying" /\ worker.carry # None
              \/ worker'.at = "exiting" /\ worker.carry = None /\ worker'.flusher = None /\ Canceled
              \/ worker'.at = "select" /\ worker.carry = None /\ worker'.flusher = None
              \/ worker'.at = "drain" /\ worker.carry = None /\ worker'.flusher # None
           /\ flush' \in [Callers -> [at : {"idle", "asking", "asked", "ok", "error"}, target : Nat]]
           /\ \A c \in Callers : /\ flush'[c].target = flush[c].target
                                 /\ flush[c].at = "ok" => flush'[c].at = "ok"
                                 /\ flush'[c].at = "ok" => flush[c].at = "ok" \/ settled' >= flush[c].target
                                 /\ flush'[c].at = "asked" => worker'.flusher = c
<1>1. worker \in WorkerRecords /\ worker.at = "releasing"
  BY TypeParts DEF SettleRelease
<1>2. /\ worker.why = "overflow" <=> worker.carry # None
      /\ worker.why = "exit" => worker.flusher = None /\ Canceled
  BY <1>1 DEF Places
<1>3. flush \in [Callers -> [at : {"idle", "asking", "asked", "ok", "error"}, target : Nat]]
  BY TypeParts
<1>4. ASSUME UNCHANGED flush, worker'.flusher = worker.flusher
      PROVE  /\ flush' \in [Callers -> [at : {"idle", "asking", "asked", "ok", "error"}, target : Nat]]
             /\ \A c \in Callers : /\ flush'[c].target = flush[c].target
                                   /\ flush[c].at = "ok" => flush'[c].at = "ok"
                                   /\ flush'[c].at = "ok" => flush[c].at = "ok" \/ settled' >= flush[c].target
                                   /\ flush'[c].at = "asked" => worker'.flusher = c
  BY <1>3, <1>4 DEF Flushes
<1>5. CASE worker.why = "overflow"
  <2>1. worker' = [worker EXCEPT !.at = "carrying", !.outcome = "discarded"] /\ UNCHANGED flush
    BY <1>5 DEF SettleRelease
  <2>2. worker' = [at |-> "carrying", why |-> worker.why, flusher |-> worker.flusher, carry |-> worker.carry,
                   outcome |-> "discarded", failed |-> worker.failed]
    BY <1>1, <2>1 DEF WorkerRecords
  <2>3. worker' \in WorkerRecords /\ worker'.at = "carrying" /\ worker'.carry = worker.carry
        /\ worker'.flusher = worker.flusher
    BY <1>1, <2>2 DEF WorkerRecords, Outcomes
  <2> QED
    BY <1>2, <1>4, <1>5, <2>1, <2>3
<1>6. CASE worker.why = "exit"
  <2>1. worker' = [worker EXCEPT !.at = "exiting"] /\ UNCHANGED flush
    BY <1>6 DEF SettleRelease
  <2>2. worker' = [at |-> "exiting", why |-> worker.why, flusher |-> worker.flusher, carry |-> worker.carry,
                   outcome |-> worker.outcome, failed |-> worker.failed]
    BY <1>1, <2>1 DEF WorkerRecords
  <2>3. worker' \in WorkerRecords /\ worker'.at = "exiting" /\ worker'.carry = worker.carry
        /\ worker'.flusher = worker.flusher
    BY <1>1, <2>2 DEF WorkerRecords
  <2> QED
    BY <1>2, <1>4, <1>6, <2>1, <2>3
<1> DEFINE answers == /\ worker.why \in {"full", "flush"} /\ worker.flusher # None
                      /\ worker.failed \/ worker.why = "flush"
<1>7. CASE worker.why \notin {"overflow", "exit"} /\ answers
  <2> DEFINE ok == ~worker.failed /\ settled' >= flush[worker.flusher].target
  <2>1. Reply(worker.flusher, ok) /\ worker' = Idle
    BY <1>7 DEF SettleRelease
  <2>2. worker.flusher \in Callers
    BY <1>1, <1>7 DEF WorkerRecords
  <2>3. ok => settled' >= flush[worker.flusher].target
    OBVIOUS
  <2> HIDE DEF ok
  <2>4. /\ flush' \in [Callers -> [at : {"idle", "asking", "asked", "ok", "error"}, target : Nat]]
        /\ \A c \in Callers :
               /\ flush'[c].target = flush[c].target
               /\ flush[c].at = "ok" => flush'[c].at = "ok"
               /\ flush'[c].at = "ok" => flush[c].at = "ok" \/ (c = worker.flusher /\ ok)
               /\ flush'[c].at # "asked"
    BY <2>1, <2>2, ReplyGives
  <2>5. worker' \in WorkerRecords /\ worker'.carry = None /\ worker'.at = "select" /\ worker'.flusher = None
    BY <2>1, IdleWorker
  <2>6. worker.carry = None
    BY <1>2, <1>7
  <2> QED
    BY <2>3, <2>4, <2>5, <2>6
<1>8. CASE worker.why \notin {"overflow", "exit"} /\ ~answers
  <2>1. /\ worker' = [worker EXCEPT !.outcome = "discarded", !.failed = FALSE,
                                    !.at = IF worker.flusher = None THEN "select" ELSE "drain"]
        /\ UNCHANGED flush
    BY <1>8 DEF SettleRelease
  <2>2. worker' = [at |-> IF worker.flusher = None THEN "select" ELSE "drain", why |-> worker.why,
                   flusher |-> worker.flusher, carry |-> worker.carry, outcome |-> "discarded", failed |-> FALSE]
    BY <1>1, <2>1 DEF WorkerRecords
  <2>3. /\ worker' \in WorkerRecords /\ worker'.carry = worker.carry /\ worker'.flusher = worker.flusher
        /\ worker.flusher = None => worker'.at = "select"
        /\ worker.flusher # None => worker'.at = "drain"
    BY <1>1, <2>2 DEF WorkerRecords, Outcomes
  <2>4. worker.carry = None
    BY <1>2, <1>8
  <2> QED
    BY <1>4, <2>1, <2>3, <2>4
<1> QED
  BY <1>5, <1>6, <1>7, <1>8

LEMMA SettleReleaseKeeps ==
    ASSUME IndInv, SettleRelease
    PROVE  IndInv'
<1> DEFINE In(r) == \E i \in 1..Len(batch) : batch[i] = r
<1>1. Types /\ Places /\ Line /\ Durables /\ ScopesTrue /\ Woken /\ Flushes /\ Storage
  BY DEF IndInv
<1>2. UNCHANGED <<lease, weight, stale, accepting, sequence, scopeLatest, queue, durable, scope, scopeAccepting,
                  terminal, signaled, shutdown, maintenance>>
  BY DEF SettleRelease, admitVars, scopeVars, ownerVars
<1>3. /\ worker.at = "releasing" /\ batch' = <<>> /\ ReleaseAll(Range(batch))
      /\ settled' = Max({settled, LastOf(batch)})
      /\ phase' = [r \in Requests |-> IF r \in Range(batch) THEN worker.outcome ELSE phase[r]]
  BY DEF SettleRelease
<1>4. batch \in Seq(Requests) /\ batch # <<>> /\ queue \in Seq(Requests) /\ worker.outcome \in Outcomes
  BY <1>1, <1>3, TypeParts DEF Places, WorkerRecords
<1>5. /\ Len(batch) \in Nat /\ Len(batch) >= 1 /\ settled \in Nat /\ durable \in Nat
      /\ LastOf(batch) = settled + Len(batch)
      /\ \A i \in 1..Len(batch) : sequence[batch[i]] = settled + i
  BY <1>1, <1>4, LastIs
<1>6. settled' = settled + Len(batch) /\ settled' \in Nat /\ settled' >= settled
  BY <1>3, <1>5, MaxIs
<1>7. /\ \A r \in Requests : In(r) => phase'[r] = worker.outcome
      /\ \A r \in Requests : ~In(r) => phase'[r] = phase[r]
      /\ phase' \in [Requests -> Phases]
  <2>1. \A r \in Requests : r \in Range(batch) <=> In(r)
    BY <1>4, RangeIs
  <2>2. phase \in [Requests -> Phases] /\ Outcomes \subseteq Phases
    BY <1>1, TypeParts DEF Phases
  <2> QED
    BY <1>3, <1>4, <2>1, <2>2
<1>8. \A r \in Requests : In(r) => phase[r] = "queued" /\ sequence[r] > settled /\ sequence[r] <= settled + Len(batch)
  BY <1>1, <1>5 DEF Line
<1>9. \A r \in Requests : phase[r] = "queued" => sequence[r] \in Nat /\ (In(r) <=> sequence[r] <= settled + Len(batch))
  BY <1>1, InLine
<1>10. \A r \in Requests : sequence[r] \in Nat
  BY <1>1, TypeParts, AdmittedIsFinite
<1> HIDE DEF In
<1>11. /\ worker' \in WorkerRecords /\ worker'.carry = worker.carry
       /\ \/ worker'.at = "carrying" /\ worker.carry # None
          \/ worker'.at = "exiting" /\ worker.carry = None /\ worker'.flusher = None /\ Canceled
          \/ worker'.at = "select" /\ worker.carry = None /\ worker'.flusher = None
          \/ worker'.at = "drain" /\ worker.carry = None /\ worker'.flusher # None
       /\ flush' \in [Callers -> [at : {"idle", "asking", "asked", "ok", "error"}, target : Nat]]
       /\ \A c \in Callers : /\ flush'[c].target = flush[c].target
                             /\ flush[c].at = "ok" => flush'[c].at = "ok"
                             /\ flush'[c].at = "ok" => flush[c].at = "ok" \/ settled' >= flush[c].target
                             /\ flush'[c].at = "asked" => worker'.flusher = c
  BY <1>1, <1>6, SettlerGives
<1>12. Types'
  <2>1. charge' \in [Requests -> Nat]
    BY <1>1, <1>3, ReleasedCharge
  <2>2. batch' \in Seq(Requests)
    BY <1>3
  <2>3. settled' \in Nat
    BY <1>6
  <2> QED
    BY <1>1, <1>2, <1>7, <1>11, <2>1, <2>2, <2>3, WaitingSame, TypeParts, TypesTogether
<1>13. Places'
  <2>1. Canceled' = Canceled
    BY <1>2 DEF Canceled
  <2> QED
    BY <1>3, <1>11, <2>1 DEF Places
<1>14. Line'
  <2>1. Len(batch') = 0 /\ 1..Len(batch') = {} /\ Carried' = Carried /\ Carried \in {0, 1} /\ Admitted' = Admitted
    BY <1>2, <1>3, <1>11 DEF Carried, Admitted
  <2>2. worker.carry # None =>
            phase'[worker.carry] = "queued" /\ sequence[worker.carry] = settled' + 0 + 1
    <3>1. SUFFICES ASSUME worker.carry # None
                   PROVE  phase'[worker.carry] = "queued" /\ sequence[worker.carry] = settled' + 0 + 1
      OBVIOUS
    <3>2. worker.carry \in Requests
      BY <1>1, <3>1, TypeParts DEF WorkerRecords
    <3>3. phase[worker.carry] = "queued" /\ sequence[worker.carry] = settled + Len(batch) + 1
      BY <1>1, <3>1 DEF Line
    <3>4. ~In(worker.carry)
      BY <1>5, <1>8, <3>2, <3>3
    <3> QED
      BY <1>5, <1>6, <1>7, <3>2, <3>3, <3>4
  <2>3. ASSUME NEW i \in 1..Len(queue)
        PROVE  phase'[queue[i]] = "queued" /\ sequence[queue[i]] = settled' + 0 + Carried + i
    <3>1. queue[i] \in Requests /\ i \in Nat /\ i >= 1
      BY <1>4, LengthIs
    <3>2. phase[queue[i]] = "queued" /\ sequence[queue[i]] = settled + Len(batch) + Carried + i
      BY <1>1 DEF Line
    <3>3. ~In(queue[i])
      BY <1>5, <1>8, <2>1, <3>1, <3>2
    <3> QED
      BY <1>5, <1>6, <1>7, <2>1, <3>1, <3>2, <3>3
  <2>4. Cardinality(Admitted) = settled' + 0 + Carried + Len(queue)
    <3>1. Len(queue) \in Nat
      BY <1>4, LengthIs
    <3> QED
      BY <1>1, <1>5, <1>6, <2>1, <3>1 DEF Line
  <2>5. ASSUME NEW r \in Requests
        PROVE  /\ sequence[r] = 0 => phase'[r] \in Before \union {"dropped"}
               /\ sequence[r] > 0 => phase'[r] = "queued" \/ (phase'[r] \in Outcomes /\ sequence[r] <= settled')
               /\ phase'[r] = "queued" => worker.carry = r \/ \E i \in 1..Len(queue) : queue[i] = r
    <3>1. CASE In(r)
      <4>1. phase'[r] \in Outcomes /\ sequence[r] > 0 /\ sequence[r] <= settled'
        BY <1>4, <1>5, <1>6, <1>7, <1>8, <1>10, <3>1
      <4> QED
        BY <4>1 DEF Outcomes
    <3>2. CASE ~In(r)
      <4>1. phase'[r] = phase[r]
        BY <1>7, <3>2
      <4>2. /\ sequence[r] = 0 => phase[r] \in Before \union {"dropped"}
            /\ sequence[r] > 0 => phase[r] = "queued" \/ (phase[r] \in Outcomes /\ sequence[r] <= settled)
            /\ phase[r] = "queued" => worker.carry = r \/ \E i \in 1..Len(queue) : queue[i] = r
        BY <1>1, <3>2 DEF Line, In
      <4> QED
        BY <1>5, <1>6, <1>10, <4>1, <4>2
    <3> QED
      BY <3>1, <3>2
  <2> QED
    BY <1>2, <1>11, <2>1, <2>2, <2>3, <2>4, <2>5 DEF Line
<1>15. Durables'
  <2>1. durable <= settled'
    BY <1>1, <1>5, <1>6 DEF Durables
  <2>2. ASSUME NEW r \in Requests, sequence[r] > 0, sequence[r] <= durable
        PROVE  phase'[r] = "persisted"
    <3>1. CASE sequence[r] <= settled
      <4>1. ~In(r)
        BY <1>5, <1>8, <1>10, <3>1
      <4>2. phase[r] = "persisted"
        BY <1>1, <2>2, <3>1 DEF Durables
      <4> QED
        BY <1>7, <4>1, <4>2
    <3>2. CASE sequence[r] > settled
      <4>1. phase[r] = "queued"
        BY <1>1, <1>5, <1>10, <2>2, <3>2 DEF Line
      <4>2. worker.outcome = "persisted" /\ sequence[r] <= settled + Len(batch)
        BY <1>1, <1>5, <1>10, <2>2, <3>2 DEF Durables
      <4> QED
        BY <1>7, <1>9, <4>1, <4>2
    <3> QED
      BY <1>5, <1>10, <3>1, <3>2
  <2> QED
    BY <1>2, <2>1, <2>2 DEF Durables
<1>16. ScopesTrue' /\ Woken'
  <2>1. \A x : Holders(x)' = Holders(x) /\ Owners(x)' = Owners(x)
    BY <1>2 DEF Holders, Owners
  <2>2. \A r \in Requests : phase'[r] = phase[r] \/ phase'[r] \in Outcomes
    BY <1>4, <1>7
  <2>3. \A r \in Requests : /\ phase'[r] = "idle" => lease[r] = "none"
                            /\ lease[r] = "released" => phase'[r] \notin Before
    <3>1. \A r \in Requests : /\ phase[r] = "idle" => lease[r] = "none"
                              /\ lease[r] = "released" => phase[r] \notin Before
      BY <1>1 DEF ScopesTrue
    <3>2. "idle" \notin Outcomes /\ Outcomes \intersect Before = {}
      BY DEF Outcomes, Before
    <3> QED
      BY <2>2, <3>1, <3>2
  <2>4. Woken'
    BY <1>1, <1>2, WokenStay
  <2> QED
    BY <1>1, <1>2, <2>1, <2>3, <2>4 DEF ScopesTrue
<1>17. Flushes'
  <2>1. \A r \in Requests : InFlight(r)' => InFlight(r)
    <3>1. \A r \in Requests : phase'[r] = "queued" => phase[r] = "queued" /\ ~In(r)
      <4>1. "queued" \notin Outcomes
        BY DEF Outcomes
      <4> QED
        BY <1>4, <1>7, <4>1
    <3>2. \A r \in Requests : InFlight(r)' => phase'[r] = "queued"
      BY DEF InFlight
    <3> QED
      BY <1>1, <3>1, <3>2, FlightIs DEF In
  <2>2. \A c \in Callers : flush'[c].at = "ok" => settled' >= flush'[c].target
    <3>1. \A c \in Callers : flush[c].target \in Nat
      BY <1>1, TypeParts
    <3>2. \A c \in Callers : flush[c].at = "ok" => settled >= flush[c].target
      BY <1>1 DEF Flushes
    <3> QED
      BY <1>5, <1>6, <1>11, <3>1, <3>2
  <2>3. Terminals \subseteq Callers
    BY Constants
  <2> QED
    BY <1>1, <1>2, <1>11, <2>1, <2>2, <2>3 DEF Flushes
<1>18. Storage'
  <2>1. Admitted' = Admitted /\ Owner \in Callers
    BY <1>2, Constants DEF Admitted
  <2> QED
    BY <1>1, <1>2, <1>3, <1>11, <2>1 DEF Storage
<1> QED
  BY <1>12, <1>13, <1>14, <1>15, <1>16, <1>17, <1>18 DEF IndInv

-----------------------------------------------------------------------------
(* The terminal calls                                                      *)

\* The places in which a call owns the preparation of its scope.
Preparing == {"draining", "drained", "flushing", "holding"}

LEMMA TerminatingKeeps ==
    ASSUME IndInv, Terminating, Types', ScopesTrue', Woken', Flushes', flush'[Owner] = flush[Owner]
    PROVE  IndInv'
<1>1. UNCHANGED <<phase, accepting, sequence, queue, batch, worker, settled, durable, shutdown, maintenance>>
  BY DEF Terminating, workerVars, ownerVars
<1>2. Types /\ Places /\ Line /\ Durables /\ Storage
  BY DEF IndInv
<1>3. Line' /\ Durables' /\ Places' /\ Storage'
  BY <1>1, <1>2, LineStays, DurablesStay, PlacesStay, StorageStays DEF Canceled
<1> QED
  BY <1>3 DEF IndInv

LEMMA TerminalMoves ==
    ASSUME Types, NEW t \in Terminals, NEW to \in TerminalPhases, terminal' = [terminal EXCEPT ![t] = to]
    PROVE  /\ terminal' \in [Terminals -> TerminalPhases] /\ terminal'[t] = to
           /\ \A x \in Terminals \ {t} : terminal'[x] = terminal[x]
           /\ Waiting \ {t} \subseteq Waiting'
           /\ to \in {"queued", "draining"} => t \in Waiting'
<1>1. /\ terminal' \in [Terminals -> TerminalPhases] /\ terminal'[t] = to
      /\ \A x \in Terminals \ {t} : terminal'[x] = terminal[x]
  BY TypeParts
<1> QED
  BY <1>1 DEF Waiting

LEMMA OwnersMove ==
    ASSUME Types, NEW t \in Terminals, NEW to \in TerminalPhases, terminal' = [terminal EXCEPT ![t] = to]
    PROVE  /\ \A x \in Scopes \ {TerminalOf[t]} : Owners(x)' = Owners(x)
           /\ to \in Preparing => Owners(TerminalOf[t])' = Owners(TerminalOf[t]) \union {t}
           /\ to \notin Preparing => Owners(TerminalOf[t])' = Owners(TerminalOf[t]) \ {t}
           /\ terminal[t] \in Preparing <=> t \in Owners(TerminalOf[t])
<1>1. terminal'[t] = to /\ \A x \in Terminals \ {t} : terminal'[x] = terminal[x]
  BY TerminalMoves
<1> QED
  BY <1>1 DEF Owners, Preparing

\* Who owns a scope's preparation owns it alone.
LEMMA OwnerAlone ==
    ASSUME ScopesTrue, NEW t \in Terminals, terminal[t] \in Preparing
    PROVE  scope[TerminalOf[t]].phase = "preparing" /\ Owners(TerminalOf[t]) = {t}
<1>1. t \in Owners(TerminalOf[t]) /\ TerminalOf[t] \in Scopes
  BY Constants DEF Owners, Preparing
<1>2. scope[TerminalOf[t]].phase = "preparing"
  BY <1>1 DEF ScopesTrue
<1>3. PICK u \in Terminals : Owners(TerminalOf[t]) = {u}
  BY <1>1, <1>2 DEF ScopesTrue
<1> QED
  BY <1>1, <1>2, <1>3

LEMMA PhaseOfScope ==
    ASSUME Types, NEW s \in Scopes, NEW p \in {"open", "preparing", "sealed"},
           scope' = [scope EXCEPT ![s].phase = p]
    PROVE  /\ scope' \in [Scopes -> [active : Nat, phase : {"open", "preparing", "sealed"}]]
           /\ scope'[s].phase = p
           /\ \A x \in Scopes : scope'[x].active = scope[x].active
           /\ \A x \in Scopes \ {s} : scope'[x] = scope[x]
<1>1. scope \in [Scopes -> [active : Nat, phase : {"open", "preparing", "sealed"}]]
  BY TypeParts
<1> QED
  BY <1>1

\* A call moves on, and the scope stays in its phase.
LEMMA ScopesStill ==
    ASSUME Types, ScopesTrue, NEW t \in Terminals, NEW to \in TerminalPhases,
           terminal' = [terminal EXCEPT ![t] = to], UNCHANGED <<lease, phase, scope>>,
           to \in Preparing <=> terminal[t] \in Preparing, to # "committed",
           to \in {"drained", "flushing", "holding"} => Holders(TerminalOf[t]) = {}
    PROVE  ScopesTrue'
<1>1. \A x : Holders(x)' = Holders(x)
  BY DEF Holders
<1>2. terminal'[t] = to /\ \A x \in Terminals \ {t} : terminal'[x] = terminal[x]
  BY TerminalMoves
<1>3. \A x \in Scopes : Owners(x)' = Owners(x)
  <2>1. \A x \in Scopes \ {TerminalOf[t]} : Owners(x)' = Owners(x)
    BY OwnersMove
  <2>2. CASE to \in Preparing
    <3>1. Owners(TerminalOf[t])' = Owners(TerminalOf[t]) \union {t} /\ t \in Owners(TerminalOf[t])
      BY <2>2, OwnersMove
    <3> QED
      BY <2>1, <3>1
  <2>3. CASE to \notin Preparing
    <3>1. Owners(TerminalOf[t])' = Owners(TerminalOf[t]) \ {t} /\ t \notin Owners(TerminalOf[t])
      BY <2>3, OwnersMove
    <3> QED
      BY <2>1, <3>1
  <2> QED
    BY <2>2, <2>3
<1>4. /\ \A x \in Terminals : terminal'[x] = "committed" => terminal[x] = "committed"
      /\ \A x \in Terminals : terminal'[x] \in {"drained", "flushing", "holding", "committed"} =>
             Holders(TerminalOf[x]) = {}
  BY <1>2 DEF ScopesTrue
<1> QED
  BY <1>1, <1>3, <1>4 DEF ScopesTrue

\* A call begins the preparation of its scope, or ends it.
LEMMA ScopesMove ==
    ASSUME Types, ScopesTrue, NEW t \in Terminals, NEW to \in TerminalPhases,
           NEW p \in {"open", "preparing", "sealed"},
           terminal' = [terminal EXCEPT ![t] = to], scope' = [scope EXCEPT ![TerminalOf[t]].phase = p],
           UNCHANGED <<lease, phase>>,
           \/ /\ p = "preparing" /\ scope[TerminalOf[t]].phase = "open" /\ to \in {"drained", "draining"}
              /\ to = "drained" => Holders(TerminalOf[t]) = {}
           \/ /\ p # "preparing" /\ terminal[t] \in Preparing /\ to \in {"failed", "aborted"}
           \/ /\ p = "sealed" /\ terminal[t] = "holding" /\ to = "committed"
    PROVE  ScopesTrue'
<1> DEFINE s == TerminalOf[t]
<1>1. \A x : Holders(x)' = Holders(x)
  BY DEF Holders
<1>2. terminal'[t] = to /\ \A x \in Terminals \ {t} : terminal'[x] = terminal[x]
  BY TerminalMoves
<1>3. s \in Scopes /\ \A x \in Terminals : TerminalOf[x] \in Scopes
  BY Constants
<1>4. /\ scope'[s].phase = p
      /\ \A x \in Scopes : scope'[x].active = scope[x].active
      /\ \A x \in Scopes \ {s} : scope'[x] = scope[x]
  <2> HIDE DEF s
  <2> QED
    BY <1>3, PhaseOfScope DEF s
<1>5. \A x \in Scopes \ {s} : Owners(x)' = Owners(x)
  BY OwnersMove
<1>6. scope[s].phase # "sealed" /\ (terminal[t] \in Preparing => Owners(s) = {t})
  <2>1. terminal[t] = "holding" => terminal[t] \in Preparing
    BY DEF Preparing
  <2> QED
    BY <2>1, OwnerAlone
<1>7. /\ p = "preparing" => Owners(s)' = {t}
      /\ p # "preparing" => Owners(s)' = {}
  <2>1. CASE p = "preparing"
    <3>1. Owners(s) = {} /\ to \in Preparing
      BY <1>3, <2>1 DEF ScopesTrue, Preparing
    <3> QED
      BY <2>1, <3>1, OwnersMove
  <2>2. CASE p # "preparing"
    <3>1. Owners(s) = {t} /\ to \notin Preparing
      BY <1>6, <2>2 DEF Preparing
    <3> QED
      BY <2>2, <3>1, OwnersMove
  <2> QED
    BY <2>1, <2>2
<1>8. \A x \in Terminals : terminal'[x] = "committed" => scope'[TerminalOf[x]].phase = "sealed"
  <2>1. ASSUME NEW x \in Terminals \ {t}, terminal'[x] = "committed"
        PROVE  scope'[TerminalOf[x]].phase = "sealed"
    <3>1. scope[TerminalOf[x]].phase = "sealed"
      BY <1>2, <2>1 DEF ScopesTrue
    <3> QED
      BY <1>3, <1>4, <1>6, <3>1
  <2>2. to = "committed" => p = "sealed"
    OBVIOUS
  <2> QED
    BY <1>2, <1>4, <2>1, <2>2
<1>9. \A x \in Terminals : terminal'[x] \in {"drained", "flushing", "holding", "committed"} =>
          Holders(TerminalOf[x]) = {}
  <2>1. to \in {"drained", "flushing", "holding", "committed"} => Holders(s) = {}
    BY DEF ScopesTrue
  <2> QED
    BY <1>2, <2>1 DEF ScopesTrue
<1>10. \A x \in Scopes : scope'[x].phase = "preparing" => \E u \in Terminals : Owners(x)' = {u}
  BY <1>3, <1>4, <1>5, <1>7 DEF ScopesTrue
<1>11. \A x \in Scopes : scope'[x].phase # "preparing" => Owners(x)' = {}
  BY <1>3, <1>4, <1>5, <1>7 DEF ScopesTrue
<1>12. \A r \in Requests : /\ phase[r] = "idle" => lease[r] = "none"
                           /\ lease[r] = "released" => phase[r] \notin Before
  BY DEF ScopesTrue
<1>13. \A x \in Scopes : scope'[x].active = Cardinality(Holders(x))
  BY <1>4 DEF ScopesTrue
<1> QED
  BY <1>1, <1>8, <1>9, <1>10, <1>11, <1>12, <1>13 DEF ScopesTrue

LEMMA WokenMove ==
    ASSUME Types, Woken, NEW t \in Terminals, NEW to \in TerminalPhases,
           terminal' = [terminal EXCEPT ![t] = to], UNCHANGED scopeAccepting,
           signaled \ {t} \subseteq signaled',
           \A x \in Scopes : scope'[x].active = scope[x].active,
           UNCHANGED scope \/ Waiting \ {t} \subseteq signaled',
           to = "draining" => scope[TerminalOf[t]].active # 0,
           to = "queued" => scopeAccepting /\ scope'[TerminalOf[t]].phase = "preparing"
    PROVE  Woken'
<1>1. terminal'[t] = to /\ \A x \in Terminals \ {t} : terminal'[x] = terminal[x]
  BY TerminalMoves
<1>2. \A x \in Terminals : TerminalOf[x] \in Scopes
  BY Constants
<1>3. ASSUME NEW x \in Terminals
      PROVE  /\ terminal'[x] = "draining" /\ scope'[TerminalOf[x]].active = 0 => x \in signaled'
             /\ terminal'[x] = "queued" /\ x \notin signaled' =>
                    scopeAccepting /\ scope'[TerminalOf[x]].phase = "preparing"
  <2>1. CASE x = t
    BY <1>1, <1>2, <2>1
  <2>2. CASE x # t
    <3>1. terminal'[x] = "draining" /\ scope'[TerminalOf[x]].active = 0 => x \in signaled'
      BY <1>1, <1>2, <2>2 DEF Woken
    <3>2. ASSUME terminal'[x] = "queued", x \notin signaled'
          PROVE  scopeAccepting /\ scope'[TerminalOf[x]].phase = "preparing"
      <4>1. terminal[x] = "queued" /\ x \notin signaled /\ x \in Waiting \ {t}
        BY <1>1, <2>2, <3>2 DEF Waiting
      <4>2. UNCHANGED scope
        BY <3>2, <4>1
      <4> QED
        BY <4>1, <4>2 DEF Woken
    <3> QED
      BY <3>1, <3>2
  <2> QED
    BY <2>1, <2>2
<1> QED
  BY <1>3 DEF Woken

LEMMA FlushesMove ==
    ASSUME Types, Flushes, Terminating, NEW t \in Terminals, NEW to \in TerminalPhases,
           terminal' = [terminal EXCEPT ![t] = to], UNCHANGED flush,
           \A r \in Requests : InFlight(r) => sequence[r] <= scopeLatest'[ScopeOf[r]],
           to # "flushing",
           to \in {"holding", "committed"} /\ t \in Flushing => \A r \in Requests :
               ~(ScopeOf[r] = TerminalOf[t] /\ lease[r] = "released" /\ InFlight(r))
    PROVE  Flushes'
<1>1. UNCHANGED <<lease, phase, sequence, batch, worker, settled>>
  BY DEF Terminating, workerVars
<1>2. terminal'[t] = to /\ \A x \in Terminals \ {t} : terminal'[x] = terminal[x]
  BY TerminalMoves
<1>3. \A r \in Requests : InFlight(r)' <=> InFlight(r)
  BY <1>1 DEF InFlight
<1>4. \A x \in Terminals : x \in Flushing => \A r \in Requests :
           ScopeOf[r] = TerminalOf[x] /\ lease[r] = "released" /\ InFlight(r) =>
               /\ terminal'[x] \notin {"holding", "committed"}
               /\ terminal'[x] = "flushing" => sequence[r] <= flush[x].target
  <2>1. ASSUME NEW x \in Terminals \ {t}, x \in Flushing, NEW r \in Requests,
               ScopeOf[r] = TerminalOf[x] /\ lease[r] = "released" /\ InFlight(r)
        PROVE  /\ terminal'[x] \notin {"holding", "committed"}
               /\ terminal'[x] = "flushing" => sequence[r] <= flush[x].target
    BY <1>2, <2>1 DEF Flushes
  <2> QED
    BY <1>2, <2>1
<1> QED
  BY <1>1, <1>3, <1>4 DEF Flushes

\* The type of a terminal call's step.
LEMMA TerminalTypes ==
    ASSUME Types, Terminating, NEW t \in Terminals, NEW to \in TerminalPhases,
           terminal' = [terminal EXCEPT ![t] = to],
           signaled' \subseteq (signaled \union Waiting) \ {t}
               \/ (to \in {"queued", "draining"} /\ signaled' \subseteq signaled \union Waiting),
           scope' \in [Scopes -> [active : Nat, phase : {"open", "preparing", "sealed"}]],
           scopeLatest' \in [Scopes -> 0..Cardinality(Requests)],
           flush' \in [Callers -> [at : {"idle", "asking", "asked", "ok", "error"}, target : Nat]]
    PROVE  Types'
<1>1. UNCHANGED <<lease, phase, weight, charge, stale, accepting, sequence, queue, batch, worker, settled, durable,
                  scopeAccepting, shutdown, maintenance>>
  BY DEF Terminating, budgetVars, workerVars, ownerVars
<1>2. terminal' \in [Terminals -> TerminalPhases]
  BY TerminalMoves
<1>3. signaled' \subseteq Waiting'
  <2>1. signaled \subseteq Waiting
    BY TypeParts
  <2>2. Waiting \ {t} \subseteq Waiting' /\ (to \in {"queued", "draining"} => t \in Waiting')
    BY TerminalMoves
  <2> QED
    BY <2>1, <2>2
<1> QED
  BY <1>1, <1>2, <1>3, TypeParts, TypesTogether

LEMMA ActiveIsHeld ==
    ASSUME ScopesTrue, NEW s \in Scopes, scope[s].active = 0
    PROVE  Holders(s) = {}
<1>1. Cardinality(Holders(s)) = 0 /\ IsFiniteSet(Holders(s))
  BY HoldersAreFinite DEF ScopesTrue
<1> QED
  BY <1>1, FS_EmptySet

LEMMA TypedParts ==
    ASSUME Types
    PROVE  /\ scope \in [Scopes -> [active : Nat, phase : {"open", "preparing", "sealed"}]]
           /\ scopeLatest \in [Scopes -> 0..Cardinality(Requests)]
           /\ flush \in [Callers -> [at : {"idle", "asking", "asked", "ok", "error"}, target : Nat]]
           /\ signaled \subseteq Waiting
  BY TypeParts

LEMMA PrepareTerminalScopeKeeps ==
    ASSUME IndInv, NEW t \in Terminals, PrepareTerminalScope(t)
    PROVE  IndInv'
<1> DEFINE s == TerminalOf[t]
<1>1. Types /\ ScopesTrue /\ Woken /\ Flushes
  BY DEF IndInv
<1>2. Terminating /\ UNCHANGED <<scopeLatest, flush>> /\ terminal[t] \in {"idle", "queued"}
  BY DEF PrepareTerminalScope, Terminally
<1>3. UNCHANGED <<lease, phase, scopeAccepting>>
  BY <1>2 DEF Terminating
<1>4. /\ scope \in [Scopes -> [active : Nat, phase : {"open", "preparing", "sealed"}]]
      /\ scopeLatest' \in [Scopes -> 0..Cardinality(Requests)]
      /\ flush' \in [Callers -> [at : {"idle", "asking", "asked", "ok", "error"}, target : Nat]]
  BY <1>1, <1>2, TypedParts
<1>5. s \in Scopes
  BY Constants
<1>6. scope[s].phase \in {"open", "preparing", "sealed"} /\ scope[s].active \in Nat
  BY <1>4, <1>5
<1>7. \A r \in Requests : InFlight(r) => sequence[r] <= scopeLatest'[ScopeOf[r]]
  BY <1>1, <1>2 DEF Flushes
<1>8. CASE scopeAccepting /\ scope[s].phase = "open"
  <2>1. PICK to \in {"drained", "draining"} :
            /\ terminal' = [terminal EXCEPT ![t] = to]
            /\ to = "drained" <=> scope[s].active = 0
    BY <1>8 DEF PrepareTerminalScope, Terminally
  <2>2. scope' = [scope EXCEPT ![s].phase = "preparing"] /\ signaled' = (signaled \union Waiting) \ {t}
    BY <1>8 DEF PrepareTerminalScope
  <2>3. to \in TerminalPhases
    BY DEF TerminalPhases
  <2>4. to = "drained" => Holders(s) = {}
    BY <1>1, <1>5, <2>1, ActiveIsHeld
  <2>5. ScopesTrue'
    BY <1>1, <1>3, <1>8, <2>1, <2>2, <2>3, <2>4, ScopesMove
  <2>6. /\ scope' \in [Scopes -> [active : Nat, phase : {"open", "preparing", "sealed"}]]
        /\ \A x \in Scopes : scope'[x].active = scope[x].active
    BY <1>1, <1>5, <2>2, PhaseOfScope
  <2>7. Woken'
    BY <1>1, <1>3, <2>1, <2>2, <2>3, <2>6, WokenMove
  <2>8. Flushes'
    BY <1>1, <1>2, <1>7, <2>1, <2>3, FlushesMove
  <2>9. Types'
    BY <1>1, <1>2, <1>4, <2>1, <2>2, <2>3, <2>6, TerminalTypes
  <2> QED
    BY <1>2, <2>5, <2>7, <2>8, <2>9, TerminatingKeeps
<1>9. CASE ~(scopeAccepting /\ scope[s].phase = "open")
  <2>1. PICK to \in {"queued", "joined", "failed"} :
            /\ terminal' = [terminal EXCEPT ![t] = to]
            /\ to = "queued" => scopeAccepting /\ scope[s].phase = "preparing"
    BY <1>6, <1>9 DEF PrepareTerminalScope, Terminally
  <2>2. UNCHANGED scope /\ signaled' = signaled \ {t}
    <3>1. (IF ~scopeAccepting THEN "failed"
           ELSE CASE scope[s].phase = "preparing" -> "queued"
                  [] scope[s].phase = "sealed" -> "joined"
                  [] scope[s].phase = "open" -> IF scope[s].active = 0 THEN "drained" ELSE "draining")
              \notin {"drained", "draining"}
      BY <1>6, <1>9
    <3> QED
      BY <3>1 DEF PrepareTerminalScope
  <2>3. to \in TerminalPhases /\ to \notin Preparing /\ terminal[t] \notin Preparing
    BY <1>2 DEF TerminalPhases, Preparing
  <2>4. ScopesTrue'
    BY <1>1, <1>3, <2>1, <2>2, <2>3, ScopesStill
  <2>5. Woken'
    BY <1>1, <1>3, <2>1, <2>2, <2>3, WokenMove
  <2>6. Flushes'
    BY <1>1, <1>2, <1>7, <2>1, <2>3, FlushesMove
  <2>7. Types'
    <3>1. scope' \in [Scopes -> [active : Nat, phase : {"open", "preparing", "sealed"}]]
      BY <1>4, <2>2
    <3> QED
      BY <1>1, <1>2, <1>4, <2>1, <2>2, <2>3, <3>1, TerminalTypes
  <2> QED
    BY <1>2, <2>4, <2>5, <2>6, <2>7, TerminatingKeeps
<1> QED
  BY <1>8, <1>9

\* The steps of a call that neither flush nor change the scope's phase.
LEMMA WaitKeeps ==
    ASSUME IndInv, NEW t \in Terminals, Drain(t) \/ GiveUpQueued(t)
    PROVE  IndInv'
<1>1. Types /\ ScopesTrue /\ Woken /\ Flushes
  BY DEF IndInv
<1>2. Terminating /\ UNCHANGED <<scope, scopeLatest, flush>> /\ signaled' = signaled \ {t}
  BY DEF Drain, GiveUpQueued
<1>3. UNCHANGED <<lease, phase, scopeAccepting>>
  BY <1>2 DEF Terminating
<1>4. PICK to \in {"drained", "draining", "failed"} :
          /\ terminal' = [terminal EXCEPT ![t] = to]
          /\ to \in {"drained", "draining"} => terminal[t] = "draining"
          /\ to = "failed" => terminal[t] = "queued"
          /\ to = "drained" => scope[TerminalOf[t]].active = 0
          /\ to = "draining" => scope[TerminalOf[t]].active # 0
  BY DEF Drain, GiveUpQueued, Terminally
<1>5. to \in TerminalPhases /\ (to \in Preparing <=> terminal[t] \in Preparing)
  BY <1>4 DEF TerminalPhases, Preparing
<1>6. ScopesTrue'
  <2>1. to = "drained" => Holders(TerminalOf[t]) = {}
    BY <1>1, <1>4, ActiveIsHeld, Constants
  <2> QED
    BY <1>1, <1>2, <1>3, <1>4, <1>5, <2>1, ScopesStill
<1>7. Woken'
  BY <1>1, <1>2, <1>3, <1>4, <1>5, WokenMove
<1>8. Flushes'
  <2>1. \A r \in Requests : InFlight(r) => sequence[r] <= scopeLatest'[ScopeOf[r]]
    BY <1>1, <1>2 DEF Flushes
  <2> QED
    BY <1>1, <1>2, <1>4, <1>5, <2>1, FlushesMove
<1>9. Types'
  <2>1. /\ scope' \in [Scopes -> [active : Nat, phase : {"open", "preparing", "sealed"}]]
        /\ scopeLatest' \in [Scopes -> 0..Cardinality(Requests)]
        /\ flush' \in [Callers -> [at : {"idle", "asking", "asked", "ok", "error"}, target : Nat]]
    BY <1>1, <1>2, TypedParts
  <2> QED
    BY <1>1, <1>2, <1>4, <1>5, <2>1, TerminalTypes
<1> QED
  BY <1>2, <1>6, <1>7, <1>8, <1>9, TerminatingKeeps

\* A call ends the preparation: it gives up, fails to flush, aborts or commits.
LEMMA EndsKeeps ==
    ASSUME IndInv, NEW t \in Terminals, Terminating, UNCHANGED <<scopeLatest, flush>>,
           NEW to \in {"failed", "aborted", "committed"}, NEW p \in {"open", "sealed"},
           terminal' = [terminal EXCEPT ![t] = to], terminal[t] \in Preparing,
           scope' = [scope EXCEPT ![TerminalOf[t]].phase = p],
           Waiting \ {t} \subseteq signaled', signaled' \subseteq (signaled \union Waiting) \ {t},
           to = "committed" => p = "sealed" /\ terminal[t] = "holding"
    PROVE  IndInv'
<1>1. Types /\ ScopesTrue /\ Woken /\ Flushes
  BY DEF IndInv
<1>2. UNCHANGED <<lease, phase, scopeAccepting>>
  BY DEF Terminating
<1>3. to \in TerminalPhases /\ TerminalOf[t] \in Scopes
  BY Constants DEF TerminalPhases
<1>4. ScopesTrue'
  BY <1>1, <1>2, <1>3, ScopesMove
<1>5. /\ scope' \in [Scopes -> [active : Nat, phase : {"open", "preparing", "sealed"}]]
      /\ \A x \in Scopes : scope'[x].active = scope[x].active
  BY <1>1, <1>3, PhaseOfScope
<1>6. Woken'
  <2>1. signaled \ {t} \subseteq signaled'
    BY <1>1, TypedParts
  <2> QED
    BY <1>1, <1>2, <1>3, <1>5, <2>1, WokenMove
<1>7. Flushes'
  <2>1. \A r \in Requests : InFlight(r) => sequence[r] <= scopeLatest'[ScopeOf[r]]
    BY <1>1 DEF Flushes
  <2>2. to = "committed" /\ t \in Flushing => \A r \in Requests :
               ~(ScopeOf[r] = TerminalOf[t] /\ lease[r] = "released" /\ InFlight(r))
    BY <1>1 DEF Flushes
  <2> QED
    BY <1>1, <1>3, <2>1, <2>2, FlushesMove
<1>8. Types'
  <2>1. /\ scopeLatest' \in [Scopes -> 0..Cardinality(Requests)]
        /\ flush' \in [Callers -> [at : {"idle", "asking", "asked", "ok", "error"}, target : Nat]]
    BY <1>1, TypedParts
  <2> QED
    BY <1>1, <1>3, <1>5, <2>1, TerminalTypes
<1> QED
  BY <1>4, <1>6, <1>7, <1>8, TerminatingKeeps

LEMMA GiveUpDrainingKeeps ==
    ASSUME IndInv, NEW t \in Terminals, GiveUpDraining(t)
    PROVE  IndInv'
<1>1. /\ terminal[t] = "draining" /\ terminal' = [terminal EXCEPT ![t] = "failed"]
      /\ scope' = [scope EXCEPT ![TerminalOf[t]].phase = "open"]
      /\ signaled' = (signaled \union Waiting) \ {t} /\ Terminating /\ UNCHANGED <<scopeLatest, flush>>
  BY DEF GiveUpDraining, Terminally, Reopen
<1>2. terminal[t] \in Preparing
  BY <1>1 DEF Preparing
<1> QED
  BY <1>1, <1>2, EndsKeeps

LEMMA FinishTerminalKeeps ==
    ASSUME IndInv, NEW t \in Terminals, FinishTerminal(t)
    PROVE  IndInv'
<1>1. terminal[t] = "holding" /\ Terminating /\ UNCHANGED <<scopeLatest, flush>>
  BY DEF FinishTerminal, Terminally
<1>2. terminal[t] \in Preparing /\ t \notin Waiting /\ signaled \subseteq Waiting
  <2>1. signaled \subseteq Waiting
    BY TypedParts DEF IndInv
  <2> QED
    BY <1>1, <2>1 DEF Preparing, Waiting
<1>3. CASE /\ terminal' = [terminal EXCEPT ![t] = "committed"]
           /\ scope' = [scope EXCEPT ![TerminalOf[t]].phase = "sealed"]
           /\ signaled' = signaled \union Waiting
  <2>1. signaled' = (signaled \union Waiting) \ {t}
    BY <1>2, <1>3
  <2> QED
    BY <1>1, <1>2, <1>3, <2>1, EndsKeeps
<1>4. CASE terminal' = [terminal EXCEPT ![t] = "aborted"] /\ Reopen(t)
  BY <1>1, <1>2, <1>4, EndsKeeps DEF Reopen
<1> QED
  BY <1>3, <1>4 DEF FinishTerminal, Terminally

\* Whatever is in flight has a number above the settled sequence.
LEMMA FlightIsAbove ==
    ASSUME Types, Line, NEW r \in Requests, InFlight(r)
    PROVE  sequence[r] \in Nat /\ settled \in Nat /\ settled < sequence[r] /\ sequence[r] <= Cardinality(Admitted)
<1>1. phase[r] = "queued"
  BY DEF InFlight
<1> QED
  BY <1>1, InLine, TypeParts

LEMMA AskGives ==
    ASSUME Types, NEW c \in Callers, NEW target \in Nat, Ask(c, target)
    PROVE  /\ flush' \in [Callers -> [at : {"idle", "asking", "asked", "ok", "error"}, target : Nat]]
           /\ flush'[c].target = target
           /\ flush'[c].at \in {"ok", "asking"} /\ (flush'[c].at = "ok" => settled >= target)
           /\ \A x \in Callers \ {c} : flush'[x] = flush[x]
<1>1. flush \in [Callers -> [at : {"idle", "asking", "asked", "ok", "error"}, target : Nat]]
  BY TypeParts
<1> QED
  BY <1>1 DEF Ask

LEMMA FlushScopeKeeps ==
    ASSUME IndInv, NEW t \in Terminals, FlushScope(t)
    PROVE  IndInv'
<1> DEFINE s == TerminalOf[t]
           latest == scopeLatest[s]
<1>1. Types /\ Line /\ ScopesTrue /\ Woken /\ Flushes
  BY DEF IndInv
<1>2. Terminating /\ UNCHANGED <<scope, signaled, scopeLatest>> /\ terminal[t] = "drained"
  BY DEF FlushScope, Terminally
<1>3. UNCHANGED <<lease, phase, sequence, batch, worker, settled, scopeAccepting>>
  BY <1>2 DEF Terminating, workerVars
<1>4. Holders(s) = {} /\ terminal[t] \in Preparing
  BY <1>1, <1>2 DEF ScopesTrue, Preparing
<1>5. /\ scope' \in [Scopes -> [active : Nat, phase : {"open", "preparing", "sealed"}]]
      /\ scopeLatest' \in [Scopes -> 0..Cardinality(Requests)]
      /\ flush \in [Callers -> [at : {"idle", "asking", "asked", "ok", "error"}, target : Nat]]
      /\ signaled \subseteq Waiting /\ t \notin Waiting
  BY <1>1, <1>2, TypedParts DEF Waiting
<1>6. s \in Scopes /\ t \in Callers /\ Owner # t
  BY Constants
<1>7. latest \in Nat
  BY <1>1, <1>6, TypedParts, AdmittedIsFinite
<1> HIDE DEF latest
<1>8. ASSUME NEW to \in {"holding", "flushing"}, terminal' = [terminal EXCEPT ![t] = to]
      PROVE  /\ ScopesTrue' /\ Woken'
             /\ flush' \in [Callers -> [at : {"idle", "asking", "asked", "ok", "error"}, target : Nat]] => Types'
  <2>1. to \in TerminalPhases /\ to \in Preparing
    BY DEF TerminalPhases, Preparing
  <2>2. ScopesTrue'
    BY <1>1, <1>2, <1>3, <1>4, <1>8, <2>1, ScopesStill
  <2>3. Woken'
    BY <1>1, <1>2, <1>3, <1>8, <2>1, WokenMove
  <2>4. signaled' \subseteq (signaled \union Waiting) \ {t}
    BY <1>2, <1>5
  <2>5. ASSUME flush' \in [Callers -> [at : {"idle", "asking", "asked", "ok", "error"}, target : Nat]]
        PROVE  Types'
    BY <1>1, <1>2, <1>5, <1>8, <2>1, <2>4, <2>5, TerminalTypes
  <2> QED
    BY <2>2, <2>3, <2>5
<1>9. \A r \in Requests : InFlight(r) => sequence[r] <= scopeLatest'[ScopeOf[r]]
  BY <1>1, <1>2 DEF Flushes
<1>10. CASE (t \notin Flushing \/ latest = 0) /\ terminal' = [terminal EXCEPT ![t] = "holding"] /\ UNCHANGED flush
  <2>1. t \in Flushing => \A r \in Requests :
            ~(ScopeOf[r] = TerminalOf[t] /\ lease[r] = "released" /\ InFlight(r))
    <3>1. SUFFICES ASSUME t \in Flushing, NEW r \in Requests, ScopeOf[r] = s, InFlight(r) PROVE FALSE
      OBVIOUS
    <3>2. sequence[r] <= 0
      BY <1>1, <1>10, <3>1 DEF Flushes, latest
    <3> QED
      BY <1>1, <3>1, <3>2, FlightIsAbove
  <2>2. "holding" \in TerminalPhases
    BY DEF TerminalPhases
  <2>3. Flushes'
    BY <1>1, <1>2, <1>9, <1>10, <2>1, <2>2, FlushesMove
  <2>4. ScopesTrue' /\ Woken' /\ Types'
    BY <1>5, <1>8, <1>10
  <2> QED
    BY <1>2, <1>10, <2>3, <2>4, TerminatingKeeps
<1>11. CASE t \in Flushing /\ terminal' = [terminal EXCEPT ![t] = "flushing"] /\ Ask(t, latest)
  <2>1. /\ flush' \in [Callers -> [at : {"idle", "asking", "asked", "ok", "error"}, target : Nat]]
        /\ flush'[t].target = latest
        /\ flush'[t].at \in {"ok", "asking"} /\ (flush'[t].at = "ok" => settled >= latest)
        /\ \A x \in Callers \ {t} : flush'[x] = flush[x]
    BY <1>1, <1>6, <1>7, <1>11, AskGives
  <2>2. ScopesTrue' /\ Woken' /\ Types'
    BY <1>8, <1>11, <2>1
  <2>3. terminal'[t] = "flushing" /\ \A x \in Terminals \ {t} : terminal'[x] = terminal[x]
    BY <1>1, <1>11, TerminalMoves DEF TerminalPhases
  <2>4. \A r \in Requests : InFlight(r)' <=> InFlight(r)
    BY <1>3 DEF InFlight
  <2>5. /\ \A c \in Callers : flush'[c].at = "ok" => settled >= flush'[c].target
        /\ \A c \in Callers : flush'[c].at = "asked" => worker.flusher = c
    BY <1>1, <2>1 DEF Flushes
  <2>6. ASSUME NEW x \in Terminals, x \in Flushing, NEW r \in Requests,
               ScopeOf[r] = TerminalOf[x] /\ lease[r] = "released" /\ InFlight(r)
        PROVE  /\ terminal'[x] \notin {"holding", "committed"}
               /\ terminal'[x] = "flushing" => sequence[r] <= flush'[x].target
    <3>1. CASE x = t
      <4>1. sequence[r] <= latest
        BY <1>1, <2>6, <3>1 DEF Flushes, latest
      <4> QED
        BY <2>1, <2>3, <3>1, <4>1
    <3>2. CASE x # t
      <4>1. x \in Callers \ {t}
        BY <3>2, Constants
      <4> QED
        BY <1>1, <2>1, <2>3, <2>6, <3>2, <4>1 DEF Flushes
    <3> QED
      BY <3>1, <3>2
  <2>7. Flushes'
    BY <1>3, <1>9, <2>4, <2>5, <2>6 DEF Flushes
  <2>8. flush'[Owner] = flush[Owner]
    BY <1>6, <2>1, Constants
  <2> QED
    BY <1>2, <2>2, <2>7, <2>8, TerminatingKeeps
<1> QED
  BY <1>10, <1>11 DEF FlushScope, Terminally, latest

LEMMA ScopeFlushedKeeps ==
    ASSUME IndInv, NEW t \in Terminals, ScopeFlushed(t)
    PROVE  IndInv'
<1> DEFINE s == TerminalOf[t]
<1>1. Types /\ Line /\ ScopesTrue /\ Woken /\ Flushes
  BY DEF IndInv
<1>2. Terminating /\ UNCHANGED flush /\ terminal[t] = "flushing"
  BY DEF ScopeFlushed, Terminally
<1>3. UNCHANGED <<lease, phase, scopeAccepting>>
  BY <1>2 DEF Terminating
<1>4. terminal[t] \in Preparing /\ Holders(s) = {}
  BY <1>1, <1>2 DEF Preparing, ScopesTrue
<1>5. s \in Scopes /\ t \in Callers
  BY Constants
<1>6. CASE terminal' = [terminal EXCEPT ![t] = "failed"] /\ Reopen(t) /\ UNCHANGED scopeLatest
  <2>1. /\ scope' = [scope EXCEPT ![TerminalOf[t]].phase = "open"]
        /\ signaled' = (signaled \union Waiting) \ {t}
    BY <1>6 DEF Reopen
  <2> QED
    BY <1>2, <1>4, <1>6, <2>1, EndsKeeps
<1>7. CASE /\ flush[t].at = "ok" \/ settled >= flush[t].target
           /\ terminal' = [terminal EXCEPT ![t] = "holding"]
           /\ scopeLatest' = [scopeLatest EXCEPT ![s] = IF @ = flush[t].target THEN 0 ELSE @]
           /\ UNCHANGED <<scope, signaled>>
  <2>1. settled >= flush[t].target /\ flush[t].target \in Nat
    BY <1>1, <1>5, <1>7, TypedParts DEF Flushes
  <2>2. "holding" \in TerminalPhases /\ "holding" \in Preparing
    BY DEF TerminalPhases, Preparing
  <2>3. ScopesTrue'
    BY <1>1, <1>3, <1>4, <1>7, <2>2, ScopesStill
  <2>4. Woken'
    BY <1>1, <1>3, <1>7, <2>2, WokenMove
  <2>5. /\ scopeLatest' \in [Scopes -> 0..Cardinality(Requests)]
        /\ \A x \in Scopes \ {s} : scopeLatest'[x] = scopeLatest[x]
        /\ scopeLatest'[s] = scopeLatest[s] \/ scopeLatest[s] = flush[t].target
    <3>1. scopeLatest \in [Scopes -> 0..Cardinality(Requests)] /\ 0 \in 0..Cardinality(Requests)
      BY <1>1, TypedParts, AdmittedIsFinite
    <3> QED
      BY <1>5, <1>7, <3>1
  <2>6. \A r \in Requests : InFlight(r) => sequence[r] <= scopeLatest'[ScopeOf[r]]
    <3>1. SUFFICES ASSUME NEW r \in Requests, InFlight(r) PROVE sequence[r] <= scopeLatest'[ScopeOf[r]]
      OBVIOUS
    <3>2. sequence[r] \in Nat /\ settled \in Nat /\ settled < sequence[r]
      BY <1>1, <3>1, FlightIsAbove
    <3>3. sequence[r] <= scopeLatest[ScopeOf[r]] /\ ScopeOf[r] \in Scopes
      BY <1>1, <3>1, Constants DEF Flushes
    <3>4. scopeLatest[ScopeOf[r]] \in Nat
      BY <1>1, <3>3, TypedParts, AdmittedIsFinite
    <3>5. scopeLatest'[ScopeOf[r]] = scopeLatest[ScopeOf[r]]
      BY <2>1, <2>5, <3>2, <3>3, <3>4
    <3> QED
      BY <3>3, <3>5
  <2>7. t \in Flushing => \A r \in Requests :
            ~(ScopeOf[r] = TerminalOf[t] /\ lease[r] = "released" /\ InFlight(r))
    <3>1. SUFFICES ASSUME t \in Flushing, NEW r \in Requests, ScopeOf[r] = s, lease[r] = "released", InFlight(r)
                   PROVE  FALSE
      OBVIOUS
    <3>2. sequence[r] <= flush[t].target
      BY <1>1, <1>2, <3>1 DEF Flushes
    <3>3. sequence[r] \in Nat /\ settled \in Nat /\ settled < sequence[r]
      BY <1>1, <3>1, FlightIsAbove
    <3> QED
      BY <2>1, <3>2, <3>3
  <2>8. Flushes'
    BY <1>1, <1>2, <1>7, <2>2, <2>6, <2>7, FlushesMove
  <2>9. Types'
    <3>1. /\ scope' \in [Scopes -> [active : Nat, phase : {"open", "preparing", "sealed"}]]
          /\ flush' \in [Callers -> [at : {"idle", "asking", "asked", "ok", "error"}, target : Nat]]
          /\ signaled \subseteq Waiting
      BY <1>1, <1>2, <1>7, TypedParts
    <3>2. signaled' \subseteq (signaled \union Waiting) \ {t}
      BY <1>2, <1>7, <3>1 DEF Waiting
    <3> QED
      BY <1>1, <1>2, <1>7, <2>2, <2>5, <3>1, <3>2, TerminalTypes
  <2> QED
    BY <1>2, <2>3, <2>4, <2>8, <2>9, TerminatingKeeps
<1> QED
  BY <1>6, <1>7 DEF ScopeFlushed, Terminally

LEMMA FlushGivesUpKeeps ==
    ASSUME IndInv, NEW c \in Callers, FlushGivesUp(c)
    PROVE  IndInv'
<1>1. Types /\ Places /\ Line /\ Durables /\ ScopesTrue /\ Woken /\ Flushes /\ Storage
  BY DEF IndInv
<1>2. UNCHANGED <<lease, phase, weight, charge, stale, accepting, sequence, scopeLatest, queue, batch, worker,
                  settled, durable, scope, scopeAccepting, terminal, signaled, shutdown, maintenance>>
  BY DEF FlushGivesUp, budgetVars, admitVars, workerVars, scopeVars, ownerVars
<1>3. flush[c].at \in {"asking", "asked"} /\ flush' = [flush EXCEPT ![c].at = "error"]
  BY DEF FlushGivesUp
<1>4. /\ flush' \in [Callers -> [at : {"idle", "asking", "asked", "ok", "error"}, target : Nat]]
      /\ flush'[c].at = "error" /\ flush'[c].target = flush[c].target
      /\ \A x \in Callers \ {c} : flush'[x] = flush[x]
  BY <1>1, <1>3, FlushMoves
<1>5. Types'
  BY <1>1, <1>2, <1>4, WaitingSame, TypeParts, TypesTogether
<1>6. Line' /\ Durables' /\ Places' /\ ScopesTrue' /\ Woken'
  BY <1>1, <1>2, LineStays, DurablesStay, PlacesStay, ScopesStay, WokenStay DEF Canceled
<1>7. Flushes'
  <2>1. \A r \in Requests : InFlight(r)' => InFlight(r)
    BY <1>2 DEF InFlight
  <2>2. \A x \in Callers : /\ flush'[x].target = flush[x].target
                           /\ flush'[x].at = "ok" => flush[x].at = "ok"
                           /\ flush'[x].at = "asked" => flush[x].at = "asked"
    BY <1>4
  <2>3. Terminals \subseteq Callers
    BY Constants
  <2> QED
    BY <1>1, <1>2, <2>1, <2>2, <2>3 DEF Flushes
<1>8. Storage'
  <2>1. Admitted' = Admitted /\ Owner \in Callers
    BY <1>2, Constants DEF Admitted
  <2>2. flush'[Owner].target = flush[Owner].target /\ (flush[Owner].at = "ok" => flush'[Owner].at = "ok")
    BY <1>3, <1>4, <2>1
  <2> QED
    BY <1>1, <1>2, <2>1, <2>2 DEF Storage
<1> QED
  BY <1>5, <1>6, <1>7, <1>8 DEF IndInv

-----------------------------------------------------------------------------
(* The owner of the storage                                                *)

LEMMA OwningKeeps ==
    ASSUME IndInv, Owning, accepting' \in BOOLEAN, scopeAccepting' \in BOOLEAN, Storage',
           shutdown' \in {"idle", "sealing", "sealed", "canceled", "joined"},
           maintenance' \in {"idle", "paused", "flushing", "exclusive", "over", "stopped"},
           Canceled => Canceled',
           flush' \in [Callers -> [at : {"idle", "asking", "asked", "ok", "error"}, target : Nat]],
           \A c \in Terminals : flush'[c] = flush[c],
           flush'[Owner].at = "ok" => settled >= flush'[Owner].target,
           flush'[Owner].at = "asked" => flush[Owner].at = "asked",
           UNCHANGED <<scopeAccepting, signaled>> \/ signaled' = signaled \union Waiting
    PROVE  IndInv'
<1>1. Types /\ Places /\ Line /\ Durables /\ ScopesTrue /\ Woken /\ Flushes
  BY DEF IndInv
<1>2. UNCHANGED <<lease, phase, weight, charge, stale, sequence, scopeLatest, queue, batch, worker, settled, durable,
                  scope, terminal>>
  BY DEF Owning, budgetVars, workerVars
<1>3. Types'
  <2>1. signaled' \subseteq Waiting'
    BY <1>1, <1>2, WaitingSame, TypedParts
  <2> QED
    BY <1>1, <1>2, <2>1, TypeParts, TypesTogether
<1>4. Line' /\ Durables' /\ Places' /\ ScopesTrue'
  BY <1>1, <1>2, LineStays, DurablesStay, PlacesStay, ScopesStay
<1>5. Woken'
  <2>1. CASE UNCHANGED <<scopeAccepting, signaled>>
    BY <1>1, <1>2, <2>1, WokenStay
  <2>2. CASE signaled' = signaled \union Waiting
    BY <1>2, <2>2 DEF Woken, Waiting
  <2> QED
    BY <2>1, <2>2
<1>6. Flushes'
  <2>1. \A r \in Requests : InFlight(r)' => InFlight(r)
    BY <1>2 DEF InFlight
  <2>2. \A c \in Callers : /\ flush'[c].at = "ok" => settled >= flush'[c].target
                           /\ flush'[c].at = "asked" => worker.flusher = c
    BY <1>1 DEF Flushes, Callers
  <2> QED
    BY <1>1, <1>2, <2>1, <2>2 DEF Flushes
<1> QED
  BY <1>3, <1>4, <1>5, <1>6 DEF IndInv

\* The owner's steps that leave its flush alone.
LEMMA OwningStill ==
    ASSUME IndInv, UNCHANGED flush
    PROVE  /\ flush' \in [Callers -> [at : {"idle", "asking", "asked", "ok", "error"}, target : Nat]]
           /\ \A c \in Terminals : flush'[c] = flush[c]
           /\ flush'[Owner].at = "ok" => settled >= flush'[Owner].target
           /\ flush'[Owner].at = "asked" => flush[Owner].at = "asked"
<1>1. Types /\ Flushes /\ Owner \in Callers
  BY Constants DEF IndInv
<1> QED
  BY <1>1, TypedParts DEF Flushes

LEMMA MaintenanceKeeps ==
    ASSUME IndInv, PauseOffers \/ OwnerFlushes
    PROVE  IndInv'
<1>1. Types /\ Flushes /\ Storage /\ Owner \in Callers /\ Owner \notin Terminals /\ Terminals \subseteq Callers
  BY Constants DEF IndInv
<1>2. /\ flush \in [Callers -> [at : {"idle", "asking", "asked", "ok", "error"}, target : Nat]]
      /\ accepting \in BOOLEAN /\ scopeAccepting \in BOOLEAN
      /\ shutdown \in {"idle", "sealing", "sealed", "canceled", "joined"}
  BY <1>1, TypeParts
<1>3. Owning /\ UNCHANGED <<scopeAccepting, signaled, shutdown>>
  BY DEF PauseOffers, OwnerFlushes
<1>4. UNCHANGED <<sequence, worker, settled>>
  BY <1>3 DEF Owning, workerVars
<1>5. Canceled' = Canceled
  BY <1>3 DEF Canceled
<1>6. CASE PauseOffers
  <2>1. /\ shutdown = "idle" /\ maintenance' = "paused" /\ accepting' = FALSE
        /\ flush' = [flush EXCEPT ![Owner] = NoFlush]
    BY <1>6 DEF PauseOffers
  <2>2. /\ flush' \in [Callers -> [at : {"idle", "asking", "asked", "ok", "error"}, target : Nat]]
        /\ \A c \in Terminals : flush'[c] = flush[c]
        /\ flush'[Owner].at = "idle"
    BY <1>1, <1>2, <2>1 DEF NoFlush
  <2>3. Storage'
    BY <1>3, <2>1 DEF Storage
  <2> QED
    BY <1>2, <1>3, <1>5, <2>1, <2>2, <2>3, OwningKeeps
<1>7. CASE OwnerFlushes
  <2>1. maintenance = "paused" /\ maintenance' = "flushing" /\ UNCHANGED accepting /\ Ask(Owner, Next1 - 1)
    BY <1>7 DEF OwnerFlushes
  <2>2. Next1 - 1 = Cardinality(Admitted) /\ Cardinality(Admitted) \in Nat /\ Admitted' = Admitted
    BY <1>1, <1>4, AdmittedIsFinite DEF Admitted
  <2>3. Ask(Owner, Cardinality(Admitted))
    BY <2>1, <2>2
  <2>4. /\ flush' \in [Callers -> [at : {"idle", "asking", "asked", "ok", "error"}, target : Nat]]
        /\ flush'[Owner].target = Cardinality(Admitted)
        /\ flush'[Owner].at \in {"ok", "asking"} /\ (flush'[Owner].at = "ok" => settled >= Cardinality(Admitted))
        /\ \A x \in Callers \ {Owner} : flush'[x] = flush[x]
    BY <1>1, <2>2, <2>3, AskGives
  <2>5. Storage'
    BY <1>1, <1>3, <1>4, <2>1, <2>2, <2>4 DEF Storage
  <2>6. \A c \in Terminals : flush'[c] = flush[c]
    BY <1>1, <2>4
  <2> QED
    BY <1>2, <1>3, <1>5, <2>1, <2>4, <2>5, <2>6, OwningKeeps
<1> QED
  BY <1>6, <1>7

LEMMA OwnerKeeps ==
    ASSUME IndInv,
           OwnerFlushed \/ ResumeOffers \/ ShutdownOwned \/ SealScopes \/ CancelWorker \/ JoinWorker
    PROVE  IndInv'
<1>1. Types /\ Storage
  BY DEF IndInv
<1>2. Owning /\ UNCHANGED flush
  BY DEF OwnerFlushed, ResumeOffers, ShutdownOwned, SealScopes, CancelWorker, JoinWorker
<1>3. UNCHANGED <<sequence, worker>> /\ Admitted' = Admitted
  BY <1>2 DEF Owning, workerVars, Admitted
<1>4. /\ accepting \in BOOLEAN /\ scopeAccepting \in BOOLEAN
      /\ shutdown \in {"idle", "sealing", "sealed", "canceled", "joined"}
      /\ maintenance \in {"idle", "paused", "flushing", "exclusive", "over", "stopped"}
  BY <1>1, TypeParts
<1>5. accepting' \in BOOLEAN /\ scopeAccepting' \in BOOLEAN
  BY <1>4, Zenon DEF OwnerFlushed, ResumeOffers, ShutdownOwned, SealScopes, CancelWorker, JoinWorker
<1>6. /\ shutdown' \in {"idle", "sealing", "sealed", "canceled", "joined"}
      /\ maintenance' \in {"idle", "paused", "flushing", "exclusive", "over", "stopped"}
      /\ Canceled => Canceled'
  BY <1>4 DEF OwnerFlushed, ResumeOffers, ShutdownOwned, SealScopes, CancelWorker, JoinWorker, Canceled
<1>7. UNCHANGED <<scopeAccepting, signaled>> \/ signaled' = signaled \union Waiting
  BY DEF OwnerFlushed, ResumeOffers, ShutdownOwned, SealScopes, CancelWorker, JoinWorker, Notify
<1>8. Storage'
  <2>1. CASE OwnerFlushed
    BY <1>1, <1>2, <1>3, <2>1 DEF OwnerFlushed, Storage
  <2>2. CASE ResumeOffers
    BY <1>1, <1>2, <1>3, <2>2 DEF ResumeOffers, Storage
  <2>3. CASE ShutdownOwned
    BY <1>1, <1>2, <1>3, <2>3 DEF ShutdownOwned, Storage
  <2>4. CASE SealScopes
    BY <1>1, <1>2, <1>3, <2>4 DEF SealScopes, Storage
  <2>5. CASE CancelWorker
    BY <1>1, <1>2, <1>3, <2>5 DEF CancelWorker, Storage
  <2>6. CASE JoinWorker
    BY <1>1, <1>2, <1>3, <2>6 DEF JoinWorker, Storage
  <2> QED
    BY <2>1, <2>2, <2>3, <2>4, <2>5, <2>6
<1>9. /\ flush' \in [Callers -> [at : {"idle", "asking", "asked", "ok", "error"}, target : Nat]]
      /\ \A c \in Terminals : flush'[c] = flush[c]
      /\ flush'[Owner].at = "ok" => settled >= flush'[Owner].target
      /\ flush'[Owner].at = "asked" => flush[Owner].at = "asked"
  BY <1>2, OwningStill
<1> QED
  BY <1>2, <1>5, <1>6, <1>7, <1>8, <1>9, OwningKeeps

-----------------------------------------------------------------------------
(* Every step, and the theorems                                            *)

LEMMA InitHolds ==
    ASSUME Init
    PROVE  IndInv
<1>1. /\ \A r \in Requests : lease[r] = "none" /\ phase[r] = "idle" /\ sequence[r] = 0
      /\ \A t \in Terminals : terminal[t] = "idle"
      /\ \A c \in Callers : flush[c] = NoFlush
      /\ \A s \in Scopes : scope[s] = [active |-> 0, phase |-> "open"]
      /\ queue = <<>> /\ batch = <<>> /\ worker = Idle /\ settled = 0 /\ durable = 0
      /\ shutdown = "idle" /\ maintenance = "idle" /\ accepting = TRUE /\ scopeAccepting = TRUE
      /\ signaled = {} /\ stale = {}
  BY DEF Init
<1>2. Admitted = {} /\ Cardinality({}) = 0
  BY <1>1, FS_EmptySet DEF Admitted
<1>3. Cardinality(Requests) \in Nat
  BY Constants, FS_CardinalityType
<1>4. Types
  <2>1. /\ lease \in [Requests -> {"none", "held", "refused", "released"}]
        /\ weight \in [Requests -> Nat] /\ charge \in [Requests -> Nat]
        /\ sequence \in [Requests -> 0..Cardinality(Requests)]
        /\ scopeLatest \in [Scopes -> 0..Cardinality(Requests)]
        /\ scope \in [Scopes -> [active : Nat, phase : {"open", "preparing", "sealed"}]]
        /\ flush \in [Callers -> [at : {"idle", "asking", "asked", "ok", "error"}, target : Nat]]
    BY <1>3 DEF Init, NoFlush
  <2>2. phase \in [Requests -> Phases] /\ terminal \in [Terminals -> TerminalPhases]
    BY DEF Init, Phases, TerminalPhases
  <2>3. queue \in Seq(Requests) /\ batch \in Seq(Requests) /\ Len(queue) <= QueueLimit
    BY <1>1, Constants
  <2>4. Range(queue) \union Range(batch) \subseteq Requests
    BY <2>3, RangeIs
  <2>5. {accepting, scopeAccepting} \subseteq BOOLEAN /\ stale \subseteq Requests /\ signaled \subseteq Waiting
    BY <1>1
  <2>6. TypeOK
    BY <2>1, <2>2, <2>3, <2>4, <2>5, Zenon DEF TypeOK
  <2> QED
    BY <1>1, <2>3, <2>6, IdleWorker DEF Types
<1>5. Places
  BY <1>1, IdleWorker DEF Places
<1>6. Line
  <2>1. Carried = 0 /\ worker.carry = None
    BY <1>1, IdleWorker DEF Carried
  <2> QED
    BY <1>1, <1>2, <2>1 DEF Line, Before
<1>7. Durables
  BY <1>1 DEF Durables
<1>8. ScopesTrue
  <2>1. \A x : Holders(x) = {} /\ Owners(x) = {}
    BY <1>1 DEF Holders, Owners
  <2> QED
    BY <1>1, <1>2, <2>1 DEF ScopesTrue
<1>9. Woken
  BY <1>1 DEF Woken
<1>10. Flushes
  <2>1. \A r \in Requests : ~InFlight(r)
    BY <1>1 DEF InFlight
  <2> QED
    BY <1>1, <2>1 DEF Flushes, NoFlush
<1>11. Storage
  BY <1>1 DEF Storage
<1> QED
  BY <1>4, <1>5, <1>6, <1>7, <1>8, <1>9, <1>10, <1>11 DEF IndInv

LEMMA StutterKeeps ==
    ASSUME IndInv, UNCHANGED vars
    PROVE  IndInv'
<1>1. UNCHANGED <<phase, weight, charge, stale, lease, accepting, sequence, scopeLatest, queue, batch, worker,
                  settled, durable, scope, scopeAccepting, terminal, signaled, flush, shutdown, maintenance>>
  BY DEF vars, budgetVars, admitVars, workerVars, scopeVars, ownerVars
<1>2. Types
  BY DEF IndInv
<1>3. /\ phase' \in [Requests -> Phases] /\ weight' \in [Requests -> Nat] /\ charge' \in [Requests -> Nat]
      /\ stale' \subseteq Requests
  BY <1>1, <1>2, TypeParts
<1> QED
  BY <1>1, <1>3, LocalKeeps

LEMMA NextKeeps ==
    ASSUME IndInv, [Next]_vars
    PROVE  IndInv'
<1>1. CASE WorkerStep
  BY <1>1, TakeRecordKeeps, AcceptCarryKeeps, FlushTimerKeeps, DrainEndsKeeps, AppendReturnsKeeps,
     SettleStatisticsKeeps, SettleReleaseKeeps, ExitKeeps, TakeFlushKeeps DEF WorkerStep
<1>2. CASE AdvanceEpoch
  BY <1>2, AdvanceEpochKeeps
<1>3. ASSUME NEW r \in Requests,
             \/ BeginScope(r) \/ Offer(r) \/ OpenCapture(r) \/ ObserveBytes(r)
             \/ FinishCapture(r) \/ Discard(r) \/ Publish(r) \/ Release(r)
      PROVE  IndInv'
  BY <1>3, BeginScopeKeeps, ObservationKeeps, PublishKeeps, ReleaseKeeps
<1>4. ASSUME NEW t \in Terminals,
             \/ PrepareTerminalScope(t) \/ Drain(t) \/ GiveUpQueued(t) \/ GiveUpDraining(t)
             \/ FlushScope(t) \/ ScopeFlushed(t) \/ FinishTerminal(t)
      PROVE  IndInv'
  BY <1>4, PrepareTerminalScopeKeeps, WaitKeeps, GiveUpDrainingKeeps, FlushScopeKeeps, ScopeFlushedKeeps,
     FinishTerminalKeeps
<1>5. ASSUME NEW c \in Callers, FlushGivesUp(c)
      PROVE  IndInv'
  BY <1>5, FlushGivesUpKeeps
<1>6. CASE PauseOffers \/ OwnerFlushes
  BY <1>6, MaintenanceKeeps
<1>7. CASE OwnerFlushed \/ ResumeOffers \/ ShutdownOwned \/ SealScopes \/ CancelWorker \/ JoinWorker
  BY <1>7, OwnerKeeps
<1>8. CASE UNCHANGED vars
  BY <1>8, StutterKeeps
<1> QED
  BY <1>1, <1>2, <1>3, <1>4, <1>5, <1>6, <1>7, <1>8 DEF Next

\* Whatever the requests, the worker, the terminal calls and the owner of the
\* storage do, the line, its numbers and its watermarks stay in order.
THEOREM RawEvidenceInvariant == Spec => []IndInv
<1>1. Init => IndInv
  BY InitHolds
<1>2. IndInv /\ [Next]_vars => IndInv'
  BY NextKeeps
<1> QED
  BY <1>1, <1>2, PTL DEF Spec

\* The state of the raw-evidence manager is well formed, its channel within its limit.
THEOREM RawEvidenceTypes == Spec => []TypeOK
<1>1. IndInv => TypeOK
  BY DEF IndInv, Types
<1> QED
  BY <1>1, RawEvidenceInvariant, PTL

\* The settled sequence is a watermark and the durable one a prefix, however
\* batches were appended, failed, discarded or given up at the exit.
THEOREM RawEvidenceWatermarks == Spec => []WatermarksTrue
<1>1. IndInv => WatermarksTrue
  <2>1. SUFFICES ASSUME IndInv, NEW r \in Requests, sequence[r] > 0
                 PROVE  /\ sequence[r] <= settled <=> phase[r] \in Outcomes
                        /\ sequence[r] <= durable =>
                               \/ phase[r] = "persisted"
                               \/ r \in Range(batch) /\ worker.at = "releasing" /\ worker.outcome = "persisted"
    BY DEF WatermarksTrue
  <2>2. Types /\ Line /\ Durables
    BY <2>1 DEF IndInv
  <2>3. batch \in Seq(Requests) /\ settled \in Nat /\ durable \in Nat /\ sequence[r] \in Nat
    BY <2>2, TypeParts, AdmittedIsFinite
  <2>4. phase[r] = "queued" \/ (phase[r] \in Outcomes /\ sequence[r] <= settled)
    BY <2>1, <2>2 DEF Line
  <2>5. phase[r] = "queued" =>
            /\ settled < sequence[r]
            /\ (\E i \in 1..Len(batch) : batch[i] = r) <=> sequence[r] <= settled + Len(batch)
    BY <2>2, InLine
  <2>6. sequence[r] <= settled <=> phase[r] \in Outcomes
    BY <2>3, <2>4, <2>5 DEF Outcomes
  <2>7. ASSUME sequence[r] <= durable
        PROVE  \/ phase[r] = "persisted"
               \/ r \in Range(batch) /\ worker.at = "releasing" /\ worker.outcome = "persisted"
    <3>1. CASE sequence[r] <= settled
      BY <2>1, <2>2, <2>7, <3>1 DEF Durables
    <3>2. CASE ~(sequence[r] <= settled)
      <4>1. worker.at = "releasing" /\ worker.outcome = "persisted" /\ durable = settled + Len(batch)
        BY <2>2, <2>3, <2>7, <3>2 DEF Durables
      <4>2. \E i \in 1..Len(batch) : batch[i] = r
        BY <2>4, <2>5, <2>7, <3>2, <4>1
      <4> QED
        BY <2>3, <4>1, <4>2, RangeIs
    <3> QED
      BY <3>1, <3>2
  <2> QED
    BY <2>6, <2>7
<1> QED
  BY <1>1, RawEvidenceInvariant, PTL

\* No terminal call and no flush waits for what nobody will do.
THEOREM RawEvidenceNobodyStranded == Spec => []NobodyStranded
<1>1. IndInv => NobodyStranded
  <2>1. SUFFICES ASSUME IndInv PROVE NobodyStranded
    OBVIOUS
  <2>2. ScopesTrue /\ Woken /\ Flushes
    BY <2>1 DEF IndInv
  <2>3. ASSUME NEW s \in Scopes
        PROVE  Cardinality(Owners(s)) = IF scope[s].phase = "preparing" THEN 1 ELSE 0
    <3>1. CASE scope[s].phase = "preparing"
      <4>1. PICK t \in Terminals : Owners(s) = {t}
        BY <2>2, <3>1 DEF ScopesTrue
      <4> QED
        BY <3>1, <4>1, FS_Singleton
    <3>2. CASE scope[s].phase # "preparing"
      BY <2>2, <3>2, FS_EmptySet DEF ScopesTrue
    <3> QED
      BY <3>1, <3>2
  <2> QED
    BY <2>2, <2>3 DEF NobodyStranded, Woken, Flushes
<1> QED
  BY <1>1, RawEvidenceInvariant, PTL

\* Whoever holds or has committed the terminal scope shares it with no lease, and
\* if the call flushed, with no append for a request that had one.
THEOREM RawEvidenceTerminalFence == Spec => []TerminalFence
<1>1. IndInv => TerminalFence
  <2>1. SUFFICES ASSUME IndInv, NEW t \in Terminals, terminal[t] \in {"holding", "committed"},
                        NEW r \in Requests, ScopeOf[r] = TerminalOf[t]
                 PROVE  /\ lease[r] # "held"
                        /\ t \in Flushing /\ lease[r] = "released" => ~InFlight(r)
    BY DEF TerminalFence
  <2>2. Holders(TerminalOf[t]) = {}
    BY <2>1 DEF IndInv, ScopesTrue
  <2>3. lease[r] # "held"
    BY <2>1, <2>2 DEF Holders
  <2>4. t \in Flushing /\ lease[r] = "released" => ~InFlight(r)
    BY <2>1 DEF IndInv, Flushes
  <2> QED
    BY <2>3, <2>4
<1> QED
  BY <1>1, RawEvidenceInvariant, PTL

\* From the end of its flush until it resumes the offers, and after the shutdown has
\* joined the worker, the owner has the storage to itself.
THEOREM RawEvidenceStorageAlone == Spec => []StorageAlone
<1>1. IndInv => StorageAlone
  <2>1. SUFFICES ASSUME IndInv, maintenance = "exclusive" \/ shutdown = "joined", NEW r \in Requests, InFlight(r)
                 PROVE  FALSE
    BY DEF StorageAlone
  <2>2. Types /\ Places /\ Line /\ Flushes /\ Storage
    BY <2>1 DEF IndInv
  <2>3. sequence[r] \in Nat /\ settled \in Nat /\ settled < sequence[r] /\ sequence[r] <= Cardinality(Admitted)
    BY <2>1, <2>2, FlightIsAbove
  <2>4. CASE maintenance = "exclusive"
    <3>1. settled >= Cardinality(Admitted)
      BY <2>2, <2>4, Constants DEF Storage, Flushes
    <3>2. Cardinality(Admitted) \in Nat
      BY <2>2, AdmittedIsFinite
    <3> QED
      BY <2>3, <3>1, <3>2
  <2>5. CASE shutdown = "joined"
    <3>1. batch = <<>> /\ queue = <<>> /\ worker.carry = None
      BY <2>2, <2>5 DEF Storage, Places
    <3>2. Cardinality(Admitted) = settled + 0 + 0 + 0
      BY <2>2, <3>1 DEF Line, Carried
    <3> QED
      BY <2>3, <3>2
  <2> QED
    BY <2>1, <2>4, <2>5
<1> QED
  BY <1>1, RawEvidenceInvariant, PTL

-----------------------------------------------------------------------------
(* Sums, as the size of a set of cells                                     *)

LEMMA CellsFinite ==
    ASSUME NEW S \in SUBSET Requests, NEW f \in [Requests -> Nat]
    PROVE  IsFiniteSet(Cells(f, S)) /\ Total(f, S) \in Nat
<1> DEFINE own(r) == {r} \X (1 .. f[r])
           T == {own(r) : r \in S}
           m == [r \in S |-> own(r)]
<1>1. m \in Surjection(S, T)
  <2>1. m \in [S -> T]
    OBVIOUS
  <2>2. \A t \in T : \E s \in S : m[s] = t
    OBVIOUS
  <2> QED
    BY <2>1, <2>2, Zenon DEF Surjection
<1>2. IsFiniteSet(S)
  BY Constants, FS_Subset
<1>3. \A t \in T : IsFiniteSet(t)
  <2>1. SUFFICES ASSUME NEW r \in S PROVE IsFiniteSet(own(r))
    OBVIOUS
  <2>2. f[r] \in Int /\ 1 \in Int
    OBVIOUS
  <2>3. IsFiniteSet(1 .. f[r])
    BY <2>2, FS_Interval
  <2>4. IsFiniteSet({r})
    BY FS_Singleton
  <2> QED
    BY <2>3, <2>4, FS_Product, Zenon
<1> HIDE DEF m
<1>4. IsFiniteSet(T)
  BY <1>1, <1>2, FS_Surjection
<1>5. Cells(f, S) = UNION T
  BY Zenon DEF Cells
<1> HIDE DEF T
<1>6. IsFiniteSet(UNION T)
  BY <1>3, <1>4, FS_UNION
<1> QED
  BY <1>5, <1>6, FS_CardinalityType DEF Total

LEMMA TotalOf ==
    ASSUME NEW r, NEW f, f[r] \in Nat
    PROVE  Total(f, {r}) = f[r]
<1> DEFINE n == f[r]
<1>1. Cells(f, {r}) = {r} \X (1 .. n)
  BY DEF Cells
<1>2. n \in Nat /\ 1 \in Int /\ n \in Int
  OBVIOUS
<1> HIDE DEF n
<1>3. /\ IsFiniteSet(1 .. n)
      /\ Cardinality(1 .. n) = IF 1 > n THEN 0 ELSE n - 1 + 1
  BY <1>2, FS_Interval
<1>4. IsFiniteSet({r}) /\ Cardinality({r}) = 1
  BY FS_Singleton
<1>5. Cardinality({r} \X (1 .. n)) = Cardinality({r}) * Cardinality(1 .. n)
  BY <1>3, <1>4, FS_Product, Zenon
<1>6. Cardinality({r} \X (1 .. n)) = n
  BY <1>2, <1>3, <1>4, <1>5
<1> QED
  BY <1>1, <1>6 DEF Total, n

LEMMA TotalSplit ==
    ASSUME NEW S \in SUBSET Requests, NEW T \in SUBSET Requests, S \intersect T = {}, NEW f \in [Requests -> Nat]
    PROVE  Total(f, S \union T) = Total(f, S) + Total(f, T)
<1>1. Cells(f, S \union T) = Cells(f, S) \union Cells(f, T)
  BY DEF Cells
<1>2. Cells(f, S) \intersect Cells(f, T) = {}
  BY DEF Cells
<1>3. /\ IsFiniteSet(Cells(f, S)) /\ IsFiniteSet(Cells(f, T))
      /\ Total(f, S) \in Nat /\ Total(f, T) \in Nat
  BY CellsFinite
<1>4. Cardinality(Cells(f, S) \union Cells(f, T)) =
          Cardinality(Cells(f, S)) + Cardinality(Cells(f, T)) - Cardinality(Cells(f, S) \intersect Cells(f, T))
  BY <1>3, FS_Union
<1>5. Cardinality(Cells(f, S) \intersect Cells(f, T)) = 0
  BY <1>2, FS_EmptySet
<1>6. Cardinality(Cells(f, S)) \in Nat /\ Cardinality(Cells(f, T)) \in Nat
  BY <1>3 DEF Total
<1>7. Cardinality(Cells(f, S) \union Cells(f, T)) = Cardinality(Cells(f, S)) + Cardinality(Cells(f, T))
  BY <1>4, <1>5, <1>6
<1> QED
  BY <1>1, <1>7, Zenon DEF Total

LEMMA TotalSame ==
    ASSUME NEW S, NEW f, NEW g, \A r \in S : f[r] = g[r]
    PROVE  Total(f, S) = Total(g, S)
<1>1. Cells(f, S) = Cells(g, S)
  BY DEF Cells
<1> QED
  BY <1>1 DEF Total

LEMMA TotalLess ==
    ASSUME NEW S \in SUBSET Requests, NEW T \in SUBSET S, NEW f \in [Requests -> Nat]
    PROVE  /\ Total(f, S \ T) = Total(f, S) - Total(f, T)
           /\ Total(f, S \ T) \in Nat /\ Total(f, S) \in Nat /\ Total(f, T) \in Nat
<1>1. Total(f, (S \ T) \union T) = Total(f, S \ T) + Total(f, T)
  <2>1. S \ T \in SUBSET Requests /\ T \in SUBSET Requests /\ (S \ T) \intersect T = {}
    OBVIOUS
  <2> QED
    BY <2>1, TotalSplit
<1>2. (S \ T) \union T = S
  OBVIOUS
<1>3. Total(f, S \ T) \in Nat /\ Total(f, S) \in Nat /\ Total(f, T) \in Nat
  BY CellsFinite
<1> QED
  BY <1>1, <1>2, <1>3

\* One member has n more.
LEMMA TotalGrows ==
    ASSUME NEW S \in SUBSET Requests, NEW x \in S, NEW n \in Nat,
           NEW f \in [Requests -> Nat], NEW g \in [Requests -> Nat],
           g[x] = f[x] + n, \A r \in S \ {x} : g[r] = f[r]
    PROVE  Total(g, S) = Total(f, S) + n
<1>1. {x} \in SUBSET S /\ f[x] \in Nat /\ g[x] \in Nat
  OBVIOUS
<1>2. Total(g, S \ {x}) = Total(f, S \ {x})
  BY TotalSame
<1>3. /\ Total(f, S \ {x}) = Total(f, S) - Total(f, {x}) /\ Total(f, S \ {x}) \in Nat /\ Total(f, S) \in Nat
      /\ Total(g, S \ {x}) = Total(g, S) - Total(g, {x}) /\ Total(g, S) \in Nat
  BY <1>1, TotalLess
<1>4. Total(f, {x}) = f[x] /\ Total(g, {x}) = g[x]
  BY <1>1, TotalOf
<1> QED
  BY <1>1, <1>2, <1>3, <1>4

LEMMA TotalAdds ==
    ASSUME NEW S \in SUBSET Requests, NEW x \in Requests, x \notin S, NEW f \in [Requests -> Nat]
    PROVE  Total(f, S \union {x}) = Total(f, S) + f[x] /\ Total(f, S) \in Nat
<1>1. {x} \in SUBSET Requests /\ S \intersect {x} = {} /\ f[x] \in Nat
  OBVIOUS
<1>2. Total(f, S \union {x}) = Total(f, S) + Total(f, {x})
  BY <1>1, TotalSplit
<1> QED
  BY <1>1, <1>2, TotalOf, CellsFinite

-----------------------------------------------------------------------------
(* The records of the budget                                               *)

LEMMA LiveIsFinite ==
    /\ IsFiniteSet(Live) /\ Cardinality(Live) \in Nat /\ RecordLimit \in Nat
<1>1. Live \in SUBSET Requests
  BY DEF Live
<1> QED
  BY <1>1, Constants, FS_Subset, FS_CardinalityType, RawEvidenceAssumption

\* Nobody's reservation begins or ends.
LEMMA RecordsStay ==
    ASSUME RecordsExact, UNCHANGED reservedRecords,
           \A r \in Requests : phase'[r] = phase[r]
               \/ (r \in Live /\ phase'[r] \in {"reserved", "capturing", "offering", "queued"})
               \/ (r \notin Live /\ phase'[r] \notin {"reserved", "capturing", "offering", "queued"}),
           \A r \in Requests : charge'[r] > 0 <=> charge[r] > 0
    PROVE  RecordsExact'
<1>1. Live' = Live
  BY DEF Live
<1>2. {r \in Requests : charge'[r] > 0} = {r \in Requests : charge[r] > 0}
  OBVIOUS
<1> QED
  BY <1>1, <1>2 DEF RecordsExact

\* The reservations of some live observations end.
LEMMA RecordsReleased ==
    ASSUME Types, RecordsExact, NEW S \in SUBSET Live, ReleaseAll(S),
           \A r \in Requests \ S : phase'[r] = phase[r],
           \A r \in S : phase'[r] \notin {"reserved", "capturing", "offering", "queued"}
    PROVE  RecordsExact'
<1>1. Live' = Live \ S
  BY DEF Live
<1>2. {r \in S : charge[r] > 0} = S /\ Live \intersect S = S
  BY DEF RecordsExact
<1>3. Cardinality(Live \ S) = Cardinality(Live) - Cardinality(S)
  <2>1. IsFiniteSet(Live) /\ IsFiniteSet(S)
    BY LiveIsFinite, FS_Subset
  <2>2. Cardinality(Live \ S) = Cardinality(Live) - Cardinality(Live \intersect S)
    BY <2>1, FS_Difference
  <2> QED
    BY <1>2, <2>2
<1>4. IsFiniteSet(S) /\ Cardinality(S) \in Nat /\ Cardinality(S) <= Cardinality(Live)
  BY LiveIsFinite, FS_Subset, FS_CardinalityType
<1>5. reservedRecords' = reservedRecords - Cardinality(S)
  BY <1>2 DEF ReleaseAll
<1>6. {r \in Requests : charge'[r] > 0} = Live \ S
  <2>1. \A r \in Requests : charge'[r] = IF r \in S THEN 0 ELSE charge[r]
    BY DEF ReleaseAll
  <2> QED
    BY <2>1 DEF RecordsExact
<1>7. reservedRecords = Cardinality(Live) /\ reservedRecords <= RecordLimit
  BY DEF RecordsExact
<1>8. reservedRecords' = Cardinality(Live \ S) /\ reservedRecords' <= RecordLimit
  BY <1>3, <1>4, <1>5, <1>7, LiveIsFinite
<1> QED
  BY <1>1, <1>6, <1>8 DEF RecordsExact

LEMMA RecordsOfObservation ==
    ASSUME IndInv, RecordsExact, NEW r \in Requests,
           Offer(r) \/ OpenCapture(r) \/ ObserveBytes(r) \/ FinishCapture(r) \/ Discard(r) \/ Publish(r)
    PROVE  RecordsExact'
<1>1. Types
  BY DEF IndInv
<1>2. charge \in [Requests -> Nat] /\ phase \in [Requests -> Phases] /\ Growth \in Nat
  BY <1>1, TypeParts, Constants
<1>3. CASE ReleaseAll({r}) /\ r \in Live /\ phase' = [phase EXCEPT ![r] = "dropped"]
  BY <1>1, <1>2, <1>3, RecordsReleased
<1>4. CASE /\ phase' = phase \/ \E to \in {"capturing", "offering", "queued"} : phase' = [phase EXCEPT ![r] = to]
           /\ r \in Live /\ UNCHANGED reservedRecords
           /\ UNCHANGED charge \/ Grow(r, Growth)
  <2>1. \A q \in Requests : phase'[q] = phase[q]
            \/ (q \in Live /\ phase'[q] \in {"reserved", "capturing", "offering", "queued"})
    BY <1>2, <1>4
  <2>2. \A q \in Requests : charge'[q] > 0 <=> charge[q] > 0
    <3>1. charge[r] > 0
      BY <1>4 DEF RecordsExact
    <3>2. \A q \in Requests : charge'[q] = charge[q] \/ (q = r /\ charge'[q] = charge[q] + Growth)
      BY <1>2, <1>4 DEF Grow
    <3> QED
      BY <1>2, <3>1, <3>2
  <2> QED
    BY <1>4, <2>1, <2>2, RecordsStay
<1>5. CASE r \notin Live /\ phase' = [phase EXCEPT ![r] = "dropped"] /\ UNCHANGED <<charge, reservedRecords>>
  <2>1. \A q \in Requests : phase'[q] = phase[q]
            \/ (q \notin Live /\ phase'[q] \notin {"reserved", "capturing", "offering", "queued"})
    BY <1>2, <1>5
  <2> QED
    BY <1>5, <2>1, RecordsStay
<1>6. CASE /\ r \notin Live /\ reservedRecords < RecordLimit /\ Reserve(r)
           /\ \E to \in {"reserved", "offering"} : phase' = [phase EXCEPT ![r] = to]
  <2>1. Live' = Live \union {r}
    BY <1>2, <1>6 DEF Live
  <2>2. Cardinality(Live \union {r}) = Cardinality(Live) + 1
    BY <1>6, LiveIsFinite, FS_AddElement
  <2>3. {q \in Requests : charge'[q] > 0} = Live \union {r}
    <3>1. Charge[r] \in Nat \ {0}
      BY RawEvidenceAssumption
    <3>2. charge'[r] = Charge[r] /\ \A q \in Requests \ {r} : charge'[q] = charge[q]
      BY <1>2, <1>6 DEF Reserve
    <3> QED
      BY <3>1, <3>2 DEF RecordsExact
  <2>4. reservedRecords' = reservedRecords + 1 /\ reservedRecords = Cardinality(Live)
    BY <1>6 DEF Reserve, RecordsExact
  <2>5. reservedRecords' = Cardinality(Live \union {r}) /\ reservedRecords' <= RecordLimit
    BY <1>6, <2>2, <2>4, LiveIsFinite
  <2> QED
    BY <2>1, <2>3, <2>5 DEF RecordsExact
<1>7. CASE Offer(r)
  <2>1. phase[r] = "running" /\ r \notin Live
    BY <1>7 DEF Offer, Step, Live
  <2> QED
    BY <1>5, <1>6, <1>7, <2>1 DEF Offer, Step, CanReserve, budgetVars
<1>8. CASE OpenCapture(r) \/ ObserveBytes(r) \/ FinishCapture(r) \/ Discard(r) \/ Publish(r)
  <2>1. r \in Live
    BY <1>8 DEF OpenCapture, ObserveBytes, FinishCapture, Discard, Publish, Step, Live
  <2>2. CASE OpenCapture(r)
    BY <1>3, <1>4, <2>1, <2>2 DEF OpenCapture, Step
  <2>3. CASE ObserveBytes(r)
    BY <1>4, <2>1, <2>3 DEF ObserveBytes
  <2>4. CASE FinishCapture(r)
    BY <1>3, <1>4, <2>1, <2>4 DEF FinishCapture, Step
  <2>5. CASE Discard(r)
    BY <1>3, <2>1, <2>5 DEF Discard, Step
  <2>6. CASE Publish(r)
    BY <1>3, <1>4, <2>1, <2>6 DEF Publish, Step, budgetVars
  <2> QED
    BY <1>8, <2>2, <2>3, <2>4, <2>5, <2>6
<1> QED
  BY <1>7, <1>8

\* commit charges the workspace to a record of the batch, which holds a reservation.
LEMMA RecordsOfCommit ==
    ASSUME IndInv, RecordsExact, NEW r \in Requests, phase[r] = "queued",
           UNCHANGED <<phase, reservedRecords>>, UNCHANGED charge \/ Grow(r, Scratch)
    PROVE  RecordsExact'
<1>1. charge \in [Requests -> Nat] /\ Scratch \in Nat
  BY TypeParts, Constants DEF IndInv
<1>2. charge[r] > 0
  BY DEF RecordsExact, Live
<1>3. \A q \in Requests : charge'[q] = charge[q] \/ (q = r /\ charge'[q] = charge[q] + Scratch)
  BY <1>1 DEF Grow
<1>4. \A q \in Requests : charge'[q] > 0 <=> charge[q] > 0
  BY <1>1, <1>2, <1>3
<1> QED
  BY <1>4, RecordsStay

LEMMA RecordsOfWorker ==
    ASSUME IndInv, RecordsExact, WorkerStep
    PROVE  RecordsExact'
<1>1. Types /\ Places /\ Line
  BY DEF IndInv
<1>2. queue \in Seq(Requests) /\ batch \in Seq(Requests)
  BY <1>1, TypeParts
<1>3. ASSUME UNCHANGED <<phase, charge, reservedRecords>>
      PROVE  RecordsExact'
  BY <1>3, RecordsStay
<1>4. ASSUME NEW why, NEW carry, batch # <<>>, Commit(batch, why, carry), Working
      PROVE  RecordsExact'
  <2>1. 1 \in 1..Len(batch) /\ batch[1] \in Requests
    BY <1>2, <1>4, LengthIs
  <2>2. phase[batch[1]] = "queued"
    BY <1>1, <2>1 DEF Line
  <2>3. UNCHANGED <<phase, reservedRecords>> /\ (UNCHANGED charge \/ Grow(batch[1], Scratch))
    BY <1>4 DEF Commit, Working
  <2> QED
    BY <2>1, <2>2, <2>3, RecordsOfCommit
<1>5. ASSUME NEW r \in Requests, phase[r] = "queued", Accept(r), Working
      PROVE  RecordsExact'
  <2> DEFINE b == Append(batch, r)
  <2>1. \E q \in Requests : phase[q] = "queued" /\ b[1] = q
    <3>1. CASE batch = <<>>
      BY <1>5, <3>1
    <3>2. CASE batch # <<>>
      <4>1. 1 \in 1..Len(batch) /\ batch[1] \in Requests
        BY <1>2, <3>2, LengthIs
      <4>2. phase[batch[1]] = "queued" /\ b[1] = batch[1]
        BY <1>1, <1>2, <1>5, <4>1, Appended DEF Line
      <4> QED
        BY <4>1, <4>2
    <3> QED
      BY <3>1, <3>2
  <2>2. PICK q \in Requests : phase[q] = "queued" /\ b[1] = q
    BY <2>1
  <2> HIDE DEF b
  <2>3. UNCHANGED <<phase, reservedRecords>> /\ (UNCHANGED charge \/ Grow(q, Scratch))
    BY <1>5, <2>2 DEF Accept, Commit, Working, b
  <2> QED
    BY <2>2, <2>3, RecordsOfCommit
<1>6. CASE TakeRecord
  <2>1. /\ queue # <<>> /\ Working
        /\ (Commit(batch, "overflow", Head(queue)) /\ batch # <<>>) \/ Accept(Head(queue))
    BY <1>6 DEF TakeRecord
  <2>2. Head(queue) = queue[1] /\ 1 \in 1..Len(queue) /\ queue[1] \in Requests
    BY <1>2, <2>1, Shortened, LengthIs
  <2>3. phase[queue[1]] = "queued"
    BY <1>1, <2>2 DEF Line
  <2> QED
    BY <1>4, <1>5, <2>1, <2>2, <2>3
<1>7. CASE AcceptCarry
  <2>1. worker.at = "carrying" /\ Accept(worker.carry) /\ Working
    BY <1>7 DEF AcceptCarry
  <2>2. worker.carry \in Requests /\ phase[worker.carry] = "queued"
    BY <1>1, <2>1, TypeParts DEF Places, Line, WorkerRecords
  <2> QED
    BY <1>5, <2>1, <2>2
<1>8. CASE FlushTimer
  BY <1>4, <1>8 DEF FlushTimer
<1>9. CASE DrainEnds
  BY <1>3, <1>4, <1>9 DEF DrainEnds, Working
<1>10. CASE AppendReturns
  BY <1>3, <1>10 DEF AppendReturns, Working
<1>11. CASE SettleStatistics
  BY <1>3, <1>11 DEF SettleStatistics, budgetVars
<1>12. CASE SettleRelease
  <2>1. /\ worker.at = "releasing" /\ ReleaseAll(Range(batch))
        /\ phase' = [r \in Requests |-> IF r \in Range(batch) THEN worker.outcome ELSE phase[r]]
    BY <1>12 DEF SettleRelease
  <2>2. Range(batch) \in SUBSET Live /\ Range(batch) \subseteq Requests
    <3>1. \A x \in Range(batch) : x \in Requests /\ phase[x] = "queued"
      BY <1>1, <1>2, RangeIs DEF Line
    <3> QED
      BY <3>1 DEF Live
  <2>3. worker.outcome \notin {"reserved", "capturing", "offering", "queued"}
    BY <1>1, TypeParts DEF WorkerRecords, Outcomes
  <2>4. /\ \A r \in Requests \ Range(batch) : phase'[r] = phase[r]
        /\ \A r \in Range(batch) : phase'[r] \notin {"reserved", "capturing", "offering", "queued"}
    BY <2>1, <2>2, <2>3
  <2> QED
    BY <1>1, <2>1, <2>2, <2>4, RecordsReleased
<1>13. CASE Exit
  BY <1>3, <1>13 DEF Exit, Working
<1>14. CASE \E c \in Callers : TakeFlush(c)
  BY <1>3, <1>14 DEF TakeFlush, Working
<1> QED
  BY <1>6, <1>7, <1>8, <1>9, <1>10, <1>11, <1>12, <1>13, <1>14 DEF WorkerStep


-----------------------------------------------------------------------------
(* The bytes of the budget                                                 *)

BytesExact == reservedBytes = Charged(Live) /\ reservedBytes <= ByteLimit

\* A reservation holds its record, the first of the batch also the workspace of the
\* append; settle may find it still charged, for it releases it.
ChargesExact ==
    \A r \in Live :
        \/ worker.at \in {"settling", "releasing"} /\ r \in Range(batch)
        \/ charge[r] = weight[r] + (IF worker.at = "appending" /\ r = batch[1] THEN Scratch ELSE 0)

Owned   == {r \in Requests : phase[r] = "queued"}
Counted == IF worker.at = "releasing" THEN Owned \ Range(batch) ELSE Owned
QueueExact == queueBytes = Weight(Counted)

BudgetParts == BytesExact /\ ChargesExact /\ QueueExact

LEMMA BudgetNumbers ==
    ASSUME Types
    PROVE  /\ Live \in SUBSET Requests /\ Owned \in SUBSET Requests /\ Counted \in SUBSET Requests
           /\ charge \in [Requests -> Nat] /\ weight \in [Requests -> Nat]
           /\ ByteLimit \in Nat /\ Growth \in Nat /\ Scratch \in Nat
           /\ \A S \in SUBSET Requests : Charged(S) \in Nat /\ Weight(S) \in Nat
<1>1. charge \in [Requests -> Nat] /\ weight \in [Requests -> Nat]
  BY TypeParts
<1>2. \A S \in SUBSET Requests : Charged(S) \in Nat /\ Weight(S) \in Nat
  BY <1>1, CellsFinite DEF Charged, Weight
<1>3. ByteLimit \in Nat /\ Growth \in Nat /\ Scratch \in Nat
  BY RawEvidenceAssumption
<1> QED
  BY <1>1, <1>2, <1>3 DEF Live, Owned, Counted

LEMMA BytesStay ==
    ASSUME BytesExact, Live' = Live, UNCHANGED reservedBytes, \A r \in Live : charge'[r] = charge[r]
    PROVE  BytesExact'
<1>1. Total(charge', Live) = Total(charge, Live)
  BY TotalSame
<1> QED
  BY <1>1 DEF BytesExact, Charged

LEMMA BytesGrow ==
    ASSUME Types, Types', BytesExact, NEW r \in Live, NEW n \in Nat, CanGrow(n), Grow(r, n), Live' = Live
    PROVE  BytesExact'
<1>1. /\ Live \in SUBSET Requests /\ charge \in [Requests -> Nat] /\ ByteLimit \in Nat /\ Charged(Live) \in Nat
      /\ charge' \in [Requests -> Nat]
  BY BudgetNumbers, TypeParts DEF Types, TypeOK
<1>2. charge'[r] = charge[r] + n /\ \A q \in Live \ {r} : charge'[q] = charge[q]
  BY <1>1 DEF Grow
<1>3. Total(charge', Live) = Total(charge, Live) + n
  BY <1>1, <1>2, TotalGrows
<1>4. reservedBytes' = reservedBytes + n /\ n <= ByteLimit - reservedBytes
  BY DEF Grow, CanGrow
<1>5. reservedBytes = Total(charge, Live) /\ Total(charge, Live) \in Nat
  BY <1>1 DEF BytesExact, Charged
<1>6. reservedBytes' = Total(charge', Live) /\ reservedBytes' <= ByteLimit
  BY <1>1, <1>3, <1>4, <1>5
<1> QED
  BY <1>6 DEF BytesExact, Charged

LEMMA BytesReserve ==
    ASSUME Types, Types', BytesExact, NEW r \in Requests, r \notin Live, CanReserve(Charge[r]), Reserve(r),
           Live' = Live \union {r}
    PROVE  BytesExact'
<1>1. /\ Live \in SUBSET Requests /\ charge \in [Requests -> Nat] /\ ByteLimit \in Nat /\ Charged(Live) \in Nat
      /\ charge' \in [Requests -> Nat] /\ Charge[r] \in Nat
  BY BudgetNumbers, Constants DEF Types, TypeOK
<1>2. charge'[r] = Charge[r] /\ \A q \in Live : charge'[q] = charge[q]
  BY <1>1 DEF Reserve
<1>3. Total(charge', Live) = Total(charge, Live)
  BY <1>2, TotalSame
<1>4. Total(charge', Live \union {r}) = Total(charge', Live) + charge'[r]
  BY <1>1, TotalAdds
<1>5. reservedBytes' = reservedBytes + Charge[r] /\ Charge[r] <= ByteLimit - reservedBytes
  BY DEF Reserve, CanReserve
<1>6. reservedBytes = Total(charge, Live) /\ Total(charge, Live) \in Nat
  BY <1>1 DEF BytesExact, Charged
<1>7. reservedBytes' = Total(charge', Live \union {r}) /\ reservedBytes' <= ByteLimit
  BY <1>1, <1>2, <1>3, <1>4, <1>5, <1>6
<1> QED
  BY <1>7 DEF BytesExact, Charged

LEMMA BytesReleased ==
    ASSUME Types, BytesExact, NEW S \in SUBSET Live, ReleaseAll(S), Live' = Live \ S
    PROVE  BytesExact'
<1>1. /\ Live \in SUBSET Requests /\ charge \in [Requests -> Nat] /\ ByteLimit \in Nat
  BY BudgetNumbers
<1>2. \A q \in Live \ S : charge'[q] = charge[q]
  BY <1>1 DEF ReleaseAll
<1>3. Total(charge', Live \ S) = Total(charge, Live \ S)
  BY <1>2, TotalSame
<1>4. /\ Total(charge, Live \ S) = Total(charge, Live) - Total(charge, S)
      /\ Total(charge, Live \ S) \in Nat /\ Total(charge, Live) \in Nat /\ Total(charge, S) \in Nat
  BY <1>1, TotalLess
<1>5. reservedBytes' = reservedBytes - Total(charge, S)
  BY DEF ReleaseAll, Charged
<1>6. reservedBytes = Total(charge, Live) /\ reservedBytes <= ByteLimit
  BY DEF BytesExact, Charged
<1>7. reservedBytes' = Total(charge', Live \ S) /\ reservedBytes' <= ByteLimit
  BY <1>1, <1>3, <1>4, <1>5, <1>6
<1> QED
  BY <1>7 DEF BytesExact, Charged

\* An observation changes what it holds before it is queued.
LEMMA ChargesOne ==
    ASSUME Types, Places, Line, ChargesExact, UNCHANGED <<worker, batch>>, NEW r \in Requests, phase[r] # "queued",
           \A q \in Requests \ {r} : phase'[q] = phase[q] /\ charge'[q] = charge[q] /\ weight'[q] = weight[q],
           r \in Live' => charge'[r] = weight'[r] /\ weight'[r] \in Nat
    PROVE  ChargesExact'
<1>1. batch \in Seq(Requests) /\ (worker.at = "appending" => batch # <<>>)
  BY TypeParts DEF Places
<1>2. worker.at = "appending" => r # batch[1]
  <2>1. SUFFICES ASSUME worker.at = "appending" PROVE phase[batch[1]] = "queued"
    OBVIOUS
  <2>2. 1 \in 1..Len(batch)
    BY <1>1, <2>1, LengthIs
  <2> QED
    BY <2>2 DEF Line
<1>3. \A q \in Requests \ {r} : q \in Live' => q \in Live
  BY DEF Live
<1>4. Live' \subseteq Requests
  BY DEF Live
<1>5. ASSUME NEW q \in Live'
      PROVE  \/ worker.at \in {"settling", "releasing"} /\ q \in Range(batch)
             \/ charge'[q] = weight'[q] + (IF worker.at = "appending" /\ q = batch[1] THEN Scratch ELSE 0)
  <2>1. CASE q = r
    BY <1>2, <1>5, <2>1
  <2>2. CASE q # r
    BY <1>3, <1>4, <1>5, <2>2 DEF ChargesExact
  <2> QED
    BY <2>1, <2>2
<1> QED
  BY <1>5 DEF ChargesExact

\* Nothing is charged beyond the records while no append is under way.
LEMMA ChargesAre ==
    ASSUME Types, ChargesExact, NEW r \in Live,
           worker.at \notin {"appending", "settling", "releasing"} \/ (worker.at # "appending" /\ r \notin Range(batch))
    PROVE  charge[r] = weight[r] /\ weight[r] \in Nat /\ charge[r] \in Nat
<1>1. charge[r] \in Nat /\ weight[r] \in Nat
  BY BudgetNumbers
<1>2. charge[r] = weight[r] + 0
  BY DEF ChargesExact
<1> QED
  BY <1>1, <1>2

LEMMA QueueStays ==
    ASSUME QueueExact, UNCHANGED queueBytes, Counted' = Counted, \A r \in Counted : weight'[r] = weight[r]
    PROVE  QueueExact'
<1>1. Total(weight', Counted) = Total(weight, Counted)
  BY TotalSame
<1> QED
  BY <1>1 DEF QueueExact, Weight

\* Before it is queued an observation holds the bytes of its record and no more.
LEMMA ObservedCharge ==
    ASSUME Types, Places, Line, ChargesExact, NEW r \in Live, phase[r] # "queued"
    PROVE  charge[r] = weight[r] /\ weight[r] \in Nat
<1>1. batch \in Seq(Requests) /\ (worker.at = "appending" => batch # <<>>)
  BY TypeParts DEF Places
<1>2. r \notin Range(batch)
  BY <1>1, RangeIs DEF Line
<1>3. worker.at = "appending" => r # batch[1]
  BY <1>1, <1>2, RangeIs, LengthIs
<1>4. r \in Requests /\ weight[r] \in Nat
  BY TypeParts DEF Live
<1>5. charge[r] = weight[r] + 0
  BY <1>2, <1>3 DEF ChargesExact
<1> QED
  BY <1>4, <1>5

LEMMA QueueUntouched ==
    ASSUME QueueExact, UNCHANGED <<worker, batch, queueBytes>>, NEW r \in Requests,
           phase[r] # "queued", phase'[r] # "queued",
           \A q \in Requests \ {r} : phase'[q] = phase[q] /\ weight'[q] = weight[q]
    PROVE  QueueExact'
<1>1. Owned' = Owned /\ r \notin Owned /\ Owned \subseteq Requests
  BY DEF Owned
<1>2. Counted' = Counted /\ Counted \subseteq Requests \ {r}
  BY <1>1 DEF Counted
<1> QED
  BY <1>2, QueueStays

\* The reservation of an observation begins, grows, or ends before it is queued.
LEMMA PartsReserved ==
    ASSUME Types, Types', Places, Line, BudgetParts, UNCHANGED <<worker, batch, queueBytes>>, NEW r \in Requests,
           r \notin Live, CanReserve(Charge[r]), Reserve(r),
           NEW to \in {"reserved", "offering"}, phase' = [phase EXCEPT ![r] = to]
    PROVE  BudgetParts'
<1>1. /\ phase \in [Requests -> Phases] /\ charge \in [Requests -> Nat] /\ weight \in [Requests -> Nat]
      /\ Charge[r] \in Nat
  BY TypeParts, Constants
<1>2. /\ phase'[r] = to /\ phase[r] # "queued" /\ phase'[r] # "queued"
      /\ charge'[r] = Charge[r] /\ weight'[r] = Charge[r]
      /\ \A q \in Requests \ {r} : phase'[q] = phase[q] /\ charge'[q] = charge[q] /\ weight'[q] = weight[q]
  BY <1>1 DEF Reserve, Live
<1>3. Live' = Live \union {r}
  BY <1>2 DEF Live
<1>4. BytesExact'
  BY <1>3, BytesReserve DEF BudgetParts
<1>5. ChargesExact'
  BY <1>1, <1>2, ChargesOne DEF BudgetParts
<1>6. QueueExact'
  BY <1>2, QueueUntouched DEF BudgetParts
<1> QED
  BY <1>4, <1>5, <1>6 DEF BudgetParts

LEMMA PartsGrown ==
    ASSUME Types, Types', Places, Line, BudgetParts, UNCHANGED <<worker, batch, queueBytes>>, NEW r \in Live,
           phase[r] # "queued", CanGrow(Growth), Grow(r, Growth), weight' = [weight EXCEPT ![r] = @ + Growth],
           phase' = phase \/ phase' = [phase EXCEPT ![r] = "offering"]
    PROVE  BudgetParts'
<1>1. /\ phase \in [Requests -> Phases] /\ charge \in [Requests -> Nat] /\ weight \in [Requests -> Nat]
      /\ Growth \in Nat /\ r \in Requests
  BY TypeParts, Constants DEF Live
<1>2. /\ phase'[r] \in {phase[r], "offering"} /\ phase'[r] # "queued"
      /\ charge'[r] = charge[r] + Growth /\ weight'[r] = weight[r] + Growth
      /\ \A q \in Requests \ {r} : phase'[q] = phase[q] /\ charge'[q] = charge[q] /\ weight'[q] = weight[q]
  BY <1>1 DEF Grow
<1>3. Live' = Live
  BY <1>1, <1>2 DEF Live
<1>4. BytesExact'
  BY <1>1, <1>3, BytesGrow DEF BudgetParts
<1>5. charge[r] = weight[r] /\ weight[r] \in Nat
  BY ObservedCharge DEF BudgetParts
<1>6. charge'[r] = weight'[r] /\ weight'[r] \in Nat
  BY <1>1, <1>2, <1>5
<1>7. ChargesExact'
  BY <1>1, <1>2, <1>6, ChargesOne DEF BudgetParts
<1>8. QueueExact'
  BY <1>1, <1>2, QueueUntouched DEF BudgetParts
<1> QED
  BY <1>4, <1>7, <1>8 DEF BudgetParts

LEMMA PartsReleased ==
    ASSUME Types, Types', Places, Line, BudgetParts, UNCHANGED <<worker, batch, queueBytes, weight>>, NEW r \in Live,
           phase[r] # "queued", ReleaseAll({r}), phase' = [phase EXCEPT ![r] = "dropped"]
    PROVE  BudgetParts'
<1>1. phase \in [Requests -> Phases] /\ charge \in [Requests -> Nat] /\ r \in Requests
  BY TypeParts DEF Live
<1>2. /\ phase'[r] = "dropped"
      /\ \A q \in Requests \ {r} : phase'[q] = phase[q] /\ charge'[q] = charge[q]
  BY <1>1 DEF ReleaseAll
<1>3. Live' = Live \ {r} /\ r \notin Live'
  BY <1>1, <1>2 DEF Live
<1>4. BytesExact'
  BY <1>3, BytesReleased DEF BudgetParts
<1>5. ChargesExact'
  BY <1>1, <1>2, <1>3, ChargesOne DEF BudgetParts
<1>6. QueueExact'
  BY <1>1, <1>2, QueueUntouched DEF BudgetParts
<1> QED
  BY <1>4, <1>5, <1>6 DEF BudgetParts

\* An observation goes on, before it is queued, with the budget as it was.
LEMMA PartsGoOn ==
    ASSUME Types, Types', Places, Line, BudgetParts, UNCHANGED <<worker, batch, queueBytes>>, NEW r \in Requests,
           phase[r] # "queued", phase'[r] # "queued", UNCHANGED <<charge, weight, reservedBytes>>,
           \A q \in Requests \ {r} : phase'[q] = phase[q], Live' = Live
    PROVE  BudgetParts'
<1>1. BytesExact'
  BY BytesStay DEF BudgetParts
<1>2. r \in Live' => charge'[r] = weight'[r] /\ weight'[r] \in Nat
  BY ObservedCharge DEF BudgetParts
<1>3. ChargesExact'
  BY <1>2, ChargesOne DEF BudgetParts
<1>4. QueueExact'
  BY QueueUntouched DEF BudgetParts
<1> QED
  BY <1>1, <1>3, <1>4 DEF BudgetParts

LEMMA PartsPublished ==
    ASSUME Types, Types', Places, Line, BudgetParts, UNCHANGED <<worker, batch, charge, weight, reservedBytes>>,
           NEW r \in Live, phase[r] # "queued", phase' = [phase EXCEPT ![r] = "queued"],
           queueBytes' = queueBytes + weight[r]
    PROVE  BudgetParts'
<1>1. phase \in [Requests -> Phases] /\ weight \in [Requests -> Nat] /\ r \in Requests /\ batch \in Seq(Requests)
  BY TypeParts DEF Live
<1>2. phase'[r] = "queued" /\ \A q \in Requests \ {r} : phase'[q] = phase[q]
  BY <1>1
<1>3. Live' = Live
  BY <1>2 DEF Live
<1>4. BytesExact'
  BY <1>3, BytesStay DEF BudgetParts
<1>5. charge[r] = weight[r] /\ weight[r] \in Nat
  BY ObservedCharge DEF BudgetParts
<1>6. ChargesExact'
  BY <1>1, <1>2, <1>5, ChargesOne DEF BudgetParts
<1>7. Owned' = Owned \union {r} /\ r \notin Owned
  BY <1>1, <1>2 DEF Owned
<1>8. r \notin Range(batch)
  BY <1>1, RangeIs DEF Line
<1>9. Counted' = Counted \union {r} /\ r \notin Counted
  BY <1>7, <1>8 DEF Counted
<1>10. Counted \in SUBSET Requests
  BY BudgetNumbers
<1>11. Total(weight, Counted \union {r}) = Total(weight, Counted) + weight[r]
  BY <1>1, <1>9, <1>10, TotalAdds
<1>12. QueueExact'
  BY <1>9, <1>11 DEF QueueExact, Weight, BudgetParts
<1> QED
  BY <1>4, <1>6, <1>12 DEF BudgetParts

LEMMA PartsOfObservation ==
    ASSUME IndInv, IndInv', BudgetParts, NEW r \in Requests,
           Offer(r) \/ OpenCapture(r) \/ ObserveBytes(r) \/ FinishCapture(r) \/ Discard(r) \/ Publish(r)
    PROVE  BudgetParts'
<1>1. Types /\ Types' /\ Places /\ Line
  BY DEF IndInv
<1>2. phase \in [Requests -> Phases]
  BY <1>1, TypeParts
<1>3. UNCHANGED <<worker, batch>>
  BY DEF Offer, OpenCapture, ObserveBytes, FinishCapture, Discard, Publish, workerVars
<1>4. CASE Offer(r)
  <2>1. phase[r] = "running" /\ r \notin Live /\ UNCHANGED queueBytes
    BY <1>4 DEF Offer, Step, Live, workerVars
  <2>2. CASE phase' = [phase EXCEPT ![r] = "dropped"] /\ UNCHANGED budgetVars
    <3>1. phase'[r] = "dropped" /\ \A q \in Requests \ {r} : phase'[q] = phase[q]
      BY <1>2, <2>2
    <3>2. Live' = Live
      BY <2>1, <3>1 DEF Live
    <3>3. UNCHANGED <<charge, weight, reservedBytes>>
      BY <2>2 DEF budgetVars
    <3> QED
      BY <1>1, <1>3, <2>1, <3>1, <3>2, <3>3, PartsGoOn
  <2>3. CASE /\ CanReserve(Charge[r]) /\ Reserve(r)
             /\ \E to \in {"reserved", "offering"} : phase' = [phase EXCEPT ![r] = to]
    BY <1>1, <1>3, <2>1, <2>3, PartsReserved
  <2> QED
    BY <1>4, <2>2, <2>3 DEF Offer, Step
<1>5. ASSUME ~Offer(r)
      PROVE  r \in Live /\ phase[r] # "queued"
  BY <1>5 DEF OpenCapture, ObserveBytes, FinishCapture, Discard, Publish, Step, Live
<1>6. ASSUME r \in Live, phase[r] # "queued", ReleaseAll({r}), phase' = [phase EXCEPT ![r] = "dropped"],
             UNCHANGED <<queueBytes, weight>>
      PROVE  BudgetParts'
  BY <1>1, <1>3, <1>6, PartsReleased
<1>7. CASE OpenCapture(r) /\ ~Offer(r)
  <2>1. UNCHANGED <<queueBytes, weight>>
    BY <1>7 DEF OpenCapture, workerVars
  <2>2. CASE phase' = [phase EXCEPT ![r] = "capturing"] /\ UNCHANGED <<charge, reservedRecords, reservedBytes>>
    <3>1. phase'[r] = "capturing" /\ \A q \in Requests \ {r} : phase'[q] = phase[q]
      BY <1>2, <2>2
    <3>2. Live' = Live
      BY <1>5, <1>7, <3>1 DEF Live
    <3> QED
      BY <1>1, <1>3, <1>5, <1>7, <2>1, <2>2, <3>1, <3>2, PartsGoOn
  <2>3. CASE phase' = [phase EXCEPT ![r] = "dropped"] /\ ReleaseAll({r})
    BY <1>5, <1>6, <1>7, <2>1, <2>3
  <2> QED
    BY <1>7, <2>2, <2>3 DEF OpenCapture, Step
<1>8. CASE ObserveBytes(r) /\ ~Offer(r)
  <2>1. /\ UNCHANGED <<queueBytes, phase>> /\ CanGrow(Growth) /\ Grow(r, Growth)
        /\ weight' = [weight EXCEPT ![r] = @ + Growth]
    BY <1>8 DEF ObserveBytes, workerVars
  <2> QED
    BY <1>1, <1>3, <1>5, <1>8, <2>1, PartsGrown
<1>9. CASE FinishCapture(r) /\ ~Offer(r)
  <2>1. UNCHANGED queueBytes
    BY <1>9 DEF FinishCapture, workerVars
  <2>2. CASE /\ CanGrow(Growth) /\ Grow(r, Growth) /\ weight' = [weight EXCEPT ![r] = @ + Growth]
             /\ phase' = [phase EXCEPT ![r] = "offering"]
    BY <1>1, <1>3, <1>5, <1>9, <2>1, <2>2, PartsGrown
  <2>3. CASE phase' = [phase EXCEPT ![r] = "dropped"] /\ ReleaseAll({r}) /\ UNCHANGED weight
    BY <1>5, <1>6, <1>9, <2>1, <2>3
  <2> QED
    BY <1>9, <2>2, <2>3 DEF FinishCapture, Step
<1>10. CASE Discard(r) /\ ~Offer(r)
  <2>1. phase' = [phase EXCEPT ![r] = "dropped"] /\ ReleaseAll({r}) /\ UNCHANGED <<queueBytes, weight>>
    BY <1>10 DEF Discard, Step, workerVars
  <2> QED
    BY <1>5, <1>6, <1>10, <2>1
<1>11. CASE Publish(r) /\ ~Offer(r)
  <2>1. CASE /\ phase' = [phase EXCEPT ![r] = "queued"] /\ queueBytes' = queueBytes + weight[r]
             /\ UNCHANGED <<charge, weight, reservedBytes>>
    BY <1>1, <1>3, <1>5, <1>11, <2>1, PartsPublished
  <2>2. CASE phase' = [phase EXCEPT ![r] = "dropped"] /\ ReleaseAll({r}) /\ UNCHANGED <<queueBytes, weight>>
    BY <1>5, <1>6, <1>11, <2>2
  <2> QED
    BY <1>11, <2>1, <2>2 DEF Publish, Step, budgetVars, workerVars
<1> QED
  BY <1>4, <1>7, <1>8, <1>9, <1>10, <1>11

\* The worker goes on with the budget as it was.
LEMMA PartsRest ==
    ASSUME BudgetParts, UNCHANGED <<phase, charge, weight, reservedBytes, queueBytes>>,
           worker.at # "releasing", worker'.at # "releasing", ChargesExact'
    PROVE  BudgetParts'
<1>1. Live' = Live /\ Owned' = Owned
  BY DEF Live, Owned
<1>2. Counted' = Counted
  BY <1>1 DEF Counted
<1>3. BytesExact'
  BY <1>1, BytesStay DEF BudgetParts
<1>4. QueueExact'
  BY <1>2, QueueStays DEF BudgetParts
<1> QED
  BY <1>3, <1>4 DEF BudgetParts

\* The same between two batches.
LEMMA PartsBetween ==
    ASSUME BudgetParts, UNCHANGED <<phase, charge, weight, reservedBytes, queueBytes>>,
           worker.at \notin {"appending", "settling", "releasing"}, worker'.at \notin {"appending", "releasing"}
    PROVE  BudgetParts'
<1>1. ChargesExact /\ Live' = Live
  BY DEF BudgetParts, Live
<1>2. \A r \in Live : charge[r] = weight[r] + 0
  BY <1>1 DEF ChargesExact
<1>3. \A r \in Live' : charge'[r] = weight'[r] + 0
  BY <1>1, <1>2
<1>4. ChargesExact'
  BY <1>3 DEF ChargesExact
<1> QED
  BY <1>4, PartsRest

\* commit charges the workspace to the first record of the batch, or discards it.
LEMMA PartsOfCommit ==
    ASSUME Types, Types', BudgetParts, worker.at \notin {"appending", "settling", "releasing"},
           UNCHANGED <<phase, weight, queueBytes>>,
           NEW b, NEW why, NEW carry, b[1] \in Requests, phase[b[1]] = "queued", Commit(b, why, carry)
    PROVE  BudgetParts'
<1> DEFINE x == b[1]
<1>1. CASE worker'.at = "settling" /\ UNCHANGED <<charge, reservedBytes>>
  BY <1>1, PartsBetween
<1>2. CASE worker'.at = "appending" /\ batch' = b /\ CanGrow(Scratch) /\ Grow(x, Scratch)
  <2>1. charge \in [Requests -> Nat] /\ weight \in [Requests -> Nat] /\ Scratch \in Nat
    BY TypeParts, Constants
  <2>2. x \in Live /\ x \in Requests /\ Live \subseteq Requests
    BY DEF Live
  <2>3. Live' = Live /\ Owned' = Owned
    BY DEF Live, Owned
  <2>4. Counted' = Counted
    BY <1>2, <2>3 DEF Counted
  <2> HIDE DEF x
  <2>5. BytesExact'
    BY <1>2, <2>1, <2>2, <2>3, BytesGrow DEF BudgetParts
  <2>6. QueueExact'
    BY <2>4, QueueStays DEF BudgetParts
  <2>7. charge'[x] = charge[x] + Scratch /\ \A r \in Live \ {x} : charge'[r] = charge[r]
    BY <1>2, <2>1, <2>2 DEF Grow
  <2>8. \A r \in Live : charge[r] = weight[r]
    BY ChargesAre DEF BudgetParts
  <2>9. \A r \in Live : charge'[r] = weight[r] + (IF r = x THEN Scratch ELSE 0)
    BY <2>1, <2>2, <2>7, <2>8
  <2>10. batch'[1] = x
    BY <1>2 DEF x
  <2>11. ChargesExact'
    BY <1>2, <2>3, <2>9, <2>10 DEF ChargesExact
  <2> QED
    BY <2>5, <2>6, <2>11 DEF BudgetParts
<1>3. worker \in WorkerRecords
  BY TypeParts
<1> QED
  BY <1>1, <1>2, <1>3 DEF Commit, WorkerRecords

LEMMA PartsOfAccept ==
    ASSUME Types, Types', Line, BudgetParts, worker.at \notin {"appending", "settling", "releasing"},
           UNCHANGED <<phase, weight, queueBytes>>, NEW r \in Requests, phase[r] = "queued", Accept(r)
    PROVE  BudgetParts'
<1> DEFINE b == Append(batch, r)
<1>1. batch \in Seq(Requests) /\ worker \in WorkerRecords
  BY TypeParts
<1>2. b[1] \in Requests /\ phase[b[1]] = "queued"
  <2>1. CASE batch = <<>>
    BY <2>1
  <2>2. CASE batch # <<>>
    <3>1. 1 \in 1..Len(batch) /\ batch[1] \in Requests
      BY <1>1, <2>2, LengthIs
    <3>2. phase[batch[1]] = "queued" /\ b[1] = batch[1]
      BY <1>1, <3>1, Appended DEF Line
    <3> QED
      BY <3>1, <3>2
  <2> QED
    BY <2>1, <2>2
<1>3. CASE Full(b)
  <2>1. Commit(b, "full", None)
    BY <1>3 DEF Accept
  <2> HIDE DEF b
  <2> QED
    BY <1>2, <2>1, PartsOfCommit
<1>4. CASE ~Full(b)
  <2>1. worker'.at \in {"select", "drain"} /\ UNCHANGED <<charge, reservedBytes>>
    BY <1>1, <1>4 DEF Accept, WorkerRecords
  <2> QED
    BY <2>1, PartsBetween
<1> QED
  BY <1>3, <1>4

\* settle gives the bytes of the batch back to the statistics, and then the reservations.
LEMMA PartsOfSettle ==
    ASSUME IndInv, IndInv', BudgetParts, SettleStatistics \/ SettleRelease
    PROVE  BudgetParts'
<1>1. Types /\ Types' /\ Line
  BY DEF IndInv
<1>2. /\ batch \in Seq(Requests) /\ worker \in WorkerRecords /\ weight \in [Requests -> Nat]
      /\ charge \in [Requests -> Nat] /\ phase \in [Requests -> Phases]
  BY <1>1, TypeParts
<1>3. Range(batch) \subseteq Owned /\ Owned \in SUBSET Requests /\ Owned \subseteq Live
  BY <1>1, <1>2, RangeIs DEF Line, Owned, Live
<1>4. CASE SettleStatistics
  <2>1. /\ worker.at = "settling" /\ worker'.at = "releasing" /\ UNCHANGED <<phase, charge, weight, reservedBytes, batch>>
        /\ queueBytes' = queueBytes - Weight(Range(batch))
    BY <1>2, <1>4 DEF SettleStatistics, WorkerRecords, budgetVars
  <2>2. Live' = Live /\ Owned' = Owned
    BY <2>1 DEF Live, Owned
  <2>3. Counted = Owned /\ Counted' = Owned \ Range(batch)
    BY <2>1, <2>2 DEF Counted
  <2>4. Total(weight, Owned \ Range(batch)) = Total(weight, Owned) - Total(weight, Range(batch))
    BY <1>2, <1>3, TotalLess
  <2>5. QueueExact'
    BY <2>1, <2>3, <2>4 DEF QueueExact, Weight, BudgetParts
  <2>6. BytesExact'
    BY <2>1, <2>2, BytesStay DEF BudgetParts
  <2>7. ChargesExact'
    BY <2>1, <2>2 DEF ChargesExact, BudgetParts
  <2> QED
    BY <2>5, <2>6, <2>7 DEF BudgetParts
<1>5. CASE SettleRelease
  <2>1. /\ worker.at = "releasing" /\ ReleaseAll(Range(batch)) /\ UNCHANGED <<weight, queueBytes>>
        /\ phase' = [r \in Requests |-> IF r \in Range(batch) THEN worker.outcome ELSE phase[r]]
    BY <1>5 DEF SettleRelease
  <2>2. worker'.at \notin {"appending", "settling", "releasing"}
    <3>1. batch' = <<>> /\ Places'
      BY <1>5 DEF SettleRelease, IndInv
    <3> QED
      BY <3>1 DEF Places
  <2>3. worker.outcome \notin {"reserved", "capturing", "offering", "queued"}
    BY <1>2 DEF WorkerRecords, Outcomes
  <2>4. /\ \A r \in Requests \ Range(batch) : phase'[r] = phase[r]
        /\ \A r \in Range(batch) : phase'[r] \notin {"reserved", "capturing", "offering", "queued"}
    BY <1>3, <2>1, <2>3
  <2>5. Live' = Live \ Range(batch) /\ Owned' = Owned \ Range(batch) /\ Live \subseteq Requests
    BY <1>3, <2>4 DEF Live, Owned
  <2>6. BytesExact'
    BY <1>1, <1>3, <2>1, <2>5, BytesReleased DEF BudgetParts
  <2>7. Counted' = Counted
    BY <2>1, <2>2, <2>5 DEF Counted
  <2>8. QueueExact'
    BY <2>1, <2>7, QueueStays DEF BudgetParts
  <2>9. \A r \in Live' : charge'[r] = charge[r] /\ charge[r] = weight[r] + 0
    BY <2>1, <2>5 DEF ReleaseAll, ChargesExact, BudgetParts
  <2>10. ChargesExact'
    BY <2>1, <2>2, <2>9 DEF ChargesExact
  <2> QED
    BY <2>6, <2>8, <2>10 DEF BudgetParts
<1> QED
  BY <1>4, <1>5

LEMMA PartsOfWorker ==
    ASSUME IndInv, IndInv', BudgetParts, WorkerStep
    PROVE  BudgetParts'
<1>1. Types /\ Types' /\ Places /\ Line
  BY DEF IndInv
<1>2. /\ queue \in Seq(Requests) /\ batch \in Seq(Requests) /\ worker \in WorkerRecords
  BY <1>1, TypeParts
<1>3. ASSUME Working PROVE UNCHANGED <<phase, weight, queueBytes>>
  BY <1>3 DEF Working
<1>4. ASSUME NEW why, NEW carry, batch # <<>>, Commit(batch, why, carry), Working,
             worker.at \notin {"appending", "settling", "releasing"}
      PROVE  BudgetParts'
  <2>1. 1 \in 1..Len(batch) /\ batch[1] \in Requests
    BY <1>2, <1>4, LengthIs
  <2>2. phase[batch[1]] = "queued"
    BY <1>1, <2>1 DEF Line
  <2> QED
    BY <1>1, <1>3, <1>4, <2>1, <2>2, PartsOfCommit
<1>5. CASE TakeRecord
  <2>1. /\ queue # <<>> /\ Working /\ worker.at \in {"select", "drain"}
        /\ (Commit(batch, "overflow", Head(queue)) /\ batch # <<>>) \/ Accept(Head(queue))
    BY <1>5 DEF TakeRecord
  <2>2. Head(queue) = queue[1] /\ 1 \in 1..Len(queue) /\ queue[1] \in Requests
    BY <1>2, <2>1, Shortened, LengthIs
  <2>3. phase[queue[1]] = "queued"
    BY <1>1, <2>2 DEF Line
  <2> QED
    BY <1>1, <1>3, <1>4, <2>1, <2>2, <2>3, PartsOfAccept
<1>6. CASE AcceptCarry
  <2>1. worker.at = "carrying" /\ Accept(worker.carry) /\ Working
    BY <1>6 DEF AcceptCarry
  <2>2. worker.carry \in Requests /\ phase[worker.carry] = "queued"
    BY <1>1, <1>2, <2>1 DEF Places, Line, WorkerRecords
  <2> QED
    BY <1>1, <1>3, <2>1, <2>2, PartsOfAccept
<1>7. CASE FlushTimer
  BY <1>4, <1>7 DEF FlushTimer
<1>8. CASE DrainEnds
  <2>1. worker.at = "drain" /\ Working
    BY <1>8 DEF DrainEnds
  <2>2. CASE batch # <<>> /\ Commit(batch, "flush", None)
    BY <1>4, <2>1, <2>2
  <2>3. CASE worker' = Idle /\ UNCHANGED <<charge, reservedBytes>>
    <3>1. worker'.at = "select"
      BY <2>3 DEF Idle
    <3> QED
      BY <1>3, <2>1, <2>3, <3>1, PartsBetween
  <2> QED
    BY <1>8, <2>2, <2>3 DEF DrainEnds
<1>9. CASE AppendReturns
  <2>1. /\ worker.at = "appending" /\ worker'.at = "settling" /\ Working /\ UNCHANGED <<charge, reservedBytes, batch>>
    BY <1>2, <1>9 DEF AppendReturns, WorkerRecords
  <2>2. Live' = Live
    BY <1>3, <2>1 DEF Live
  <2>3. batch[1] \in Range(batch)
    BY <1>1, <1>2, <2>1, RangeIs, LengthIs DEF Places
  <2>4. \A r \in Live : r = batch[1] \/ charge[r] = weight[r] + 0
    BY <2>1 DEF ChargesExact, BudgetParts
  <2>5. ChargesExact'
    BY <1>3, <2>1, <2>2, <2>3, <2>4 DEF ChargesExact
  <2> QED
    BY <1>3, <2>1, <2>5, PartsRest
<1>10. CASE SettleStatistics \/ SettleRelease
  BY <1>10, PartsOfSettle
<1>11. CASE Exit
  <2>1. worker.at \in {"select", "exiting"} /\ Working /\ UNCHANGED <<charge, reservedBytes>>
    BY <1>11 DEF Exit
  <2>2. worker'.at \in {"exited", "settling"}
    BY <1>11 DEF Exit, Idle
  <2> QED
    BY <1>3, <2>1, <2>2, PartsBetween
<1>12. CASE \E c \in Callers : TakeFlush(c)
  <2>1. worker.at = "select" /\ worker'.at = "drain" /\ Working /\ UNCHANGED <<charge, reservedBytes>>
    BY <1>2, <1>12 DEF TakeFlush, WorkerRecords
  <2> QED
    BY <1>3, <2>1, PartsBetween
<1> QED
  BY <1>5, <1>6, <1>7, <1>8, <1>9, <1>10, <1>11, <1>12 DEF WorkerStep

\* A step of the budget's owners keeps it; every other step leaves it alone.
LEMMA BudgetKept ==
    ASSUME IndInv, IndInv', RecordsExact, BudgetParts, [Next]_vars
    PROVE  RecordsExact' /\ BudgetParts'
<1>1. Types /\ Types' /\ Places /\ Line
  BY DEF IndInv
<1>2. ASSUME UNCHANGED <<phase, budgetVars, queueBytes, worker, batch>>
      PROVE  RecordsExact' /\ BudgetParts'
  <2>1. RecordsExact'
    BY <1>2, RecordsStay DEF budgetVars
  <2>2. Live' = Live /\ Counted' = Counted
    BY <1>2 DEF Live, Counted, Owned
  <2>3. BytesExact' /\ QueueExact'
    BY <1>2, <2>2, BytesStay, QueueStays DEF budgetVars, BudgetParts
  <2>4. ChargesExact'
    BY <1>2, <2>2 DEF budgetVars, BudgetParts, ChargesExact
  <2> QED
    BY <2>1, <2>3, <2>4 DEF BudgetParts
<1>3. CASE WorkerStep
  BY <1>3, RecordsOfWorker, PartsOfWorker
<1>4. CASE AdvanceEpoch
  BY <1>2, <1>4 DEF AdvanceEpoch, workerVars
<1>5. ASSUME NEW r \in Requests,
             \/ Offer(r) \/ OpenCapture(r) \/ ObserveBytes(r) \/ FinishCapture(r) \/ Discard(r) \/ Publish(r)
      PROVE  RecordsExact' /\ BudgetParts'
  BY <1>5, RecordsOfObservation, PartsOfObservation
<1>6. ASSUME NEW r \in Requests, BeginScope(r)
      PROVE  RecordsExact' /\ BudgetParts'
  <2>1. /\ phase[r] = "idle" /\ phase' = [phase EXCEPT ![r] = "running"]
        /\ UNCHANGED <<charge, weight, reservedRecords, reservedBytes, worker, batch, queueBytes>>
    BY <1>6 DEF BeginScope, Step, budgetVars, workerVars
  <2>2. phase \in [Requests -> Phases]
    BY <1>1, TypeParts
  <2>3. phase'[r] = "running" /\ \A q \in Requests \ {r} : phase'[q] = phase[q]
    BY <2>1, <2>2
  <2>4. \A q \in Requests : phase'[q] = phase[q]
            \/ (q \notin Live /\ phase'[q] \notin {"reserved", "capturing", "offering", "queued"})
    BY <2>1, <2>3 DEF Live
  <2>5. RecordsExact'
    BY <2>1, <2>4, RecordsStay
  <2>6. Live' = Live
    BY <2>4 DEF Live
  <2>7. BudgetParts'
    BY <1>1, <2>1, <2>3, <2>6, PartsGoOn
  <2> QED
    BY <2>5, <2>7
<1>7. ASSUME NEW r \in Requests, Release(r)
      PROVE  RecordsExact' /\ BudgetParts'
  BY <1>2, <1>7 DEF Release, workerVars
<1>8. ASSUME NEW t \in Terminals,
             \/ PrepareTerminalScope(t) \/ Drain(t) \/ GiveUpQueued(t) \/ GiveUpDraining(t)
             \/ FlushScope(t) \/ ScopeFlushed(t) \/ FinishTerminal(t)
      PROVE  RecordsExact' /\ BudgetParts'
  <2>1. Terminating
    BY <1>8 DEF PrepareTerminalScope, Drain, GiveUpQueued, GiveUpDraining, FlushScope, ScopeFlushed, FinishTerminal
  <2> QED
    BY <1>2, <2>1 DEF Terminating, workerVars
<1>9. ASSUME NEW c \in Callers, FlushGivesUp(c)
      PROVE  RecordsExact' /\ BudgetParts'
  BY <1>2, <1>9 DEF FlushGivesUp, workerVars
<1>10. CASE \/ PauseOffers \/ OwnerFlushes \/ OwnerFlushed \/ ResumeOffers
            \/ ShutdownOwned \/ SealScopes \/ CancelWorker \/ JoinWorker
  <2>1. Owning
    BY <1>10 DEF PauseOffers, OwnerFlushes, OwnerFlushed, ResumeOffers, ShutdownOwned, SealScopes, CancelWorker,
                 JoinWorker
  <2> QED
    BY <1>2, <2>1 DEF Owning, workerVars
<1>11. CASE UNCHANGED vars
  BY <1>2, <1>11 DEF vars, workerVars
<1> QED
  BY <1>3, <1>4, <1>5, <1>6, <1>7, <1>8, <1>9, <1>10, <1>11 DEF Next

LEMMA BudgetAtFirst ==
    ASSUME Init
    PROVE  RecordsExact /\ BudgetParts
<1>1. /\ \A r \in Requests : phase[r] = "idle" /\ charge[r] = 0
      /\ reservedRecords = 0 /\ reservedBytes = 0 /\ queueBytes = 0
  BY DEF Init
<1>2. Live = {} /\ Owned = {} /\ Counted = {} /\ {r \in Requests : charge[r] > 0} = {}
  BY <1>1 DEF Live, Owned, Counted
<1>3. RecordsExact
  BY <1>1, <1>2, FS_EmptySet, LiveIsFinite DEF RecordsExact
<1>4. Charged({}) = 0 /\ Weight({}) = 0
  <2>1. Cells(charge, {}) = {} /\ Cells(weight, {}) = {}
    BY DEF Cells
  <2> QED
    BY <2>1, FS_EmptySet DEF Charged, Weight, Total
<1>5. ByteLimit \in Nat
  BY RawEvidenceAssumption
<1>6. BytesExact /\ ChargesExact /\ QueueExact
  BY <1>1, <1>2, <1>4, <1>5 DEF BytesExact, ChargesExact, QueueExact
<1> QED
  BY <1>3, <1>6 DEF BudgetParts

\* The weights of the live observations, and the workspace while a batch is appended.
LEMMA BudgetIs ==
    ASSUME IndInv, RecordsExact, BudgetParts
    PROVE  BudgetExact
<1>1. Types /\ Places /\ Line
  BY DEF IndInv
<1>2. /\ Live \in SUBSET Requests /\ charge \in [Requests -> Nat] /\ weight \in [Requests -> Nat] /\ Scratch \in Nat
      /\ Weight(Live) \in Nat /\ batch \in Seq(Requests)
  BY <1>1, BudgetNumbers, TypeParts
<1>3. reservedBytes = Total(charge, Live)
  BY DEF BudgetParts, BytesExact, Charged
<1>4. CASE worker.at = "appending"
  <2> DEFINE x == batch[1]
  <2>1. x \in Live
    <3>1. 1 \in 1..Len(batch) /\ batch[1] \in Requests
      BY <1>1, <1>2, <1>4, LengthIs DEF Places
    <3> QED
      BY <1>1, <3>1 DEF Line, Live
  <2>2. \A r \in Live : charge[r] = weight[r] + (IF r = x THEN Scratch ELSE 0)
    BY <1>4 DEF BudgetParts, ChargesExact
  <2> HIDE DEF x
  <2>3. charge[x] = weight[x] + Scratch /\ \A r \in Live \ {x} : charge[r] = weight[r]
    BY <1>2, <2>1, <2>2
  <2>4. Total(charge, Live) = Total(weight, Live) + Scratch
    BY <1>2, <2>1, <2>3, TotalGrows
  <2> QED
    BY <1>3, <1>4, <2>4 DEF BudgetExact, BudgetParts, BytesExact, QueueExact, Counted, Owned, Weight
<1>5. CASE worker.at \in {"settling", "releasing"}
  BY <1>5 DEF BudgetExact, BudgetParts, BytesExact, QueueExact, Counted, Owned
<1>6. CASE worker.at \notin {"appending", "settling", "releasing"}
  <2>1. \A r \in Live : charge[r] = weight[r]
    BY <1>1, <1>6, ChargesAre DEF BudgetParts
  <2>2. Total(charge, Live) = Total(weight, Live)
    BY <2>1, TotalSame
  <2>3. reservedBytes = Weight(Live) + 0
    BY <1>2, <1>3, <2>2 DEF Weight
  <2> QED
    BY <1>6, <2>3 DEF BudgetExact, BudgetParts, BytesExact, QueueExact, Counted, Owned
<1> QED
  BY <1>4, <1>5, <1>6

\* The budget is exact: its records and its bytes are those of the live observations and of
\* the append under way, never beyond the limits, and the queued bytes are those of the
\* records the writer owns. No drop, discard, failed append or exit leaks a reservation or
\* returns one twice.
THEOREM RawEvidenceBudget == Spec => []BudgetExact
<1>1. Init => RecordsExact /\ BudgetParts
  BY BudgetAtFirst
<1>2. IndInv /\ IndInv' /\ RecordsExact /\ BudgetParts /\ [Next]_vars => RecordsExact' /\ BudgetParts'
  BY BudgetKept
<1>3. IndInv /\ RecordsExact /\ BudgetParts => BudgetExact
  BY BudgetIs
<1> QED
  BY <1>1, <1>2, <1>3, RawEvidenceInvariant, PTL DEF Spec

\* The memory of recording is bounded, for any number of requests and whatever appends do.
THEOREM RawEvidenceMemoryBounded == Spec => []MemoryBounded
<1>1. TypeOK /\ BudgetExact => MemoryBounded
  BY DEF TypeOK, MemoryBounded
<1> QED
  BY <1>1, RawEvidenceTypes, RawEvidenceBudget, PTL
=============================================================================
