---------------------------- MODULE LeafIssuance ----------------------------
(***************************************************************************)
(* The certificate authority (internal/localca, authority.go) on top of    *)
(* CaptureAssignment: Issue consumes the admission of a connection, looks  *)
(* into the leaf cache, and otherwise joins the flight that generates the  *)
(* leaf of its key. A flight outlives the callers that give up, and offers *)
(* what it generated to the cache, unless the authority closes or the      *)
(* admission it was started with is no longer current. Shutdown waits for  *)
(* callers and generations, then empties the cache.                        *)
(*                                                                         *)
(* All connections have one origin, so that the key of a leaf is its       *)
(* connection's mode and its Environment revision.                         *)
(***************************************************************************)
EXTENDS CaptureAssignment

CONSTANT Closers   \* calls of Shutdown

VARIABLES
    issue,      \* where the Issue of each connection stands
    flight,     \* the flight of each key: its leader, and how far it is
    cache,      \* the keys whose leaf is cached
    closed,     \* Authority.closed
    drained,    \* Authority.drained, with the generator and the signer gone
    closer      \* where each call of Shutdown stands

caVars == <<issue, flight, cache, closed, drained, closer>>
vars   == <<assignVars, caVars>>

Keys == {"semantic", "tools"} \X (1..MaxHead)

\* leafKey
KeyOf(c) == <<IF c \in Tools THEN "tools" ELSE "semantic", leaf[c].a.env>>

NoFlight    == [leader |-> None, phase |-> "none"]
IssuePhases == {"idle", "begun", "missed", "waiting", "served", "failed"}
FlightPhases == {"none", "starting", "generating", "generated", "adding", "ending"}

Init ==
    /\ AssignmentInit
    /\ issue = [c \in Connections |-> "idle"]
    /\ flight = [k \in Keys |-> NoFlight]
    /\ cache = {}
    /\ closed = FALSE /\ drained = FALSE
    /\ closer = [s \in Closers |-> "idle"]

IssueStep(c, from, to) == issue[c] = from /\ issue' = [issue EXCEPT ![c] = to]
FlightStep(k, from, to) == flight[k].phase = from /\ flight' = [flight EXCEPT ![k].phase = to]

\* activeWaiters and activeGenerations are zero.
NoWaiters     == \A c \in Connections : issue[c] \notin {"begun", "missed", "waiting"}
Generating(k) == flight[k].phase \in {"generating", "generated", "adding", "ending"}
NoGeneration  == \A k \in Keys : ~Generating(k)

\* beginWaiter, ClaimForIssuance (once per admission) and validateRequest. The
\* caller's context may have ended, or the owner's, which closes the authority.
Issue(c) ==
    /\ leaf[c].phase = "admitted"
    /\ \/ IssueStep(c, "idle", "begun") /\ ~closed /\ ~drained /\ UNCHANGED closed
       \/ IssueStep(c, "idle", "failed") /\ closed' \in {closed, TRUE}
    /\ UNCHANGED <<assignVars, flight, cache, drained, closer>>

\* Nobody holds cacheMu over several steps.
CacheFree == \A k \in Keys : flight[k].phase # "adding"

\* cached; a leaf may have expired, or been evicted.
CacheHit(c) ==
    /\ IssueStep(c, "begun", "served")
    /\ CacheFree /\ KeyOf(c) \in cache
    /\ UNCHANGED <<assignVars, flight, cache, closed, drained, closer>>

Evict ==
    /\ CacheFree /\ \E k \in cache : cache' = cache \ {k}
    /\ UNCHANGED <<assignVars, issue, flight, closed, drained, closer>>

CacheMiss(c) ==
    /\ IssueStep(c, "begun", "missed")
    /\ CacheFree /\ KeyOf(c) \notin cache
    /\ UNCHANGED <<assignVars, flight, cache, closed, drained, closer>>

\* flights.DoChan: join the flight of the key, or start it.
JoinFlight(c) ==
    LET k == KeyOf(c)
    IN  /\ IssueStep(c, "missed", "waiting")
        /\ flight' = IF flight[k].phase = "none"
                     THEN [flight EXCEPT ![k] = [leader |-> c, phase |-> "starting"]] ELSE flight
        /\ UNCHANGED <<assignVars, cache, closed, drained, closer>>

WaiterGivesUp(c) ==
    /\ IssueStep(c, "waiting", "failed")
    /\ UNCHANGED <<assignVars, flight, cache, closed, drained, closer>>

\* Every caller that waits on the key gets the result.
Deliver(k, outcome) ==
    /\ issue' = [c \in Connections |->
                    IF issue[c] = "waiting" /\ KeyOf(c) = k THEN outcome ELSE issue[c]]
    /\ flight' = [flight EXCEPT ![k] = NoFlight]

\* The flight looks into the cache again ...
FlightHits(k) ==
    /\ flight[k].phase = "starting"
    /\ CacheFree /\ k \in cache
    /\ Deliver(k, "served")
    /\ UNCHANGED <<assignVars, cache, closed, drained, closer>>

\* Mutant: a flight generates although the authority has closed.
MayGenerateLate == TRUE

\* beginGeneration
MayGenerate == ~closed /\ ~drained

BeginGeneration(k) ==
    /\ flight[k].phase = "starting"
    /\ CacheFree /\ k \notin cache
    /\ \/ MayGenerate /\ FlightStep(k, "starting", "generating") /\ UNCHANGED issue
       \/ ~MayGenerate /\ Deliver(k, "failed")
    /\ UNCHANGED <<assignVars, cache, closed, drained, closer>>

\* ... and generates, or fails, is too slow or is canceled with the authority.
Generate(k) ==
    /\ FlightStep(k, "generating", "generated")
    /\ ~closed
    /\ UNCHANGED <<assignVars, issue, cache, closed, drained, closer>>

GenerationFails(k) ==
    /\ flight[k].phase = "generating"
    /\ Deliver(k, "failed")
    /\ UNCHANGED <<assignVars, cache, closed, drained, closer>>

\* cacheGenerated under cacheMu, up to its decision: the leader's admission counts.
Offered(k) == ~closed /\ ~drained /\ Cacheable(flight[k].leader)

CacheDecides(k) ==
    /\ CacheFree
    /\ FlightStep(k, "generated", IF Offered(k) THEN "adding" ELSE "ending")
    /\ UNCHANGED <<assignVars, issue, cache, closed, drained, closer>>

CacheAdds(k) ==
    /\ FlightStep(k, "adding", "ending")
    /\ cache' = cache \union {k}
    /\ UNCHANGED <<assignVars, issue, closed, drained, closer>>

FinishGeneration(k) ==
    /\ flight[k].phase = "ending"
    /\ Deliver(k, "served")
    /\ UNCHANGED <<assignVars, cache, closed, drained, closer>>

\* Shutdown: closed, and the owner's context canceled.
CloseAuthority(s) ==
    /\ closer[s] = "idle"
    /\ closed' = TRUE
    /\ closer' = [closer EXCEPT ![s] = IF drained THEN "returned" ELSE "waiting"]
    /\ UNCHANGED <<assignVars, issue, flight, cache, drained>>

\* Mutant: the generations under way are not waited for.
QuietWaiters == NoWaiters /\ \A s \in Closers : closer[s] # "finalizing"

\* Nobody is left, and nobody else is finalizing.
Quiet == NoWaiters /\ NoGeneration /\ \A s \in Closers : closer[s] # "finalizing"

BeginFinalizing(s) ==
    /\ closer[s] = "waiting" /\ ~drained /\ Quiet
    /\ closer' = [closer EXCEPT ![s] = "finalizing"]
    /\ cache' = {}
    /\ UNCHANGED <<assignVars, issue, flight, closed, drained>>

EndFinalizing(s) ==
    /\ closer[s] = "finalizing"
    /\ closer' = [closer EXCEPT ![s] = "returned"]
    /\ drained' = TRUE
    /\ UNCHANGED <<assignVars, issue, flight, cache, closed>>

\* Another call of Shutdown finds the authority drained, or its context ends.
CloserReturns(s) ==
    /\ closer[s] = "waiting"
    /\ closer' = [closer EXCEPT ![s] = IF drained THEN "returned" ELSE "gaveUp"]
    /\ UNCHANGED <<assignVars, issue, flight, cache, closed, drained>>

FlightNext(k) ==
    \/ FlightHits(k) \/ BeginGeneration(k) \/ Generate(k) \/ GenerationFails(k)
    \/ CacheDecides(k) \/ CacheAdds(k) \/ FinishGeneration(k)

CANext ==
    \/ \E c \in Connections :
           Issue(c) \/ CacheHit(c) \/ CacheMiss(c) \/ JoinFlight(c) \/ WaiterGivesUp(c)
    \/ \E k \in Keys : FlightNext(k)
    \/ Evict
    \/ \E s \in Closers :
           CloseAuthority(s) \/ BeginFinalizing(s) \/ EndFinalizing(s) \/ CloserReturns(s)

Next ==
    \/ AssignmentNext /\ UNCHANGED caVars
    \/ CANext

Spec == Init /\ [][Next]_vars

TypeOKCA ==
    /\ issue \in [Connections -> IssuePhases]
    /\ flight \in [Keys -> [leader : Connections \union {None}, phase : FlightPhases]]
    /\ cache \subseteq Keys
    /\ {closed, drained} \subseteq BOOLEAN
    /\ closer \in [Closers -> {"idle", "waiting", "finalizing", "returned", "gaveUp"}]

\* Once a Shutdown has returned, no signer is used and no leaf is kept: no caller
\* is inside, no generation runs, the cache is empty, for good, although flights
\* outlive the callers that started them and two calls of Shutdown may meet
\* (authority.go:555-565, 597-602, 661-691).
AuthorityGone ==
    /\ TypeOKCA
    /\ drained => NoWaiters /\ NoGeneration /\ cache = {}
    /\ (\E s \in Closers : closer[s] = "returned") => drained
=============================================================================
