--------------------------- MODULE ExchangeProofs ---------------------------
(***************************************************************************)
(* Proofs about Exchange for any set of requests, any costs and any number *)
(* of resends. A request has a story, told by its own variables only: how  *)
(* far it is, what its ledger says and what its client saw. Requests meet  *)
(* in the credit and the shutdown, whose invariants look at phases only.   *)
(***************************************************************************)
EXTENDS Exchange, FiniteSetTheorems, TLAPS

Kinds    == {"stream", "script", "complete", "original"}
PlanSet  == [cost : Nat, kind : Kinds, resendable : BOOLEAN]
Leases   == [executing : BOOLEAN, released : BOOLEAN, refunded : BOOLEAN]
Attempts == [opened : BOOLEAN, intents : BOOLEAN]
Ledgers  == [sends : Nat, responses : Nat, hold : BOOLEAN, ordinary : BOOLEAN, metadata : BOOLEAN,
             semantic : BOOLEAN, tools : BOOLEAN, terminal : BOOLEAN, failure : BOOLEAN]
Clients  == [begun : BOOLEAN, seen : SUBSET Nat, tools : SUBSET Nat, aborted : BOOLEAN]
Stops    == {"running", "refusing", "closing", "quiet", "late", "drained"}

RunTypes ==
    /\ allow \in BOOLEAN
    /\ phase \in [Exchanges -> Phases]
    /\ resends \in [Exchanges -> Nat]
    /\ attempt \in [Exchanges -> Attempts]
    /\ ledger \in [Exchanges -> Ledgers]
    /\ allowed \in [Exchanges -> SUBSET Nat]
    /\ client \in [Exchanges -> Clients]

CreditTypes ==
    /\ plan \in [Exchanges -> PlanSet]
    /\ used \in Int
    /\ lease \in [Exchanges -> Leases]
    /\ operations \subseteq Exchanges /\ canceled \subseteq Exchanges
    /\ refusing \in BOOLEAN /\ closing \in BOOLEAN /\ stop \in Stops

Early   == {"idle", "acquiring", "asleep", "leased", "constructed", "claimed", "preparing"}
Done    == {"ended", "finishing", "returned", "gone"}
Running == {"sent", "answered", "reading", "deciding", "releasing", "retrying", "failing"}

\* Nothing of the attempts so far counts, for the client or for the provider's bill.
Clean(l) ==
    /\ ~l.ordinary /\ ~l.metadata /\ ~l.semantic /\ ~l.tools /\ ~l.terminal /\ ~l.failure
    /\ l.responses = 0 \/ allow

\* What the ledger l, the client c, the resends r, the attempt a and the decisions
\* ok of a request in phase p have to do with each other.
Sends(p, l, r) ==
    /\ p \in Early \union {"ready"} => l.sends = r
    /\ p \in Running => l.sends = r + 1
    /\ l.sends <= r + 1 /\ r <= MaxResends
    /\ p \in Early => l.sends = 0
    /\ p = "retrying" => r < MaxResends

Shown(l, c) ==
    /\ c.seen \subseteq {l.sends}
    /\ c.seen # {} => c.begun /\ (l.metadata \/ l.ordinary \/ l.semantic)
    /\ c.tools # {} => l.tools

Replayable(p, l) ==
    /\ p \in Early \union {"ready", "sent", "retrying"} => Clean(l)
    /\ allow \/ l.responses <= 1

Ended(p, l, c) ==
    /\ l.terminal => p \in Done /\ ~c.aborted
    /\ c.aborted => p \in Done

Decided(p, l, c, a, ok) ==
    /\ c.tools \subseteq ok \intersect {l.sends}
    /\ p = "releasing" /\ a.intents => l.sends \in ok

Story(p, l, c, r, a, ok) ==
    /\ Sends(p, l, r) /\ Shown(l, c) /\ Replayable(p, l) /\ Ended(p, l, c)
    /\ Decided(p, l, c, a, ok)

Stories ==
    \A x \in Exchanges :
        Story(phase[x], ledger[x], client[x], resends[x], attempt[x], allowed[x])

\* The lease follows the phase, and is refunded once it is released and not executing.
Unclaimed == {"idle", "acquiring", "asleep", "leased", "constructed"}

LeaseOf(p, l) ==
    /\ p \in Executing <=> l.executing
    /\ p \in Unclaimed => ~l.released
    /\ l.refunded <=> l.released /\ ~l.executing

LeasesFollow ==
    \A x \in Exchanges :
        /\ LeaseOf(phase[x], lease[x])
        /\ phase[x] # "idle" => plan[x].cost \in Costs

Cells(H) == UNION {{x} \X (1 .. plan[x].cost) : x \in H}

Counted ==
    /\ IsFiniteSet(Cells(Holders)) /\ used = Cardinality(Cells(Holders))
    /\ used <= ActiveBytes

SleepersWait ==
    \A x \in Exchanges : phase[x] = "asleep" => ~refusing /\ plan[x].cost > ActiveBytes - used

\* What is active is registered, and the shutdown goes one way.
Stopping ==
    /\ \A x \in Exchanges : phase[x] \in Executing \ {"claimed", "ended"} => x \in operations
    /\ stop # "running" => refusing
    /\ stop \notin {"running", "refusing"} => closing
    /\ stop = "quiet" => operations = {}
    /\ stop = "drained" => Holders = {}

IndInv ==
    /\ RunTypes /\ CreditTypes /\ Stories /\ LeasesFollow /\ Counted /\ SleepersWait /\ Stopping

-----------------------------------------------------------------------------
(* Records                                                                 *)

LEMMA LedgerFields ==
    \A l \in Ledgers :
        /\ l.sends \in Nat /\ l.responses \in Nat
        /\ l.hold \in BOOLEAN /\ l.ordinary \in BOOLEAN /\ l.metadata \in BOOLEAN
        /\ l.semantic \in BOOLEAN /\ l.tools \in BOOLEAN /\ l.terminal \in BOOLEAN
        /\ l.failure \in BOOLEAN
  BY Zenon DEF Ledgers

LEMMA ClientFields ==
    \A c \in Clients :
        c.begun \in BOOLEAN /\ c.seen \subseteq Nat /\ c.tools \subseteq Nat /\ c.aborted \in BOOLEAN
  BY Zenon DEF Clients

\* The ledgers a step writes.
LEMMA LedgerSteps ==
    ASSUME NEW l \in Ledgers, NEW b \in BOOLEAN, NEW d \in BOOLEAN
    PROVE  /\ [l EXCEPT !.sends = @ + 1] \in Ledgers
           /\ [l EXCEPT !.responses = @ + 1] \in Ledgers
           /\ [l EXCEPT !.failure = b] \in Ledgers
           /\ [l EXCEPT !.hold = TRUE, !.metadata = b] \in Ledgers
           /\ [l EXCEPT !.semantic = TRUE] \in Ledgers
           /\ [l EXCEPT !.ordinary = TRUE] \in Ledgers
           /\ [l EXCEPT !.terminal = TRUE] \in Ledgers
           /\ [l EXCEPT !.semantic = TRUE, !.tools = b] \in Ledgers
           /\ [l EXCEPT !.ordinary = TRUE, !.semantic = b, !.terminal = d] \in Ledgers
<1>1. [l EXCEPT !.sends = @ + 1] \in Ledgers
  BY DEF Ledgers
<1>2. [l EXCEPT !.responses = @ + 1] \in Ledgers
  BY DEF Ledgers
<1>3. [l EXCEPT !.failure = b] \in Ledgers
  BY DEF Ledgers
<1>4. [l EXCEPT !.hold = TRUE, !.metadata = b] \in Ledgers
  BY DEF Ledgers
<1>5. [l EXCEPT !.semantic = TRUE] \in Ledgers
  BY DEF Ledgers
<1>6. [l EXCEPT !.ordinary = TRUE] \in Ledgers
  BY DEF Ledgers
<1>7. [l EXCEPT !.terminal = TRUE] \in Ledgers
  BY DEF Ledgers
<1>8. [l EXCEPT !.semantic = TRUE, !.tools = b] \in Ledgers
  BY DEF Ledgers
<1>9. [l EXCEPT !.ordinary = TRUE, !.semantic = b, !.terminal = d] \in Ledgers
  BY DEF Ledgers
<1> QED
  BY <1>1, <1>2, <1>3, <1>4, <1>5, <1>6, <1>7, <1>8, <1>9

LEMMA ClientSteps ==
    ASSUME NEW c \in Clients, NEW n \in Nat, NEW T \in SUBSET Nat
    PROVE  /\ [c EXCEPT !.begun = TRUE, !.seen = @ \union {n}] \in Clients
           /\ [c EXCEPT !.begun = TRUE] \in Clients
           /\ [c EXCEPT !.aborted = TRUE] \in Clients
           /\ [c EXCEPT !.tools = T] \in Clients
  BY DEF Clients

LEMMA AttemptSteps ==
    ASSUME NEW a \in Attempts, NEW b \in BOOLEAN
    PROVE  /\ NewAttempt \in Attempts
           /\ [a EXCEPT !.opened = TRUE] \in Attempts /\ [a EXCEPT !.intents = b] \in Attempts
           /\ a.opened \in BOOLEAN /\ a.intents \in BOOLEAN
  BY DEF Attempts, NewAttempt

-----------------------------------------------------------------------------
(* Stories                                                                 *)

\* A step of the request x, when p, l, c, r, a and ok are what its variables become.
Steps(x, p, l, c, r, a, ok) ==
    /\ allow' = allow
    /\ phase' = [phase EXCEPT ![x] = p]
    /\ ledger' = [ledger EXCEPT ![x] = l]
    /\ client' = [client EXCEPT ![x] = c]
    /\ resends' = [resends EXCEPT ![x] = r]
    /\ attempt' = [attempt EXCEPT ![x] = a]
    /\ allowed' = [allowed EXCEPT ![x] = ok]

LEMMA OneStory ==
    ASSUME RunTypes, Stories, NEW x \in Exchanges,
           NEW p \in Phases, NEW l \in Ledgers, NEW c \in Clients, NEW r \in Nat,
           NEW a \in Attempts, NEW ok \in SUBSET Nat,
           Steps(x, p, l, c, r, a, ok), Story(p, l, c, r, a, ok)
    PROVE  RunTypes' /\ Stories'
<1>1. RunTypes'
  BY DEF RunTypes, Steps
<1>2. ASSUME NEW y \in Exchanges
      PROVE  Story(phase[y], ledger[y], client[y], resends[y], attempt[y], allowed[y])'
  <2>1. CASE y = x
    <3>1. /\ phase'[y] = p /\ ledger'[y] = l /\ client'[y] = c /\ resends'[y] = r
          /\ attempt'[y] = a /\ allowed'[y] = ok /\ allow' = allow
      BY <2>1 DEF RunTypes, Steps
    <3> QED
      BY <3>1, Zenon DEF Story, Sends, Shown, Replayable, Ended, Decided, Clean
  <2>2. CASE y # x
    <3>1. /\ phase'[y] = phase[y] /\ ledger'[y] = ledger[y] /\ client'[y] = client[y]
          /\ resends'[y] = resends[y] /\ attempt'[y] = attempt[y] /\ allowed'[y] = allowed[y]
          /\ allow' = allow
      BY <2>2 DEF RunTypes, Steps
    <3>2. Story(phase[y], ledger[y], client[y], resends[y], attempt[y], allowed[y])
      BY DEF Stories
    <3> QED
      BY <3>1, <3>2, Zenon DEF Story, Sends, Shown, Replayable, Ended, Decided, Clean
  <2> QED
    BY <2>1, <2>2
<1> QED
  BY <1>1, <1>2 DEF Stories

\* The variables of one request.
LEMMA OwnTypes ==
    ASSUME RunTypes, NEW x \in Exchanges
    PROVE  /\ phase[x] \in Phases /\ ledger[x] \in Ledgers /\ client[x] \in Clients
           /\ resends[x] \in Nat /\ attempt[x] \in Attempts /\ allowed[x] \in SUBSET Nat
  BY DEF RunTypes

LEMMA OwnSame ==
    ASSUME RunTypes, NEW x \in Exchanges
    PROVE  /\ phase = [phase EXCEPT ![x] = phase[x]]
           /\ ledger = [ledger EXCEPT ![x] = ledger[x]]
           /\ client = [client EXCEPT ![x] = client[x]]
           /\ resends = [resends EXCEPT ![x] = resends[x]]
           /\ attempt = [attempt EXCEPT ![x] = attempt[x]]
           /\ allowed = [allowed EXCEPT ![x] = allowed[x]]
<1>1. ASSUME NEW T, NEW f \in [Exchanges -> T] PROVE f = [f EXCEPT ![x] = f[x]]
  OBVIOUS
<1> QED
  BY <1>1, Zenon DEF RunTypes

\* Steps that touch neither the ledger nor the client: before the first attempt, and
\* to the end.
Quiet(p, q) == q = p \/ q \in Done \/ (p \in Early /\ q \in Early \union {"ready"})

LEMMA QuietStory ==
    ASSUME NEW p, NEW q, Quiet(p, q), NEW l \in Ledgers, NEW c \in Clients, NEW r \in Nat,
           NEW a \in Attempts, NEW ok \in SUBSET Nat, Story(p, l, c, r, a, ok)
    PROVE  Story(q, l, c, r, a, ok)
<1>1. CASE q = p
  BY <1>1
<1>2. CASE q \in Done
  <2>1. /\ q \notin Early \union {"ready"} /\ q \notin Running /\ q # "retrying" /\ q # "sent"
        /\ q # "releasing"
    BY <1>2 DEF Done, Early, Running
  <2>2. Sends(q, l, r)
    BY <2>1, Zenon DEF Story, Sends
  <2>3. Replayable(q, l)
    BY <2>1, Zenon DEF Story, Replayable
  <2>4. Ended(q, l, c)
    BY <1>2, Zenon DEF Story, Ended
  <2> QED
    BY <2>1, <2>2, <2>3, <2>4, Zenon DEF Story, Decided
<1>3. CASE p \in Early /\ q \in Early \union {"ready"}
  <2>1. /\ q \notin Running /\ q # "retrying" /\ q # "releasing"
        /\ p \in Early \union {"ready"} /\ p \notin Done
    BY <1>3 DEF Done, Early, Running
  <2>2. Sends(q, l, r)
    BY <1>3, <2>1, Zenon DEF Story, Sends
  <2>3. Replayable(q, l)
    BY <1>3, Zenon DEF Story, Replayable
  <2>4. Ended(q, l, c)
    BY <2>1, Zenon DEF Story, Ended
  <2> QED
    BY <2>1, <2>2, <2>3, <2>4, Zenon DEF Story, Decided
<1> QED
  BY <1>1, <1>2, <1>3 DEF Quiet

LEMMA QuietStep ==
    ASSUME RunTypes, Stories, allow' = allow, UNCHANGED runVars, phase' \in [Exchanges -> Phases],
           \A y \in Exchanges : Quiet(phase[y], phase'[y])
    PROVE  RunTypes' /\ Stories'
<1>1. RunTypes'
  BY DEF RunTypes, runVars
<1>2. ASSUME NEW y \in Exchanges
      PROVE  Story(phase[y], ledger[y], client[y], resends[y], attempt[y], allowed[y])'
  <2>1. Story(phase[y], ledger[y], client[y], resends[y], attempt[y], allowed[y])
    BY DEF Stories
  <2>2. Story(phase'[y], ledger[y], client[y], resends[y], attempt[y], allowed[y])
    BY <2>1, OwnTypes, QuietStory
  <2>3. /\ ledger' = ledger /\ client' = client /\ resends' = resends /\ attempt' = attempt
        /\ allowed' = allowed
    BY DEF runVars
  <2> QED
    BY <2>2, <2>3, Zenon DEF Story, Sends, Shown, Replayable, Ended, Decided, Clean
<1> QED
  BY <1>1, <1>2 DEF Stories

\* A request whose attempt is under way.
Between(l, c, r, ok) ==
    /\ l.sends = r + 1 /\ r <= MaxResends /\ Shown(l, c) /\ (allow \/ l.responses <= 1)
    /\ ~l.terminal /\ ~c.aborted /\ c.tools \subseteq ok \intersect {l.sends}

LEMMA RunningIsBetween ==
    ASSUME NEW p \in Running, NEW l, NEW c, NEW r, NEW a, NEW ok, Story(p, l, c, r, a, ok)
    PROVE  Between(l, c, r, ok)
<1>1. p \notin Done
  BY DEF Running, Done
<1> QED
  BY <1>1, Zenon DEF Story, Sends, Replayable, Ended, Decided, Between

LEMMA BetweenIsRunning ==
    ASSUME NEW p \in {"answered", "reading", "deciding", "releasing", "failing"},
           NEW l \in Ledgers, NEW c, NEW r \in Nat, NEW a, NEW ok,
           Between(l, c, r, ok), p = "releasing" /\ a.intents => l.sends \in ok
    PROVE  Story(p, l, c, r, a, ok)
<1>1. p \notin Early \union {"ready", "sent", "retrying"} /\ p # "retrying"
  BY DEF Early
<1>2. Sends(p, l, r)
  <2>1. l.sends <= r + 1
    BY DEF Between
  <2> QED
    BY <1>1, <2>1, Zenon DEF Sends, Between
<1> QED
  BY <1>1, <1>2, Zenon DEF Story, Replayable, Ended, Decided, Between

\* It ends, with or without a terminal.
LEMMA BetweenEnds ==
    ASSUME NEW l \in Ledgers, NEW c, NEW r \in Nat, NEW a, NEW ok,
           l.sends = r + 1, r <= MaxResends, Shown(l, c), allow \/ l.responses <= 1,
           l.terminal => ~c.aborted, c.tools \subseteq ok \intersect {l.sends}
    PROVE  Story("ended", l, c, r, a, ok)
<1>1. "ended" \notin Early \union {"ready", "sent", "retrying"} /\ "ended" \in Done /\ "ended" \notin Running
  BY DEF Early, Done, Running
<1>2. l.sends <= r + 1
  OBVIOUS
<1>3. "ended" # "retrying" /\ "ended" # "releasing"
  OBVIOUS
<1> QED
  BY <1>1, <1>2, <1>3, Zenon DEF Story, Sends, Replayable, Ended, Decided

LEMMA FailedStory ==
    ASSUME NEW x \in Exchanges, NEW l \in Ledgers, NEW c \in Clients, NEW a, NEW ok,
           resends[x] \in Nat, NEW p \in Failed(x, l), Between(l, c, resends[x], ok)
    PROVE  p \in Phases /\ p \in Running \union {"ended"} /\ Story(p, l, c, resends[x], a, ok)
<1>1. p = "failing" \/ (p = "retrying" /\ CanRetry(x, l)) \/ p = "ended"
  BY Zenon DEF Failed
<1>2. CASE p = "failing"
  BY <1>2, BetweenIsRunning DEF Phases, Running
<1>3. CASE p = "ended"
  <2>1. Story("ended", l, c, resends[x], a, ok)
    BY BetweenEnds, Zenon DEF Between
  <2> QED
    BY <1>3, <2>1 DEF Phases
<1>4. CASE p = "retrying" /\ CanRetry(x, l)
  <2>1. p \notin Early \union {"ready"} /\ p \in Running /\ p \notin Done /\ p \in Phases /\ p # "releasing"
    BY <1>4 DEF Early, Running, Done, Phases
  <2>2. l.sends <= resends[x] + 1
    BY DEF Between
  <2>3. Sends(p, l, resends[x])
    BY <1>4, <2>1, <2>2, Zenon DEF Sends, Between, CanRetry
  <2>4. Clean(l)
    BY <1>4, Zenon DEF CanRetry, CanTransportResend, Clean
  <2> QED
    BY <1>4, <2>1, <2>3, <2>4, Zenon DEF Story, Replayable, Ended, Decided, Between
<1> QED
  BY <1>1, <1>2, <1>3, <1>4

\* What is shown belongs to the attempt under way, and the ledger knows of it.
LEMMA Showing ==
    ASSUME NEW l \in Ledgers, NEW m \in Ledgers, NEW c \in Clients, NEW d \in Clients,
           NEW r \in Nat, NEW ok, Between(l, c, r, ok),
           m.sends = l.sends, m.responses = l.responses, l.tools => m.tools,
           m.metadata \/ m.ordinary \/ m.semantic,
           d.begun, d.seen \subseteq c.seen \union {l.sends}, d.aborted = c.aborted,
           \A n \in d.tools : n \in c.tools \/ (n = l.sends /\ n \in ok /\ m.tools)
    PROVE  /\ m.sends = r + 1 /\ r <= MaxResends /\ Shown(m, d) /\ (allow \/ m.responses <= 1)
           /\ ~d.aborted /\ d.tools \subseteq ok \intersect {m.sends}
<1>1. d.seen \subseteq {m.sends}
  BY Zenon DEF Between, Shown
<1>2. d.tools # {} => m.tools
  BY Zenon DEF Between, Shown
<1>3. Shown(m, d)
  BY <1>1, <1>2, Zenon DEF Shown
<1>4. d.tools \subseteq ok \intersect {m.sends}
  BY Zenon DEF Between
<1> QED
  BY <1>3, <1>4, Zenon DEF Between

\* A failed write of what l and c say leads where Failed says.
LEMMA FailedStep ==
    ASSUME RunTypes, Stories, NEW x \in Exchanges, NEW l \in Ledgers, NEW c \in Clients,
           Between(l, c, resends[x], allowed[x]), Fails(x, l), allow' = allow,
           ledger' = [ledger EXCEPT ![x] = l], client' = [client EXCEPT ![x] = c],
           UNCHANGED <<resends, attempt, allowed>>
    PROVE  RunTypes' /\ Stories'
<1>1. PICK p \in Failed(x, l) : phase' = [phase EXCEPT ![x] = p]
  BY DEF Fails
<1>2. /\ resends[x] \in Nat /\ attempt[x] \in Attempts /\ allowed[x] \in SUBSET Nat
  BY OwnTypes
<1>3. p \in Phases /\ Story(p, l, c, resends[x], attempt[x], allowed[x])
  BY <1>2, FailedStory
<1>4. Steps(x, p, l, c, resends[x], attempt[x], allowed[x])
  BY <1>1, OwnSame, Zenon DEF Steps
<1> QED
  BY <1>2, <1>3, <1>4, OneStory

-----------------------------------------------------------------------------
(* The steps of a request, one by one                                      *)

LEMMA OwnStory ==
    ASSUME Stories, NEW x \in Exchanges
    PROVE  Story(phase[x], ledger[x], client[x], resends[x], attempt[x], allowed[x])
  BY DEF Stories

LEMMA OwnBetween ==
    ASSUME Stories, NEW x \in Exchanges, phase[x] \in Running
    PROVE  Between(ledger[x], client[x], resends[x], allowed[x])
  BY OwnStory, RunningIsBetween

LEMMA SendStory ==
    ASSUME RunTypes, Stories, NEW x \in Exchanges, Send(x)
    PROVE  RunTypes' /\ Stories'
<1> DEFINE o == ledger[x]
           l == [o EXCEPT !.sends = @ + 1]
           c == client[x]
           r == resends[x]
           ok == allowed[x]
<1>1. Story("ready", o, c, r, attempt[x], ok)
  BY OwnStory DEF Send, Goes
<1>2. o \in Ledgers /\ c \in Clients /\ r \in Nat /\ ok \in SUBSET Nat /\ attempt[x] \in Attempts
  BY OwnTypes
<1>3. l \in Ledgers /\ NewAttempt \in Attempts
  BY <1>2, LedgerSteps, AttemptSteps
<1>4. /\ l.sends = o.sends + 1 /\ l.responses = o.responses /\ l.hold = o.hold
      /\ l.ordinary = o.ordinary /\ l.metadata = o.metadata /\ l.semantic = o.semantic
      /\ l.tools = o.tools /\ l.terminal = o.terminal /\ l.failure = o.failure
  BY <1>2 DEF Ledgers
<1>5. Clean(o) /\ o.sends = r /\ r <= MaxResends
  BY <1>1, Zenon DEF Story, Replayable, Sends
<1>6. Clean(l)
  BY <1>4, <1>5, Zenon DEF Clean
<1>7. c.seen = {} /\ c.tools = {}
  BY <1>1, <1>5, Zenon DEF Story, Shown, Clean
<1>8. Sends("sent", l, r)
  <2>1. "sent" \notin Early \union {"ready"} /\ "sent" # "retrying" /\ "sent" \notin Early
    BY DEF Early
  <2>2. l.sends = r + 1 /\ l.sends <= r + 1
    BY <1>2, <1>4, <1>5
  <2> QED
    BY <1>5, <2>1, <2>2, Zenon DEF Sends
<1>9. Shown(l, c)
  BY <1>7, Zenon DEF Shown
<1>10. Replayable("sent", l)
  BY <1>1, <1>4, <1>6, Zenon DEF Story, Replayable
<1>11. Ended("sent", l, c)
  <2>1. "ready" \notin Done
    BY DEF Done
  <2> QED
    BY <1>1, <1>4, <2>1, Zenon DEF Story, Ended
<1>12. Decided("sent", l, c, NewAttempt, ok)
  <2>1. "sent" # "releasing"
    OBVIOUS
  <2> QED
    BY <1>7, <2>1, Zenon DEF Decided
<1>13. Story("sent", l, c, r, NewAttempt, ok)
  BY <1>8, <1>9, <1>10, <1>11, <1>12 DEF Story
<1>14. Steps(x, "sent", l, c, r, NewAttempt, ok)
  <2>1. ledger' = [ledger EXCEPT ![x] = l]
    BY Zenon DEF Send
  <2> QED
    BY <2>1, OwnSame, Zenon DEF Steps, Send, Goes
<1>15. "sent" \in Phases
  BY DEF Phases
<1> QED
  BY <1>2, <1>3, <1>13, <1>14, <1>15, OneStory

LEMMA SendFailsStory ==
    ASSUME RunTypes, Stories, NEW x \in Exchanges, SendFails(x) \/ StreamFails(x)
    PROVE  RunTypes' /\ Stories'
<1>1. phase[x] \in Running
  BY DEF SendFails, StreamFails, Running
<1>2. Between(ledger[x], client[x], resends[x], allowed[x])
  BY <1>1, OwnBetween
<1>3. /\ Fails(x, ledger[x]) /\ allow' = allow
      /\ ledger' = [ledger EXCEPT ![x] = ledger[x]] /\ client' = [client EXCEPT ![x] = client[x]]
      /\ UNCHANGED <<resends, attempt, allowed>>
  BY OwnSame DEF SendFails, StreamFails, runVars
<1> QED
  BY <1>2, <1>3, OwnTypes, FailedStep

\* A response is only awaited once nothing of an earlier one counts.
LEMMA AnswerStory ==
    ASSUME RunTypes, Stories, NEW x \in Exchanges, Answer(x)
    PROVE  RunTypes' /\ Stories'
<1> DEFINE o == ledger[x]
           l == [o EXCEPT !.responses = @ + 1]
           c == client[x]
           r == resends[x]
           ok == allowed[x]
<1>1. /\ o \in Ledgers /\ c \in Clients /\ r \in Nat /\ ok \in SUBSET Nat /\ attempt[x] \in Attempts
      /\ l \in Ledgers
  BY OwnTypes, LedgerSteps
<1>2. /\ l.sends = o.sends /\ l.responses = o.responses + 1 /\ l.hold = o.hold
      /\ l.ordinary = o.ordinary /\ l.metadata = o.metadata /\ l.semantic = o.semantic
      /\ l.tools = o.tools /\ l.terminal = o.terminal /\ l.failure = o.failure
  BY <1>1 DEF Ledgers
<1>3. phase[x] = "sent" /\ Story("sent", o, c, r, attempt[x], ok)
  BY OwnStory DEF Answer
<1>4. Clean(o)
  BY <1>3, Zenon DEF Story, Replayable
<1>5. allow \/ l.responses <= 1
  <2>1. allow \/ o.responses = 0
    BY <1>4, Zenon DEF Clean
  <2> QED
    BY <1>2, <2>1
<1>6. Between(o, c, r, ok)
  BY <1>3, OwnBetween DEF Running
<1>7. Between(l, c, r, ok)
  BY <1>2, <1>5, <1>6, Zenon DEF Between, Shown
<1>8. /\ ledger' = [ledger EXCEPT ![x] = l] /\ client' = [client EXCEPT ![x] = c] /\ allow' = allow
      /\ UNCHANGED <<resends, attempt, allowed>>
  BY OwnSame, Zenon DEF Answer
<1>9. CASE Fails(x, l)
  BY <1>1, <1>7, <1>8, <1>9, FailedStep
<1>10. CASE Goes(x, "sent", "answered")
  <2>1. Story("answered", l, c, r, attempt[x], ok)
    BY <1>1, <1>7, BetweenIsRunning
  <2>2. Steps(x, "answered", l, c, r, attempt[x], ok)
    BY <1>8, <1>10, OwnSame, Zenon DEF Steps, Goes
  <2>3. "answered" \in Phases
    BY DEF Phases
  <2> QED
    BY <1>1, <2>1, <2>2, <2>3, OneStory
<1> QED
  BY <1>9, <1>10 DEF Answer

LEMMA RetryStory ==
    ASSUME RunTypes, Stories, NEW x \in Exchanges, Retry(x)
    PROVE  RunTypes' /\ Stories'
<1> DEFINE l == ledger[x]
           c == client[x]
           r == resends[x]
           a == attempt[x]
           ok == allowed[x]
<1>1. l \in Ledgers /\ c \in Clients /\ r \in Nat /\ ok \in SUBSET Nat /\ a \in Attempts
  BY OwnTypes
<1>2. phase[x] = "retrying" /\ Story("retrying", l, c, r, a, ok)
  BY OwnStory DEF Retry, Goes
<1>3. allow' = allow /\ UNCHANGED <<ledger, client, attempt, allowed>>
  BY DEF Retry
<1>4. CASE Goes(x, "retrying", "failing") /\ UNCHANGED resends
  <2>1. Between(l, c, r, ok)
    BY <1>2, OwnBetween DEF Running
  <2>2. Story("failing", l, c, r, a, ok)
    BY <1>1, <2>1, BetweenIsRunning
  <2>3. Steps(x, "failing", l, c, r, a, ok)
    BY <1>3, <1>4, OwnSame, Zenon DEF Steps, Goes
  <2>4. "failing" \in Phases
    BY DEF Phases
  <2> QED
    BY <1>1, <2>2, <2>3, <2>4, OneStory
<1>5. CASE Goes(x, "retrying", "ready") /\ resends' = [resends EXCEPT ![x] = @ + 1]
  <2>1. l.sends = r + 1 /\ r < MaxResends /\ Clean(l)
    <3>1. "retrying" \in Running
      BY DEF Running
    <3> QED
      BY <1>2, <3>1, Zenon DEF Story, Sends, Replayable
  <2>2. /\ "ready" \notin Running /\ "ready" \notin Early /\ "ready" # "retrying" /\ "ready" # "releasing"
        /\ "retrying" \notin Done /\ "ready" \in Phases
    BY DEF Running, Early, Done, Phases
  <2>3. l.sends <= (r + 1) + 1 /\ r + 1 <= MaxResends /\ r + 1 \in Nat
    BY <1>1, <2>1, ExchangeAssumption
  <2>4. Sends("ready", l, r + 1)
    BY <2>1, <2>2, <2>3, Zenon DEF Sends
  <2>5. Replayable("ready", l)
    BY <1>2, <2>1, Zenon DEF Story, Replayable
  <2>6. Ended("ready", l, c)
    BY <1>2, <2>2, Zenon DEF Story, Ended
  <2>7. Decided("ready", l, c, a, ok)
    BY <1>2, <2>2, Zenon DEF Story, Decided
  <2>8. Story("ready", l, c, r + 1, a, ok)
    BY <1>2, <2>4, <2>5, <2>6, <2>7, Zenon DEF Story
  <2>9. Steps(x, "ready", l, c, r + 1, a, ok)
    BY <1>3, <1>5, OwnSame, Zenon DEF Steps, Goes
  <2> QED
    BY <1>1, <2>2, <2>3, <2>8, <2>9, OneStory
<1> QED
  BY <1>4, <1>5 DEF Retry

LEMMA FailStreamStory ==
    ASSUME RunTypes, Stories, NEW x \in Exchanges, FailStream(x)
    PROVE  RunTypes' /\ Stories'
<1> DEFINE o == ledger[x]
           b == client[x]
           r == resends[x]
           a == attempt[x]
           ok == allowed[x]
<1>1. o \in Ledgers /\ b \in Clients /\ r \in Nat /\ ok \in SUBSET Nat /\ a \in Attempts
  BY OwnTypes
<1>2. phase[x] = "failing" /\ phase' = [phase EXCEPT ![x] = "ended"]
  BY DEF FailStream, Goes
<1>3. Between(o, b, r, ok)
  BY <1>2, OwnBetween DEF Running
<1>4. "ended" \in Phases
  BY DEF Phases
<1>5. allow' = allow /\ UNCHANGED <<resends, attempt, allowed>>
  BY DEF FailStream
<1>6. CASE UNCHANGED <<client, ledger>>
  <2>1. Story("ended", o, b, r, a, ok)
    BY <1>1, <1>3, BetweenEnds, Zenon DEF Between
  <2>2. Steps(x, "ended", o, b, r, a, ok)
    BY <1>2, <1>5, <1>6, OwnSame, Zenon DEF Steps
  <2> QED
    BY <1>1, <1>4, <2>1, <2>2, OneStory
<1>7. CASE /\ client' = [client EXCEPT ![x].aborted = TRUE]
           /\ ledger' = [ledger EXCEPT ![x].failure = ~ledger[x].terminal]
  <2> DEFINE c == [b EXCEPT !.aborted = TRUE]
             l == [o EXCEPT !.failure = ~o.terminal]
  <2>1. (~o.terminal) \in BOOLEAN
    OBVIOUS
  <2>2. l \in Ledgers /\ c \in Clients
    BY <1>1, <2>1, LedgerSteps, ClientSteps
  <2>3. /\ l.sends = o.sends /\ l.responses = o.responses /\ l.ordinary = o.ordinary
        /\ l.metadata = o.metadata /\ l.semantic = o.semantic /\ l.tools = o.tools
        /\ l.terminal = o.terminal
    BY <1>1 DEF Ledgers
  <2>4. c.begun = b.begun /\ c.seen = b.seen /\ c.tools = b.tools
    BY <1>1 DEF Clients
  <2>5. /\ l.sends = r + 1 /\ r <= MaxResends /\ Shown(l, c) /\ (allow \/ l.responses <= 1)
        /\ ~l.terminal /\ c.tools \subseteq ok \intersect {l.sends}
    BY <1>3, <2>3, <2>4, Zenon DEF Between, Shown
  <2>6. Story("ended", l, c, r, a, ok)
    BY <1>1, <2>2, <2>5, BetweenEnds
  <2>7. Steps(x, "ended", l, c, r, a, ok)
    BY <1>2, <1>5, <1>7, OwnSame, Zenon DEF Steps
  <2> QED
    BY <1>1, <1>4, <2>2, <2>6, <2>7, OneStory
<1> QED
  BY <1>6, <1>7 DEF FailStream

\* What Shows makes of a client.
LEMMA ShowsFields ==
    ASSUME RunTypes, NEW x \in Exchanges
    PROVE  /\ Shows(x) \in Clients /\ Shows(x).begun
           /\ Shows(x).seen \subseteq client[x].seen \union {ledger[x].sends}
           /\ Shows(x).tools = client[x].tools /\ Shows(x).aborted = client[x].aborted
<1>1. client[x] \in Clients /\ ledger[x].sends \in Nat
  BY OwnTypes, LedgerFields
<1>2. Shows(x) \in Clients
  BY <1>1, ClientSteps DEF Shows, Number
<1> QED
  BY <1>1, <1>2 DEF Shows, Number, Clients

LEMMA OpenStreamStory ==
    ASSUME RunTypes, Stories, NEW x \in Exchanges, OpenStream(x)
    PROVE  RunTypes' /\ Stories'
<1> DEFINE o == ledger[x]
           b == client[x]
           r == resends[x]
           a == [attempt[x] EXCEPT !.opened = TRUE]
           ok == allowed[x]
<1>1. /\ o \in Ledgers /\ b \in Clients /\ r \in Nat /\ ok \in SUBSET Nat /\ attempt[x] \in Attempts
      /\ a \in Attempts
  BY OwnTypes, AttemptSteps
<1>2. phase[x] \in Running
  BY DEF OpenStream, Running
<1>3. Between(o, b, r, ok)
  BY <1>2, OwnBetween
<1>4. "reading" \in Phases /\ "ended" \in Phases
  BY DEF Phases
<1>5. allow' = allow /\ UNCHANGED <<resends, allowed>>
  BY DEF OpenStream
<1>6. CASE /\ phase' = [phase EXCEPT ![x] = "reading"]
           /\ attempt' = [attempt EXCEPT ![x].opened = TRUE]
           /\ UNCHANGED <<ledger, client>>
  <2>1. Story("reading", o, b, r, a, ok)
    BY <1>1, <1>3, BetweenIsRunning
  <2>2. Steps(x, "reading", o, b, r, a, ok)
    BY <1>5, <1>6, OwnSame, Zenon DEF Steps
  <2> QED
    BY <1>1, <1>4, <2>1, <2>2, OneStory
<1>7. CASE /\ ~client[x].begun
           /\ phase' = [phase EXCEPT ![x] = "reading"]
           /\ attempt' = [attempt EXCEPT ![x].opened = TRUE]
           /\ \E metadata \in BOOLEAN :
                  /\ ledger' = [ledger EXCEPT ![x].hold = TRUE, ![x].metadata = metadata]
                  /\ client' = [client EXCEPT ![x] = IF metadata THEN Shows(x)
                                                     ELSE [@ EXCEPT !.begun = TRUE]]
  <2>1. PICK metadata \in BOOLEAN :
            /\ ledger' = [ledger EXCEPT ![x].hold = TRUE, ![x].metadata = metadata]
            /\ client' = [client EXCEPT ![x] = IF metadata THEN Shows(x)
                                               ELSE [@ EXCEPT !.begun = TRUE]]
    BY <1>7
  <2> DEFINE l == [o EXCEPT !.hold = TRUE, !.metadata = metadata]
             c == IF metadata THEN Shows(x) ELSE [b EXCEPT !.begun = TRUE]
  <2>2. l \in Ledgers
    BY <1>1, LedgerSteps
  <2>3. /\ l.sends = o.sends /\ l.responses = o.responses /\ l.ordinary = o.ordinary
        /\ l.semantic = o.semantic /\ l.tools = o.tools /\ l.terminal = o.terminal
        /\ l.metadata = metadata
    BY <1>1 DEF Ledgers
  <2>4. c \in Clients
    BY <1>1, ShowsFields, ClientSteps
  <2>5. Between(l, c, r, ok)
    <3>1. CASE metadata
      <4>1. c = Shows(x)
        BY <3>1
      <4> HIDE DEF l, c
      <4> QED
        BY <1>1, <1>3, <2>2, <2>3, <2>4, <3>1, <4>1, ShowsFields, Showing, Zenon DEF Between
    <3>2. CASE ~metadata
      <4>1. c.seen = b.seen /\ c.tools = b.tools /\ c.aborted = b.aborted
        BY <1>1, <3>2 DEF Clients
      <4>2. b.seen = {}
        BY <1>3, <1>7, Zenon DEF Between, Shown
      <4> HIDE DEF l, c
      <4> QED
        BY <1>3, <2>3, <4>1, <4>2, Zenon DEF Between, Shown
    <3> QED
      BY <3>1, <3>2
  <2>6. Steps(x, "reading", l, c, r, a, ok)
    <3>1. ledger' = [ledger EXCEPT ![x] = l]
      BY <2>1 DEF RunTypes
    <3> QED
      BY <1>5, <1>7, <2>1, <3>1, OwnSame, Zenon DEF Steps
  <2> HIDE DEF l, c
  <2>7. Story("reading", l, c, r, a, ok)
    BY <1>1, <2>2, <2>5, BetweenIsRunning
  <2> QED
    BY <1>1, <1>4, <2>2, <2>4, <2>6, <2>7, OneStory
<1>8. CASE phase' = [phase EXCEPT ![x] = "ended"] /\ UNCHANGED <<attempt, ledger, client>>
  <2>1. Story("ended", o, b, r, attempt[x], ok)
    BY <1>1, <1>3, BetweenEnds, Zenon DEF Between
  <2>2. Steps(x, "ended", o, b, r, attempt[x], ok)
    BY <1>5, <1>8, OwnSame, Zenon DEF Steps
  <2> QED
    BY <1>1, <1>4, <2>1, <2>2, OneStory
<1>9. CASE Fails(x, ledger[x]) /\ UNCHANGED <<attempt, ledger, client>>
  <2>1. ledger' = [ledger EXCEPT ![x] = o] /\ client' = [client EXCEPT ![x] = b]
    BY <1>9, OwnSame
  <2> QED
    BY <1>1, <1>3, <1>5, <1>9, <2>1, FailedStep
<1> QED
  BY <1>6, <1>7, <1>8, <1>9, Zenon DEF OpenStream

LEMMA StartReadingStory ==
    ASSUME RunTypes, Stories, NEW x \in Exchanges, StartReading(x)
    PROVE  RunTypes' /\ Stories'
<1>1. phase[x] = "answered" /\ Between(ledger[x], client[x], resends[x], allowed[x])
  BY OwnBetween DEF StartReading, Goes, Running
<1>2. "reading" \in Phases
  BY DEF Phases
<1>3. Story("reading", ledger[x], client[x], resends[x], attempt[x], allowed[x])
  BY <1>1, OwnTypes, BetweenIsRunning
<1>4. Steps(x, "reading", ledger[x], client[x], resends[x], attempt[x], allowed[x])
  BY OwnSame, Zenon DEF Steps, StartReading, Goes, runVars
<1> QED
  BY <1>2, <1>3, <1>4, OwnTypes, OneStory

LEMMA FeedStreamStory ==
    ASSUME RunTypes, Stories, NEW x \in Exchanges, FeedStream(x)
    PROVE  RunTypes' /\ Stories'
<1> DEFINE o == ledger[x]
           l == [o EXCEPT !.semantic = TRUE]
           b == client[x]
           r == resends[x]
           a == attempt[x]
           ok == allowed[x]
<1>1. /\ o \in Ledgers /\ b \in Clients /\ r \in Nat /\ ok \in SUBSET Nat /\ a \in Attempts
      /\ l \in Ledgers
  BY OwnTypes, LedgerSteps
<1>2. phase[x] = "reading" /\ Between(o, b, r, ok)
  BY OwnBetween DEF FeedStream, Running
<1>3. /\ l.sends = o.sends /\ l.responses = o.responses /\ l.semantic /\ l.tools = o.tools
      /\ l.terminal = o.terminal
  BY <1>1 DEF Ledgers
<1>4. /\ allow' = allow /\ ledger' = [ledger EXCEPT ![x] = l] /\ client' = [client EXCEPT ![x] = Shows(x)]
      /\ UNCHANGED <<resends, attempt, allowed>>
  BY DEF FeedStream
<1>5. (UNCHANGED phase) \/ Fails(x, l)
  BY DEF FeedStream
<1> HIDE DEF l
<1>6. Between(l, Shows(x), r, ok)
  BY <1>1, <1>2, <1>3, ShowsFields, Showing, Zenon DEF Between
<1>7. CASE Fails(x, l)
  BY <1>1, <1>4, <1>6, <1>7, ShowsFields, FailedStep
<1>8. CASE UNCHANGED phase
  <2>1. Story("reading", l, Shows(x), r, a, ok)
    BY <1>1, <1>6, BetweenIsRunning
  <2>2. Steps(x, "reading", l, Shows(x), r, a, ok)
    BY <1>2, <1>4, <1>8, OwnSame, Zenon DEF Steps
  <2>3. "reading" \in Phases
    BY DEF Phases
  <2> QED
    BY <1>1, <2>1, <2>2, <2>3, ShowsFields, OneStory
<1> QED
  BY <1>5, <1>7, <1>8

LEMMA DecodedStory ==
    ASSUME RunTypes, Stories, NEW x \in Exchanges, Decoded(x)
    PROVE  RunTypes' /\ Stories'
<1> DEFINE l == ledger[x]
           c == client[x]
           r == resends[x]
           ok == allowed[x]
<1>1. l \in Ledgers /\ c \in Clients /\ r \in Nat /\ ok \in SUBSET Nat /\ attempt[x] \in Attempts
  BY OwnTypes
<1>2. Between(l, c, r, ok)
  BY OwnBetween DEF Decoded, Running
<1>3. PICK intents \in BOOLEAN :
          /\ attempt' = [attempt EXCEPT ![x].intents = intents]
          /\ phase' = [phase EXCEPT ![x] = IF intents THEN "deciding" ELSE "releasing"]
  BY DEF Decoded
<1> DEFINE a == [attempt[x] EXCEPT !.intents = intents]
           p == IF intents THEN "deciding" ELSE "releasing"
<1>4. a \in Attempts /\ a.intents = intents
  BY <1>1, AttemptSteps DEF Attempts
<1>5. p \in {"deciding", "releasing"} /\ (p = "releasing" => ~a.intents)
  BY <1>4
<1>6. Steps(x, p, l, c, r, a, ok)
  BY <1>3, OwnSame, Zenon DEF Steps, Decoded
<1> HIDE DEF a, p
<1>7. Story(p, l, c, r, a, ok)
  BY <1>1, <1>2, <1>5, BetweenIsRunning
<1>8. p \in Phases
  BY <1>5 DEF Phases
<1> QED
  BY <1>1, <1>4, <1>6, <1>7, <1>8, OneStory

LEMMA DecideToolsStory ==
    ASSUME RunTypes, Stories, NEW x \in Exchanges, DecideTools(x)
    PROVE  RunTypes' /\ Stories'
<1> DEFINE l == ledger[x]
           c == client[x]
           r == resends[x]
           a == attempt[x]
           ok == allowed[x]
<1>1. l \in Ledgers /\ c \in Clients /\ r \in Nat /\ ok \in SUBSET Nat /\ a \in Attempts
  BY OwnTypes
<1>2. Between(l, c, r, ok)
  BY OwnBetween DEF DecideTools, Goes, Running
<1>3. allow' = allow /\ UNCHANGED <<resends, attempt, ledger, client>>
  BY DEF DecideTools
<1>4. CASE Fails(x, l) /\ UNCHANGED allowed
  <2>1. ledger' = [ledger EXCEPT ![x] = l] /\ client' = [client EXCEPT ![x] = c]
    BY <1>3, OwnSame
  <2> QED
    BY <1>1, <1>2, <1>3, <1>4, <2>1, FailedStep
<1>5. CASE Goes(x, "deciding", "releasing") /\ allowed' = [allowed EXCEPT ![x] = @ \union {Number(x)}]
  <2> DEFINE given == ok \union {l.sends}
  <2>1. given \in SUBSET Nat
    BY <1>1, LedgerFields
  <2>2. Between(l, c, r, given) /\ l.sends \in given
    BY <1>2, Zenon DEF Between
  <2>3. Steps(x, "releasing", l, c, r, a, given)
    BY <1>3, <1>5, OwnSame, Zenon DEF Steps, Goes, Number
  <2> HIDE DEF given
  <2>4. Story("releasing", l, c, r, a, given)
    BY <1>1, <2>2, BetweenIsRunning
  <2>5. "releasing" \in Phases
    BY DEF Phases
  <2> QED
    BY <1>1, <2>1, <2>3, <2>4, <2>5, OneStory
<1> QED
  BY <1>4, <1>5 DEF DecideTools

\* The bytes held back are written with the decisions of their own attempt; o is the
\* ledger and b the client before a failure.
LEMMA ReleaseBytesStory ==
    ASSUME RunTypes, Stories, NEW x \in Exchanges, phase[x] = "releasing",
           NEW o \in Ledgers, NEW b \in Clients, Between(o, b, resends[x], allowed[x]),
           o.sends = ledger[x].sends, o.responses = ledger[x].responses, o.tools = ledger[x].tools,
           ReleaseBytes(x, o, b), allow' = allow, UNCHANGED <<resends, attempt, allowed>>
    PROVE  RunTypes' /\ Stories'
<1> DEFINE r == resends[x]
           a == attempt[x]
           ok == allowed[x]
           written == [o EXCEPT !.semantic = TRUE, !.tools = @ \/ attempt[x].intents]
           shown   == [Shows(x) EXCEPT !.tools = @ \union {n \in {Number(x)} : attempt[x].intents}]
           ended   == [written EXCEPT !.terminal = TRUE]
<1>1. /\ ledger[x] \in Ledgers /\ client[x] \in Clients /\ r \in Nat /\ ok \in SUBSET Nat
      /\ a \in Attempts /\ a.intents \in BOOLEAN
  BY OwnTypes, AttemptSteps
<1>2. Between(ledger[x], client[x], r, ok) /\ (a.intents => ledger[x].sends \in ok)
  <2>1. Story("releasing", ledger[x], client[x], r, a, ok)
    BY OwnStory
  <2> QED
    BY <2>1, OwnBetween, Zenon DEF Story, Decided, Running
<1>3. written \in Ledgers
  <2>1. (o.tools \/ a.intents) \in BOOLEAN
    OBVIOUS
  <2> QED
    BY <2>1, LedgerSteps
<1>4. /\ written.sends = o.sends /\ written.responses = o.responses /\ written.semantic
      /\ (written.tools <=> (o.tools \/ a.intents)) /\ written.terminal = o.terminal
  BY DEF Ledgers
<1>5. Shows(x) \in Clients /\ Shows(x).tools \subseteq Nat /\ ledger[x].sends \in Nat
  BY <1>1, ShowsFields, ClientFields, LedgerFields
<1>6. shown \in Clients
  <2>1. Shows(x).tools \union {n \in {Number(x)} : attempt[x].intents} \in SUBSET Nat
    BY <1>5 DEF Number
  <2> QED
    BY <1>5, <2>1, ClientSteps
<1>7. /\ shown.begun /\ shown.seen \subseteq client[x].seen \union {ledger[x].sends}
      /\ shown.aborted = client[x].aborted
      /\ \A n \in shown.tools : n \in client[x].tools \/ (n = ledger[x].sends /\ a.intents)
  <2>1. /\ shown.begun = Shows(x).begun /\ shown.seen = Shows(x).seen
        /\ shown.aborted = Shows(x).aborted
        /\ shown.tools = Shows(x).tools \union {n \in {Number(x)} : attempt[x].intents}
    BY <1>5 DEF Clients
  <2> QED
    BY <2>1, ShowsFields, Zenon DEF Number
<1>8. /\ ended \in Ledgers /\ ended.sends = written.sends /\ ended.responses = written.responses
      /\ ended.semantic = written.semantic /\ ended.tools = written.tools
      /\ ended.metadata = written.metadata /\ ended.ordinary = written.ordinary
  <2>1. ASSUME NEW w \in Ledgers, NEW e, e = [w EXCEPT !.terminal = TRUE]
        PROVE  /\ e \in Ledgers /\ e.sends = w.sends /\ e.responses = w.responses
               /\ e.semantic = w.semantic /\ e.tools = w.tools
               /\ e.metadata = w.metadata /\ e.ordinary = w.ordinary
    <3>1. e \in Ledgers
      BY <2>1, LedgerSteps
    <3> QED
      BY <2>1, <3>1 DEF Ledgers
  <2> HIDE DEF written
  <2> QED
    BY <1>3, <2>1
<1>9. \/ /\ client' = [client EXCEPT ![x] = shown]
         /\ \/ ledger' = [ledger EXCEPT ![x] = ended] /\ phase' = [phase EXCEPT ![x] = "ended"]
            \/ ledger' = [ledger EXCEPT ![x] = written] /\ Fails(x, written)
      \/ /\ ledger' = [ledger EXCEPT ![x] = o] /\ client' = [client EXCEPT ![x] = b] /\ Fails(x, o)
  BY Zenon DEF ReleaseBytes
<1> HIDE DEF written, shown, ended
<1>10. /\ written.sends = r + 1 /\ r <= MaxResends /\ Shown(written, shown)
       /\ (allow \/ written.responses <= 1)
       /\ ~shown.aborted /\ shown.tools \subseteq ok \intersect {written.sends}
  <2>1. /\ written.sends = ledger[x].sends /\ written.responses = ledger[x].responses
        /\ ledger[x].tools => written.tools
        /\ \A n \in shown.tools :
               n \in client[x].tools \/ (n = ledger[x].sends /\ n \in ok /\ written.tools)
    BY <1>2, <1>4, <1>7, Zenon
  <2> QED
    BY <1>1, <1>2, <1>3, <1>4, <1>6, <1>7, <2>1, Showing, SMTT(30)
<1>11. Between(written, shown, r, ok)
  BY <1>4, <1>10, Zenon DEF Between
<1>12. CASE ledger' = [ledger EXCEPT ![x] = o] /\ client' = [client EXCEPT ![x] = b] /\ Fails(x, o)
  BY <1>12, FailedStep
<1>13. CASE /\ client' = [client EXCEPT ![x] = shown] /\ ledger' = [ledger EXCEPT ![x] = written]
            /\ Fails(x, written)
  BY <1>3, <1>6, <1>11, <1>13, FailedStep
<1>14. CASE /\ client' = [client EXCEPT ![x] = shown] /\ ledger' = [ledger EXCEPT ![x] = ended]
            /\ phase' = [phase EXCEPT ![x] = "ended"]
  <2>1. Shown(ended, shown)
    BY <1>8, <1>10, Zenon DEF Shown
  <2>2. Story("ended", ended, shown, r, a, ok)
    BY <1>1, <1>8, <1>10, <2>1, BetweenEnds
  <2>3. Steps(x, "ended", ended, shown, r, a, ok)
    BY <1>14, OwnSame, Zenon DEF Steps
  <2>4. "ended" \in Phases
    BY DEF Phases
  <2> QED
    BY <1>1, <1>6, <1>8, <2>2, <2>3, <2>4, OneStory
<1> QED
  BY <1>9, <1>12, <1>13, <1>14

LEMMA ReleaseStreamStory ==
    ASSUME RunTypes, Stories, NEW x \in Exchanges, ReleaseStream(x)
    PROVE  RunTypes' /\ Stories'
<1> DEFINE o == ledger[x]
           b == client[x]
           r == resends[x]
           a == attempt[x]
           ok == allowed[x]
           l == [o EXCEPT !.terminal = TRUE]
<1>1. /\ o \in Ledgers /\ b \in Clients /\ r \in Nat /\ ok \in SUBSET Nat /\ a \in Attempts
      /\ l \in Ledgers
  BY OwnTypes, LedgerSteps
<1>2. phase[x] = "releasing" /\ Between(o, b, r, ok)
  BY OwnBetween DEF ReleaseStream, Running
<1>3. allow' = allow /\ UNCHANGED <<resends, attempt, allowed>>
  BY DEF ReleaseStream
<1>4. CASE ReleaseBytes(x, ledger[x], client[x])
  BY <1>1, <1>2, <1>3, <1>4, ReleaseBytesStory
<1>5. CASE /\ ledger' = [ledger EXCEPT ![x].terminal = TRUE]
           /\ phase' = [phase EXCEPT ![x] = "ended"] /\ UNCHANGED client
  <2>1. /\ l.sends = o.sends /\ l.responses = o.responses /\ l.semantic = o.semantic
        /\ l.tools = o.tools /\ l.metadata = o.metadata /\ l.ordinary = o.ordinary
    BY <1>1 DEF Ledgers
  <2>2. /\ l.sends = r + 1 /\ r <= MaxResends /\ Shown(l, b) /\ (allow \/ l.responses <= 1)
        /\ ~b.aborted /\ b.tools \subseteq ok \intersect {l.sends}
    BY <1>2, <2>1, Zenon DEF Between, Shown
  <2>3. Steps(x, "ended", l, b, r, a, ok)
    BY <1>3, <1>5, OwnSame, Zenon DEF Steps
  <2> HIDE DEF l
  <2>4. Story("ended", l, b, r, a, ok)
    BY <1>1, <2>2, BetweenEnds
  <2>5. "ended" \in Phases
    BY DEF Phases
  <2> QED
    BY <1>1, <2>3, <2>4, <2>5, OneStory
<1> QED
  BY <1>4, <1>5 DEF ReleaseStream

LEMMA ReleaseCompleteStory ==
    ASSUME RunTypes, Stories, NEW x \in Exchanges, ReleaseComplete(x)
    PROVE  RunTypes' /\ Stories'
<1> DEFINE o == ledger[x]
           b == client[x]
           r == resends[x]
           ok == allowed[x]
           l == [o EXCEPT !.ordinary = TRUE]
<1>1. /\ o \in Ledgers /\ b \in Clients /\ r \in Nat /\ ok \in SUBSET Nat /\ attempt[x] \in Attempts
      /\ l \in Ledgers
  BY OwnTypes, LedgerSteps
<1>2. phase[x] = "releasing" /\ Between(o, b, r, ok)
  BY OwnBetween DEF ReleaseComplete, Running
<1>3. allow' = allow /\ UNCHANGED <<resends, attempt, allowed>>
  BY DEF ReleaseComplete
<1>4. CASE ReleaseBytes(x, l, Shows(x))
  <2>1. /\ l.sends = o.sends /\ l.responses = o.responses /\ l.ordinary
        /\ l.tools = o.tools /\ l.terminal = o.terminal
    BY <1>1 DEF Ledgers
  <2> HIDE DEF l
  <2>2. Between(l, Shows(x), r, ok)
    BY <1>1, <1>2, <2>1, ShowsFields, Showing, Zenon DEF Between
  <2> QED
    BY <1>1, <1>2, <1>3, <1>4, <2>1, <2>2, ShowsFields, ReleaseBytesStory
<1>5. CASE Goes(x, "releasing", "ended") /\ UNCHANGED <<ledger, client>>
  <2>1. Story("ended", o, b, r, attempt[x], ok)
    BY <1>1, <1>2, BetweenEnds, Zenon DEF Between
  <2>2. Steps(x, "ended", o, b, r, attempt[x], ok)
    BY <1>3, <1>5, OwnSame, Zenon DEF Steps, Goes
  <2>3. "ended" \in Phases
    BY DEF Phases
  <2> QED
    BY <1>1, <2>1, <2>2, <2>3, OneStory
<1> QED
  BY <1>4, <1>5 DEF ReleaseComplete

LEMMA PassOriginalStory ==
    ASSUME RunTypes, Stories, NEW x \in Exchanges, PassOriginal(x)
    PROVE  RunTypes' /\ Stories'
<1> DEFINE o == ledger[x]
           b == client[x]
           r == resends[x]
           a == attempt[x]
           ok == allowed[x]
<1>1. o \in Ledgers /\ b \in Clients /\ r \in Nat /\ ok \in SUBSET Nat /\ a \in Attempts
  BY OwnTypes
<1>2. phase[x] = "answered" /\ Between(o, b, r, ok)
  BY OwnBetween DEF PassOriginal, Running
<1>3. allow' = allow /\ phase' = [phase EXCEPT ![x] = "ended"] /\ UNCHANGED <<resends, attempt, allowed>>
  BY DEF PassOriginal
<1>4. "ended" \in Phases
  BY DEF Phases
<1>5. CASE UNCHANGED <<ledger, client>>
  <2>1. Story("ended", o, b, r, a, ok)
    BY <1>1, <1>2, BetweenEnds, Zenon DEF Between
  <2>2. Steps(x, "ended", o, b, r, a, ok)
    BY <1>3, <1>5, OwnSame, Zenon DEF Steps
  <2> QED
    BY <1>1, <1>4, <2>1, <2>2, OneStory
<1>6. CASE /\ \E semantic, terminal \in BOOLEAN :
                  ledger' = [ledger EXCEPT ![x].ordinary = TRUE, ![x].semantic = semantic,
                                           ![x].terminal = terminal]
           /\ client' = [client EXCEPT ![x] = Shows(x)]
  <2>1. PICK semantic \in BOOLEAN, terminal \in BOOLEAN :
            ledger' = [ledger EXCEPT ![x].ordinary = TRUE, ![x].semantic = semantic,
                                     ![x].terminal = terminal]
    BY <1>6
  <2> DEFINE l == [o EXCEPT !.ordinary = TRUE, !.semantic = semantic, !.terminal = terminal]
  <2>2. l \in Ledgers
    BY <1>1, LedgerSteps
  <2>3. l.sends = o.sends /\ l.responses = o.responses /\ l.ordinary /\ l.tools = o.tools
    BY <1>1 DEF Ledgers
  <2>4. Steps(x, "ended", l, Shows(x), r, a, ok)
    <3>1. ledger' = [ledger EXCEPT ![x] = l]
      BY <2>1 DEF RunTypes
    <3> QED
      BY <1>3, <1>6, <3>1, OwnSame, Zenon DEF Steps
  <2> HIDE DEF l
  <2>5. /\ l.sends = r + 1 /\ r <= MaxResends /\ Shown(l, Shows(x)) /\ (allow \/ l.responses <= 1)
        /\ ~Shows(x).aborted /\ Shows(x).tools \subseteq ok \intersect {l.sends}
    <3>1. \A n \in Shows(x).tools : n \in b.tools
      BY ShowsFields
    <3> QED
      BY <1>1, <1>2, <2>2, <2>3, <3>1, ShowsFields, Showing
  <2>6. Story("ended", l, Shows(x), r, a, ok)
    BY <1>1, <2>2, <2>5, BetweenEnds
  <2> QED
    BY <1>1, <1>4, <2>2, <2>4, <2>6, ShowsFields, OneStory
<1> QED
  BY <1>5, <1>6 DEF PassOriginal

-----------------------------------------------------------------------------
(* Body credit                                                             *)

\* The bytes of one more request come on top of those of the others.
LEMMA CellsAdded ==
    ASSUME NEW H, NEW x, x \notin H, plan[x].cost \in Nat, IsFiniteSet(Cells(H))
    PROVE  /\ IsFiniteSet(Cells(H \union {x}))
           /\ Cardinality(Cells(H \union {x})) = Cardinality(Cells(H)) + plan[x].cost
<1> DEFINE n == plan[x].cost
           own == {x} \X (1 .. n)
<1>1. Cells(H \union {x}) = Cells(H) \union own
  BY DEF Cells
<1>2. Cells(H) \intersect own = {}
  BY DEF Cells
<1>3. n \in Nat
  OBVIOUS
<1> HIDE DEF n
<1>4. IsFiniteSet(1 .. n) /\ Cardinality(1 .. n) = n
  <2>1. /\ IsFiniteSet(1 .. n)
        /\ Cardinality(1 .. n) = IF 1 > n THEN 0 ELSE n - 1 + 1
    BY <1>3, 1 \in Int, n \in Int, FS_Interval
  <2> QED
    BY <1>3, <2>1
<1>5. IsFiniteSet({x}) /\ Cardinality({x}) = 1
  BY FS_Singleton
<1>6. IsFiniteSet(own) /\ Cardinality(own) = n
  <2>1. IsFiniteSet(own) /\ Cardinality(own) = Cardinality({x}) * Cardinality(1 .. n)
    BY <1>4, <1>5, FS_Product, Zenon
  <2> QED
    BY <1>3, <1>4, <1>5, <2>1
<1>7. Cardinality(Cells(H)) \in Nat
  BY FS_CardinalityType
<1> HIDE DEF own
<1>8. /\ IsFiniteSet(Cells(H) \union own)
      /\ Cardinality(Cells(H) \union own) =
             Cardinality(Cells(H)) + Cardinality(own) - Cardinality(Cells(H) \intersect own)
  BY <1>6, FS_Union
<1>9. Cardinality(Cells(H) \intersect own) = 0
  BY <1>2, FS_EmptySet
<1>10. Cardinality(Cells(H) \union own) = Cardinality(Cells(H)) + n
  BY <1>3, <1>6, <1>7, <1>8, <1>9
<1> QED
  BY <1>1, <1>8, <1>10 DEF n

LEMMA CellsFewer ==
    ASSUME NEW H, NEW x \in H, plan[x].cost \in Nat, IsFiniteSet(Cells(H))
    PROVE  /\ IsFiniteSet(Cells(H \ {x}))
           /\ Cardinality(Cells(H \ {x})) = Cardinality(Cells(H)) - plan[x].cost
<1>1. Cells(H \ {x}) \in SUBSET Cells(H)
  BY DEF Cells
<1>2. IsFiniteSet(Cells(H \ {x}))
  BY <1>1, FS_Subset
<1>3. (H \ {x}) \union {x} = H /\ x \notin H \ {x}
  OBVIOUS
<1>4. Cardinality(Cells(H)) = Cardinality(Cells(H \ {x})) + plan[x].cost
  BY <1>2, <1>3, CellsAdded
<1>5. Cardinality(Cells(H \ {x})) \in Nat
  BY <1>2, FS_CardinalityType
<1> QED
  BY <1>2, <1>4, <1>5

\* The rest of what the credit and the shutdown say.
CreditInv == CreditTypes /\ LeasesFollow /\ Counted /\ SleepersWait /\ Stopping

Bare == {"idle", "acquiring", "asleep", "gone"}

\* Who holds credit, in terms of a phase and a lease.
Holds(p, l) == p \notin Bare /\ (l.executing \/ ~l.released)

LEMMA HoldersKept ==
    ASSUME \A y \in Exchanges : Holds(phase'[y], lease'[y]) <=> Holds(phase[y], lease[y]),
           \A y \in Holders : plan'[y] = plan[y], used' = used, Counted
    PROVE  Holders' = Holders /\ Counted'
<1>1. Holders' = Holders
  BY DEF Holders, Holds, Bare
<1>2. Cells(Holders)' = Cells(Holders)
  <2>1. Cells(Holders)' = UNION {{y} \X (1 .. plan'[y].cost) : y \in Holders}
    BY <1>1 DEF Cells
  <2> QED
    BY <2>1 DEF Cells
<1> QED
  BY <1>1, <1>2 DEF Counted

\* A step of x that neither takes nor returns credit.
LEMMA CreditKept ==
    ASSUME CreditInv, phase \in [Exchanges -> Phases], NEW x \in Exchanges,
           \A y \in Exchanges \ {x} :
               /\ phase'[y] = phase[y] /\ plan'[y] = plan[y] /\ lease'[y] = lease[y]
               /\ y \in operations => y \in operations',
           Holds(phase'[x], lease'[x]) <=> Holds(phase[x], lease[x]),
           phase[x] \notin Bare => plan'[x] = plan[x],
           phase'[x] # "idle" => plan'[x].cost \in Costs,
           LeaseOf(phase'[x], lease'[x]),
           phase'[x] = "asleep" => ~refusing /\ plan'[x].cost > ActiveBytes - used,
           phase'[x] \in Executing \ {"claimed", "ended"} => x \in operations',
           stop = "quiet" => operations' = {},
           used' = used, UNCHANGED stopVars
    PROVE  LeasesFollow' /\ Counted' /\ SleepersWait' /\ Stopping'
<1>1. \A y \in Exchanges : Holds(phase'[y], lease'[y]) <=> Holds(phase[y], lease[y])
  OBVIOUS
<1>2. \A y \in Holders : plan'[y] = plan[y]
  BY DEF Holders, Bare
<1>3. Holders' = Holders /\ Counted'
  BY <1>1, <1>2, HoldersKept DEF CreditInv
<1>4. LeasesFollow'
  <2>1. ASSUME NEW y \in Exchanges
        PROVE  LeaseOf(phase'[y], lease'[y]) /\ (phase'[y] # "idle" => plan'[y].cost \in Costs)
    BY DEF CreditInv, LeasesFollow
  <2> QED
    BY <2>1 DEF LeasesFollow, LeaseOf
<1>5. SleepersWait'
  BY DEF CreditInv, SleepersWait, stopVars
<1>6. Stopping'
  BY <1>3 DEF CreditInv, Stopping, stopVars
<1> QED
  BY <1>3, <1>4, <1>5, <1>6

LEMMA PlanCost ==
    ASSUME CreditTypes, NEW x \in Exchanges
    PROVE  plan[x].cost \in Nat
  BY DEF CreditTypes, PlanSet

LEMMA LeaseSteps ==
    ASSUME NEW l \in Leases, NEW b \in BOOLEAN
    PROVE  /\ l.executing \in BOOLEAN /\ l.released \in BOOLEAN /\ l.refunded \in BOOLEAN
           /\ [l EXCEPT !.executing = b] \in Leases
           /\ [l EXCEPT !.released = b] \in Leases
           /\ [l EXCEPT !.refunded = b] \in Leases
<1>1. l.executing \in BOOLEAN /\ l.released \in BOOLEAN /\ l.refunded \in BOOLEAN
  BY Zenon DEF Leases
<1>2. [l EXCEPT !.executing = b] \in Leases
  BY DEF Leases
<1>3. [l EXCEPT !.released = b] \in Leases
  BY DEF Leases
<1>4. [l EXCEPT !.refunded = b] \in Leases
  BY DEF Leases
<1> QED
  BY <1>1, <1>2, <1>3, <1>4

LEMMA AcquirePlanCredit ==
    ASSUME CreditInv, phase \in [Exchanges -> Phases], NEW x \in Exchanges, AcquirePlan(x)
    PROVE  CreditInv'
<1>1. PICK p \in Plans(x) : plan' = [plan EXCEPT ![x] = p]
  BY DEF AcquirePlan
<1>2. p \in PlanSet /\ p.cost \in Costs
  <2>1. Costs \subseteq Nat /\ KindsOf[x] \subseteq Kinds
    BY ExchangeAssumption DEF Kinds
  <2>2. p \in [cost : Costs, kind : KindsOf[x], resendable : BOOLEAN]
    BY DEF Plans
  <2> QED
    BY <2>1, <2>2 DEF PlanSet
<1>3. /\ phase[x] = "idle" /\ phase' = [phase EXCEPT ![x] = "acquiring"]
      /\ UNCHANGED <<used, lease, operations, canceled>> /\ UNCHANGED stopVars
  BY DEF AcquirePlan, Goes, creditVars
<1>4. CreditTypes'
  BY <1>1, <1>2, <1>3 DEF CreditInv, CreditTypes, stopVars
<1>5. plan'[x] = p /\ phase'[x] = "acquiring"
  BY <1>1, <1>3 DEF CreditInv, CreditTypes
<1>6. LeaseOf("acquiring", lease[x])
  BY <1>3 DEF CreditInv, LeasesFollow, LeaseOf, Executing, Unclaimed
<1>7. \A y \in Exchanges \ {x} : phase'[y] = phase[y] /\ plan'[y] = plan[y]
  BY <1>1, <1>3
<1>8. stop = "quiet" => operations' = {}
  BY <1>3 DEF CreditInv, Stopping
<1>9. LeasesFollow' /\ Counted' /\ SleepersWait' /\ Stopping'
  BY <1>2, <1>3, <1>5, <1>6, <1>7, <1>8, CreditKept DEF Bare, Holds, Executing
<1> QED
  BY <1>4, <1>9 DEF CreditInv

\* Credit is given to x.
LEMMA AcquireCredit ==
    ASSUME CreditInv, phase \in [Exchanges -> Phases], NEW x \in Exchanges, Acquire(x)
    PROVE  CreditInv'
<1>1. phase[x] = "acquiring" /\ UNCHANGED <<plan, lease, operations, canceled>> /\ UNCHANGED stopVars
  BY DEF Acquire
<1>2. plan[x].cost \in Nat /\ plan[x].cost \in Costs /\ used \in Int /\ ActiveBytes \in Nat
  BY <1>1, PlanCost, ExchangeAssumption DEF CreditInv, CreditTypes, LeasesFollow
<1>3. stop = "quiet" => operations' = {}
  BY <1>1 DEF CreditInv, Stopping
<1>4. LeaseOf("acquiring", lease[x])
  BY <1>1 DEF CreditInv, LeasesFollow
<1>5. CASE refusing /\ phase' = [phase EXCEPT ![x] = "gone"] /\ UNCHANGED used
  <2>1. phase'[x] = "gone" /\ \A y \in Exchanges \ {x} : phase'[y] = phase[y]
    BY <1>5
  <2>2. LeaseOf("gone", lease[x])
    BY <1>4 DEF LeaseOf, Executing, Unclaimed
  <2>3. LeasesFollow' /\ Counted' /\ SleepersWait' /\ Stopping'
    BY <1>1, <1>2, <1>3, <1>5, <2>1, <2>2, CreditKept DEF Bare, Holds, Executing
  <2> QED
    BY <1>1, <1>5, <2>3 DEF CreditInv, CreditTypes, stopVars
<1>6. CASE /\ ~refusing /\ ~(plan[x].cost <= ActiveBytes - used)
           /\ phase' = [phase EXCEPT ![x] = "asleep"] /\ UNCHANGED used
  <2>1. phase'[x] = "asleep" /\ \A y \in Exchanges \ {x} : phase'[y] = phase[y]
    BY <1>6
  <2>2. LeaseOf("asleep", lease[x])
    BY <1>4 DEF LeaseOf, Executing, Unclaimed
  <2>3. plan[x].cost > ActiveBytes - used
    BY <1>2, <1>6
  <2>4. LeasesFollow' /\ Counted' /\ SleepersWait' /\ Stopping'
    BY <1>1, <1>2, <1>3, <1>6, <2>1, <2>2, <2>3, CreditKept DEF Bare, Holds, Executing
  <2> QED
    BY <1>1, <1>6, <2>4 DEF CreditInv, CreditTypes, stopVars
<1>7. CASE /\ ~refusing /\ plan[x].cost <= ActiveBytes - used
           /\ phase' = [phase EXCEPT ![x] = "leased"] /\ used' = used + plan[x].cost
  <2>1. phase'[x] = "leased" /\ \A y \in Exchanges \ {x} : phase'[y] = phase[y]
    BY <1>7
  <2>2. Holders' = Holders \union {x} /\ x \notin Holders
    <3>1. ~lease[x].released
      BY <1>4 DEF LeaseOf, Unclaimed
    <3> QED
      BY <1>1, <2>1, <3>1 DEF Holders
  <2>3. CreditTypes'
    BY <1>1, <1>2, <1>7 DEF CreditInv, CreditTypes, stopVars
  <2>4. Counted'
    <3>1. IsFiniteSet(Cells(Holders)) /\ used = Cardinality(Cells(Holders))
      BY DEF CreditInv, Counted
    <3>2. Cells(Holders)' = Cells(Holders \union {x})
      BY <1>1, <2>2 DEF Cells
    <3>3. /\ IsFiniteSet(Cells(Holders \union {x}))
          /\ Cardinality(Cells(Holders \union {x})) = used + plan[x].cost
      BY <1>2, <2>2, <3>1, CellsAdded
    <3>4. used' <= ActiveBytes
      BY <1>2, <1>7
    <3> QED
      BY <1>7, <3>2, <3>3, <3>4 DEF Counted
  <2>5. LeasesFollow'
    <3>1. LeaseOf("leased", lease[x])
      BY <1>4 DEF LeaseOf, Executing, Unclaimed
    <3>2. ASSUME NEW y \in Exchanges
          PROVE  LeaseOf(phase'[y], lease'[y]) /\ (phase'[y] # "idle" => plan'[y].cost \in Costs)
      BY <1>1, <1>2, <2>1, <3>1 DEF CreditInv, LeasesFollow
    <3> QED
      BY <3>2 DEF LeasesFollow, LeaseOf
  <2>6. SleepersWait'
    <3>1. ASSUME NEW y \in Exchanges, phase'[y] = "asleep"
          PROVE  ~refusing' /\ plan'[y].cost > ActiveBytes - used'
      <4>1. phase[y] = "asleep"
        BY <2>1, <3>1
      <4>2. ~refusing /\ plan[y].cost > ActiveBytes - used /\ plan[y].cost \in Nat
        BY <4>1, PlanCost DEF CreditInv, SleepersWait
      <4> QED
        BY <1>1, <1>2, <1>7, <4>2 DEF stopVars
    <3> QED
      BY <3>1 DEF SleepersWait
  <2>7. Stopping'
    BY <1>1, <1>7, <2>1 DEF CreditInv, Stopping, stopVars, Executing
  <2> QED
    BY <2>3, <2>4, <2>5, <2>6, <2>7 DEF CreditInv
<1> QED
  BY <1>5, <1>6, <1>7 DEF Acquire, Goes

\* Steps between two phases without credit, or two with credit and the same lease.
LEMMA MovesCredit ==
    ASSUME CreditInv, phase \in [Exchanges -> Phases], NEW x \in Exchanges,
           AcquireGivesUp(x) \/ Construct(x) \/ Prepare(x)
    PROVE  CreditInv'
<1>1. UNCHANGED <<plan, used, lease, operations, canceled>> /\ UNCHANGED stopVars
  BY DEF AcquireGivesUp, Construct, Prepare, creditVars
<1>2. PICK p : /\ phase' = [phase EXCEPT ![x] = p]
               /\ \/ phase[x] \in {"acquiring", "asleep"} /\ p = "gone"
                  \/ phase[x] = "leased" /\ p = "constructed"
                  \/ phase[x] = "preparing" /\ p \in {"ready", "ended"}
  BY DEF AcquireGivesUp, Construct, Prepare, Goes
<1>3. phase'[x] = p /\ \A y \in Exchanges \ {x} : phase'[y] = phase[y]
  BY <1>2
<1>4. LeaseOf(p, lease[x]) /\ plan[x].cost \in Costs
  BY <1>2 DEF CreditInv, LeasesFollow, LeaseOf, Executing, Unclaimed
<1>5. Holds(phase'[x], lease'[x]) <=> Holds(phase[x], lease[x])
  BY <1>1, <1>2, <1>3 DEF Holds, Bare
<1>6. phase'[x] \in Executing \ {"claimed", "ended"} => x \in operations
  BY <1>2, <1>3 DEF CreditInv, Stopping, Executing
<1>7. stop = "quiet" => operations' = {}
  BY <1>1 DEF CreditInv, Stopping
<1>8. phase'[x] # "asleep"
  BY <1>2, <1>3
<1>9. LeasesFollow' /\ Counted' /\ SleepersWait' /\ Stopping'
  BY <1>1, <1>3, <1>4, <1>5, <1>6, <1>7, <1>8, CreditKept
<1> QED
  BY <1>1, <1>9 DEF CreditInv, CreditTypes, stopVars

LEMMA ClaimCredit ==
    ASSUME CreditInv, phase \in [Exchanges -> Phases], NEW x \in Exchanges, Claim(x)
    PROVE  CreditInv'
<1>1. /\ UNCHANGED <<plan, used, operations, canceled>> /\ UNCHANGED stopVars
      /\ phase[x] = "constructed" /\ phase' = [phase EXCEPT ![x] = "claimed"]
      /\ lease' = [lease EXCEPT ![x].executing = TRUE]
  BY DEF Claim, Goes
<1>2. lease[x] \in Leases /\ lease \in [Exchanges -> Leases]
  BY DEF CreditInv, CreditTypes
<1> DEFINE l == [lease[x] EXCEPT !.executing = TRUE]
<1>3. l \in Leases
  BY <1>2, LeaseSteps
<1>4. lease' = [lease EXCEPT ![x] = l]
  BY <1>1
<1>5. l.executing /\ l.released = lease[x].released /\ l.refunded = lease[x].refunded
  BY <1>2 DEF Leases
<1> HIDE DEF l
<1>6. /\ phase'[x] = "claimed" /\ lease'[x] = l
      /\ \A y \in Exchanges \ {x} : phase'[y] = phase[y] /\ lease'[y] = lease[y]
  BY <1>1, <1>2, <1>4
<1>7. LeaseOf("claimed", l) /\ plan[x].cost \in Costs
  BY <1>1, <1>5 DEF CreditInv, LeasesFollow, LeaseOf, Executing, Unclaimed
<1>8. stop = "quiet" => operations' = {}
  BY <1>1 DEF CreditInv, Stopping
<1>9. Holds(phase'[x], lease'[x]) /\ Holds(phase[x], lease[x])
  BY <1>1, <1>5, <1>6 DEF CreditInv, LeasesFollow, LeaseOf, Unclaimed, Holds, Bare
<1>10. LeasesFollow' /\ Counted' /\ SleepersWait' /\ Stopping'
  BY <1>1, <1>6, <1>7, <1>8, <1>9, CreditKept DEF Bare, Executing
<1> QED
  BY <1>1, <1>2, <1>3, <1>4, <1>10 DEF CreditInv, CreditTypes, stopVars

LEMMA BeginCredit ==
    ASSUME CreditInv, phase \in [Exchanges -> Phases], NEW x \in Exchanges, Begin(x)
    PROVE  CreditInv'
<1>1. /\ UNCHANGED <<plan, used, lease, canceled>> /\ UNCHANGED stopVars /\ phase[x] = "claimed"
  BY DEF Begin, Goes, creditVars
<1>2. PICK p \in {"preparing", "ended"} :
          /\ phase' = [phase EXCEPT ![x] = p]
          /\ \/ p = "preparing" /\ ~closing /\ operations' = operations \union {x}
             \/ p = "ended" /\ operations' = operations
  BY DEF Begin, Goes
<1>3. phase'[x] = p /\ \A y \in Exchanges \ {x} : phase'[y] = phase[y]
  BY <1>2
<1>4. LeaseOf(p, lease[x]) /\ plan[x].cost \in Costs
  BY <1>1 DEF CreditInv, LeasesFollow, LeaseOf, Executing, Unclaimed
<1>5. stop = "quiet" => operations' = {}
  BY <1>2 DEF CreditInv, Stopping
<1>6. /\ phase'[x] \in Executing \ {"claimed", "ended"} => x \in operations'
      /\ \A y \in operations : y \in operations'
  BY <1>2, <1>3
<1>7. LeasesFollow' /\ Counted' /\ SleepersWait' /\ Stopping'
  BY <1>1, <1>2, <1>3, <1>4, <1>5, <1>6, CreditKept DEF Bare, Holds
<1> QED
  BY <1>1, <1>2, <1>7 DEF CreditInv, CreditTypes, stopVars

\* What a refund does to the phases: x moves on, and whoever slept may be awake.
Wakes(x, p) == phase' = [phase EXCEPT ![x] = p] \/ phase' = Woken([phase EXCEPT ![x] = p])

\* What refund does: x leaves the holders when its lease is released and not executing,
\* and then everybody who sleeps is woken; else nothing changes but the lease.
LEMMA RefundCredit ==
    ASSUME CreditInv, phase \in [Exchanges -> Phases], NEW x \in Exchanges,
           NEW l \in Leases, NEW p, Refund(x, l, p),
           UNCHANGED <<plan, operations, canceled>>, UNCHANGED stopVars,
           phase[x] \notin Bare, p \notin Unclaimed, p \in Executing <=> l.executing,
           p = "gone" => l.released,
           p \in Executing \ {"claimed", "ended"} => x \in operations,
           l.refunded = lease[x].refunded, lease[x].released => l.released,
           lease[x].refunded => ~l.executing
    PROVE  CreditInv' /\ Wakes(x, p)
<1> DEFINE o == lease[x]
           m == [l EXCEPT !.refunded = @ \/ Refundable(l)]
           f == [phase EXCEPT ![x] = p]
<1>1. o \in Leases /\ lease \in [Exchanges -> Leases] /\ plan[x].cost \in Costs
  BY DEF CreditInv, CreditTypes, LeasesFollow, Bare
<1>2. o.refunded <=> o.released /\ ~o.executing
  BY DEF CreditInv, LeasesFollow, LeaseOf
<1>3. /\ m \in Leases /\ m.executing = l.executing /\ m.released = l.released
      /\ m.refunded = (l.refunded \/ Refundable(l))
  <2>1. (l.refunded \/ Refundable(l)) \in BOOLEAN
    OBVIOUS
  <2>2. m \in Leases
    BY <2>1, LeaseSteps
  <2> QED
    BY <2>2 DEF Leases
<1>4. lease' = [lease EXCEPT ![x] = m]
  BY DEF Refund
<1>5. m.refunded <=> m.released /\ ~m.executing
  <2>1. Refundable(l) <=> l.released /\ ~l.executing /\ ~l.refunded
    BY Zenon DEF Refundable
  <2>2. l.refunded => l.released /\ ~l.executing
    BY <1>2
  <2> QED
    BY <1>3, <2>1, <2>2
<1>6. LeaseOf(p, m)
  BY <1>3, <1>5 DEF LeaseOf
<1>7. p # "asleep" /\ p # "idle" /\ p # "acquiring"
  BY DEF Unclaimed
<1>8. used \in Int /\ plan[x].cost \in Nat
  BY PlanCost DEF CreditInv, CreditTypes
<1>9. CASE ~Refundable(l)
  <2>1. used' = used /\ phase' = f
    BY <1>9 DEF Refund
  <2>2. /\ phase'[x] = p /\ lease'[x] = m
        /\ \A y \in Exchanges \ {x} : phase'[y] = phase[y] /\ lease'[y] = lease[y]
    BY <1>1, <1>4, <2>1
  <2>3. m.refunded <=> o.refunded
    BY <1>3, <1>9
  <2>4. Holds(p, m) <=> Holds(phase[x], o)
    <3>1. (m.executing \/ ~m.released) <=> ~m.refunded
      BY <1>5
    <3>2. (o.executing \/ ~o.released) <=> ~o.refunded
      BY <1>2
    <3>3. ~m.refunded => p \notin Bare
      BY <1>3, <1>5, <1>7 DEF Bare, Executing
    <3> QED
      BY <2>3, <3>1, <3>2, <3>3 DEF Holds
  <2>5. stop = "quiet" => operations' = {}
    BY DEF CreditInv, Stopping
  <2> HIDE DEF m
  <2>6. LeasesFollow' /\ Counted' /\ SleepersWait' /\ Stopping'
    BY <1>1, <1>6, <1>7, <2>1, <2>2, <2>4, <2>5, CreditKept
  <2> QED
    BY <1>1, <1>3, <1>4, <2>1, <2>6 DEF CreditInv, CreditTypes, stopVars, Wakes
<1>10. CASE Refundable(l)
  <2>1. used' = used - plan[x].cost /\ phase' = Woken(f)
    BY <1>10 DEF Refund
  <2>2. l.released /\ ~l.executing /\ ~o.refunded
    BY <1>10, Zenon DEF Refundable
  <2> HIDE DEF m
  <2>3. /\ phase'[x] = p /\ lease'[x] = m
        /\ \A y \in Exchanges \ {x} :
               /\ lease'[y] = lease[y]
               /\ phase'[y] = IF phase[y] = "asleep" THEN "acquiring" ELSE phase[y]
        /\ \A y \in Exchanges : phase'[y] # "asleep"
    BY <1>1, <1>4, <1>7, <2>1 DEF Woken
  <2>4. x \in Holders /\ Holders' = Holders \ {x}
    <3>1. o.executing \/ ~o.released
      BY <1>2, <2>2
    <3>2. ~(m.executing \/ ~m.released)
      BY <1>3, <2>2
    <3> QED
      BY <2>3, <3>1, <3>2 DEF Holders, Bare
  <2>5. CreditTypes'
    BY <1>1, <1>3, <1>4, <1>8, <2>1 DEF CreditInv, CreditTypes, stopVars
  <2>6. LeasesFollow'
    <3>1. ASSUME NEW y \in Exchanges
          PROVE  LeaseOf(phase'[y], lease'[y]) /\ (phase'[y] # "idle" => plan'[y].cost \in Costs)
      <4>1. CASE y = x
        BY <1>1, <1>6, <2>3, <4>1
      <4>2. CASE y # x
        BY <2>3, <4>2 DEF CreditInv, LeasesFollow, LeaseOf, Executing, Unclaimed
      <4> QED
        BY <4>1, <4>2
    <3> QED
      BY <3>1 DEF LeasesFollow, LeaseOf
  <2>7. Counted'
    <3>1. IsFiniteSet(Cells(Holders)) /\ used = Cardinality(Cells(Holders)) /\ used <= ActiveBytes
      BY DEF CreditInv, Counted
    <3>2. Cells(Holders)' = Cells(Holders \ {x})
      BY <2>4 DEF Cells
    <3>3. /\ IsFiniteSet(Cells(Holders \ {x}))
          /\ Cardinality(Cells(Holders \ {x})) = used - plan[x].cost
      BY <1>8, <2>4, <3>1, CellsFewer
    <3>4. used - plan[x].cost <= ActiveBytes
      BY <1>8, <3>1, ExchangeAssumption
    <3> QED
      BY <2>1, <3>2, <3>3, <3>4 DEF Counted
  <2>8. SleepersWait'
    BY <2>3 DEF SleepersWait
  <2>9. Stopping'
    <3>1. \A y \in Exchanges \ {x} : phase'[y] \in Executing => phase[y] = phase'[y]
      BY <2>3 DEF Executing
    <3> QED
      BY <2>3, <2>4, <3>1 DEF CreditInv, Stopping, stopVars
  <2> QED
    BY <2>1, <2>5, <2>6, <2>7, <2>8, <2>9 DEF CreditInv, Wakes
<1> QED
  BY <1>9, <1>10

LEMMA FinishLeaseCredit ==
    ASSUME CreditInv, phase \in [Exchanges -> Phases], NEW x \in Exchanges, FinishLease(x)
    PROVE  CreditInv' /\ Wakes(x, "finishing")
<1> DEFINE o == lease[x]
           l == [o EXCEPT !.executing = FALSE]
<1>1. /\ phase[x] = "ended" /\ UNCHANGED <<plan, operations, canceled>> /\ UNCHANGED stopVars
      /\ Refund(x, l, "finishing")
  BY DEF FinishLease
<1>2. o \in Leases
  BY DEF CreditInv, CreditTypes
<1>3. l \in Leases /\ ~l.executing /\ l.released = o.released /\ l.refunded = o.refunded
  BY <1>2, LeaseSteps DEF Leases
<1>4. /\ phase[x] \notin Bare /\ "finishing" \notin Unclaimed /\ "finishing" \notin Executing
      /\ "finishing" # "gone"
  BY <1>1 DEF Bare, Unclaimed, Executing
<1> HIDE DEF l
<1> QED
  BY <1>1, <1>3, <1>4, RefundCredit

LEMMA FinishOperationCredit ==
    ASSUME CreditInv, phase \in [Exchanges -> Phases], NEW x \in Exchanges, FinishOperation(x)
    PROVE  CreditInv'
<1>1. /\ UNCHANGED <<plan, used, lease>> /\ UNCHANGED stopVars
      /\ phase[x] = "finishing" /\ phase' = [phase EXCEPT ![x] = "returned"]
      /\ operations' = operations \ {x} /\ canceled' = canceled \ {x}
  BY DEF FinishOperation, Goes, creditVars
<1>2. phase'[x] = "returned" /\ \A y \in Exchanges \ {x} : phase'[y] = phase[y]
  BY <1>1
<1>3. LeaseOf("returned", lease[x]) /\ plan[x].cost \in Costs
  BY <1>1 DEF CreditInv, LeasesFollow, LeaseOf, Executing, Unclaimed
<1>4. stop = "quiet" => operations' = {}
  BY <1>1 DEF CreditInv, Stopping
<1>5. LeasesFollow' /\ Counted' /\ SleepersWait' /\ Stopping'
  BY <1>1, <1>2, <1>3, <1>4, CreditKept DEF Bare, Holds, Executing
<1> QED
  BY <1>1, <1>5 DEF CreditInv, CreditTypes, stopVars

\* The handler's Release refunds, unless the lease was released early.
LEMMA ReleaseCredit ==
    ASSUME CreditInv, phase \in [Exchanges -> Phases], NEW x \in Exchanges, Release(x)
    PROVE  CreditInv' /\ Wakes(x, "gone")
<1> DEFINE o == lease[x]
           l == [o EXCEPT !.released = TRUE]
<1>1. /\ phase[x] \in {"leased", "constructed", "returned"} /\ Refund(x, l, "gone")
      /\ UNCHANGED <<plan, operations, canceled>> /\ UNCHANGED stopVars
  BY DEF Release
<1>2. o \in Leases /\ ~o.executing
  BY <1>1 DEF CreditInv, CreditTypes, LeasesFollow, LeaseOf, Executing
<1>3. l \in Leases /\ l.executing = o.executing /\ l.released /\ l.refunded = o.refunded
  BY <1>2, LeaseSteps DEF Leases
<1>4. phase[x] \notin Bare /\ "gone" \notin Unclaimed /\ "gone" \notin Executing
  BY <1>1 DEF Bare, Unclaimed, Executing
<1> HIDE DEF l
<1> QED
  BY <1>1, <1>2, <1>3, <1>4, RefundCredit

\* A release during the execution leaves the credit to the end of it.
LEMMA ReleaseEarlyCredit ==
    ASSUME CreditInv, phase \in [Exchanges -> Phases], NEW x \in Exchanges, ReleaseEarly(x)
    PROVE  CreditInv' /\ Wakes(x, phase[x])
<1> DEFINE o == lease[x]
           l == [o EXCEPT !.released = TRUE]
<1>1. /\ phase[x] \in Executing \union {"finishing"} /\ ~o.released /\ Refund(x, l, phase[x])
      /\ UNCHANGED <<plan, operations, canceled>> /\ UNCHANGED stopVars
  BY DEF ReleaseEarly
<1>2. /\ o \in Leases /\ (phase[x] \in Executing <=> o.executing)
      /\ o.refunded <=> o.released /\ ~o.executing
  BY DEF CreditInv, CreditTypes, LeasesFollow, LeaseOf
<1>3. l \in Leases /\ l.executing = o.executing /\ l.released /\ l.refunded = o.refunded
  BY <1>2, LeaseSteps DEF Leases
<1>4. phase[x] \notin Bare /\ phase[x] \notin Unclaimed
  BY <1>1 DEF Bare, Unclaimed, Executing
<1>5. phase[x] \in Executing \ {"claimed", "ended"} => x \in operations
  BY DEF CreditInv, Stopping
<1> HIDE DEF l
<1> QED
  BY <1>1, <1>2, <1>3, <1>4, <1>5, RefundCredit

\* A step within the run of x.
RunStep(x) ==
    \/ Send(x) \/ SendFails(x) \/ Answer(x) \/ Retry(x) \/ FailStream(x)
    \/ ShowNext(x)

LEMMA FailedPhases ==
    ASSUME NEW x, NEW l, Fails(x, l)
    PROVE  \E p \in Executing \ {"claimed"} : phase' = [phase EXCEPT ![x] = p]
<1>1. PICK p \in Failed(x, l) : phase' = [phase EXCEPT ![x] = p]
  BY DEF Fails
<1>2. p \in {"failing", "retrying", "ended"}
  BY Zenon DEF Failed
<1>3. p \in Executing \ {"claimed"}
  BY <1>2 DEF Executing
<1> QED
  BY <1>1, <1>3

LEMMA RunStepMoves ==
    ASSUME phase \in [Exchanges -> Phases], NEW x \in Exchanges, RunStep(x)
    PROVE  \E p \in Executing \ {"claimed"} : phase' = [phase EXCEPT ![x] = p]
<1> DEFINE Moves == \E p \in Executing \ {"claimed"} : phase' = [phase EXCEPT ![x] = p]
<1> SUFFICES Moves
  OBVIOUS
<1>1. ASSUME NEW p \in Executing \ {"claimed"}, phase' = [phase EXCEPT ![x] = p]
      PROVE  Moves
  BY <1>1
<1>2. ASSUME NEW l, Fails(x, l) PROVE Moves
  BY <1>2, FailedPhases
<1>3. /\ "sent" \in Executing \ {"claimed"} /\ "answered" \in Executing \ {"claimed"}
      /\ "reading" \in Executing \ {"claimed"} /\ "ready" \in Executing \ {"claimed"}
      /\ "deciding" \in Executing \ {"claimed"} /\ "releasing" \in Executing \ {"claimed"}
      /\ "failing" \in Executing \ {"claimed"} /\ "ended" \in Executing \ {"claimed"}
  BY DEF Executing
<1> HIDE DEF Moves
<1>4. CASE Send(x) \/ Retry(x) \/ FailStream(x) \/ StartReading(x) \/ PassOriginal(x)
  BY <1>1, <1>3, <1>4, Zenon DEF Send, Retry, FailStream, StartReading, PassOriginal, Goes
<1>5. CASE SendFails(x) \/ StreamFails(x)
  BY <1>2, <1>5, Zenon DEF SendFails, StreamFails
<1>6. CASE Answer(x)
  BY <1>1, <1>2, <1>3, <1>6, Zenon DEF Answer, Goes
<1>7. CASE OpenStream(x)
  BY <1>1, <1>2, <1>3, <1>7, Zenon DEF OpenStream
<1>8. CASE FeedStream(x)
  <2>1. phase = [phase EXCEPT ![x] = phase[x]]
    OBVIOUS
  <2> QED
    BY <1>1, <1>2, <1>3, <1>8, <2>1, Zenon DEF FeedStream
<1>9. CASE Decoded(x)
  BY <1>1, <1>3, <1>9 DEF Decoded
<1>10. CASE DecideTools(x)
  BY <1>1, <1>2, <1>3, <1>10, Zenon DEF DecideTools, Goes
<1>11. ASSUME NEW l, NEW c, ReleaseBytes(x, l, c) PROVE Moves
  BY <1>1, <1>2, <1>3, <1>11, Zenon DEF ReleaseBytes
<1>12. CASE ReleaseStream(x) \/ ReleaseComplete(x)
  BY <1>1, <1>3, <1>11, <1>12, Zenon DEF ReleaseStream, ReleaseComplete, Goes
<1> QED
  BY <1>4, <1>5, <1>6, <1>7, <1>8, <1>9, <1>10, <1>12 DEF RunStep, ShowNext

LEMMA RunStepFrame ==
    ASSUME NEW x \in Exchanges, RunStep(x)
    PROVE  /\ phase[x] \in Executing \ {"claimed", "ended"}
           /\ UNCHANGED <<plan, used, lease, operations, canceled>> /\ UNCHANGED stopVars
<1>1. phase[x] \in {"ready", "sent", "answered", "reading", "deciding", "releasing", "retrying", "failing"}
  BY DEF RunStep, ShowNext, Send, SendFails, Answer, Retry, FailStream, OpenStream, StartReading,
         FeedStream, StreamFails, Decoded, DecideTools, ReleaseStream, ReleaseComplete,
         PassOriginal, Goes
<1>2. UNCHANGED <<plan, creditVars, operations, canceled, stopVars>>
  BY Zenon DEF RunStep, ShowNext, Send, SendFails, Answer, Retry, FailStream, OpenStream,
         StartReading, FeedStream, StreamFails, Decoded, DecideTools, ReleaseStream,
         ReleaseComplete, PassOriginal
<1> QED
  BY <1>1, <1>2 DEF Executing, creditVars

LEMMA RunStepCredit ==
    ASSUME CreditInv, phase \in [Exchanges -> Phases], NEW x \in Exchanges, RunStep(x)
    PROVE  CreditInv'
<1>1. /\ phase[x] \in Executing \ {"claimed", "ended"}
      /\ UNCHANGED <<plan, used, lease, operations, canceled>> /\ UNCHANGED stopVars
  BY RunStepFrame
<1>2. PICK p \in Executing \ {"claimed"} : phase' = [phase EXCEPT ![x] = p]
  BY RunStepMoves
<1>3. phase'[x] = p /\ \A y \in Exchanges \ {x} : phase'[y] = phase[y]
  BY <1>2
<1>4. LeaseOf(p, lease[x]) /\ plan[x].cost \in Costs
  BY <1>1 DEF CreditInv, LeasesFollow, LeaseOf, Executing, Unclaimed
<1>5. x \in operations /\ (stop = "quiet" => operations' = {})
  BY <1>1 DEF CreditInv, Stopping
<1>6. /\ Holds(phase'[x], lease'[x]) <=> Holds(phase[x], lease[x])
      /\ phase'[x] # "asleep"
  BY <1>1, <1>3 DEF Holds, Bare, Executing
<1>7. LeasesFollow' /\ Counted' /\ SleepersWait' /\ Stopping'
  BY <1>1, <1>3, <1>4, <1>5, <1>6, CreditKept
<1> QED
  BY <1>1, <1>7 DEF CreditInv, CreditTypes, stopVars

LEMMA RunStepStory ==
    ASSUME RunTypes, Stories, NEW x \in Exchanges, RunStep(x)
    PROVE  RunTypes' /\ Stories'
  BY SendStory, SendFailsStory, AnswerStory, RetryStory, FailStreamStory, OpenStreamStory,
     StartReadingStory, FeedStreamStory, DecodedStory, DecideToolsStory, ReleaseStreamStory,
     ReleaseCompleteStory, PassOriginalStory DEF RunStep, ShowNext

-----------------------------------------------------------------------------
(* The steps around the run, and the shutdown                              *)

LEMMA QuietStories ==
    ASSUME RunTypes, Stories, CreditInv, NEW x \in Exchanges,
           \/ CreditNext(x) \/ Begin(x) \/ Prepare(x) \/ ClientCancels(x)
           \/ FinishLease(x) \/ FinishOperation(x)
    PROVE  RunTypes' /\ Stories'
<1>1. phase \in [Exchanges -> Phases]
  BY DEF RunTypes
<1>2. allow' = allow /\ UNCHANGED runVars
  BY Zenon DEF CreditNext, AcquirePlan, Acquire, AcquireGivesUp, Construct, Claim, Release,
         ReleaseEarly, Begin, Prepare, ClientCancels, FinishLease, FinishOperation
<1>3. ASSUME NEW p \in Phases, phase' = [phase EXCEPT ![x] = p], Quiet(phase[x], p)
      PROVE  RunTypes' /\ Stories'
  <2>1. phase' \in [Exchanges -> Phases] /\ \A y \in Exchanges : Quiet(phase[y], phase'[y])
    BY <1>1, <1>3 DEF Quiet
  <2> QED
    BY <1>2, <2>1, QuietStep
<1>4. /\ "acquiring" \in Phases /\ "asleep" \in Phases /\ "gone" \in Phases /\ "leased" \in Phases
      /\ "constructed" \in Phases /\ "claimed" \in Phases /\ "preparing" \in Phases
      /\ "ready" \in Phases /\ "ended" \in Phases /\ "finishing" \in Phases /\ "returned" \in Phases
  BY DEF Phases
<1>5. CASE AcquirePlan(x) \/ Acquire(x) \/ AcquireGivesUp(x) \/ Construct(x) \/ Claim(x)
  <2>1. PICK p \in {"acquiring", "gone", "leased", "asleep", "constructed", "claimed"} :
            /\ phase' = [phase EXCEPT ![x] = p]
            /\ phase[x] \in {"idle", "acquiring", "asleep", "leased", "constructed"}
    BY <1>5 DEF AcquirePlan, Acquire, AcquireGivesUp, Construct, Claim, Goes
  <2>2. Quiet(phase[x], p)
    BY <2>1 DEF Quiet, Early, Done
  <2> QED
    BY <1>3, <1>4, <2>1, <2>2
<1>6. CASE Begin(x) \/ Prepare(x) \/ FinishOperation(x)
  <2>1. PICK p \in {"preparing", "ready", "ended", "returned"} :
            /\ phase' = [phase EXCEPT ![x] = p]
            /\ p \in {"preparing", "ready"} => phase[x] \in {"claimed", "preparing"}
    BY <1>6 DEF Begin, Prepare, FinishOperation, Goes
  <2>2. Quiet(phase[x], p)
    BY <2>1 DEF Quiet, Early, Done
  <2> QED
    BY <1>3, <1>4, <2>1, <2>2
<1>7. ASSUME NEW p \in Phases, Wakes(x, p), p \in Done \/ p = phase[x]
      PROVE  RunTypes' /\ Stories'
  <2>1. \A y \in Exchanges : Quiet(phase[y], phase'[y])
    BY <1>1, <1>7 DEF Wakes, Woken, Quiet, Early, Done
  <2>2. phase' \in [Exchanges -> Phases]
    BY <1>1, <1>4, <1>7 DEF Wakes, Woken
  <2> QED
    BY <1>2, <2>1, <2>2, QuietStep
<1>8. CASE FinishLease(x) \/ Release(x) \/ ReleaseEarly(x)
  <2>1. "finishing" \in Done /\ "gone" \in Done
    BY DEF Done
  <2>2. CASE FinishLease(x)
    BY <1>1, <1>4, <1>7, <2>1, <2>2, FinishLeaseCredit
  <2>3. CASE Release(x)
    BY <1>1, <1>4, <1>7, <2>1, <2>3, ReleaseCredit
  <2>4. CASE ReleaseEarly(x)
    BY <1>1, <1>7, <2>4, ReleaseEarlyCredit
  <2> QED
    BY <1>8, <2>2, <2>3, <2>4
<1>9. CASE ClientCancels(x)
  <2>1. phase' = phase
    BY <1>9 DEF ClientCancels
  <2> QED
    BY <1>1, <1>2, <2>1, QuietStep DEF Quiet
<1> QED
  BY <1>5, <1>6, <1>8, <1>9 DEF CreditNext

LEMMA ShutdownStories ==
    ASSUME RunTypes, Stories, ShutdownNext
    PROVE  RunTypes' /\ Stories'
<1>1. phase \in [Exchanges -> Phases]
  BY DEF RunTypes
<1>2. allow' = allow /\ UNCHANGED runVars /\ (phase' = phase \/ phase' = Woken(phase))
  BY DEF ShutdownNext, RefuseBodies, BeginShutdown, DrainExchanges, DrainBodies
<1>3. "acquiring" \in Phases
  BY DEF Phases
<1>4. \A y \in Exchanges : Quiet(phase[y], phase'[y])
  BY <1>1, <1>2 DEF Woken, Quiet, Early
<1>5. phase' \in [Exchanges -> Phases]
  BY <1>1, <1>2, <1>3 DEF Woken
<1> QED
  BY <1>2, <1>4, <1>5, QuietStep

LEMMA RefuseBodiesCredit ==
    ASSUME CreditInv, phase \in [Exchanges -> Phases], RefuseBodies
    PROVE  CreditInv'
<1>1. /\ stop' = "refusing" /\ refusing' = TRUE /\ phase' = Woken(phase)
      /\ UNCHANGED <<plan, used, lease, operations, closing, canceled>>
  BY DEF RefuseBodies, creditVars
<1>2. \A y \in Exchanges : phase'[y] = IF phase[y] = "asleep" THEN "acquiring" ELSE phase[y]
  BY <1>1 DEF Woken
<1>3. \A y \in Exchanges : Holds(phase'[y], lease'[y]) <=> Holds(phase[y], lease[y])
  BY <1>1, <1>2 DEF Holds, Bare
<1>4. Holders' = Holders /\ Counted'
  BY <1>1, <1>3, HoldersKept DEF CreditInv
<1>5. LeasesFollow'
  <2>1. ASSUME NEW y \in Exchanges
        PROVE  LeaseOf(phase'[y], lease'[y]) /\ (phase'[y] # "idle" => plan'[y].cost \in Costs)
    BY <1>1, <1>2 DEF CreditInv, LeasesFollow, LeaseOf, Executing, Unclaimed
  <2> QED
    BY <2>1 DEF LeasesFollow, LeaseOf
<1>6. SleepersWait'
  BY <1>2 DEF SleepersWait
<1>7. Stopping'
  BY <1>1, <1>2 DEF CreditInv, Stopping, Executing
<1>8. CreditTypes'
  BY <1>1 DEF CreditInv, CreditTypes, Stops
<1> QED
  BY <1>4, <1>5, <1>6, <1>7, <1>8 DEF CreditInv

\* Steps that move nobody: what they leave alone stays as it is.
LEMMA StillCredit ==
    ASSUME CreditInv, UNCHANGED <<phase, plan, used, lease, operations, refusing>>
    PROVE  LeasesFollow' /\ Counted' /\ SleepersWait' /\ Holders' = Holders
<1>1. Holders' = Holders /\ Counted'
  BY HoldersKept DEF CreditInv
<1> QED
  BY <1>1 DEF CreditInv, LeasesFollow, LeaseOf, SleepersWait

\* Without credit in use nobody has a lease: a plan costs at least one byte.
LEMMA DrainedIsEmpty ==
    ASSUME CreditInv, used = 0
    PROVE  Holders = {}
<1>1. Cells(Holders) = {}
  BY FS_EmptySet DEF CreditInv, Counted
<1>2. ASSUME NEW y \in Holders PROVE FALSE
  <2>1. plan[y].cost \in Nat \ {0}
    BY ExchangeAssumption DEF CreditInv, LeasesFollow, Holders
  <2>2. <<y, 1>> \in Cells(Holders)
    BY <2>1 DEF Cells
  <2> QED
    BY <1>1, <2>2
<1> QED
  BY <1>2

LEMMA ShutdownCredit ==
    ASSUME CreditInv, phase \in [Exchanges -> Phases], ShutdownNext
    PROVE  CreditInv'
<1>1. CASE RefuseBodies
  BY <1>1, RefuseBodiesCredit
<1>2. CASE BeginShutdown
  <2>1. /\ UNCHANGED <<phase, plan, used, lease, operations, refusing>>
        /\ stop = "refusing" /\ stop' = "closing" /\ closing' = TRUE /\ canceled' = operations
    BY <1>2 DEF BeginShutdown, creditVars
  <2>2. LeasesFollow' /\ Counted' /\ SleepersWait' /\ Holders' = Holders
    BY <2>1, StillCredit
  <2>3. Stopping'
    BY <2>1 DEF CreditInv, Stopping
  <2>4. CreditTypes'
    BY <2>1 DEF CreditInv, CreditTypes, Stops
  <2> QED
    BY <2>2, <2>3, <2>4 DEF CreditInv
<1>3. CASE DrainExchanges
  <2>1. /\ UNCHANGED <<phase, plan, used, lease, operations, refusing, closing, canceled>>
        /\ stop = "closing" /\ (stop' = "late" \/ (stop' = "quiet" /\ operations = {}))
    BY <1>3 DEF DrainExchanges, creditVars
  <2>2. LeasesFollow' /\ Counted' /\ SleepersWait' /\ Holders' = Holders
    BY <2>1, StillCredit
  <2>3. Stopping'
    BY <2>1 DEF CreditInv, Stopping
  <2>4. CreditTypes'
    BY <2>1 DEF CreditInv, CreditTypes, Stops
  <2> QED
    BY <2>2, <2>3, <2>4 DEF CreditInv
<1>4. CASE DrainBodies
  <2>1. /\ UNCHANGED <<phase, plan, used, lease, operations, refusing, closing, canceled>>
        /\ stop \in {"quiet", "late"} /\ stop' = "drained" /\ used = 0
    BY <1>4 DEF DrainBodies, creditVars
  <2>2. LeasesFollow' /\ Counted' /\ SleepersWait' /\ Holders' = Holders
    BY <2>1, StillCredit
  <2>3. Holders' = {}
    BY <2>1, <2>2, DrainedIsEmpty
  <2>4. Stopping'
    BY <2>1, <2>3 DEF CreditInv, Stopping
  <2>5. CreditTypes'
    BY <2>1 DEF CreditInv, CreditTypes, Stops
  <2> QED
    BY <2>2, <2>4, <2>5 DEF CreditInv
<1> QED
  BY <1>1, <1>2, <1>3, <1>4 DEF ShutdownNext

LEMMA ClientCancelsCredit ==
    ASSUME CreditInv, phase \in [Exchanges -> Phases], NEW x \in Exchanges, ClientCancels(x)
    PROVE  CreditInv'
<1>1. /\ UNCHANGED <<phase, plan, used, lease, operations, refusing, closing, stop>>
      /\ canceled' = canceled \union {x}
  BY DEF ClientCancels, creditVars, stopVars
<1>2. LeasesFollow' /\ Counted' /\ SleepersWait' /\ Holders' = Holders
  BY <1>1, StillCredit
<1>3. Stopping'
  BY <1>1, <1>2 DEF CreditInv, Stopping
<1>4. CreditTypes'
  BY <1>1 DEF CreditInv, CreditTypes
<1> QED
  BY <1>2, <1>3, <1>4 DEF CreditInv

LEMMA AroundCredit ==
    ASSUME CreditInv, phase \in [Exchanges -> Phases], NEW x \in Exchanges,
           \/ CreditNext(x) \/ Begin(x) \/ Prepare(x) \/ ClientCancels(x)
           \/ FinishLease(x) \/ FinishOperation(x)
    PROVE  CreditInv'
  BY AcquirePlanCredit, AcquireCredit, MovesCredit, ClaimCredit, ReleaseCredit, ReleaseEarlyCredit,
     BeginCredit, ClientCancelsCredit, FinishLeaseCredit, FinishOperationCredit DEF CreditNext

-----------------------------------------------------------------------------
(* The invariant                                                           *)

LEMMA InitInv == Init => IndInv
<1> SUFFICES ASSUME Init PROVE IndInv
  OBVIOUS
<1>1. NewLease \in Leases /\ NewLedger \in Ledgers /\ NewClient \in Clients /\ NewAttempt \in Attempts
  <2>1. NewLedger \in Ledgers
    BY DEF Ledgers, NewLedger
  <2>2. NewLease \in Leases /\ NewClient \in Clients /\ NewAttempt \in Attempts
    BY DEF Leases, Clients, Attempts, NewLease, NewClient, NewAttempt
  <2> QED
    BY <2>1, <2>2
<1>2. RunTypes
  <2>1. "idle" \in Phases
    BY DEF Phases
  <2> QED
    BY <1>1, <2>1 DEF Init, RunTypes
<1>3. CreditTypes
  <2>1. [cost |-> 0, kind |-> "stream", resendable |-> FALSE] \in PlanSet
    BY DEF PlanSet, Kinds
  <2> QED
    <3>1. plan \in [Exchanges -> PlanSet] /\ lease \in [Exchanges -> Leases]
      BY <1>1, <2>1 DEF Init
    <3>2. /\ used = 0 /\ refusing = FALSE /\ operations = {} /\ closing = FALSE /\ canceled = {}
          /\ stop = "running"
      BY DEF Init
    <3>3. used \in Int /\ operations \subseteq Exchanges /\ canceled \subseteq Exchanges
      BY <3>2
    <3>4. refusing \in BOOLEAN /\ closing \in BOOLEAN /\ stop \in Stops
      BY <3>2, Zenon DEF Stops
    <3> QED
      BY <3>1, <3>3, <3>4, Zenon DEF CreditTypes
<1>4. Stories
  <2>1. Sends("idle", NewLedger, 0)
    BY ExchangeAssumption DEF Sends, NewLedger, Early, Running
  <2>2. Shown(NewLedger, NewClient) /\ Ended("idle", NewLedger, NewClient)
    BY DEF Shown, Ended, NewLedger, NewClient
  <2>3. Replayable("idle", NewLedger)
    BY DEF Replayable, Clean, NewLedger
  <2>4. Decided("idle", NewLedger, NewClient, NewAttempt, {})
    BY DEF Decided, NewLedger, NewClient
  <2>5. Story("idle", NewLedger, NewClient, 0, NewAttempt, {})
    BY <2>1, <2>2, <2>3, <2>4 DEF Story
  <2>6. ASSUME NEW x \in Exchanges
        PROVE  /\ phase[x] = "idle" /\ ledger[x] = NewLedger /\ client[x] = NewClient
               /\ resends[x] = 0 /\ attempt[x] = NewAttempt /\ allowed[x] = {}
    BY DEF Init
  <2> QED
    BY <2>5, <2>6 DEF Stories
<1>5. \A x \in Exchanges : phase[x] = "idle" /\ lease[x] = NewLease
  BY DEF Init
<1>6. LeasesFollow
  BY <1>5 DEF LeasesFollow, LeaseOf, NewLease, Executing, Unclaimed
<1>7. Holders = {}
  BY <1>5 DEF Holders
<1>8. Counted
  <2>1. Cells({}) = {}
    BY DEF Cells
  <2> QED
    BY <1>7, <2>1, FS_EmptySet, ExchangeAssumption DEF Counted, Init
<1>9. SleepersWait /\ Stopping
  BY <1>5, <1>7 DEF SleepersWait, Stopping, Init, Executing
<1> QED
  BY <1>2, <1>3, <1>4, <1>6, <1>8, <1>9 DEF IndInv

LEMMA NextInv ==
    ASSUME IndInv, Next
    PROVE  IndInv'
<1>1. RunTypes /\ Stories /\ CreditInv /\ phase \in [Exchanges -> Phases]
  BY DEF IndInv, CreditInv, RunTypes
<1>2. ASSUME NEW x \in Exchanges, CreditNext(x) \/ ExecuteNext(x) \/ ShowNext(x)
      PROVE  RunTypes' /\ Stories' /\ CreditInv'
  <2>1. CASE RunStep(x)
    BY <1>1, <2>1, RunStepStory, RunStepCredit
  <2>2. CASE \/ CreditNext(x) \/ Begin(x) \/ Prepare(x) \/ ClientCancels(x)
             \/ FinishLease(x) \/ FinishOperation(x)
    BY <1>1, <2>2, QuietStories, AroundCredit
  <2> QED
    BY <1>2, <2>1, <2>2 DEF ExecuteNext, RunStep
<1>3. CASE ShutdownNext
  BY <1>1, <1>3, ShutdownStories, ShutdownCredit DEF IndInv, CreditInv
<1>4. CASE \E x \in Exchanges : CreditNext(x) \/ ExecuteNext(x) \/ ShowNext(x)
  BY <1>2, <1>4 DEF IndInv, CreditInv
<1> QED
  BY <1>3, <1>4 DEF Next

LEMMA StutterInv ==
    ASSUME IndInv, UNCHANGED vars
    PROVE  IndInv'
<1>1. /\ allow' = allow /\ UNCHANGED runVars /\ phase' = phase
      /\ UNCHANGED <<plan, used, lease, operations, canceled, refusing, closing, stop>>
  BY DEF vars, creditVars, stopVars
<1>2. RunTypes' /\ Stories'
  BY <1>1, QuietStep DEF IndInv, RunTypes, Quiet
<1>3. LeasesFollow' /\ Counted' /\ SleepersWait' /\ Holders' = Holders
  BY <1>1, StillCredit DEF IndInv, CreditInv
<1>4. Stopping' /\ CreditTypes'
  BY <1>1, <1>3 DEF IndInv, Stopping, CreditTypes
<1> QED
  BY <1>2, <1>3, <1>4 DEF IndInv

\* Every state of the exchanges satisfies the invariant: the types, the story of every
\* request, and what the credit, the leases and the shutdown say of each other.
THEOREM ExchangeInvariant == Spec => []IndInv
<1>1. IndInv /\ [Next]_vars => IndInv'
  BY NextInv, StutterInv
<1> QED
  BY InitInv, <1>1, PTL DEF Spec

\* Whatever fails, times out or is sent again, and for any number of resends, a client
\* is shown one attempt only, the ledger knows of all it was shown, an answered attempt
\* is repeated only where the policy says so (CommitLedger.CanTransportResend), and no
\* response is both ended and reported as failed.
THEOREM ExchangeOneAttempt == Spec => []OneAttemptPerClient
<1>1. IndInv => OneAttemptPerClient
  <2> SUFFICES ASSUME IndInv, NEW x \in Exchanges
               PROVE  /\ phase[x] \in Phases
                      /\ Cardinality(client[x].seen) <= 1
                      /\ client[x].seen \subseteq {Number(x)}
                      /\ client[x].seen # {} =>
                             ledger[x].metadata \/ ledger[x].ordinary \/ ledger[x].semantic
                      /\ Number(x) <= MaxResends + 1
                      /\ ~allow => ledger[x].responses <= 1
                      /\ ~(client[x].aborted /\ ledger[x].terminal)
    BY DEF OneAttemptPerClient
  <2>1. Story(phase[x], ledger[x], client[x], resends[x], attempt[x], allowed[x])
    BY OwnStory DEF IndInv
  <2>2. phase[x] \in Phases /\ ledger[x].sends \in Nat /\ resends[x] \in Nat
    BY OwnTypes, LedgerFields DEF IndInv
  <2>3. client[x].seen \in SUBSET {ledger[x].sends}
    BY <2>1 DEF Story, Shown
  <2>4. Cardinality(client[x].seen) <= 1
    <3>1. IsFiniteSet({ledger[x].sends}) /\ Cardinality({ledger[x].sends}) = 1
      BY FS_Singleton
    <3>2. Cardinality(client[x].seen) <= Cardinality({ledger[x].sends})
      BY <2>3, <3>1, FS_Subset
    <3> QED
      BY <3>1, <3>2
  <2>5. ledger[x].sends <= resends[x] + 1 /\ resends[x] <= MaxResends
    BY <2>1 DEF Story, Sends
  <2>6. ledger[x].sends <= MaxResends + 1
    BY <2>2, <2>5, ExchangeAssumption
  <2>7. client[x].seen # {} => ledger[x].metadata \/ ledger[x].ordinary \/ ledger[x].semantic
    BY <2>1, Zenon DEF Story, Shown
  <2>8. /\ ~allow => ledger[x].responses <= 1
        /\ ~(client[x].aborted /\ ledger[x].terminal)
    BY <2>1, Zenon DEF Story, Replayable, Ended
  <2> QED
    BY <2>2, <2>3, <2>4, <2>6, <2>7, <2>8 DEF Number
<1> QED
  BY <1>1, ExchangeInvariant, PTL

\* Every tool call a client has seen was allowed in the attempt it belongs to, and the
\* ledger has it, so that the request is not sent again (decideTools, decideStreamTools).
THEOREM ExchangeToolsAllowed == Spec => []ToolsWereAllowed
<1>1. IndInv => ToolsWereAllowed
  BY Zenon DEF IndInv, Stories, Story, Shown, Decided, ToolsWereAllowed, Number
<1> QED
  BY <1>1, ExchangeInvariant, PTL

\* For any costs and any ActiveBytes the credit in use is what the leases out have
\* reserved, nobody sleeps on credit that would do or on a closed gate, and a drained
\* product executes nothing (BodyAdmission, Pipeline.Drain).
THEOREM ExchangeCreditExact == Spec => []CreditExact
<1>1. IndInv => CreditExact
  <2> SUFFICES ASSUME IndInv PROVE CreditExact
    OBVIOUS
  <2>1. used = Cardinality(UNION {{x} \X (1 .. plan[x].cost) : x \in Holders}) /\ used <= ActiveBytes
    BY DEF IndInv, Counted, Cells
  <2>2. used \in Nat
    BY FS_CardinalityType DEF IndInv, Counted
  <2>3. used \in 0 .. ActiveBytes
    BY <2>1, <2>2, ExchangeAssumption
  <2>4. \A x \in Exchanges :
            /\ phase[x] = "asleep" => ~refusing /\ plan[x].cost > ActiveBytes - used
            /\ phase[x] \in Executing <=> lease[x].executing
    BY DEF IndInv, SleepersWait, LeasesFollow, LeaseOf
  <2>5. stop = "quiet" => \A x \in Exchanges : phase[x] \notin Executing \ {"claimed", "ended"}
    BY DEF IndInv, Stopping
  <2>6. stop = "drained" => Holders = {}
    BY DEF IndInv, Stopping
  <2> QED
    BY <2>1, <2>3, <2>4, <2>5, <2>6 DEF CreditExact
<1> QED
  BY <1>1, ExchangeInvariant, PTL
=============================================================================
