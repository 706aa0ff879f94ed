------------------------------ MODULE Exchange ------------------------------
(***************************************************************************)
(* Exchanges (internal/exchange): body credit is acquired before a client  *)
(* request is read (BodyAdmission), the request is executed against a      *)
(* provider, possibly several times (Pipeline), and what the client has    *)
(* already been shown decides whether it may be sent again (CommitLedger). *)
(* Tool calls are held back until they are allowed. The product stops by   *)
(* closing both, then draining the pipeline and then the body credit.      *)
(*                                                                         *)
(* An Exchange runs in one goroutine; they meet in the body credit and in  *)
(* the shutdown. `client` is what really reached the client: the attempts  *)
(* of which it saw headers or bytes, those whose tool calls it saw, and    *)
(* whether a failure was written in band. Codecs, scripts and the provider *)
(* are choices; a stream never releases a tool call early.                 *)
(***************************************************************************)
EXTENDS Integers, FiniteSets

CONSTANTS
    Exchanges,    \* the requests of one behaviour
    Costs,        \* what the plan of a request may reserve
    KindsOf,      \* how each request may be executed
    ActiveBytes,  \* ResourcePolicy.ActiveBytes
    MaxResends    \* HoldPolicy.MaxTransportResends

ASSUME ExchangeAssumption ==
    /\ Costs \subseteq Nat \ {0}
    /\ ActiveBytes \in Nat /\ \A c \in Costs : c <= ActiveBytes
    /\ MaxResends \in Nat
    /\ KindsOf \in [Exchanges -> SUBSET {"stream", "script", "complete", "original"}]

VARIABLES
    allow,       \* HoldPolicy.AllowResendAfterProviderResponse
    phase,       \* how far each request is
    plan,        \* its frozen plan: what it costs, how it is executed, its replay class
    used,        \* BodyAdmission.used
    refusing,    \* BodyAdmission.closing
    lease,       \* bodyLeaseState: executing, released, refunded
    operations,  \* Pipeline.operations
    closing,     \* Pipeline.closing
    canceled,    \* the operations whose context is canceled
    resends,     \* Result.TransportResends
    attempt,     \* the response at hand: has it opened the envelope, does it hold tools
    ledger,      \* CommitLedger
    allowed,     \* the attempts whose tool calls were allowed
    client,      \* what the client has been shown
    stop         \* how far the shutdown is

creditVars == <<used, lease>>
runVars    == <<resends, attempt, ledger, allowed, client>>
stopVars   == <<refusing, closing, stop>>
vars       == <<allow, phase, plan, creditVars, operations, canceled, runVars, stopVars>>

\* executeStream without and with a response script, executeComplete, executeOriginal;
\* the replay class of an operation is only asked for by executeStream.
Streams  == {"stream", "script"}
Plans(x) == {p \in [cost : Costs, kind : KindsOf[x], resendable : BOOLEAN] :
                 p.resendable => p.kind \in Streams}

NewLease   == [executing |-> FALSE, released |-> FALSE, refunded |-> FALSE]
NewLedger  == [sends |-> 0, responses |-> 0, hold |-> FALSE, ordinary |-> FALSE, metadata |-> FALSE,
               semantic |-> FALSE, tools |-> FALSE, terminal |-> FALSE, failure |-> FALSE]
NewClient  == [begun |-> FALSE, seen |-> {}, tools |-> {}, aborted |-> FALSE]
NewAttempt == [opened |-> FALSE, intents |-> FALSE]

Init ==
    /\ allow \in BOOLEAN
    /\ phase = [x \in Exchanges |-> "idle"]
    /\ plan = [x \in Exchanges |-> [cost |-> 0, kind |-> "stream", resendable |-> FALSE]]
    /\ used = 0 /\ refusing = FALSE
    /\ lease = [x \in Exchanges |-> NewLease]
    /\ operations = {} /\ closing = FALSE /\ canceled = {}
    /\ resends = [x \in Exchanges |-> 0]
    /\ attempt = [x \in Exchanges |-> NewAttempt]
    /\ ledger = [x \in Exchanges |-> NewLedger]
    /\ allowed = [x \in Exchanges |-> {}]
    /\ client = [x \in Exchanges |-> NewClient]
    /\ stop = "running"

Goes(x, from, to) == phase[x] = from /\ phase' = [phase EXCEPT ![x] = to]
IsStream(x) == plan[x].kind \in Streams

\* The phases between claim and finish.
Executing == {"claimed", "preparing", "ready", "sent", "answered", "reading", "deciding", "releasing",
              "retrying", "failing", "ended"}

-----------------------------------------------------------------------------
(* BodyAdmission and BodyLease                                             *)

\* planReservation refuses a plan that costs more than ActiveBytes.
AcquirePlan(x) ==
    /\ Goes(x, "idle", "acquiring")
    /\ \E p \in Plans(x) : plan' = [plan EXCEPT ![x] = p]
    /\ UNCHANGED <<allow, creditVars, operations, canceled, runVars, stopVars>>

\* One round of acquire: refused, served, or asleep on the shared channel.
Acquire(x) ==
    /\ phase[x] = "acquiring"
    /\ CASE refusing -> Goes(x, "acquiring", "gone") /\ UNCHANGED used
         [] ~refusing /\ plan[x].cost <= ActiveBytes - used ->
                Goes(x, "acquiring", "leased") /\ used' = used + plan[x].cost
         [] OTHER -> Goes(x, "acquiring", "asleep") /\ UNCHANGED used
    /\ UNCHANGED <<allow, plan, lease, operations, canceled, runVars, stopVars>>

\* Its context ends.
AcquireGivesUp(x) ==
    /\ Goes(x, "acquiring", "gone") \/ Goes(x, "asleep", "gone")
    /\ UNCHANGED <<allow, plan, creditVars, operations, canceled, runVars, stopVars>>

\* notify wakes everybody who sleeps.
Woken(f) == [x \in Exchanges |-> IF f[x] = "asleep" THEN "acquiring" ELSE f[x]]

\* reserveConstructor, when the body is in and makes a request.
Construct(x) ==
    /\ Goes(x, "leased", "constructed")
    /\ UNCHANGED <<allow, plan, creditVars, operations, canceled, runVars, stopVars>>

Claim(x) ==
    /\ Goes(x, "constructed", "claimed")
    /\ lease' = [lease EXCEPT ![x].executing = TRUE]
    /\ UNCHANGED <<allow, plan, used, operations, canceled, runVars, stopVars>>

\* Mutant: a release does not wait for the end of the execution.
RefundableExecuting(l) == l.released /\ ~l.refunded

Refundable(l) == l.released /\ ~l.executing /\ ~l.refunded

\* Mutant: the credit comes back and nobody is told.
RefundQuietly(x, l, next) ==
    /\ lease' = [lease EXCEPT ![x] = [l EXCEPT !.refunded = @ \/ Refundable(l)]]
    /\ used' = IF Refundable(l) THEN used - plan[x].cost ELSE used
    /\ phase' = [phase EXCEPT ![x] = next]

\* Mutant: the end of the execution and the release both refund.
RefundTwice(x, l, next) ==
    /\ lease' = [lease EXCEPT ![x] = [l EXCEPT !.refunded = TRUE]]
    /\ used' = used - plan[x].cost
    /\ phase' = Woken([phase EXCEPT ![x] = next])

\* refund, when l is what the lease has become.
Refund(x, l, next) ==
    /\ lease' = [lease EXCEPT ![x] = [l EXCEPT !.refunded = @ \/ Refundable(l)]]
    /\ used' = IF Refundable(l) THEN used - plan[x].cost ELSE used
    /\ phase' = LET f == [phase EXCEPT ![x] = next] IN IF Refundable(l) THEN Woken(f) ELSE f

\* The handler returns: after Execute, or because there is no request to execute.
Release(x) ==
    /\ phase[x] \in {"leased", "constructed", "returned"}
    /\ Refund(x, [lease[x] EXCEPT !.released = TRUE], "gone")
    /\ UNCHANGED <<allow, plan, operations, canceled, runVars, stopVars>>

\* A lease may be released while Execute has not returned; copies share its state.
ReleaseEarly(x) ==
    /\ phase[x] \in Executing \union {"finishing"} /\ ~lease[x].released
    /\ Refund(x, [lease[x] EXCEPT !.released = TRUE], phase[x])
    /\ UNCHANGED <<allow, plan, operations, canceled, runVars, stopVars>>

-----------------------------------------------------------------------------
(* Execute                                                                 *)

\* begin; the plan may be invalid, the action refused by the offline hold.
Begin(x) ==
    /\ \/ ~closing /\ Goes(x, "claimed", "preparing") /\ operations' = operations \union {x}
       \/ Goes(x, "claimed", "ended") /\ UNCHANGED operations
    /\ UNCHANGED <<allow, plan, creditVars, canceled, runVars, stopVars>>

\* The account, the credential, the decoding and the request script.
Prepare(x) ==
    /\ Goes(x, "preparing", "ready") \/ Goes(x, "preparing", "ended")
    /\ UNCHANGED <<allow, plan, creditVars, operations, canceled, runVars, stopVars>>

\* The client goes away.
ClientCancels(x) ==
    /\ x \in operations \ canceled
    /\ canceled' = canceled \union {x}
    /\ UNCHANGED <<allow, phase, plan, creditVars, operations, runVars, stopVars>>

\* The deferred calls: the lease first, the operation last.
FinishLease(x) ==
    /\ phase[x] = "ended"
    /\ Refund(x, [lease[x] EXCEPT !.executing = FALSE], "finishing")
    /\ UNCHANGED <<allow, plan, operations, canceled, runVars, stopVars>>

FinishOperation(x) ==
    /\ Goes(x, "finishing", "returned")
    /\ operations' = operations \ {x}
    /\ canceled' = canceled \ {x}
    /\ UNCHANGED <<allow, plan, creditVars, runVars, stopVars>>

-----------------------------------------------------------------------------
(* Attempts and resends                                                    *)

Number(x) == ledger[x].sends

Send(x) ==
    /\ Goes(x, "ready", "sent")
    /\ ledger' = [ledger EXCEPT ![x].sends = @ + 1]
    /\ attempt' = [attempt EXCEPT ![x] = NewAttempt]
    /\ UNCHANGED <<allow, plan, creditVars, operations, canceled, resends, allowed, client, stopVars>>

\* Mutant: headers that name the provider's state do not count.
CanTransportResendUnmarked(x, l) ==
    /\ plan[x].resendable
    /\ ~l.ordinary /\ ~l.semantic /\ ~l.tools /\ ~l.terminal /\ ~l.failure
    /\ l.responses = 0 \/ allow

\* Mutant: an answered request is sent again although that was not allowed.
CanTransportResendAnswered(x, l) ==
    /\ plan[x].resendable
    /\ ~l.ordinary /\ ~l.metadata /\ ~l.semantic /\ ~l.tools /\ ~l.terminal /\ ~l.failure

CanTransportResend(x, l) ==
    /\ plan[x].resendable
    /\ ~l.ordinary /\ ~l.metadata /\ ~l.semantic /\ ~l.tools /\ ~l.terminal /\ ~l.failure
    /\ l.responses = 0 \/ allow

CanRetry(x, l) == resends[x] < MaxResends /\ CanTransportResend(x, l)

\* Where a failure leads, when l is what the ledger has become: a stream waits for
\* a retry if the failure is one of the transport's, and else fails in band.
Failed(x, l) ==
    IF IsStream(x) THEN {"failing"} \union {p \in {"retrying"} : CanRetry(x, l)} ELSE {"ended"}

Fails(x, l) == \E p \in Failed(x, l) : phase' = [phase EXCEPT ![x] = p]

\* Provider.Do fails, or returns no response.
SendFails(x) ==
    /\ phase[x] = "sent" /\ Fails(x, ledger[x])
    /\ UNCHANGED <<allow, plan, creditVars, operations, canceled, runVars, stopVars>>

\* A response; its status or its type may be one that is not passed on.
Answer(x) ==
    LET l == [ledger[x] EXCEPT !.responses = @ + 1]
    IN  /\ phase[x] = "sent"
        /\ Goes(x, "sent", "answered") \/ (plan[x].kind # "original" /\ Fails(x, l))
        /\ ledger' = [ledger EXCEPT ![x] = l]
        /\ UNCHANGED <<allow, plan, creditVars, operations, canceled, resends, attempt, allowed, client,
                       stopVars>>

\* waitForRetry returns; the deadline or the context may have ended.
Retry(x) ==
    /\ \/ Goes(x, "retrying", "ready") /\ resends' = [resends EXCEPT ![x] = @ + 1]
       \/ Goes(x, "retrying", "failing") /\ UNCHANGED resends
    /\ UNCHANGED <<allow, plan, creditVars, operations, canceled, attempt, ledger, allowed, client,
                   stopVars>>

\* failStream and abortStream: a client that has been given an envelope is told in
\* band, unless its context is gone; Abort may fail.
FailStream(x) ==
    /\ Goes(x, "failing", "ended")
    /\ \/ /\ ledger[x].hold /\ x \notin canceled
          /\ client' = [client EXCEPT ![x].aborted = TRUE]
          /\ ledger' = [ledger EXCEPT ![x].failure = ~ledger[x].terminal]
       \/ UNCHANGED <<client, ledger>>
    /\ UNCHANGED <<allow, plan, creditVars, operations, canceled, resends, attempt, allowed, stopVars>>

-----------------------------------------------------------------------------
(* What is shown to the client                                             *)

\* The client sees something of the current attempt.
Shows(x) == [client[x] EXCEPT !.begun = TRUE, !.seen = @ \union {Number(x)}]

\* downstream.Begin of a stream, by executeStream before it reads and by
\* consumeProviderStream when the script has the headers; only the former asks
\* first whether the envelope is out. Headers of the provider may be in it.
OpenStream(x) ==
    /\ IsStream(x) /\ ~attempt[x].opened
    /\ phase[x] = IF plan[x].kind = "stream" THEN "answered" ELSE "reading"
    /\ \/ /\ plan[x].kind = "stream" /\ ledger[x].hold
          /\ phase' = [phase EXCEPT ![x] = "reading"]
          /\ attempt' = [attempt EXCEPT ![x].opened = TRUE]
          /\ UNCHANGED <<ledger, client>>
       \/ /\ ~client[x].begun /\ x \notin canceled
          /\ phase' = [phase EXCEPT ![x] = "reading"]
          /\ attempt' = [attempt EXCEPT ![x].opened = TRUE]
          /\ \E metadata \in BOOLEAN :
                 /\ ledger' = [ledger EXCEPT ![x].hold = TRUE, ![x].metadata = metadata]
                 /\ client' = [client EXCEPT ![x] = IF metadata THEN Shows(x)
                                                    ELSE [@ EXCEPT !.begun = TRUE]]
       \/ \* Begin fails: outside consumeProviderStream the Exchange just ends
          /\ ~(plan[x].kind = "stream" /\ ledger[x].hold)
          /\ IF plan[x].kind = "stream" THEN phase' = [phase EXCEPT ![x] = "ended"]
                                        ELSE Fails(x, ledger[x])
          /\ UNCHANGED <<attempt, ledger, client>>
    /\ UNCHANGED <<allow, plan, creditVars, operations, canceled, resends, allowed, stopVars>>

\* A script's stream is read before it opens the envelope.
StartReading(x) ==
    /\ plan[x].kind = "script"
    /\ Goes(x, "answered", "reading")
    /\ UNCHANGED <<allow, plan, creditVars, operations, canceled, runVars, stopVars>>

\* writeDownstream of what is safe to show: all of it, or a part.
FeedStream(x) ==
    LET l == [ledger[x] EXCEPT !.semantic = TRUE]
    IN  /\ phase[x] = "reading" /\ attempt[x].opened /\ x \notin canceled
        /\ ledger' = [ledger EXCEPT ![x] = l]
        /\ client' = [client EXCEPT ![x] = Shows(x)]
        /\ UNCHANGED phase \/ Fails(x, l)
        /\ UNCHANGED <<allow, plan, creditVars, operations, canceled, resends, attempt, allowed, stopVars>>

\* A read fails, the provider is idle, nothing can be written, a keepalive or the
\* script fails.
StreamFails(x) ==
    /\ phase[x] = "reading" /\ Fails(x, ledger[x])
    /\ UNCHANGED <<allow, plan, creditVars, operations, canceled, runVars, stopVars>>

\* The response is decoded: the terminal of a stream, the body of another one.
Decoded(x) ==
    /\ \/ IsStream(x) /\ phase[x] = "reading" /\ attempt[x].opened
       \/ plan[x].kind = "complete" /\ phase[x] = "answered"
    /\ \E intents \in BOOLEAN :
           /\ attempt' = [attempt EXCEPT ![x].intents = intents]
           /\ phase' = [phase EXCEPT ![x] = IF intents THEN "deciding" ELSE "releasing"]
    /\ UNCHANGED <<allow, plan, creditVars, operations, canceled, resends, ledger, allowed, client,
                   stopVars>>

\* Mutant: a decision that cannot be had is taken for an Allow.
DecideToolsOpen(x) ==
    /\ \/ /\ Goes(x, "deciding", "releasing")
          /\ allowed' = [allowed EXCEPT ![x] = @ \union {Number(x)}]
       \/ Goes(x, "deciding", "releasing") /\ UNCHANGED allowed
    /\ UNCHANGED <<allow, plan, creditVars, operations, canceled, resends, attempt, ledger, client,
                   stopVars>>

\* decideTools and decideStreamTools: allowed; or rejected, not to be had, or the
\* client lost while it waits.
DecideTools(x) ==
    /\ \/ /\ Goes(x, "deciding", "releasing")
          /\ allowed' = [allowed EXCEPT ![x] = @ \union {Number(x)}]
       \/ phase[x] = "deciding" /\ Fails(x, ledger[x]) /\ UNCHANGED allowed
    /\ UNCHANGED <<allow, plan, creditVars, operations, canceled, resends, attempt, ledger, client,
                   stopVars>>

\* writeDownstream of the bytes held back, when l and c are what the ledger and the
\* client have become: all of them, with their end, a part, or nothing.
ReleaseBytes(x, l, c) ==
    LET written == [l EXCEPT !.semantic = TRUE, !.tools = @ \/ attempt[x].intents]
        shown   == [Shows(x) EXCEPT !.tools = @ \union {n \in {Number(x)} : attempt[x].intents}]
    IN  \/ /\ x \notin canceled
           /\ client' = [client EXCEPT ![x] = shown]
           /\ \/ /\ ledger' = [ledger EXCEPT ![x] = [written EXCEPT !.terminal = TRUE]]
                 /\ phase' = [phase EXCEPT ![x] = "ended"]
              \/ ledger' = [ledger EXCEPT ![x] = written] /\ Fails(x, written)
        \/ /\ ledger' = [ledger EXCEPT ![x] = l]
           /\ client' = [client EXCEPT ![x] = c]
           /\ Fails(x, l)

\* consumeProviderStream from Approve; nothing may have been held back.
ReleaseStream(x) ==
    /\ phase[x] = "releasing" /\ IsStream(x)
    /\ \/ ReleaseBytes(x, ledger[x], client[x])
       \/ /\ ~attempt[x].intents
          /\ ledger' = [ledger EXCEPT ![x].terminal = TRUE]
          /\ phase' = [phase EXCEPT ![x] = "ended"]
          /\ UNCHANGED client
    /\ UNCHANGED <<allow, plan, creditVars, operations, canceled, resends, attempt, allowed, stopVars>>

\* executeComplete after decideTools; the encoding or Begin may fail.
ReleaseComplete(x) ==
    /\ phase[x] = "releasing" /\ plan[x].kind = "complete"
    /\ \/ x \notin canceled /\ ReleaseBytes(x, [ledger[x] EXCEPT !.ordinary = TRUE], Shows(x))
       \/ Goes(x, "releasing", "ended") /\ UNCHANGED <<ledger, client>>
    /\ UNCHANGED <<allow, plan, creditVars, operations, canceled, resends, attempt, allowed, stopVars>>

\* executeOriginal after the response: headers, bytes and end as they come, with
\* no decision; each of them may fail.
PassOriginal(x) ==
    /\ phase[x] = "answered" /\ plan[x].kind = "original"
    /\ \/ /\ x \notin canceled
          /\ \E semantic, terminal \in BOOLEAN :
                 ledger' = [ledger EXCEPT ![x].ordinary = TRUE, ![x].semantic = semantic,
                                          ![x].terminal = terminal]
          /\ client' = [client EXCEPT ![x] = Shows(x)]
       \/ UNCHANGED <<ledger, client>>
    /\ phase' = [phase EXCEPT ![x] = "ended"]
    /\ UNCHANGED <<allow, plan, creditVars, operations, canceled, resends, attempt, allowed, stopVars>>

-----------------------------------------------------------------------------
(* Shutdown                                                                *)

\* BodyAdmission.BeginShutdown
RefuseBodies ==
    /\ stop = "running"
    /\ stop' = "refusing" /\ refusing' = TRUE
    /\ phase' = Woken(phase)
    /\ UNCHANGED <<allow, plan, creditVars, operations, closing, canceled, runVars>>

\* Pipeline.BeginShutdown
BeginShutdown ==
    /\ stop = "refusing"
    /\ stop' = "closing" /\ closing' = TRUE
    /\ canceled' = operations
    /\ UNCHANGED <<allow, phase, plan, creditVars, operations, refusing, runVars>>

\* Pipeline.Drain returns, or its time is up.
DrainExchanges ==
    /\ stop = "closing"
    /\ \/ operations = {} /\ stop' = "quiet"
       \/ stop' = "late"
    /\ UNCHANGED <<allow, phase, plan, creditVars, operations, refusing, closing, canceled, runVars>>

\* BodyAdmission.Drain, in the end without a deadline.
DrainBodies ==
    /\ stop \in {"quiet", "late"} /\ used = 0
    /\ stop' = "drained"
    /\ UNCHANGED <<allow, phase, plan, creditVars, operations, refusing, closing, canceled, runVars>>

CreditNext(x) ==
    \/ AcquirePlan(x) \/ Acquire(x) \/ AcquireGivesUp(x) \/ Construct(x) \/ Claim(x) \/ Release(x)
    \/ ReleaseEarly(x)

ExecuteNext(x) ==
    \/ Begin(x) \/ Prepare(x) \/ ClientCancels(x) \/ FinishLease(x) \/ FinishOperation(x)
    \/ Send(x) \/ SendFails(x) \/ Answer(x) \/ Retry(x) \/ FailStream(x)

ShowNext(x) ==
    \/ OpenStream(x) \/ StartReading(x) \/ FeedStream(x) \/ StreamFails(x) \/ Decoded(x)
    \/ DecideTools(x) \/ ReleaseStream(x) \/ ReleaseComplete(x) \/ PassOriginal(x)

ShutdownNext == RefuseBodies \/ BeginShutdown \/ DrainExchanges \/ DrainBodies

Next ==
    \/ \E x \in Exchanges : CreditNext(x) \/ ExecuteNext(x) \/ ShowNext(x)
    \/ ShutdownNext

Spec == Init /\ [][Next]_vars

-----------------------------------------------------------------------------
(* Properties                                                              *)

Phases == {"idle", "acquiring", "asleep", "leased", "constructed", "claimed", "preparing", "ready",
           "sent", "answered", "reading", "deciding", "releasing", "retrying", "failing", "ended",
           "finishing", "returned", "gone"}

\* What CommitLedger is for: no client puts together a response from two attempts at
\* its request, whatever was cut off, timed out or sent again in between. The ledger
\* never knows less than the client has been shown, an attempt the provider answered
\* is only repeated where the policy allows to pay twice, and a response that was
\* ended is not also reported as failed.
OneAttemptPerClient ==
    \A x \in Exchanges :
        /\ phase[x] \in Phases
        /\ Cardinality(client[x].seen) <= 1
        /\ client[x].seen \subseteq {Number(x)}
        /\ client[x].seen # {} => ledger[x].metadata \/ ledger[x].ordinary \/ ledger[x].semantic
        /\ Number(x) <= MaxResends + 1
        /\ ~allow => ledger[x].responses <= 1
        /\ ~(client[x].aborted /\ ledger[x].terminal)

\* What holding a response back is for: the tool calls a client sees were allowed in
\* the attempt they belong to (decideTools, decideStreamTools), not in an earlier one
\* whose bytes were lost, and such a request is not sent again.
ToolsWereAllowed ==
    \A x \in Exchanges :
        /\ client[x].tools \subseteq allowed[x] \intersect {Number(x)}
        /\ client[x].tools # {} => ledger[x].tools

\* Whose bytes are still reserved: leases that are executing or not released.
Holders == {x \in Exchanges : /\ phase[x] \notin {"idle", "acquiring", "asleep", "gone"}
                              /\ lease[x].executing \/ ~lease[x].released}

\* What BodyAdmission promises: the credit in use is what the leases reserve that are
\* executing or not released, whichever of Execute's end and the release comes last; a
\* request sleeps only while its plan does not fit and the gate is open (nobody is
\* forgotten when credit returns or the product stops); and once the product has drained
\* the pipeline in time, or the bodies, no request is being executed
\* (resource_admission.go:253-278).
CreditExact ==
    /\ used = Cardinality(UNION {{x} \X (1 .. plan[x].cost) : x \in Holders})
    /\ used \in 0 .. ActiveBytes
    /\ \A x \in Exchanges :
           /\ phase[x] = "asleep" => ~refusing /\ plan[x].cost > ActiveBytes - used
           /\ phase[x] \in Executing <=> lease[x].executing
    /\ stop = "quiet" => \A x \in Exchanges : phase[x] \notin Executing \ {"claimed", "ended"}
    /\ stop = "drained" => Holders = {}
=============================================================================
