------------------------- MODULE RetainedAdmission -------------------------
(***************************************************************************)
(* The owner of retained capture admissions (captureadmission/retained.go):*)
(* a proxied operation that was authorized is registered under its         *)
(* admission key before a last read of the source of authority, and is     *)
(* withdrawn when a later read, prompted by a change hint or by expiry, is *)
(* refused. One worker makes all the reads, outside the lock.              *)
(*                                                                         *)
(* A subscription is a call of Retain. A *retainedEntry is named by the    *)
(* subscription that created it, so an entry keeps its identity when its   *)
(* key is registered again. Receipts are issued by one authorizer and not  *)
(* shared between subscriptions, as in the proxy's handler.                *)
(***************************************************************************)
EXTENDS Integers, FiniteSets, FiniteSetsExt

CONSTANTS
    Subs,        \* the subscriptions
    Keys,        \* the retainedKeys: admission reference and credential revision
    KeyOf,       \* the key of each subscription
    Expiring,    \* the keys whose validity has an ExpiresAt
    Changes,     \* the calls of Changed
    ScopeOf,     \* the keys a change is about
    RevokedBy,   \* those of them the change's commit made invalid
    ByOwner,     \* the changes named by user or session, not by capture
    None         \* no entry

ASSUME RetainedAssumption ==
    /\ KeyOf \in [Subs -> Keys]
    /\ ScopeOf \in [Changes -> SUBSET Keys]
    /\ \A c \in Changes : RevokedBy[c] \subseteq ScopeOf[c]
    /\ ByOwner \subseteq Changes
    /\ None \notin Subs

VARIABLES
    valid,        \* external: the keys the source of authority accepts
    expired,      \* external: the keys whose ExpiresAt has passed
    entries,      \* Retained.entries
    entryOf,      \* subscription.entry
    subscribers,  \* retainedEntry.subscribers
    version,      \* retainedEntry.version
    checked,      \* retainedEntry.checked
    dirty,        \* the entries with retainedEntry.dirty
    known,        \* the entries with retainedEntry.validityKnown
    asked,        \* the version a call of Retain waits for
    sub,          \* where each subscription stands
    withdrawn,    \* the subscriptions with subscription.withdrawn
    canceled,     \* the subscriptions whose cancel function was called
    owed,         \* the cancel functions the worker and BeginShutdown still call
    worker,       \* where the worker stands
    accepting,    \* Retained.accepting
    change,       \* where each call of Changed stands
    targets,      \* the entries and versions the call waits for
    joining,      \* the subscriptions the call has not dealt with yet
    shutdown      \* where Shutdown stands

sourceVars == <<valid, expired>>
entryVars  == <<entries, entryOf, subscribers, version, checked, dirty, known>>
changeVars == <<change, targets, joining>>
vars == <<sourceVars, entryVars, asked, sub, withdrawn, canceled, owed, worker,
          accepting, changeVars, shutdown>>

\* "waiting": registered, in Retain; "active": Retain returned nil; "failed": it
\* returned an error with the cleanup handle; "done": the handle was called.
SubPhases == {"idle", "waiting", "active", "failed", "done"}

\* "committed": the source has changed, the hint has not arrived.
ChangePhases == {"idle", "committed", "waiting", "returned", "timedOut"}

\* A worker's read: of which entry, begun at which version, whether its context
\* was canceled, and what came back ("pending" while it runs).
Reads == [entry : Subs, version : Nat, cut : BOOLEAN,
          answer : {"pending", "accepted", "refused", "failed", "canceled"}]
Idle   == [entry |-> None, version |-> 0, cut |-> FALSE, answer |-> "pending"]
Exited == [Idle EXCEPT !.answer = "canceled"]

\* The targets of a change that is not waiting.
NoTargets == [e \in {} |-> 0]

Reading == worker.entry # None

\* Mutant: a subscription is forgotten when Retain fails.
RegisteredOK == {s \in Subs : sub[s] \in {"waiting", "active"}}

\* Retained.subscriptions, and the entries that are in Retained.entries.
Registered == {s \in Subs : sub[s] \in {"waiting", "active", "failed"}}
Live == {entries[k] : k \in Keys} \ {None}

Init ==
    /\ valid = Keys /\ expired = {}
    /\ entries = [k \in Keys |-> None]
    /\ entryOf = [s \in Subs |-> None]
    /\ subscribers = [e \in Subs |-> {}]
    /\ version = [e \in Subs |-> 0] /\ checked = [e \in Subs |-> 0]
    /\ dirty = {} /\ known = {}
    /\ asked = [s \in Subs |-> 0]
    /\ sub = [s \in Subs |-> "idle"]
    /\ withdrawn = {} /\ canceled = {}
    /\ owed = [w \in {"worker", "shutdown"} |-> {}]
    /\ worker = Idle
    /\ accepting = TRUE
    /\ change = [c \in Changes |-> "idle"]
    /\ targets = [c \in Changes |-> NoTargets]
    /\ joining = [c \in Changes |-> {}]
    /\ shutdown = "idle"
-----------------------------------------------------------------------------
\* Mutant: a hint does not move the version on.
BumpNothing(E) == version

\* markLocked of the entries E: the version moves on, the entry is due, and the
\* read that is under way for it is cut off.
Bump(E) == [e \in Subs |-> IF e \in E THEN version[e] + 1 ELSE version[e]]
Cut(E)  == IF worker.entry \in E /\ worker.answer = "pending"
           THEN [worker EXCEPT !.cut = TRUE] ELSE worker

\* Retained.Retain up to its wait: registration before the source read. A
\* Retained that is not accepting refuses.
Retain(s) ==
    LET k == KeyOf[s]
        e == IF entries[k] = None THEN s ELSE entries[k]
    IN  /\ sub[s] = "idle" /\ accepting
        /\ entries' = [entries EXCEPT ![k] = e]
        /\ entryOf' = [entryOf EXCEPT ![s] = e]
        /\ subscribers' = [subscribers EXCEPT ![e] = @ \union {s}]
        /\ version' = Bump({e}) /\ dirty' = dirty \union {e} /\ worker' = Cut({e})
        /\ asked' = [asked EXCEPT ![s] = version'[e]]
        /\ sub' = [sub EXCEPT ![s] = "waiting"]
        /\ UNCHANGED <<sourceVars, checked, known, withdrawn, canceled, owed, accepting,
                       changeVars, shutdown>>

\* Mutant: the read has to be of a later registration.
ConfirmedLater(s) == checked[entryOf[s]] > asked[s] /\ entryOf[s] \notin dirty

\* The wait of Retain is over: the entry was read at this registration's version
\* or later, and no new read is due.
Confirmed(s) == checked[entryOf[s]] >= asked[s] /\ entryOf[s] \notin dirty

RetainSucceeds(s) ==
    /\ sub[s] = "waiting" /\ s \notin withdrawn /\ accepting
    /\ Confirmed(s)
    /\ sub' = [sub EXCEPT ![s] = "active"] /\ asked' = [asked EXCEPT ![s] = 0]
    /\ UNCHANGED <<sourceVars, entryVars, withdrawn, canceled, owed, worker,
                   accepting, changeVars, shutdown>>

RetainRejected(s) ==
    /\ sub[s] = "waiting" /\ (s \in withdrawn \/ ~accepting)
    /\ sub' = [sub EXCEPT ![s] = "failed"] /\ asked' = [asked EXCEPT ![s] = 0]
    /\ UNCHANGED <<sourceVars, entryVars, withdrawn, canceled, owed, worker,
                   accepting, changeVars, shutdown>>

\* Mutants: leaving takes the mark of the registration back, and an entry stays
\* registered when its last subscription leaves.
LeaveEntryUnmarks(s) ==
    LET e == entryOf[s]
        k == KeyOf[s]
        last == entries[k] = e /\ subscribers[e] \subseteq {s}
    IN  /\ subscribers' = [subscribers EXCEPT ![e] = @ \ {s}]
        /\ entries' = IF last THEN [entries EXCEPT ![k] = None] ELSE entries
        /\ worker' = IF last THEN Cut({e}) ELSE worker
        /\ version' = [version EXCEPT ![e] = @ - 1]
        /\ UNCHANGED <<entryOf, checked, dirty, known>>
LeaveEntryOpen(s) ==
    /\ subscribers' = [subscribers EXCEPT ![entryOf[s]] = @ \ {s}]
    /\ UNCHANGED <<worker, entries, entryOf, version, checked, dirty, known>>

\* The subscription leaves its entry, and the last one takes the entry with it.
LeaveEntry(s) ==
    LET e == entryOf[s]
        k == KeyOf[s]
        last == entries[k] = e /\ subscribers[e] \subseteq {s}
    IN  /\ subscribers' = [subscribers EXCEPT ![e] = @ \ {s}]
        /\ entries' = IF last THEN [entries EXCEPT ![k] = None] ELSE entries
        /\ worker' = IF last THEN Cut({e}) ELSE worker
        /\ UNCHANGED <<entryOf, version, checked, dirty, known>>

\* The caller's context ends while Retain waits.
RetainGivesUp(s) ==
    /\ sub[s] = "waiting"
    /\ sub' = [sub EXCEPT ![s] = "failed"] /\ asked' = [asked EXCEPT ![s] = 0]
    /\ withdrawn' = withdrawn \union {s}
    /\ LeaveEntry(s)
    /\ UNCHANGED <<sourceVars, canceled, owed, accepting, changeVars, shutdown>>

\* The cleanup handle: the operation and its own cleanup have come to an end.
Release(s) ==
    /\ sub[s] \in {"active", "failed"}
    /\ sub' = [sub EXCEPT ![s] = "done"]
    /\ LeaveEntry(s)
    /\ UNCHANGED <<sourceVars, asked, withdrawn, canceled, owed, accepting, changeVars,
                   shutdown>>
-----------------------------------------------------------------------------
\* Time passes the ExpiresAt of a key: the source refuses it from now on.
Expire(k) ==
    /\ k \in Expiring \ expired
    /\ expired' = expired \union {k} /\ valid' = valid \ {k}
    /\ UNCHANGED <<entryVars, asked, sub, withdrawn, canceled, owed, worker, accepting,
                   changeVars, shutdown>>

\* Mutant: expiry is left to the hints.
OverdueNever == {}

\* The entries whose expiry the worker notices in its scan.
Overdue == {e \in Live : e \notin dirty /\ e \in known /\ KeyOf[e] \in expired}

\* The worker scans the entries, marks the overdue ones and starts a read of one
\* that is due.
WorkerSelects ==
    /\ ~Reading /\ worker # Exited /\ owed["worker"] = {}
    /\ accepting
    /\ version' = Bump(Overdue) /\ dirty' = dirty \union Overdue
    /\ \E e \in Live \intersect dirty' :
           worker' = [entry |-> e, version |-> version'[e], cut |-> FALSE, answer |-> "pending"]
    /\ UNCHANGED <<sourceVars, entries, entryOf, subscribers, checked, known, asked, sub,
                   withdrawn, canceled, owed, accepting, changeVars, shutdown>>

\* The source answers: what it says of the key, an error or the two-second limit,
\* or the cancellation if the read was cut off.
SourceAnswers ==
    /\ Reading /\ worker.answer = "pending"
    /\ \E a \in {"accepted", "refused", "failed", "canceled"} :
           /\ a = "accepted" => KeyOf[worker.entry] \in valid
           /\ a = "refused" => KeyOf[worker.entry] \notin valid
           /\ a = "canceled" => worker.cut \/ ~accepting
           /\ worker' = [worker EXCEPT !.answer = a]
    /\ UNCHANGED <<sourceVars, entryVars, asked, sub, withdrawn, canceled, owed, accepting,
                   changeVars, shutdown>>

\* Mutant: an answer counts although a mark has overtaken the read.
StillCurrentAnyway == entries[KeyOf[worker.entry]] = worker.entry /\ accepting

StillCurrent ==
    /\ entries[KeyOf[worker.entry]] = worker.entry
    /\ version[worker.entry] = worker.version
    /\ accepting

\* Mutant: withdrawal without cancellation of the operations.
NoCancellations(S) == owed

Cancellations(S) == [owed EXCEPT !["worker"] = S]

\* The worker takes the lock again. An answer overtaken by a mark, a removal or
\* shutdown is dropped; an error withdraws every subscriber of the entry.
WorkerApplies ==
    /\ Reading /\ worker.answer # "pending"
    /\ worker' = Idle
    /\ LET e == worker.entry
           drop == StillCurrent /\ worker.answer # "accepted"
       IN  /\ checked' = IF StillCurrent THEN [checked EXCEPT ![e] = worker.version] ELSE checked
           /\ dirty' = IF StillCurrent THEN dirty \ {e} ELSE dirty
           /\ known' = IF StillCurrent /\ ~drop THEN known \union {e} ELSE known
           /\ entries' = IF drop THEN [entries EXCEPT ![KeyOf[e]] = None] ELSE entries
           /\ withdrawn' = IF drop THEN withdrawn \union subscribers[e] ELSE withdrawn
           /\ owed' = IF drop THEN Cancellations(subscribers[e]) ELSE owed
    /\ UNCHANGED <<sourceVars, entryOf, subscribers, version, asked, sub, canceled,
                   accepting, changeVars, shutdown>>

\* The cancel functions are called after the unlock, one by one.
CallCancel(w, s) ==
    /\ s \in owed[w]
    /\ owed' = [owed EXCEPT ![w] = @ \ {s}]
    /\ canceled' = canceled \union {s}
    /\ UNCHANGED <<sourceVars, entryVars, asked, sub, withdrawn, worker, accepting,
                   changeVars, shutdown>>

WorkerExits ==
    /\ ~Reading /\ worker # Exited /\ owed["worker"] = {}
    /\ ~accepting
    /\ worker' = Exited
    /\ UNCHANGED <<sourceVars, entryVars, asked, sub, withdrawn, canceled, owed, accepting,
                   changeVars, shutdown>>
-----------------------------------------------------------------------------
\* The authority's own transaction commits; its hint follows.
Commit(c) ==
    /\ change[c] = "idle"
    /\ change' = [change EXCEPT ![c] = "committed"]
    /\ valid' = valid \ RevokedBy[c]
    /\ UNCHANGED <<expired, entryVars, asked, sub, withdrawn, canceled, owed, worker,
                   accepting, targets, joining, shutdown>>

\* Mutant: an entry whose owner is not known yet is not touched by its hints.
MatchesKnown(c, e) ==
    KeyOf[e] \in ScopeOf[c] /\ (c \in ByOwner => e \in known)

\* matches: a capture is known from the admission, the user and the session only
\* from a successful read, and an entry without one matches every owner.
Matches(c, e) == KeyOf[e] \in ScopeOf[c] \/ (c \in ByOwner /\ e \notin known)

Retired(c) == {s \in Registered : s \in withdrawn /\ Matches(c, entryOf[s])}

\* Retained.BeginChange: mark what matches and note who has to be joined.
BeginChange(c) ==
    LET E == IF accepting THEN {e \in Live : Matches(c, e)} ELSE {}
    IN  /\ change[c] = "committed"
        /\ change' = [change EXCEPT ![c] = "waiting"]
        /\ version' = Bump(E) /\ dirty' = dirty \union E /\ worker' = Cut(E)
        /\ targets' = [targets EXCEPT ![c] = [e \in E |-> version'[e]]]
        /\ joining' = [joining EXCEPT ![c] = (UNION {subscribers[e] : e \in E}) \union Retired(c)]
        /\ UNCHANGED <<sourceVars, entries, entryOf, subscribers, checked, known, asked, sub,
                       withdrawn, canceled, owed, accepting, shutdown>>

\* The wait for the entry e of a change is over.
Settled(c, e) == checked[e] >= targets[c][e] \/ subscribers[e] = {} \/ ~accepting

\* The wait deals with one subscription: a withdrawn one must have been released.
Join(c, s) ==
    /\ change[c] = "waiting" /\ s \in joining[c]
    /\ entryOf[s] \in DOMAIN targets[c] => Settled(c, entryOf[s])
    /\ s \in withdrawn => sub[s] = "done"
    /\ joining' = [joining EXCEPT ![c] = @ \ {s}]
    /\ UNCHANGED <<sourceVars, entryVars, asked, sub, withdrawn, canceled, owed, worker,
                   accepting, change, targets, shutdown>>

ChangedReturns(c) ==
    /\ change[c] = "waiting" /\ joining[c] = {}
    /\ \A e \in DOMAIN targets[c] : Settled(c, e)
    /\ change' = [change EXCEPT ![c] = "returned"]
    /\ targets' = [targets EXCEPT ![c] = NoTargets]
    /\ UNCHANGED <<sourceVars, entryVars, asked, sub, withdrawn, canceled, owed, worker,
                   accepting, joining, shutdown>>

\* The five seconds of the caller are over.
ChangedTimesOut(c) ==
    /\ change[c] = "waiting"
    /\ change' = [change EXCEPT ![c] = "timedOut"]
    /\ targets' = [targets EXCEPT ![c] = NoTargets] /\ joining' = [joining EXCEPT ![c] = {}]
    /\ UNCHANGED <<sourceVars, entryVars, asked, sub, withdrawn, canceled, owed, worker,
                   accepting, shutdown>>
-----------------------------------------------------------------------------
\* Mutant: shutdown withdraws nobody.
OwnedByNobody == {}

\* The subscriptions BeginShutdown withdraws.
OwnedByEntries == UNION {subscribers[e] : e \in Live}

\* Retained.BeginShutdown, called by Shutdown or by the worker when the owner's
\* context has ended. It cancels the read that is under way.
BeginShutdown ==
    /\ accepting
    /\ accepting' = FALSE
    /\ worker' = Cut(Live)
    /\ withdrawn' = withdrawn \union OwnedByEntries
    /\ owed' = [owed EXCEPT !["shutdown"] = OwnedByEntries]
    /\ UNCHANGED <<sourceVars, entryVars, asked, sub, canceled, changeVars, shutdown>>

\* Retained.Shutdown: after BeginShutdown and the worker, all subscriptions.
ShutdownReturns ==
    /\ ~accepting /\ shutdown = "idle" /\ worker = Exited
    /\ Registered = {}
    /\ shutdown' = "returned"
    /\ UNCHANGED <<sourceVars, entryVars, asked, sub, withdrawn, canceled, owed, worker,
                   accepting, changeVars>>

Next ==
    \/ \E s \in Subs :
           \/ Retain(s) \/ RetainSucceeds(s) \/ RetainRejected(s) \/ RetainGivesUp(s)
           \/ Release(s)
           \/ \E w \in {"worker", "shutdown"} : CallCancel(w, s)
    \/ \E k \in Keys : Expire(k)
    \/ WorkerSelects \/ SourceAnswers \/ WorkerApplies \/ WorkerExits
    \/ \E c \in Changes :
           \/ Commit(c) \/ BeginChange(c) \/ ChangedReturns(c) \/ ChangedTimesOut(c)
           \/ \E s \in Subs : Join(c, s)
    \/ BeginShutdown \/ ShutdownReturns

Spec == Init /\ [][Next]_vars

(***************************************************************************)
(* The worker's goroutine runs and its read ends (it has a time limit),    *)
(* cancel functions return, a Retain whose wait is over returns, and an    *)
(* operation that failed, or whose cancel function was called, is cleaned  *)
(* up by its handler. Nothing is assumed of healthy operations, of calls   *)
(* of Changed, of contexts or of time.                                     *)
(***************************************************************************)
Fairness ==
    /\ WF_vars(WorkerSelects) /\ WF_vars(SourceAnswers) /\ WF_vars(WorkerApplies)
    /\ WF_vars(WorkerExits) /\ WF_vars(ShutdownReturns)
    /\ \A s \in Subs :
           /\ WF_vars(RetainSucceeds(s)) /\ WF_vars(RetainRejected(s))
           /\ WF_vars((sub[s] = "failed" \/ s \in canceled) /\ Release(s))
           /\ \A w \in {"worker", "shutdown"} : WF_vars(CallCancel(w, s))

FairSpec == Spec /\ Fairness
-----------------------------------------------------------------------------
\* Every variable has the type of its Go field.
TypeOK ==
    /\ valid \subseteq Keys /\ expired \subseteq Keys
    /\ entries \in [Keys -> Subs \union {None}]
    /\ entryOf \in [Subs -> Subs \union {None}]
    /\ subscribers \in [Subs -> SUBSET Subs]
    /\ version \in [Subs -> Nat] /\ checked \in [Subs -> Nat] /\ asked \in [Subs -> Nat]
    /\ dirty \subseteq Subs /\ known \subseteq Subs
    /\ sub \in [Subs -> SubPhases]
    /\ withdrawn \subseteq Subs /\ canceled \subseteq Subs
    /\ owed \in [{"worker", "shutdown"} -> SUBSET Subs]
    /\ worker \in Reads \union {Idle, Exited}
    /\ accepting \in BOOLEAN
    /\ change \in [Changes -> ChangePhases]
    /\ \A c \in Changes : targets[c] \in [DOMAIN targets[c] -> Nat]
    /\ joining \in [Changes -> SUBSET Subs]

\* Once the caller of Changed has its nil, no operation runs on a key its commit
\* revoked: those that were running have been cleaned up, and those that were
\* still being admitted, or came later, are never admitted.
RevocationJoined ==
    \A c \in Changes, s \in Subs :
        change[c] = "returned" /\ KeyOf[s] \in RevokedBy[c] => sub[s] # "active"

\* An operation that runs without permission is about to hear of it: it is
\* withdrawn already, a read of its entry is due, or the hint or the expiry that
\* makes one due has not been noticed yet. No read that was under way when the
\* permission went can hide that.
RevocationNotLost ==
    \A s \in Subs :
        sub[s] = "active" /\ KeyOf[s] \notin valid =>
            \/ s \in withdrawn \/ entryOf[s] \in dirty
            \/ KeyOf[s] \in expired
            \/ \E c \in Changes : change[c] = "committed" /\ KeyOf[s] \in RevokedBy[c]

\* A call of Changed never waits for what nobody will do: an entry that keeps it
\* waiting is registered and due, so that the worker reads it again at the marked
\* version or a later one; a withdrawn subscription it joins is on its way out, or
\* its cancel function was called or is about to be.
ChangedWaitsOnSomebody ==
    \A c \in Changes : change[c] = "waiting" =>
        /\ \A e \in DOMAIN targets[c] : Settled(c, e) \/ e \in Live \intersect dirty
        /\ \A s \in joining[c] \intersect withdrawn :
               \/ sub[s] # "active"
               \/ s \in canceled \/ \E w \in {"worker", "shutdown"} : s \in owed[w]

\* A hint is not a revocation: a subscription is withdrawn because the source
\* refused or failed a read of its entry, because its own caller gave up, or by
\* shutdown, and never because a hint cut a read off.
HintsDoNotWithdraw ==
    [][\A s \in withdrawn' \ withdrawn :
        \/ ~accepting' \/ sub'[s] = "failed"
        \/ worker.answer = "failed"
        \/ worker.answer = "refused" /\ KeyOf[s] \notin valid]_vars

\* The registry has no ghosts: an entry that is registered has subscribers, each
\* of which is registered with it, not withdrawn and not released, unless the
\* process is stopping.
EntriesOwnTheirSubscribers ==
    \A k \in Keys : entries[k] # None =>
        /\ subscribers[entries[k]] # {}
        /\ \A s \in subscribers[entries[k]] :
               /\ KeyOf[s] = k /\ entryOf[s] = entries[k]
               /\ sub[s] \in {"waiting", "active", "failed"}
               /\ accepting => s \notin withdrawn

\* When Shutdown has returned, no subscription is left to clean up.
ShutdownJoinsAll ==
    shutdown = "returned" => \A s \in Subs : sub[s] \in {"idle", "done"}

\* The registry is sound: its variables have their types, and it has no ghosts.
RegistrySound == TypeOK /\ EntriesOwnTheirSubscribers

\* A joined operation is gone: what Changed and Shutdown have waited for does not
\* run, or is not even there, once they have returned.
JoinedMeansGone == RevocationJoined /\ ShutdownJoinsAll

\* A call of Retain does not wait for ever.
RetainSettles == \A s \in Subs : sub[s] = "waiting" ~> sub[s] # "waiting"

\* A grant that expired, without any hint, loses its operations.
ExpiredIsWithdrawn ==
    \A s \in Subs :
        (sub[s] = "active" /\ KeyOf[s] \in expired) ~> sub[s] # "active"

\* Shutdown comes to an end.
ShutdownEnds == ~accepting ~> shutdown = "returned"

\* Nobody waits for ever: a call of Retain settles, an expired grant loses its
\* operations without a hint, and shutdown ends.
Progress == RetainSettles /\ ExpiredIsWithdrawn /\ ShutdownEnds
=============================================================================
