----------------------------- MODULE CodexOAuth -----------------------------
(***************************************************************************)
(* Rotation of an OAuth credential (internal/codexoauth/manager.go) by its *)
(* callers in internal/provideraccount. The secret store holds the         *)
(* credential of one account under a revision, its epoch. A refresh sends  *)
(* the stored refresh token to the provider, which consumes it and answers *)
(* with its replacement; the manager retains the replacement until a       *)
(* compare-and-swap of the store has committed it. Refreshes are single    *)
(* flights by epoch, detached from the callers that wait for them.         *)
(*                                                                         *)
(* A refresh token is a pair: the line says which credential the Owner     *)
(* entered it stems from, gen how often it was rotated. Whether a refresh  *)
(* is due depends on the clock, or is forced, and is left open wherever it *)
(* is asked. A lease freezes the epoch its manager has observed, which may *)
(* lag: any the store has had. What a caller is told is not kept. An entry *)
(* of the pending map is only ever made by the flight of its key, so a     *)
(* flight that compares pointers to find its entry again only asks whether *)
(* the entry is still there.                                               *)
(***************************************************************************)
EXTENDS Integers, FiniteSets

CONSTANTS
    Leases,        \* the requests that acquire the account's credential
    Manual,        \* the Owner's calls of RefreshCredential
    Closers,       \* the callers of Shutdown
    Recreates,     \* whether a credential is entered again after a deletion
    MaxRevision,   \* secretstore.MaxRevision
    MaxLine,       \* bound: credentials the Owner enters
    MaxGen,        \* bound: rotations of each
    None,          \* no credential
    Empty          \* &pendingRefresh{}: an entry whose credential is still nil

Epochs == 1 .. MaxRevision
Tokens == [line : 1 .. MaxLine, gen : 0 .. MaxGen]

\* A recovering flight calls prepare itself, for the epoch it has committed.
Callers == Leases \union Manual \union Epochs

ASSUME OAuthAssumption ==
    /\ MaxRevision \in Nat \ {0} /\ MaxLine \in Nat \ {0} /\ MaxGen \in Nat
    /\ Leases \intersect Manual = {} /\ (Leases \union Manual) \intersect Epochs = {}
    /\ None \notin Tokens /\ Empty \notin Tokens /\ None # Empty
    /\ Recreates \in BOOLEAN

VARIABLES
    rev,         \* the revision of the stored secret, 0: missing
    held,        \* the refresh token in it
    reconnect,   \* the stored credential is in StateReconnectRequired
    consumed,    \* the tokens the provider has consumed
    lost,        \* those whose replacement never reached this process
    lines,       \* the credentials the Owner has entered
    pending,     \* Manager.pending
    permanent,   \* Manager.permanent
    closing,     \* Manager.closing
    flight,      \* where the refresh flight of each epoch stands
    token,       \* the token it carries
    mode,        \* its first caller's allowRefresh, and recovering
    dead,        \* the flights that end with ErrReconnectRequired
    call,        \* where each call of prepare stands
    owner,       \* the account operation under way
    closer,      \* where each call of Shutdown stands
    save         \* the saves of the call of Shutdown that drained

storeVars    == <<rev, held, reconnect>>
providerVars == <<consumed, lost, lines>>
memoryVars   == <<pending, permanent, closing>>
flightVars   == <<flight, token, mode, dead>>
shutdownVars == <<closer, save>>
vars == <<storeVars, providerVars, memoryVars, flightVars, call, owner, shutdownVars>>

\* Results of prepare and refresh that are not a revision.
Failed    == 0
Reconnect == -1

Idle      == [phase |-> "idle", epoch |-> 0, allow |-> FALSE]
Automatic == [allow |-> TRUE, recovering |-> FALSE]
NoSave    == [phase |-> "none", epoch |-> 0, token |-> None, todo |-> {}, failed |-> FALSE]

CallPhases   == {"idle", "begin", "read", "consult", "join", "waiting", "answered", "denied", "done"}
FlightPhases == {"none", "begin", "read", "exchange", "freeze", "hold", "persist", "write",
                 "wrote", "conflicted", "nested", "ending", "landed"}
ClosePhases  == {"idle", "waiting", "saving", "saved", "failed", "gaveUp"}
OwnerPhases  == {"idle", "refreshing", "replaced", "deleted", "gone"}

\* What is written is in scope of Manager.active: from the first critical
\* section of refresh to finishRefresh.
Airborne(r) == flight[r] \notin {"none", "begin", "landed"}

StoreTypes ==
    /\ rev \in 0 .. MaxRevision /\ held \in Tokens \union {None} /\ reconnect \in BOOLEAN
    /\ consumed \subseteq Tokens /\ lost \subseteq consumed /\ lines \in 1 .. MaxLine

MemoryTypes ==
    /\ pending \in [Epochs -> Tokens \union {None, Empty}]
    /\ permanent \subseteq Epochs /\ closing \in BOOLEAN

FlightTypes ==
    /\ flight \in [Epochs -> FlightPhases] /\ token \in [Epochs -> Tokens \union {None}]
    /\ mode \in [Epochs -> [allow : BOOLEAN, recovering : BOOLEAN]] /\ dead \subseteq Epochs

Calls  == [phase : CallPhases, epoch : 0 .. MaxRevision, allow : BOOLEAN]
Saves  == [phase : {"none", "pick", "write", "settle"}, epoch : 0 .. MaxRevision,
           token : Tokens \union {None}, todo : SUBSET Epochs, failed : BOOLEAN]

TypeOK ==
    /\ StoreTypes /\ MemoryTypes /\ FlightTypes
    /\ call \in [Callers -> Calls]
    /\ owner \in [phase : OwnerPhases, rev : 0 .. MaxRevision]
    /\ closer \in [Closers -> ClosePhases] /\ save \in Saves

\* An account whose credential was stored once, and a fresh manager.
Init ==
    /\ rev = 1 /\ held = [line |-> 1, gen |-> 0] /\ reconnect = FALSE
    /\ consumed = {} /\ lost = {} /\ lines = 1
    /\ pending = [e \in Epochs |-> None] /\ permanent = {} /\ closing = FALSE
    /\ flight = [r \in Epochs |-> "none"] /\ token = [r \in Epochs |-> None]
    /\ mode = [r \in Epochs |-> Automatic] /\ dead = {}
    /\ call = [c \in Callers |-> Idle]
    /\ owner = [phase |-> "idle", rev |-> 0]
    /\ closer = [s \in Closers |-> "idle"] /\ save = NoSave

-----------------------------------------------------------------------------
(* The secret store: Replace under an expected revision.                   *)

Replace(e, t, frozen) ==
    /\ rev = e /\ rev < MaxRevision
    /\ rev' = rev + 1 /\ held' = t /\ reconnect' = frozen

\* What currentPreparedRevision may return now: the store may be out of reach,
\* and the credential in it may be due, which is a failure too.
CurrentPreparedRevision ==
    {Failed} \union {p \in {rev} : rev # 0 /\ ~reconnect}
             \union {p \in {Reconnect} : rev # 0 /\ reconnect}

-----------------------------------------------------------------------------
(* Acquiring a lease, and prepare.                                         *)

Called(c, e, allow) ==
    call' = [call EXCEPT ![c] = [phase |-> "begin", epoch |-> e, allow |-> allow]]
Goes(c, p) == call' = [call EXCEPT ![c].phase = p]

\* A flight that called prepare learns whether the credential is dead.
Answered(c, p) ==
    IF c \notin Epochs THEN [Idle EXCEPT !.phase = "done"]
    ELSE [call[c] EXCEPT !.phase = IF p = Reconnect THEN "denied" ELSE "answered"]
Answer(c, p) == call' = [call EXCEPT ![c] = Answered(c, p)]

\* provideraccount acquire: waits for a manual refresh, is refused during a
\* replacement or a deletion, and freezes an epoch and the account's setting.
Acquire(c, e, automatic) ==
    /\ call[c].phase = "idle" /\ owner.phase = "idle" /\ e <= rev
    /\ Called(c, e, automatic)
    /\ UNCHANGED <<storeVars, providerVars, memoryVars, flightVars, owner, shutdownVars>>

\* prepare up to its first reading of the credential. Without permission to
\* refresh and without a flight to join it returns the revision of the store.
Prepare(c) ==
    /\ call[c].phase = "begin"
    /\ IF closing \/ (pending[call[c].epoch] = None /\ ~call[c].allow)
       THEN Answer(c, Failed)
       ELSE Goes(c, IF pending[call[c].epoch] # None THEN "consult" ELSE "read")
    /\ UNCHANGED <<storeVars, providerVars, memoryVars, flightVars, owner, shutdownVars>>

\* The stored credential is of this epoch and due, or not due; it needs a new
\* connection; it is of another epoch; or it cannot be read.
PrepareReads(c) ==
    /\ call[c].phase = "read"
    /\ \/ rev = call[c].epoch /\ ~reconnect /\ Goes(c, "consult")
       \/ rev = call[c].epoch /\ ~reconnect /\ Answer(c, rev)
       \/ rev = call[c].epoch /\ reconnect /\ Answer(c, Reconnect)
       \/ rev # call[c].epoch /\ \E p \in CurrentPreparedRevision : Answer(c, p)
       \/ Answer(c, Failed)
    /\ UNCHANGED <<storeVars, providerVars, memoryVars, flightVars, owner, shutdownVars>>

\* forgetOtherPermanentEpochs and permanentError.
ConsultPermanent(c) ==
    /\ call[c].phase = "consult"
    /\ permanent' = permanent \intersect {call[c].epoch}
    /\ IF call[c].epoch \in permanent THEN Answer(c, Reconnect) ELSE Goes(c, "join")
    /\ UNCHANGED <<storeVars, providerVars, pending, closing, flightVars, owner, shutdownVars>>

\* DoChan: the flight of this epoch, started unless there is one.
JoinFlight(c) ==
    LET e == call[c].epoch IN
    /\ call[c].phase = "join"
    /\ Goes(c, "waiting")
    /\ IF flight[e] = "none"
       THEN /\ flight' = [flight EXCEPT ![e] = "begin"]
            /\ mode' = [mode EXCEPT ![e] = [allow |-> call[c].allow, recovering |-> FALSE]]
       ELSE UNCHANGED <<flight, mode>>
    /\ UNCHANGED <<storeVars, providerVars, memoryVars, token, dead, owner, shutdownVars>>

\* The caller's context ends; the flight goes on. RefreshCredential calls
\* Refresh with a context that cannot end.
CallerLeaves(c) ==
    /\ call[c].phase = "waiting" /\ c \notin Manual
    /\ Answer(c, Failed)
    /\ UNCHANGED <<storeVars, providerVars, memoryVars, flightVars, owner, shutdownVars>>

\* Manager.Inspect of the current credential.
Inspect ==
    /\ rev # 0
    /\ permanent' = permanent \intersect {rev}
    /\ UNCHANGED <<storeVars, providerVars, pending, closing, flightVars, call, owner, shutdownVars>>

-----------------------------------------------------------------------------
(* The flight of one epoch: refresh.                                       *)

Ends(r, p) ==
    /\ flight' = [flight EXCEPT ![r] = "ending"]
    /\ token' = [token EXCEPT ![r] = None]
    /\ dead' = IF p = Reconnect THEN dead \union {r} ELSE dead

\* Mutant: a retained replacement does not keep a flight from exchanging.
RefreshAnew(r) ==
    /\ flight[r] = "begin" /\ ~closing
    /\ flight' = [flight EXCEPT ![r] = "read"]
    /\ pending' = [pending EXCEPT ![r] = Empty]
    /\ UNCHANGED <<storeVars, providerVars, permanent, closing, token, mode, dead, call,
                   owner, shutdownVars>>

\* The first critical section of refresh.
Refresh(r) ==
    /\ flight[r] = "begin" /\ ~closing
    /\ IF pending[r] # None
       THEN /\ flight' = [flight EXCEPT ![r] = "persist"]
            /\ mode' = [mode EXCEPT ![r].recovering = TRUE]
            /\ UNCHANGED pending
       ELSE /\ flight' = [flight EXCEPT ![r] = "read"]
            /\ pending' = [pending EXCEPT ![r] = Empty]
            /\ UNCHANGED mode
    /\ UNCHANGED <<storeVars, providerVars, permanent, closing, token, dead, call, owner,
                   shutdownVars>>

\* A flight that finds the manager closing was never counted.
RefreshRefused(r) ==
    /\ flight[r] = "begin" /\ closing
    /\ flight' = [flight EXCEPT ![r] = "landed"]
    /\ UNCHANGED <<storeVars, providerVars, memoryVars, token, mode, dead, call, owner, shutdownVars>>

\* readCredential, and whether the credential is still due.
ReadCredential(r) ==
    /\ flight[r] = "read"
    /\ \/ /\ rev = r
          /\ flight' = [flight EXCEPT ![r] = "exchange"]
          /\ token' = [token EXCEPT ![r] = held]
          /\ UNCHANGED dead
       \/ rev # r /\ \E p \in CurrentPreparedRevision : Ends(r, p)
       \/ Ends(r, Failed)
    /\ UNCHANGED <<storeVars, providerVars, memoryVars, mode, call, owner, shutdownVars>>

Rotate(t) == [t EXCEPT !.gen = @ + 1]
Consume(t) == consumed' = consumed \union {t}

\* exchange, answered with a new refresh token, or with an access token only.
Granted(r) ==
    /\ flight[r] = "exchange" /\ token[r] \notin consumed
    /\ \/ /\ token[r].gen < MaxGen
          /\ Consume(token[r])
          /\ token' = [token EXCEPT ![r] = Rotate(token[r])]
       \/ UNCHANGED <<consumed, token>>
    /\ flight' = [flight EXCEPT ![r] = "hold"]
    /\ UNCHANGED <<storeVars, lost, lines, memoryVars, mode, dead, call, owner, shutdownVars>>

\* The provider may have consumed a token although no answer, or none that can
\* be used, arrives.
MayBeLost(t) ==
    \/ UNCHANGED <<consumed, lost>>
    \/ t \notin consumed /\ Consume(t) /\ lost' = lost \union {t}

\* ErrRefreshUnavailable: another call may try the same token again.
Unavailable(r) ==
    /\ flight[r] = "exchange"
    /\ MayBeLost(token[r])
    /\ Ends(r, Failed)
    /\ UNCHANGED <<storeVars, lines, memoryVars, mode, call, owner, shutdownVars>>

\* ErrReconnectRequired: the token is dead, or the answer names another account.
Denied(r) ==
    /\ flight[r] = "exchange"
    /\ MayBeLost(token[r])
    /\ flight' = [flight EXCEPT ![r] = "freeze"]
    /\ UNCHANGED <<storeVars, lines, memoryVars, token, mode, dead, call, owner, shutdownVars>>

\* The reconnect state is stored; a failure of that is reported as well, after
\* a write that was done or not.
Freeze(r) ==
    /\ flight[r] = "freeze"
    /\ \/ Replace(r, token[r], TRUE) /\ Ends(r, Reconnect)
       \/ Ends(r, Reconnect) /\ UNCHANGED storeVars
       \/ /\ rev # r
          /\ \E p \in CurrentPreparedRevision : Ends(r, p)
          /\ UNCHANGED storeVars
    /\ UNCHANGED <<providerVars, memoryVars, mode, call, owner, shutdownVars>>

\* The replacement is retained, unless Forget has dropped the entry.
Retain(r) ==
    /\ flight[r] = "hold"
    /\ IF pending[r] = None
       THEN /\ \E p \in CurrentPreparedRevision : Ends(r, p)
            /\ UNCHANGED pending
       ELSE /\ pending' = [pending EXCEPT ![r] = token[r]]
            /\ flight' = [flight EXCEPT ![r] = "persist"]
            /\ token' = [token EXCEPT ![r] = None]
            /\ UNCHANGED dead
    /\ UNCHANGED <<storeVars, providerVars, permanent, closing, mode, call, owner,
                   shutdownVars>>

\* What refresh does with the result of persistRefresh: a flight that recovered
\* an epoch prepares the one it got, if its caller allowed a refresh.
Persisted(r, p) ==
    IF mode[r].recovering /\ mode[r].allow /\ p \in Epochs
    THEN /\ flight' = [flight EXCEPT ![r] = "nested"]
         /\ Called(r, p, TRUE)
         /\ token' = [token EXCEPT ![r] = None]
         /\ UNCHANGED dead
    ELSE Ends(r, p) /\ UNCHANGED call

\* persistRefresh up to the unlock: a copy of the retained credential.
Persist(r) ==
    /\ flight[r] = "persist"
    /\ IF pending[r] = None
       THEN \E p \in CurrentPreparedRevision : Persisted(r, p)
       ELSE /\ pending[r] # Empty
            /\ token' = [token EXCEPT ![r] = pending[r]]
            /\ flight' = [flight EXCEPT ![r] = "write"]
            /\ UNCHANGED <<call, dead>>
    /\ UNCHANGED <<storeVars, providerVars, memoryVars, mode, owner, shutdownVars>>

\* Its write. It may fail with the write done, or not.
Write(r) ==
    /\ flight[r] = "write"
    /\ \/ /\ Replace(r, token[r], FALSE)
          /\ \/ flight' = [flight EXCEPT ![r] = "wrote"] /\ UNCHANGED <<token, dead>>
             \/ Ends(r, Failed)
       \/ /\ rev # r /\ flight' = [flight EXCEPT ![r] = "conflicted"]
          /\ UNCHANGED <<storeVars, token, dead>>
       \/ Ends(r, Failed) /\ UNCHANGED storeVars
    /\ UNCHANGED <<providerVars, memoryVars, mode, call, owner, shutdownVars>>

\* Its second critical section: the entry has served its purpose.
Settle(r) ==
    /\ flight[r] \in {"wrote", "conflicted"}
    /\ pending' = [pending EXCEPT ![r] = None]
    /\ IF flight[r] = "wrote" THEN Persisted(r, r + 1)
       ELSE \E p \in CurrentPreparedRevision : Persisted(r, p)
    /\ UNCHANGED <<storeVars, providerVars, permanent, closing, mode, owner, shutdownVars>>

NestedReturns(r) ==
    /\ flight[r] = "nested" /\ call[r].phase \in {"answered", "denied"}
    /\ Ends(r, IF call[r].phase = "denied" THEN Reconnect ELSE Failed)
    /\ call' = [call EXCEPT ![r] = Idle]
    /\ UNCHANGED <<storeVars, providerVars, memoryVars, mode, owner, shutdownVars>>

\* The deferred function of refresh, with finishRefresh.
Land(r) ==
    /\ flight[r] = "ending"
    /\ pending' = [pending EXCEPT ![r] = IF @ = Empty THEN None ELSE @]
    /\ flight' = [flight EXCEPT ![r] = "landed"]
    /\ UNCHANGED <<storeVars, providerVars, permanent, closing, token, mode, dead, call,
                   owner, shutdownVars>>

\* rememberPermanent; then singleflight forgets the flight and answers all who
\* wait for it.
Deliver(r) ==
    /\ flight[r] = "landed"
    /\ permanent' = IF r \in dead THEN {r} ELSE permanent
    /\ flight' = [flight EXCEPT ![r] = "none"]
    /\ mode' = [mode EXCEPT ![r] = Automatic]
    /\ dead' = dead \ {r}
    /\ call' = [c \in Callers |->
                   IF call[c].phase = "waiting" /\ call[c].epoch = r
                   THEN Answered(c, IF r \in dead THEN Reconnect ELSE Failed) ELSE call[c]]
    /\ UNCHANGED <<storeVars, providerVars, pending, closing, token, owner, shutdownVars>>

-----------------------------------------------------------------------------
(* The Owner's operations on the account; they exclude each other.         *)

\* RefreshCredential.
RefreshCredential(c) ==
    /\ call[c].phase = "idle" /\ owner.phase = "idle" /\ rev # 0
    /\ owner' = [owner EXCEPT !.phase = "refreshing"]
    /\ Called(c, rev, TRUE)
    /\ UNCHANGED <<storeVars, providerVars, memoryVars, flightVars, shutdownVars>>

CredentialRefreshed ==
    /\ owner.phase = "refreshing"
    /\ \A c \in Manual : call[c].phase \in {"idle", "done"}
    /\ owner' = [owner EXCEPT !.phase = "idle"]
    /\ UNCHANGED <<storeVars, providerVars, memoryVars, flightVars, call, shutdownVars>>

\* A credential the provider has just issued is stored.
Enter ==
    /\ rev < MaxRevision /\ lines < MaxLine
    /\ rev' = rev + 1 /\ held' = [line |-> lines + 1, gen |-> 0] /\ reconnect' = FALSE
    /\ lines' = lines + 1

\* ReplaceSecret up to its commit.
ReplaceSecret ==
    /\ owner.phase = "idle" /\ (rev # 0 \/ Recreates)
    /\ Enter
    /\ owner' = [phase |-> "replaced", rev |-> rev + 1]
    /\ UNCHANGED <<consumed, lost, memoryVars, flightVars, call, shutdownVars>>

\* Mutant: the epoch that was committed is forgotten too.
ForgetThrough(below) ==
    /\ pending' = [e \in Epochs |-> IF e <= below THEN None ELSE pending[e]]
    /\ permanent' = {e \in permanent : e > below}

Forget(below) ==
    /\ pending' = [e \in Epochs |-> IF e < below THEN None ELSE pending[e]]
    /\ permanent' = {e \in permanent : e >= below}

SecretReplaced ==
    /\ owner.phase = "replaced"
    /\ Forget(owner.rev)
    /\ owner' = [phase |-> "idle", rev |-> 0]
    /\ UNCHANGED <<storeVars, providerVars, closing, flightVars, call, shutdownVars>>

\* deleteUnreferenced up to the removal of the secret: refused while a lease is
\* being acquired or used. A flight whose callers have left may still be up.
DeleteSecret ==
    /\ owner.phase = "idle" /\ rev # 0
    /\ \A c \in Leases : call[c].phase \in {"idle", "done"}
    /\ rev' = 0 /\ held' = None /\ reconnect' = FALSE
    /\ owner' = [owner EXCEPT !.phase = "deleted"]
    /\ UNCHANGED <<providerVars, memoryVars, flightVars, call, shutdownVars>>

\* The rest: every epoch is forgotten, and the record removed or, when that
\* fails, left behind without a secret.
SecretDeleted ==
    /\ owner.phase = "deleted"
    /\ Forget(MaxRevision + 1)
    /\ \E p \in {"gone", "idle"} : owner' = [owner EXCEPT !.phase = p]
    /\ UNCHANGED <<storeVars, providerVars, closing, flightVars, call, shutdownVars>>

\* provideraccount Create, of an account with the ID of one that was deleted:
\* the reference of its secret is made from the ID.
Create ==
    /\ owner.phase = "gone" /\ Recreates
    /\ Enter
    /\ owner' = [phase |-> "idle", rev |-> 0]
    /\ UNCHANGED <<consumed, lost, memoryVars, flightVars, call, shutdownVars>>

-----------------------------------------------------------------------------
(* Shutdown.                                                               *)

Shutdown(s) ==
    /\ closer[s] = "idle"
    /\ closing' = TRUE
    /\ closer' = [closer EXCEPT ![s] = "waiting"]
    /\ UNCHANGED <<storeVars, providerVars, pending, permanent, flightVars, call, owner, save>>

\* Mutant: the refreshes under way are not waited for.
NobodySaving == save.phase = "none"

\* Manager.active is 0.
Drained == save.phase = "none" /\ \A r \in Epochs : ~Airborne(r)

BeginSaves(s) ==
    /\ closer[s] = "waiting" /\ Drained
    /\ closer' = [closer EXCEPT ![s] = "saving"]
    /\ save' = [NoSave EXCEPT !.phase = "pick", !.todo = {e \in Epochs : pending[e] # None}]
    /\ UNCHANGED <<storeVars, providerVars, memoryVars, flightVars, call, owner>>

ShutdownGivesUp(s) ==
    /\ closer[s] = "waiting"
    /\ closer' = [closer EXCEPT ![s] = "gaveUp"]
    /\ UNCHANGED <<storeVars, providerVars, memoryVars, flightVars, call, owner, save>>

\* persistRefresh of one entry, up to its unlock.
SavePending(e) ==
    /\ save.phase = "pick" /\ e \in save.todo
    /\ IF pending[e] = None
       THEN save' = [save EXCEPT !.todo = @ \ {e}]
       ELSE /\ pending[e] # Empty
            /\ save' = [save EXCEPT !.phase = "write", !.todo = @ \ {e}, !.epoch = e,
                                    !.token = pending[e]]
    /\ UNCHANGED <<storeVars, providerVars, memoryVars, flightVars, call, owner, closer>>

\* Its write; a failure counts if the entry is still there.
SaveWrites ==
    /\ save.phase = "write"
    /\ \/ /\ Replace(save.epoch, save.token, FALSE)
          /\ save' = [save EXCEPT !.phase = "settle"]
       \/ /\ rev # save.epoch
          /\ save' = [save EXCEPT !.phase = "settle"]
          /\ UNCHANGED storeVars
       \/ /\ \/ Replace(save.epoch, save.token, FALSE)
             \/ UNCHANGED storeVars
          /\ save' = [save EXCEPT !.phase = "pick", !.epoch = 0, !.token = None,
                                  !.failed = @ \/ pending[save.epoch] # None]
    /\ UNCHANGED <<providerVars, memoryVars, flightVars, call, owner, closer>>

SaveSettles ==
    /\ save.phase = "settle"
    /\ pending' = [pending EXCEPT ![save.epoch] = None]
    /\ save' = [save EXCEPT !.phase = "pick", !.epoch = 0, !.token = None]
    /\ UNCHANGED <<storeVars, providerVars, permanent, closing, flightVars, call, owner, closer>>

ShutdownReturns(s) ==
    /\ closer[s] = "saving" /\ save.phase = "pick" /\ save.todo = {}
    /\ closer' = [closer EXCEPT ![s] = IF save.failed THEN "failed" ELSE "saved"]
    /\ save' = NoSave
    /\ UNCHANGED <<storeVars, providerVars, memoryVars, flightVars, call, owner>>

-----------------------------------------------------------------------------
PrepareStep(c) ==
    \/ Prepare(c) \/ PrepareReads(c) \/ ConsultPermanent(c)
    \/ JoinFlight(c) \/ CallerLeaves(c)

RefreshStep(r) ==
    \/ Refresh(r) \/ RefreshRefused(r) \/ ReadCredential(r)
    \/ Granted(r) \/ Unavailable(r) \/ Denied(r) \/ Freeze(r)
    \/ Retain(r) \/ Persist(r) \/ Write(r) \/ Settle(r)
    \/ NestedReturns(r) \/ Land(r) \/ Deliver(r)

OwnerStep ==
    \/ \E c \in Manual : RefreshCredential(c)
    \/ CredentialRefreshed \/ ReplaceSecret \/ SecretReplaced
    \/ DeleteSecret \/ SecretDeleted \/ Create \/ Inspect

ShutdownStep ==
    \/ \E s \in Closers : Shutdown(s) \/ BeginSaves(s) \/ ShutdownGivesUp(s) \/ ShutdownReturns(s)
    \/ \E e \in Epochs : SavePending(e)
    \/ SaveWrites \/ SaveSettles

Next ==
    \/ \E c \in Leases, e \in Epochs, automatic \in BOOLEAN : Acquire(c, e, automatic)
    \/ \E c \in Callers : PrepareStep(c)
    \/ \E r \in Epochs : RefreshStep(r)
    \/ OwnerStep \/ ShutdownStep

Spec == Init /\ [][Next]_vars

-----------------------------------------------------------------------------
(* Properties                                                              *)

\* refresh, "Retain the replacement until its CAS commits": a store that holds
\* a token the provider has consumed is never all there is. Its replacement is
\* retained under the store's epoch, or in the hands of that epoch's flight,
\* whose entry nobody has dropped (unless the provider's answer was lost).
RotationKept ==
    rev # 0 /\ held \in consumed \ lost =>
        \/ pending[rev] \in Tokens
        \/ flight[rev] = "hold" /\ pending[rev] = Empty

\* "retrying the token endpoint would lose this account": a token that was
\* consumed is not sent again, whichever flights, recoveries, replacements and
\* failed saves came in between (unless the provider's answer was lost).
NoReplay ==
    \A r \in Epochs : flight[r] = "exchange" => token[r] \notin consumed \ lost

\* Shutdown: "A failed save remains in memory and is reported". A Shutdown that
\* reported success leaves no replacement unsaved, and no refresh can add one.
ShutdownSavesAll ==
    \A s \in Closers : closer[s] = "saved" =>
        \A e \in Epochs : pending[e] = None /\ ~Airborne(e)

\* Forget, "SecretStore CAS still protects against a token exchange already in
\* flight": a rotation of an earlier credential does not replace a credential
\* the Owner has entered since.
OwnerNotOverwritten ==
    [][held # None /\ held' # None => held'.line >= held.line]_vars
=============================================================================
