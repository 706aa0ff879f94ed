-------------------------- MODULE CodexOAuthProofs --------------------------
(***************************************************************************)
(* Proofs about CodexOAuth for any number of leases, epochs, rotations and *)
(* calls of Shutdown, in two layers. The first needs nothing of revisions: *)
(* what flights carry and which entries they make, up to the saves of      *)
(* Shutdown. The second is about the tokens, and assumes that no           *)
(* credential is entered again after a deletion (~Recreates): then a       *)
(* revision that the store has left never returns, and comparing it        *)
(* identifies a credential.                                                *)
(***************************************************************************)
EXTENDS CodexOAuth, TLAPS

\* Flights that have made an entry and not filled it.
Opening == {"read", "exchange", "freeze", "hold"}

CallTypes     == call \in [Callers -> Calls]
OwnerTypes    == owner \in [phase : OwnerPhases, rev : 0 .. MaxRevision]
ShutdownTypes == closer \in [Closers -> ClosePhases] /\ save \in Saves

\* What flights have at hand, and the entries they have made. An empty entry
\* belongs to a flight that is still up.
Carried ==
    /\ rev = 0 <=> held = None
    /\ \A e \in Epochs : pending[e] = Empty => flight[e] \in Opening \union {"ending"}
    /\ \A r \in Epochs : flight[r] \in Opening => pending[r] \in {None, Empty}
    /\ \A r \in Epochs : flight[r] \in {"exchange", "freeze", "hold", "write"} =>
           token[r] \in Tokens

\* What calls and saves work on.
Addressed ==
    /\ \A c \in Callers : call[c].phase \notin {"idle", "done"} => call[c].epoch \in Epochs
    /\ save.phase \in {"write", "settle"} => save.epoch \in Epochs
    /\ save.phase = "write" => save.token \in Tokens

\* Every caller of Shutdown has closed the manager. While entries are saved no
\* refresh is up, and an entry that is left is still to be saved or reported.
Closing ==
    /\ \A s \in Closers : closer[s] # "idle" => closing
    /\ save.phase # "none" =>
           /\ closing
           /\ \A r \in Epochs : ~Airborne(r)
           /\ \A e \in Epochs : pending[e] # None =>
                  \/ e \in save.todo \/ save.failed
                  \/ save.phase \in {"write", "settle"} /\ e = save.epoch

BaseInv ==
    /\ StoreTypes /\ MemoryTypes /\ FlightTypes /\ CallTypes /\ OwnerTypes /\ ShutdownTypes
    /\ Carried /\ Addressed /\ Closing /\ ShutdownSavesAll

Earlier(t)  == [t EXCEPT !.gen = @ - 1]
Real(t)     == t.line <= lines /\ (t.gen > 0 => Earlier(t) \in consumed)
Reached(e)  == rev = 0 \/ e <= rev
Usable(t)   == t \notin consumed \ lost /\ t.line = held.line

\* Flights whose token the provider sees or has denied.
Sent == {"exchange", "freeze"}

\* Only tokens of credentials that were entered, and of rotations of tokens
\* that were consumed, are anywhere.
Genuine ==
    /\ rev = 0 <=> held = None
    /\ held # None => Real(held)
    /\ \A t \in consumed : Real(t)
    /\ \A e \in Epochs : pending[e] \in Tokens => Real(pending[e])
    /\ \A r \in Epochs : token[r] # None => Real(token[r])
    /\ save.token # None => Real(save.token)

\* Nothing works on an epoch the store has not had.
NotAhead ==
    /\ \A e \in Epochs : pending[e] # None => Reached(e)
    /\ \A r \in Epochs : flight[r] # "none" => Reached(r)
    /\ \A c \in Callers : call[c].phase \notin {"idle", "done"} =>
           call[c].epoch \in Epochs /\ Reached(call[c].epoch)
    /\ save.phase \in {"write", "settle"} => save.epoch \in Epochs /\ Reached(save.epoch)
    /\ owner.phase = "replaced" => owner.rev <= rev
    /\ owner.phase = "deleted" => rev = 0

\* An empty entry belongs to a flight, which finds it while its epoch is current.
Entries ==
    /\ \A e \in Epochs : pending[e] = Empty => flight[e] \in Opening \union {"ending"}
    /\ \A r \in Epochs : flight[r] \in Opening =>
           pending[r] \in {None, Empty} /\ (rev = r => pending[r] = Empty)

\* What is sent is the current token, or one of an earlier credential.
SentOnce ==
    /\ \A r \in Epochs : flight[r] \in Sent =>
           /\ token[r] \in Tokens
           /\ rev = r => token[r] = held
           /\ rev \notin {0, r} => token[r].line < held.line
           /\ token[r] \notin consumed \ lost
    /\ \A r, q \in Epochs : flight[r] \in Sent /\ flight[q] \in Sent /\ r # q =>
           token[r] # token[q]

\* What may be written over the current credential is a usable rotation of it.
Writable ==
    /\ \A r \in Epochs : flight[r] \in {"hold", "write"} =>
           token[r] \in Tokens /\ (rev = r => Usable(token[r]))
    /\ \A e \in Epochs : pending[e] \in Tokens /\ rev = e => Usable(pending[e])
    /\ save.phase = "write" =>
           save.token \in Tokens /\ (rev = save.epoch => Usable(save.token))
    /\ \A r \in Epochs : flight[r] \in {"wrote", "conflicted"} => rev # r
    /\ save.phase = "settle" => rev # save.epoch

Rotations ==
    Genuine /\ NotAhead /\ Entries /\ SentOnce /\ Writable /\ RotationKept

IndInv == BaseInv /\ Rotations

-----------------------------------------------------------------------------
\* What the assumptions say of the values the steps compare.
LEMMA Apart ==
    /\ None \notin Tokens /\ Empty \notin Tokens /\ None # Empty
    /\ \A c \in Leases \union Manual : c \notin Epochs
    /\ MaxRevision \in Nat /\ MaxLine \in Nat /\ MaxGen \in Nat
    /\ \A e \in Epochs : e \in Int /\ e > 0 /\ e <= MaxRevision
<1>1. None \notin Tokens /\ Empty \notin Tokens /\ None # Empty
  BY OAuthAssumption
<1>2. \A c \in Leases \union Manual : c \notin Epochs
  BY OAuthAssumption
<1>3. MaxRevision \in Nat /\ MaxLine \in Nat /\ MaxGen \in Nat
  BY OAuthAssumption
<1>4. \A e \in Epochs : e \in Int /\ e > 0 /\ e <= MaxRevision
  BY <1>3 DEF Epochs
<1> QED
  BY <1>1, <1>2, <1>3, <1>4

\* The record types of calls.
LEMMA CallRecords ==
    /\ Idle \in Calls /\ [Idle EXCEPT !.phase = "done"] \in Calls
    /\ \A e \in Epochs, a \in BOOLEAN : [phase |-> "begin", epoch |-> e, allow |-> a] \in Calls
    /\ \A k \in Calls, p \in CallPhases : [k EXCEPT !.phase = p] \in Calls
    /\ \A k \in Calls : k.phase \in CallPhases /\ k.epoch \in 0 .. MaxRevision /\ k.allow \in BOOLEAN
<1>1. 0 \in 0 .. MaxRevision /\ \A e \in Epochs : e \in 0 .. MaxRevision
  BY Apart
<1>2. Idle \in Calls /\ [Idle EXCEPT !.phase = "done"] \in Calls
  BY <1>1 DEF Calls, Idle, CallPhases
<1>3. ASSUME NEW e \in Epochs, NEW a \in BOOLEAN
      PROVE  [phase |-> "begin", epoch |-> e, allow |-> a] \in Calls
  <2>1. e \in 0 .. MaxRevision /\ "begin" \in CallPhases
    BY <1>1 DEF CallPhases
  <2> QED
    BY <2>1, Zenon DEF Calls
<1>4. ASSUME NEW k \in Calls, NEW p \in CallPhases
      PROVE  [k EXCEPT !.phase = p] \in Calls
  BY DEF Calls
<1>5. \A k \in Calls : k.phase \in CallPhases /\ k.epoch \in 0 .. MaxRevision /\ k.allow \in BOOLEAN
  BY DEF Calls
<1> QED
  BY <1>2, <1>3, <1>4, <1>5

\* Answering a call.
LEMMA AnsweredRecord ==
    ASSUME CallTypes, NEW c \in Callers, NEW p
    PROVE  Answered(c, p) \in Calls
  BY CallRecords DEF CallTypes, Answered, CallPhases

\* Revisions are epochs, or 0.
LEMMA EpochRange ==
    \A n \in 0 .. MaxRevision :
        /\ n \in Int /\ n >= 0 /\ n <= MaxRevision
        /\ n # 0 => n \in Epochs
        /\ n < MaxRevision => n + 1 \in Epochs /\ n + 1 \in 0 .. MaxRevision
  BY Apart DEF Epochs

\* The fields of tokens, and what a rotation makes of them.
LEMMA TokenFields ==
    \A t \in Tokens : t.line \in Int /\ t.line >= 1 /\ t.line <= MaxLine /\ t.gen \in 0 .. MaxGen
  BY Apart DEF Tokens

LEMMA RotateFacts ==
    ASSUME NEW t \in Tokens, t.gen < MaxGen
    PROVE  /\ Rotate(t) \in Tokens /\ Rotate(t).line = t.line
           /\ Rotate(t) # t /\ Earlier(Rotate(t)) = t
<1>1. t.gen \in Int /\ t.gen >= 0
  BY Apart, TokenFields
<1>2. Rotate(t) = [line |-> t.line, gen |-> t.gen + 1] /\ t = [line |-> t.line, gen |-> t.gen]
  BY DEF Rotate, Tokens
<1>3. Rotate(t).line = t.line /\ Rotate(t).gen = t.gen + 1
  BY <1>2
<1>4. Rotate(t) \in Tokens
  BY <1>1, <1>2, Apart DEF Tokens
<1>5. \A u \in Tokens : Earlier(u) = [line |-> u.line, gen |-> u.gen - 1]
  BY DEF Earlier, Tokens
<1>6. Earlier(Rotate(t)) = [line |-> t.line, gen |-> t.gen]
  BY <1>1, <1>3, <1>4, <1>5
<1> QED
  BY <1>1, <1>2, <1>3, <1>4, <1>6

\* The modes of flights.
LEMMA ModeRecords ==
    /\ Automatic \in [allow : BOOLEAN, recovering : BOOLEAN]
    /\ \A a \in BOOLEAN : [allow |-> a, recovering |-> FALSE] \in [allow : BOOLEAN, recovering : BOOLEAN]
    /\ \A m \in [allow : BOOLEAN, recovering : BOOLEAN] :
           [m EXCEPT !.recovering = TRUE] \in [allow : BOOLEAN, recovering : BOOLEAN]
<1>1. \A a, b \in BOOLEAN : [allow |-> a, recovering |-> b] \in [allow : BOOLEAN, recovering : BOOLEAN]
  BY Zenon
<1>2. Automatic \in [allow : BOOLEAN, recovering : BOOLEAN]
  BY <1>1, Zenon DEF Automatic
<1>3. ASSUME NEW m \in [allow : BOOLEAN, recovering : BOOLEAN]
      PROVE  [m EXCEPT !.recovering = TRUE] \in [allow : BOOLEAN, recovering : BOOLEAN]
  OBVIOUS
<1> QED
  BY <1>1, <1>2, <1>3, Zenon

\* The record of saves.
LEMMA SaveRecords ==
    /\ NoSave \in Saves
    /\ \A k \in Saves : /\ k.epoch \in 0 .. MaxRevision /\ k.token \in Tokens \union {None}
                        /\ k.todo \subseteq Epochs /\ k.failed \in BOOLEAN
                        /\ k.phase \in {"none", "pick", "write", "settle"}
    /\ \A T \in SUBSET Epochs : [NoSave EXCEPT !.phase = "pick", !.todo = T] \in Saves
    /\ \A k \in Saves, e \in Epochs : [k EXCEPT !.todo = @ \ {e}] \in Saves
    /\ \A k \in Saves, e \in Epochs, t \in Tokens :
           [k EXCEPT !.phase = "write", !.todo = @ \ {e}, !.epoch = e, !.token = t] \in Saves
    /\ \A k \in Saves : [k EXCEPT !.phase = "settle"] \in Saves
    /\ \A k \in Saves : [k EXCEPT !.phase = "pick", !.epoch = 0, !.token = None] \in Saves
    /\ \A k \in Saves, b \in BOOLEAN :
           [k EXCEPT !.phase = "pick", !.epoch = 0, !.token = None, !.failed = @ \/ b] \in Saves
<1>1. 0 \in 0 .. MaxRevision /\ \A e \in Epochs : e \in 0 .. MaxRevision
  BY Apart
<1>2. \A k \in Saves : /\ k.epoch \in 0 .. MaxRevision /\ k.token \in Tokens \union {None}
                       /\ k.todo \subseteq Epochs /\ k.failed \in BOOLEAN
                       /\ k.phase \in {"none", "pick", "write", "settle"}
  BY Zenon DEF Saves
<1>3. NoSave \in Saves
  BY <1>1 DEF Saves, NoSave
<1>4. ASSUME NEW T \in SUBSET Epochs
      PROVE  [NoSave EXCEPT !.phase = "pick", !.todo = T] \in Saves
  BY <1>1 DEF Saves, NoSave
<1>5. ASSUME NEW k \in Saves, NEW e \in Epochs
      PROVE  [k EXCEPT !.todo = @ \ {e}] \in Saves
  BY DEF Saves
<1>6. ASSUME NEW k \in Saves, NEW e \in Epochs, NEW t \in Tokens
      PROVE  [k EXCEPT !.phase = "write", !.todo = @ \ {e}, !.epoch = e, !.token = t] \in Saves
  BY <1>1 DEF Saves
<1>7. ASSUME NEW k \in Saves
      PROVE  [k EXCEPT !.phase = "settle"] \in Saves
  BY DEF Saves
<1>8. ASSUME NEW k \in Saves
      PROVE  [k EXCEPT !.phase = "pick", !.epoch = 0, !.token = None] \in Saves
  BY <1>1 DEF Saves
<1>9. ASSUME NEW k \in Saves, NEW b \in BOOLEAN
      PROVE  [k EXCEPT !.phase = "pick", !.epoch = 0, !.token = None, !.failed = @ \/ b] \in Saves
  <2>1. \A g \in BOOLEAN :
            [k EXCEPT !.phase = "pick", !.epoch = 0, !.token = None, !.failed = g] \in Saves
    BY <1>1 DEF Saves
  <2>2. (k.failed \/ b) \in BOOLEAN
    BY <1>2
  <2>3. [k EXCEPT !.phase = "pick", !.epoch = 0, !.token = None, !.failed = k.failed \/ b] \in Saves
    BY <2>1, <2>2, Zenon
  <2> QED
    BY <2>3, Zenon
<1> QED
  BY <1>2, <1>3, <1>4, <1>5, <1>6, <1>7, <1>8, <1>9, Zenon

\* Answering keeps the epoch of a call that is not over.
LEMMA AnswerKeeps ==
    ASSUME CallTypes, NEW c \in Callers, NEW p
    PROVE  Answered(c, p).phase = "done" \/ Answered(c, p).epoch = call[c].epoch
<1>1. call[c] \in Calls
  BY DEF CallTypes
<1>2. CASE c \notin Epochs
  BY <1>2 DEF Answered, Idle
<1>3. CASE c \in Epochs
  BY <1>1, <1>3 DEF Answered, Calls
<1> QED
  BY <1>2, <1>3

-----------------------------------------------------------------------------
(* The first layer: one lemma for each action.                             *)

\* A lease is acquired at an epoch the store has had.
LEMMA AcquireBase ==
    ASSUME BaseInv, NEW r \in Leases, NEW e \in Epochs, NEW a \in BOOLEAN, Acquire(r, e, a)
    PROVE  BaseInv'
<1> USE DEF BaseInv, Acquire, storeVars, providerVars, memoryVars, flightVars, shutdownVars,
        Called, Idle
<1>1. StoreTypes' /\ MemoryTypes' /\ FlightTypes' /\ OwnerTypes' /\ ShutdownTypes'
      /\ Closing' /\ ShutdownSavesAll'
  BY DEF StoreTypes, MemoryTypes, FlightTypes, OwnerTypes, ShutdownTypes, Closing, Airborne,
         ShutdownSavesAll
<1>2. CallTypes'
  BY Apart, CallRecords, AnsweredRecord DEF CallTypes, Callers, CallPhases, StoreTypes,
      MemoryTypes, FlightTypes
<1>3. Carried'
  BY Apart DEF Carried, Opening, StoreTypes, MemoryTypes, FlightTypes
<1>4. Addressed'
  BY DEF Addressed, CallTypes
<1> QED
  BY <1>1, <1>2, <1>3, <1>4

\* prepare looks for an entry of its epoch.
LEMMA PrepareBase ==
    ASSUME BaseInv, NEW r \in Callers, Prepare(r)
    PROVE  BaseInv'
<1> USE DEF BaseInv, Prepare, storeVars, providerVars, memoryVars, flightVars, shutdownVars,
        Answer, Answered, Goes, Idle
<1>1. StoreTypes' /\ MemoryTypes' /\ FlightTypes' /\ OwnerTypes' /\ ShutdownTypes'
      /\ Closing' /\ ShutdownSavesAll'
  BY DEF StoreTypes, MemoryTypes, FlightTypes, OwnerTypes, ShutdownTypes, Closing, Airborne,
         ShutdownSavesAll
<1>2. CallTypes'
  <2>1. "consult" \in CallPhases /\ "read" \in CallPhases /\ "join" \in CallPhases
    BY DEF CallPhases
  <2>2. \A p : [call EXCEPT ![r] = Answered(r, p)] \in [Callers -> Calls]
    BY AnsweredRecord DEF CallTypes
  <2>3. \A p \in CallPhases : [call EXCEPT ![r].phase = p] \in [Callers -> Calls]
    BY CallRecords DEF CallTypes
  <2>4. \/ \E p : call' = [call EXCEPT ![r] = Answered(r, p)]
        \/ \E p \in {"consult", "read", "join"} : call' = [call EXCEPT ![r].phase = p]
    <3> HIDE DEF Answered
    <3> QED
      BY DEF Answer, Goes
  <2> HIDE DEF BaseInv, Prepare, Answered, Answer, Goes
  <2> QED
    BY <2>1, <2>2, <2>3, <2>4 DEF CallTypes
<1>3. Carried'
  BY Apart DEF Carried, Opening, StoreTypes, MemoryTypes, FlightTypes
<1>4. Addressed'
  <2>1. \/ \E p : call' = [call EXCEPT ![r] = Answered(r, p)]
        \/ \E p : call' = [call EXCEPT ![r].phase = p]
    BY DEF Answer, Goes
  <2>2. \A c \in Callers :
            \/ call'[c].phase \in {"idle", "done"}
            \/ call'[c].epoch = call[c].epoch /\ call[c].phase \notin {"idle", "done"}
    BY <2>1, AnswerKeeps, CallRecords DEF CallTypes, Calls
  <2>3. Addressed /\ UNCHANGED save
    OBVIOUS
  <2> HIDE DEF BaseInv
  <2> QED
    BY <2>2, <2>3 DEF Addressed
<1> QED
  BY <1>1, <1>2, <1>3, <1>4

\* prepare reads the credential.
LEMMA PrepareReadsBase ==
    ASSUME BaseInv, NEW r \in Callers, PrepareReads(r)
    PROVE  BaseInv'
<1> USE DEF BaseInv, PrepareReads, storeVars, providerVars, memoryVars, flightVars,
        shutdownVars, Answer, Answered, Goes, Idle
<1>1. StoreTypes' /\ MemoryTypes' /\ FlightTypes' /\ OwnerTypes' /\ ShutdownTypes'
      /\ Closing' /\ ShutdownSavesAll'
  BY DEF StoreTypes, MemoryTypes, FlightTypes, OwnerTypes, ShutdownTypes, Closing, Airborne,
         ShutdownSavesAll
<1>2. CallTypes'
  <2>1. "consult" \in CallPhases /\ "read" \in CallPhases /\ "join" \in CallPhases
    BY DEF CallPhases
  <2>2. \A p : [call EXCEPT ![r] = Answered(r, p)] \in [Callers -> Calls]
    BY AnsweredRecord DEF CallTypes
  <2>3. \A p \in CallPhases : [call EXCEPT ![r].phase = p] \in [Callers -> Calls]
    BY CallRecords DEF CallTypes
  <2>4. \/ \E p : call' = [call EXCEPT ![r] = Answered(r, p)]
        \/ \E p \in {"consult", "read", "join"} : call' = [call EXCEPT ![r].phase = p]
    <3> HIDE DEF Answered
    <3> QED
      BY DEF Answer, Goes
  <2> HIDE DEF BaseInv, PrepareReads, Answered, Answer, Goes
  <2> QED
    BY <2>1, <2>2, <2>3, <2>4 DEF CallTypes
<1>3. Carried'
  BY Apart DEF Carried, Opening, StoreTypes, MemoryTypes, FlightTypes
<1>4. Addressed'
  <2>1. \/ \E p : call' = [call EXCEPT ![r] = Answered(r, p)]
        \/ \E p : call' = [call EXCEPT ![r].phase = p]
    BY DEF Answer, Goes
  <2>2. \A c \in Callers :
            \/ call'[c].phase \in {"idle", "done"}
            \/ call'[c].epoch = call[c].epoch /\ call[c].phase \notin {"idle", "done"}
    BY <2>1, AnswerKeeps, CallRecords DEF CallTypes, Calls
  <2>3. Addressed /\ UNCHANGED save
    OBVIOUS
  <2> HIDE DEF BaseInv
  <2> QED
    BY <2>2, <2>3 DEF Addressed
<1> QED
  BY <1>1, <1>2, <1>3, <1>4

\* prepare asks whether its epoch is dead.
LEMMA ConsultPermanentBase ==
    ASSUME BaseInv, NEW r \in Callers, ConsultPermanent(r)
    PROVE  BaseInv'
<1> USE DEF BaseInv, ConsultPermanent, storeVars, providerVars, memoryVars, flightVars,
        shutdownVars, Answer, Answered, Goes, Idle
<1>1. StoreTypes' /\ FlightTypes' /\ OwnerTypes' /\ ShutdownTypes' /\ Closing'
      /\ ShutdownSavesAll'
  BY DEF StoreTypes, FlightTypes, OwnerTypes, ShutdownTypes, Closing, Airborne,
         ShutdownSavesAll
<1>2. MemoryTypes'
  BY DEF MemoryTypes
<1>3. CallTypes'
  <2>1. "consult" \in CallPhases /\ "read" \in CallPhases /\ "join" \in CallPhases
    BY DEF CallPhases
  <2>2. \A p : [call EXCEPT ![r] = Answered(r, p)] \in [Callers -> Calls]
    BY AnsweredRecord DEF CallTypes
  <2>3. \A p \in CallPhases : [call EXCEPT ![r].phase = p] \in [Callers -> Calls]
    BY CallRecords DEF CallTypes
  <2>4. \/ \E p : call' = [call EXCEPT ![r] = Answered(r, p)]
        \/ \E p \in {"consult", "read", "join"} : call' = [call EXCEPT ![r].phase = p]
    <3> HIDE DEF Answered
    <3> QED
      BY DEF Answer, Goes
  <2> HIDE DEF BaseInv, ConsultPermanent, Answered, Answer, Goes
  <2> QED
    BY <2>1, <2>2, <2>3, <2>4 DEF CallTypes
<1>4. Carried'
  BY Apart DEF Carried, Opening, StoreTypes, MemoryTypes, FlightTypes
<1>5. Addressed'
  <2>1. \/ \E p : call' = [call EXCEPT ![r] = Answered(r, p)]
        \/ \E p : call' = [call EXCEPT ![r].phase = p]
    BY DEF Answer, Goes
  <2>2. \A c \in Callers :
            \/ call'[c].phase \in {"idle", "done"}
            \/ call'[c].epoch = call[c].epoch /\ call[c].phase \notin {"idle", "done"}
    BY <2>1, AnswerKeeps, CallRecords DEF CallTypes, Calls
  <2>3. Addressed /\ UNCHANGED save
    OBVIOUS
  <2> HIDE DEF BaseInv
  <2> QED
    BY <2>2, <2>3 DEF Addressed
<1> QED
  BY <1>1, <1>2, <1>3, <1>4, <1>5

\* A call joins the flight of its epoch, or starts it: nothing is sent yet.
LEMMA JoinFlightBase ==
    ASSUME BaseInv, NEW r \in Callers, JoinFlight(r)
    PROVE  BaseInv'
<1> USE DEF BaseInv, JoinFlight, storeVars, providerVars, memoryVars, flightVars,
        shutdownVars, Goes
<1>1. StoreTypes' /\ MemoryTypes' /\ OwnerTypes' /\ ShutdownTypes'
  BY DEF StoreTypes, MemoryTypes, OwnerTypes, ShutdownTypes
<1>2. FlightTypes'
  <2>1. call[r].allow \in BOOLEAN
    BY CallRecords DEF CallTypes
  <2>2. mode' \in [Epochs -> [allow : BOOLEAN, recovering : BOOLEAN]]
    <3>1. [allow |-> call[r].allow, recovering |-> FALSE] \in [allow : BOOLEAN, recovering : BOOLEAN]
      BY <2>1, ModeRecords, Zenon
    <3> QED
      BY <3>1 DEF FlightTypes
  <2>3. flight' \in [Epochs -> FlightPhases]
    BY DEF FlightTypes, FlightPhases
  <2> QED
    BY <2>2, <2>3 DEF FlightTypes
<1>3. CallTypes'
  BY Apart, CallRecords, AnsweredRecord DEF CallTypes, Callers, CallPhases, StoreTypes,
      MemoryTypes, FlightTypes
<1>4. Closing'
  BY DEF Closing, Airborne, FlightTypes
<1>5. ShutdownSavesAll'
  BY DEF ShutdownSavesAll, Airborne, FlightTypes
<1>6. Carried'
  BY Apart DEF Carried, Opening, StoreTypes, MemoryTypes, FlightTypes
<1>7. Addressed'
  BY DEF Addressed, CallTypes
<1> QED
  BY <1>1, <1>2, <1>3, <1>4, <1>5, <1>6, <1>7

\* A caller leaves; what its flight carries stays.
LEMMA CallerLeavesBase ==
    ASSUME BaseInv, NEW r \in Callers, CallerLeaves(r)
    PROVE  BaseInv'
<1> USE DEF BaseInv, CallerLeaves, storeVars, providerVars, memoryVars, flightVars,
        shutdownVars, Answer, Answered, Idle
<1>1. StoreTypes' /\ MemoryTypes' /\ FlightTypes' /\ OwnerTypes' /\ ShutdownTypes'
      /\ Closing' /\ ShutdownSavesAll'
  BY DEF StoreTypes, MemoryTypes, FlightTypes, OwnerTypes, ShutdownTypes, Closing, Airborne,
         ShutdownSavesAll
<1>2. CallTypes'
  BY Apart, CallRecords, AnsweredRecord DEF CallTypes, Callers, CallPhases, StoreTypes,
      MemoryTypes, FlightTypes
<1>3. Carried'
  BY Apart DEF Carried, Opening, StoreTypes, MemoryTypes, FlightTypes
<1>4. Addressed'
  BY DEF Addressed, CallTypes
<1> QED
  BY <1>1, <1>2, <1>3, <1>4

\* Inspect forgets dead epochs only.
LEMMA InspectBase ==
    ASSUME BaseInv, Inspect
    PROVE  BaseInv'
<1> USE DEF BaseInv, Inspect, storeVars, providerVars, memoryVars, flightVars, shutdownVars
<1>1. StoreTypes' /\ FlightTypes' /\ CallTypes' /\ OwnerTypes' /\ ShutdownTypes'
      /\ Closing' /\ ShutdownSavesAll'
  BY DEF StoreTypes, FlightTypes, CallTypes, OwnerTypes, ShutdownTypes, Closing, Airborne,
         ShutdownSavesAll
<1>2. MemoryTypes'
  BY DEF MemoryTypes
<1>3. Carried'
  BY Apart DEF Carried, Opening, StoreTypes, MemoryTypes, FlightTypes
<1>4. Addressed'
  BY DEF Addressed, CallTypes
<1> QED
  BY <1>1, <1>2, <1>3, <1>4

\* A flight makes its entry. It finds a retained credential only in an entry that is
\* not of a flight; none starts once the saves of Shutdown have begun.
LEMMA RefreshBase ==
    ASSUME BaseInv, NEW r \in Epochs, Refresh(r)
    PROVE  BaseInv'
<1> USE DEF BaseInv, Refresh, storeVars, providerVars, memoryVars, flightVars, shutdownVars
<1>1. StoreTypes' /\ CallTypes' /\ OwnerTypes' /\ ShutdownTypes'
  BY DEF StoreTypes, CallTypes, OwnerTypes, ShutdownTypes
<1>2. MemoryTypes'
  BY DEF MemoryTypes
<1>3. FlightTypes'
  <2>1. mode' \in [Epochs -> [allow : BOOLEAN, recovering : BOOLEAN]]
    <3>1. mode' = mode \/ mode' = [mode EXCEPT ![r].recovering = TRUE]
      OBVIOUS
    <3>2. mode \in [Epochs -> [allow : BOOLEAN, recovering : BOOLEAN]]
      BY DEF FlightTypes
    <3> HIDE DEF BaseInv, Refresh
    <3> QED
      BY <3>1, <3>2, ModeRecords
  <2>2. flight' \in [Epochs -> FlightPhases]
    BY DEF FlightTypes, FlightPhases
  <2> QED
    BY <2>1, <2>2 DEF FlightTypes
<1>4. Closing'
  BY DEF Closing, Airborne
<1>5. ShutdownSavesAll'
  BY Apart, EpochRange DEF ShutdownSavesAll, Airborne, StoreTypes, MemoryTypes,
      FlightTypes, Closing
<1>6. Carried'
  BY Apart DEF Carried, Opening, StoreTypes, MemoryTypes, FlightTypes
<1>7. Addressed'
  BY DEF Addressed, CallTypes
<1> QED
  BY <1>1, <1>2, <1>3, <1>4, <1>5, <1>6, <1>7

\* A flight that finds the manager closing ends.
LEMMA RefreshRefusedBase ==
    ASSUME BaseInv, NEW r \in Epochs, RefreshRefused(r)
    PROVE  BaseInv'
<1> USE DEF BaseInv, RefreshRefused, storeVars, providerVars, memoryVars, flightVars,
        shutdownVars
<1>1. StoreTypes' /\ MemoryTypes' /\ CallTypes' /\ OwnerTypes' /\ ShutdownTypes'
  BY DEF StoreTypes, MemoryTypes, CallTypes, OwnerTypes, ShutdownTypes
<1>2. FlightTypes'
  BY DEF FlightTypes, FlightPhases, Automatic
<1>3. Closing'
  BY DEF Closing, Airborne
<1>4. ShutdownSavesAll'
  BY DEF ShutdownSavesAll, Airborne
<1>5. Carried'
  BY Apart DEF Carried, Opening, StoreTypes, MemoryTypes, FlightTypes
<1>6. Addressed'
  BY DEF Addressed, CallTypes
<1> QED
  BY <1>1, <1>2, <1>3, <1>4, <1>5, <1>6

\* The token that is about to be sent was not consumed: if it had been, its
\* replacement would be retained under this epoch, whose entry is empty.
LEMMA ReadCredentialBase ==
    ASSUME BaseInv, NEW r \in Epochs, ReadCredential(r)
    PROVE  BaseInv'
<1> USE DEF BaseInv, ReadCredential, storeVars, providerVars, memoryVars, flightVars,
        shutdownVars, Ends
<1>1. StoreTypes' /\ MemoryTypes' /\ CallTypes' /\ OwnerTypes' /\ ShutdownTypes'
  BY DEF StoreTypes, MemoryTypes, CallTypes, OwnerTypes, ShutdownTypes
<1>2. FlightTypes'
  <2>1. flight' \in [Epochs -> FlightPhases]
    BY DEF FlightTypes, FlightPhases
  <2>2. token' \in [Epochs -> Tokens \union {None}]
    BY DEF FlightTypes, StoreTypes
  <2>3. dead' \subseteq Epochs
    BY DEF FlightTypes
  <2> QED
    BY <2>1, <2>2, <2>3 DEF FlightTypes
<1>3. Closing'
  BY DEF Closing, Airborne
<1>4. ShutdownSavesAll'
  BY DEF ShutdownSavesAll, Airborne
<1>5. Carried'
  BY Apart DEF Carried, Opening, StoreTypes, MemoryTypes, FlightTypes
<1>6. Addressed'
  BY DEF Addressed, CallTypes
<1> QED
  BY <1>1, <1>2, <1>3, <1>4, <1>5, <1>6

\* The provider consumes a token: if it is the stored one, the flight of the store's
\* epoch holds the replacement and has its entry. What others carry is not it.
LEMMA GrantedBase ==
    ASSUME BaseInv, NEW r \in Epochs, Granted(r)
    PROVE  BaseInv'
<1> USE DEF BaseInv, Granted, storeVars, providerVars, memoryVars, flightVars, shutdownVars,
        Consume
<1> DEFINE t == token[r]
<1>a. t \in Tokens
  BY DEF Carried
<1>d. \/ consumed' = consumed /\ token' = token
      \/ /\ t.gen < MaxGen /\ consumed' = consumed \union {t}
         /\ token' = [token EXCEPT ![r] = Rotate(t)]
  OBVIOUS
<1>e. t.gen < MaxGen => /\ Rotate(t) \in Tokens /\ Rotate(t).line = t.line
                        /\ Rotate(t) # t /\ Earlier(Rotate(t)) = t
  BY <1>a, RotateFacts
<1>1. MemoryTypes' /\ CallTypes' /\ OwnerTypes' /\ ShutdownTypes'
  BY DEF MemoryTypes, CallTypes, OwnerTypes, ShutdownTypes
<1>2. StoreTypes'
  <2>1. token[r] \in Tokens
    BY DEF Carried
  <2> QED
    BY <2>1 DEF StoreTypes
<1>3. FlightTypes'
  <2>1. flight' \in [Epochs -> FlightPhases]
    BY DEF FlightTypes, FlightPhases
  <2>2. token' \in [Epochs -> Tokens \union {None}]
    BY <1>d, <1>e DEF FlightTypes
  <2> QED
    BY <2>1, <2>2 DEF FlightTypes
<1>4. Closing'
  BY DEF Closing, Airborne
<1>5. ShutdownSavesAll'
  BY DEF ShutdownSavesAll, Airborne
<1>6. Carried'
  <2>1. flight'[r] = "hold" /\ token'[r] \in Tokens
    BY <1>a, <1>d, <1>e DEF FlightTypes
  <2>2. \A q \in Epochs : q # r => flight'[q] = flight[q] /\ token'[q] = token[q]
    BY <1>d DEF FlightTypes
  <2>3. Carried /\ flight[r] = "exchange" /\ UNCHANGED <<rev, held, pending>>
    OBVIOUS
  <2> HIDE DEF BaseInv, Granted, t
  <2> QED
    BY <2>1, <2>2, <2>3 DEF Carried, Opening
<1>7. Addressed'
  BY DEF Addressed, CallTypes
<1> QED
  BY <1>1, <1>2, <1>3, <1>4, <1>5, <1>6, <1>7

\* No answer arrives: what was consumed is lost.
LEMMA UnavailableBase ==
    ASSUME BaseInv, NEW r \in Epochs, Unavailable(r)
    PROVE  BaseInv'
<1> USE DEF BaseInv, Unavailable, storeVars, providerVars, memoryVars, flightVars,
        shutdownVars, MayBeLost, Consume, Ends
<1>1. MemoryTypes' /\ CallTypes' /\ OwnerTypes' /\ ShutdownTypes'
  BY DEF MemoryTypes, CallTypes, OwnerTypes, ShutdownTypes
<1>2. StoreTypes'
  <2>1. token[r] \in Tokens
    BY DEF Carried
  <2> QED
    BY <2>1 DEF StoreTypes
<1>3. FlightTypes'
  BY DEF FlightTypes, FlightPhases, Automatic
<1>4. Closing'
  BY DEF Closing, Airborne
<1>5. ShutdownSavesAll'
  BY DEF ShutdownSavesAll, Airborne
<1>6. Carried'
  BY Apart DEF Carried, Opening, StoreTypes, MemoryTypes, FlightTypes
<1>7. Addressed'
  BY DEF Addressed, CallTypes
<1> QED
  BY <1>1, <1>2, <1>3, <1>4, <1>5, <1>6, <1>7

\* The token is denied.
LEMMA DeniedBase ==
    ASSUME BaseInv, NEW r \in Epochs, Denied(r)
    PROVE  BaseInv'
<1> USE DEF BaseInv, Denied, storeVars, providerVars, memoryVars, flightVars, shutdownVars,
        MayBeLost, Consume
<1>1. MemoryTypes' /\ CallTypes' /\ OwnerTypes' /\ ShutdownTypes'
  BY DEF MemoryTypes, CallTypes, OwnerTypes, ShutdownTypes
<1>2. StoreTypes'
  <2>1. token[r] \in Tokens
    BY DEF Carried
  <2> QED
    BY <2>1 DEF StoreTypes
<1>3. FlightTypes'
  BY DEF FlightTypes, FlightPhases, Automatic
<1>4. Closing'
  BY DEF Closing, Airborne
<1>5. ShutdownSavesAll'
  BY DEF ShutdownSavesAll, Airborne
<1>6. Carried'
  BY Apart DEF Carried, Opening, StoreTypes, MemoryTypes, FlightTypes
<1>7. Addressed'
  BY DEF Addressed, CallTypes
<1> QED
  BY <1>1, <1>2, <1>3, <1>4, <1>5, <1>6, <1>7

\* The reconnect state is a new revision with the same token.
LEMMA FreezeBase ==
    ASSUME BaseInv, NEW r \in Epochs, Freeze(r)
    PROVE  BaseInv'
<1> USE DEF BaseInv, Freeze, storeVars, providerVars, memoryVars, flightVars, shutdownVars,
        Replace, Ends
<1>a. flight' = [flight EXCEPT ![r] = "ending"] /\ token' = [token EXCEPT ![r] = None]
  OBVIOUS
<1>b. \/ UNCHANGED <<rev, held, reconnect>>
      \/ rev = r /\ rev < MaxRevision /\ rev' = rev + 1 /\ held' = token[r] /\ reconnect' = TRUE
  OBVIOUS
<1>1. MemoryTypes' /\ CallTypes' /\ OwnerTypes' /\ ShutdownTypes'
  BY DEF MemoryTypes, CallTypes, OwnerTypes, ShutdownTypes
<1>2. StoreTypes'
  <2>1. token[r] \in Tokens
    BY DEF Carried
  <2>2. rev' \in 0 .. MaxRevision /\ held' \in Tokens \union {None}
    BY <1>b, <2>1, EpochRange DEF StoreTypes
  <2>3. reconnect' \in BOOLEAN
    BY <1>b DEF StoreTypes
  <2> QED
    BY <2>2, <2>3 DEF StoreTypes
<1>3. FlightTypes'
  BY DEF FlightTypes, FlightPhases, Automatic
<1>4. Closing'
  BY DEF Closing, Airborne
<1>5. ShutdownSavesAll'
  BY DEF ShutdownSavesAll, Airborne
<1>6. Carried'
  <2>1. flight'[r] = "ending"
    BY <1>a DEF FlightTypes
  <2>2. \A q \in Epochs : q # r => flight'[q] = flight[q] /\ token'[q] = token[q]
    BY <1>a DEF FlightTypes
  <2>3. Carried /\ flight[r] = "freeze" /\ UNCHANGED pending
    OBVIOUS
  <2>4. rev' = 0 <=> held' = None
    BY <1>b, Apart, EpochRange DEF Carried, StoreTypes
  <2> HIDE DEF BaseInv, Freeze
  <2> QED
    BY <2>1, <2>2, <2>3, <2>4 DEF Carried, Opening
<1>7. Addressed'
  BY DEF Addressed, CallTypes
<1> QED
  BY <1>1, <1>2, <1>3, <1>4, <1>5, <1>6, <1>7

\* The replacement moves from the flight into its entry.
LEMMA RetainBase ==
    ASSUME BaseInv, NEW r \in Epochs, Retain(r)
    PROVE  BaseInv'
<1> USE DEF BaseInv, Retain, storeVars, providerVars, memoryVars, flightVars, shutdownVars,
        Ends
<1>1. StoreTypes' /\ CallTypes' /\ OwnerTypes' /\ ShutdownTypes'
  BY DEF StoreTypes, CallTypes, OwnerTypes, ShutdownTypes
<1>2. MemoryTypes'
  BY Apart, EpochRange DEF MemoryTypes, Carried
<1>3. FlightTypes'
  BY DEF FlightTypes, FlightPhases, Automatic
<1>4. Closing'
  BY DEF Closing, Airborne
<1>5. ShutdownSavesAll'
  BY DEF ShutdownSavesAll, Airborne
<1>6. Carried'
  BY Apart DEF Carried, Opening, StoreTypes, MemoryTypes, FlightTypes
<1>7. Addressed'
  BY DEF Addressed, CallTypes
<1> QED
  BY <1>1, <1>2, <1>3, <1>4, <1>5, <1>6, <1>7

\* The retained credential is copied for the write; the entry stays.
LEMMA PersistBase ==
    ASSUME BaseInv, NEW r \in Epochs, Persist(r)
    PROVE  BaseInv'
<1> USE DEF BaseInv, Persist, storeVars, providerVars, memoryVars, flightVars, shutdownVars,
        Persisted, Ends, Called
<1>a. \/ /\ flight' = [flight EXCEPT ![r] = "nested"] \/ flight' = [flight EXCEPT ![r] = "ending"]
         /\ token' = [token EXCEPT ![r] = None] /\ pending[r] = None
      \/ /\ pending[r] # None /\ pending[r] # Empty
         /\ flight' = [flight EXCEPT ![r] = "write"] /\ token' = [token EXCEPT ![r] = pending[r]]
  OBVIOUS
<1>b. \/ call' = call
      \/ \E p \in Epochs :
             call' = [call EXCEPT ![r] = [phase |-> "begin", epoch |-> p, allow |-> TRUE]]
  OBVIOUS
<1>1. StoreTypes' /\ MemoryTypes' /\ OwnerTypes' /\ ShutdownTypes'
  BY DEF StoreTypes, MemoryTypes, OwnerTypes, ShutdownTypes
<1>2. FlightTypes'
  <2>1. flight' \in [Epochs -> FlightPhases]
    BY <1>a DEF FlightTypes, FlightPhases
  <2>2. token' \in [Epochs -> Tokens \union {None}]
    BY <1>a DEF FlightTypes, MemoryTypes
  <2>3. dead' \subseteq Epochs
    BY DEF FlightTypes
  <2> QED
    BY <2>1, <2>2, <2>3 DEF FlightTypes
<1>3. CallTypes'
  <2>1. \A p \in Epochs :
            [call EXCEPT ![r] = [phase |-> "begin", epoch |-> p, allow |-> TRUE]] \in [Callers -> Calls]
    BY CallRecords DEF CallTypes
  <2> QED
    BY <1>b, <2>1 DEF CallTypes
<1>4. Closing'
  BY DEF Closing, Airborne
<1>5. ShutdownSavesAll'
  BY DEF ShutdownSavesAll, Airborne
<1>6. Carried'
  <2>1. \/ flight'[r] \in {"nested", "ending"} /\ pending[r] # Empty
        \/ flight'[r] = "write" /\ pending[r] # Empty /\ token'[r] \in Tokens
    BY <1>a, Apart DEF FlightTypes, MemoryTypes
  <2>2. \A q \in Epochs : q # r => flight'[q] = flight[q] /\ token'[q] = token[q]
    BY <1>a DEF FlightTypes
  <2>3. Carried /\ flight[r] = "persist" /\ UNCHANGED <<rev, held, pending>>
    OBVIOUS
  <2> HIDE DEF BaseInv, Persist
  <2> QED
    BY <2>1, <2>2, <2>3 DEF Carried, Opening
<1>7. Addressed'
  BY DEF Addressed, CallTypes
<1> QED
  BY <1>1, <1>2, <1>3, <1>4, <1>5, <1>6, <1>7

\* The write is a new revision with a usable token.
LEMMA WriteBase ==
    ASSUME BaseInv, NEW r \in Epochs, Write(r)
    PROVE  BaseInv'
<1> USE DEF BaseInv, Write, storeVars, providerVars, memoryVars, flightVars, shutdownVars,
        Replace, Ends
<1>b. \/ /\ UNCHANGED <<rev, held, reconnect>>
         /\ flight'[r] = "ending" \/ rev # r
      \/ rev = r /\ rev < MaxRevision /\ rev' = rev + 1 /\ held' = token[r] /\ reconnect' = FALSE
  BY DEF FlightTypes
<1>1. MemoryTypes' /\ CallTypes' /\ OwnerTypes' /\ ShutdownTypes'
  BY DEF MemoryTypes, CallTypes, OwnerTypes, ShutdownTypes
<1>2. StoreTypes'
  <2>1. token[r] \in Tokens
    BY DEF Carried
  <2>2. rev' \in 0 .. MaxRevision /\ held' \in Tokens \union {None}
    BY <1>b, <2>1, EpochRange DEF StoreTypes
  <2>3. reconnect' \in BOOLEAN
    BY <1>b DEF StoreTypes
  <2> QED
    BY <2>2, <2>3 DEF StoreTypes
<1>3. FlightTypes'
  BY DEF FlightTypes, FlightPhases, Automatic
<1>4. Closing'
  BY DEF Closing, Airborne
<1>5. ShutdownSavesAll'
  BY DEF ShutdownSavesAll, Airborne
<1>6. Carried'
  BY Apart DEF Carried, Opening, StoreTypes, MemoryTypes, FlightTypes
<1>7. Addressed'
  BY DEF Addressed, CallTypes
<1> QED
  BY <1>1, <1>2, <1>3, <1>4, <1>5, <1>6, <1>7

\* The entry goes once the store has left its epoch.
LEMMA SettleBase ==
    ASSUME BaseInv, NEW r \in Epochs, Settle(r)
    PROVE  BaseInv'
<1> USE DEF BaseInv, Settle, storeVars, providerVars, memoryVars, flightVars, shutdownVars,
        Persisted, Ends, Called
<1>a. /\ flight' = [flight EXCEPT ![r] = "nested"] \/ flight' = [flight EXCEPT ![r] = "ending"]
      /\ token' = [token EXCEPT ![r] = None]
      /\ pending' = [pending EXCEPT ![r] = None]
  OBVIOUS
<1>b. \/ call' = call
      \/ \E p \in Epochs :
             call' = [call EXCEPT ![r] = [phase |-> "begin", epoch |-> p, allow |-> TRUE]]
  OBVIOUS
<1>1. StoreTypes' /\ OwnerTypes' /\ ShutdownTypes'
  BY DEF StoreTypes, OwnerTypes, ShutdownTypes
<1>2. MemoryTypes'
  BY DEF MemoryTypes
<1>3. FlightTypes'
  BY DEF FlightTypes, FlightPhases, Automatic
<1>4. CallTypes'
  <2>1. \A p \in Epochs :
            [call EXCEPT ![r] = [phase |-> "begin", epoch |-> p, allow |-> TRUE]] \in [Callers -> Calls]
    BY CallRecords DEF CallTypes
  <2> QED
    BY <1>b, <2>1 DEF CallTypes
<1>5. Closing'
  BY DEF Closing, Airborne
<1>6. ShutdownSavesAll'
  BY DEF ShutdownSavesAll, Airborne
<1>7. Carried'
  BY Apart DEF Carried, Opening, StoreTypes, MemoryTypes, FlightTypes
<1>8. Addressed'
  BY DEF Addressed, CallTypes
<1> QED
  BY <1>1, <1>2, <1>3, <1>4, <1>5, <1>6, <1>7, <1>8

\* A nested call of prepare returns to its flight.
LEMMA NestedReturnsBase ==
    ASSUME BaseInv, NEW r \in Epochs, NestedReturns(r)
    PROVE  BaseInv'
<1> USE DEF BaseInv, NestedReturns, storeVars, providerVars, memoryVars, flightVars,
        shutdownVars, Ends, Idle
<1>1. StoreTypes' /\ MemoryTypes' /\ OwnerTypes' /\ ShutdownTypes'
  BY DEF StoreTypes, MemoryTypes, OwnerTypes, ShutdownTypes
<1>2. FlightTypes'
  BY DEF FlightTypes, FlightPhases, Automatic
<1>3. CallTypes'
  BY Apart, CallRecords, AnsweredRecord DEF CallTypes, Callers, CallPhases, StoreTypes,
      MemoryTypes, FlightTypes
<1>4. Closing'
  BY DEF Closing, Airborne
<1>5. ShutdownSavesAll'
  BY DEF ShutdownSavesAll, Airborne
<1>6. Carried'
  BY Apart DEF Carried, Opening, StoreTypes, MemoryTypes, FlightTypes
<1>7. Addressed'
  BY DEF Addressed, CallTypes
<1> QED
  BY <1>1, <1>2, <1>3, <1>4, <1>5, <1>6, <1>7

\* A flight that ends takes its empty entry along.
LEMMA LandBase ==
    ASSUME BaseInv, NEW r \in Epochs, Land(r)
    PROVE  BaseInv'
<1> USE DEF BaseInv, Land, storeVars, providerVars, memoryVars, flightVars, shutdownVars
<1>1. StoreTypes' /\ CallTypes' /\ OwnerTypes' /\ ShutdownTypes'
  BY DEF StoreTypes, CallTypes, OwnerTypes, ShutdownTypes
<1>2. MemoryTypes'
  BY DEF MemoryTypes
<1>3. FlightTypes'
  BY DEF FlightTypes, FlightPhases, Automatic
<1>4. Closing'
  BY DEF Closing, Airborne
<1>5. ShutdownSavesAll'
  BY DEF ShutdownSavesAll, Airborne
<1>6. Carried'
  BY Apart DEF Carried, Opening, StoreTypes, MemoryTypes, FlightTypes
<1>7. Addressed'
  BY DEF Addressed, CallTypes
<1> QED
  BY <1>1, <1>2, <1>3, <1>4, <1>5, <1>6, <1>7

\* The flight answers all who wait for it.
LEMMA DeliverBase ==
    ASSUME BaseInv, NEW r \in Epochs, Deliver(r)
    PROVE  BaseInv'
<1> USE DEF BaseInv, Deliver, storeVars, providerVars, memoryVars, flightVars, shutdownVars,
        Answered, Idle, Automatic
<1>1. StoreTypes' /\ OwnerTypes' /\ ShutdownTypes'
  BY DEF StoreTypes, OwnerTypes, ShutdownTypes
<1>2. MemoryTypes'
  BY DEF MemoryTypes
<1>3. FlightTypes'
  BY DEF FlightTypes, FlightPhases, Automatic
<1>4. CallTypes'
  BY Apart, CallRecords, AnsweredRecord DEF CallTypes, Callers, CallPhases, StoreTypes,
      MemoryTypes, FlightTypes
<1>5. Closing'
  BY DEF Closing, Airborne
<1>6. ShutdownSavesAll'
  BY DEF ShutdownSavesAll, Airborne
<1>7. Carried'
  BY Apart DEF Carried, Opening, StoreTypes, MemoryTypes, FlightTypes
<1>8. Addressed'
  BY DEF Addressed, CallTypes
<1> QED
  BY <1>1, <1>2, <1>3, <1>4, <1>5, <1>6, <1>7, <1>8

\* A manual refresh starts at the current epoch.
LEMMA RefreshCredentialBase ==
    ASSUME BaseInv, NEW r \in Manual, RefreshCredential(r)
    PROVE  BaseInv'
<1> USE DEF BaseInv, RefreshCredential, storeVars, providerVars, memoryVars, flightVars,
        shutdownVars, Called
<1>a. r \in Callers /\ rev \in Epochs /\ rev \in Int
  BY EpochRange DEF Callers, StoreTypes
<1>b. call' = [call EXCEPT ![r] = [phase |-> "begin", epoch |-> rev, allow |-> TRUE]]
  OBVIOUS
<1>1. StoreTypes' /\ MemoryTypes' /\ FlightTypes' /\ ShutdownTypes' /\ Closing'
      /\ ShutdownSavesAll'
  BY DEF StoreTypes, MemoryTypes, FlightTypes, ShutdownTypes, Closing, Airborne,
         ShutdownSavesAll
<1>2. CallTypes'
  BY <1>a, <1>b, CallRecords DEF CallTypes
<1>3. OwnerTypes'
  BY DEF OwnerTypes, OwnerPhases
<1>4. Carried'
  BY Apart DEF Carried, Opening, StoreTypes, MemoryTypes, FlightTypes
<1>5. Addressed'
  BY <1>a, <1>b DEF Addressed, CallTypes
<1> QED
  BY <1>1, <1>2, <1>3, <1>4, <1>5

\* A manual refresh ends.
LEMMA CredentialRefreshedBase ==
    ASSUME BaseInv, CredentialRefreshed
    PROVE  BaseInv'
<1> USE DEF BaseInv, CredentialRefreshed, storeVars, providerVars, memoryVars, flightVars,
        shutdownVars
<1>1. StoreTypes' /\ MemoryTypes' /\ FlightTypes' /\ CallTypes' /\ ShutdownTypes'
      /\ Closing' /\ ShutdownSavesAll'
  BY DEF StoreTypes, MemoryTypes, FlightTypes, CallTypes, ShutdownTypes, Closing, Airborne,
         ShutdownSavesAll
<1>2. OwnerTypes'
  BY DEF OwnerTypes, OwnerPhases
<1>3. Carried'
  BY Apart DEF Carried, Opening, StoreTypes, MemoryTypes, FlightTypes
<1>4. Addressed'
  BY DEF Addressed, CallTypes
<1> QED
  BY <1>1, <1>2, <1>3, <1>4

\* The Owner stores a credential, over another or where none is.
LEMMA EnterBase ==
    ASSUME BaseInv, Enter, OwnerTypes',
           UNCHANGED <<consumed, lost, memoryVars, flightVars, call, shutdownVars>>
    PROVE  BaseInv'
<1> USE DEF BaseInv, Enter, memoryVars, flightVars, shutdownVars
<1> DEFINE t == [line |-> lines + 1, gen |-> 0]
<1>a. /\ rev < MaxRevision /\ rev' = rev + 1
      /\ lines < MaxLine /\ lines' = lines + 1 /\ held' = t /\ reconnect' = FALSE
  OBVIOUS
<1>b. lines \in Int /\ lines >= 1 /\ t \in Tokens
  BY <1>a, Apart DEF StoreTypes, Tokens
<1>1. MemoryTypes' /\ FlightTypes' /\ CallTypes' /\ ShutdownTypes' /\ Closing' /\ ShutdownSavesAll'
  BY DEF MemoryTypes, FlightTypes, CallTypes, ShutdownTypes, Closing, Airborne, ShutdownSavesAll
<1>2. StoreTypes'
  <2>1. rev' \in 0 .. MaxRevision /\ lines' \in 1 .. MaxLine /\ held' \in Tokens
    BY <1>a, <1>b, EpochRange, Apart DEF StoreTypes
  <2>2. reconnect' \in BOOLEAN /\ UNCHANGED <<consumed, lost>>
    BY <1>a
  <2> QED
    BY <2>1, <2>2 DEF StoreTypes
<1>3. Carried'
  <2>1. rev' # 0 /\ held' # None
    BY <1>a, <1>b, Apart, EpochRange DEF StoreTypes
  <2>2. Carried /\ UNCHANGED <<pending, flight, token>>
    OBVIOUS
  <2> HIDE DEF BaseInv, Enter
  <2> QED
    BY <2>1, <2>2 DEF Carried
<1>4. Addressed'
  BY DEF Addressed
<1> QED
  BY <1>1, <1>2, <1>3, <1>4

\* ReplaceSecret, of a stored credential or where none is.
LEMMA ReplaceSecretBase ==
    ASSUME BaseInv, ReplaceSecret
    PROVE  BaseInv'
<1>1. OwnerTypes'
  BY EpochRange DEF BaseInv, ReplaceSecret, Enter, StoreTypes, OwnerTypes, OwnerPhases
<1> QED
  BY <1>1, EnterBase DEF ReplaceSecret

\* Create, of an account with the ID of one that was deleted.
LEMMA CreateBase ==
    ASSUME BaseInv, Create
    PROVE  BaseInv'
<1>1. OwnerTypes'
  BY Apart DEF Create, OwnerTypes, OwnerPhases
<1> QED
  BY <1>1, EnterBase DEF Create

\* Forget drops the entries of epochs the store has left.
LEMMA SecretReplacedBase ==
    ASSUME BaseInv, SecretReplaced
    PROVE  BaseInv'
<1> USE DEF BaseInv, SecretReplaced, storeVars, providerVars, memoryVars, flightVars,
        shutdownVars, Forget
<1>1. StoreTypes' /\ FlightTypes' /\ CallTypes' /\ ShutdownTypes'
  BY DEF StoreTypes, FlightTypes, CallTypes, ShutdownTypes
<1>2. MemoryTypes'
  BY DEF MemoryTypes
<1>3. OwnerTypes'
  BY Apart DEF OwnerTypes, OwnerPhases
<1>4. Closing'
  BY DEF Closing, Airborne
<1>5. ShutdownSavesAll'
  BY DEF ShutdownSavesAll, Airborne
<1>6. Carried'
  BY Apart DEF Carried, Opening, StoreTypes, MemoryTypes, FlightTypes
<1>7. Addressed'
  BY DEF Addressed, CallTypes
<1> QED
  BY <1>1, <1>2, <1>3, <1>4, <1>5, <1>6, <1>7

\* Without a stored credential nothing is owed.
LEMMA DeleteSecretBase ==
    ASSUME BaseInv, DeleteSecret
    PROVE  BaseInv'
<1> USE DEF BaseInv, DeleteSecret, storeVars, providerVars, memoryVars, flightVars,
        shutdownVars
<1>1. MemoryTypes' /\ FlightTypes' /\ CallTypes' /\ ShutdownTypes' /\ Closing'
      /\ ShutdownSavesAll'
  BY DEF MemoryTypes, FlightTypes, CallTypes, ShutdownTypes, Closing, Airborne,
         ShutdownSavesAll
<1>2. StoreTypes'
  <2>1. rev' \in 0 .. MaxRevision
    BY Apart
  <2> QED
    BY <2>1, Zenon DEF StoreTypes
<1>3. OwnerTypes'
  BY DEF OwnerTypes, OwnerPhases
<1>4. Carried'
  BY Apart DEF Carried, Opening, StoreTypes, MemoryTypes, FlightTypes
<1>5. Addressed'
  BY DEF Addressed, CallTypes
<1> QED
  BY <1>1, <1>2, <1>3, <1>4, <1>5

\* Forget drops every entry after the deletion.
LEMMA SecretDeletedBase ==
    ASSUME BaseInv, SecretDeleted
    PROVE  BaseInv'
<1> USE DEF BaseInv, SecretDeleted, storeVars, providerVars, memoryVars, flightVars,
        shutdownVars, Forget
<1>1. StoreTypes' /\ FlightTypes' /\ CallTypes' /\ ShutdownTypes'
  BY DEF StoreTypes, FlightTypes, CallTypes, ShutdownTypes
<1>2. MemoryTypes'
  BY DEF MemoryTypes
<1>3. OwnerTypes'
  BY DEF OwnerTypes, OwnerPhases
<1>4. Closing'
  BY DEF Closing, Airborne
<1>5. ShutdownSavesAll'
  BY DEF ShutdownSavesAll, Airborne
<1>6. Carried'
  BY Apart DEF Carried, Opening, StoreTypes, MemoryTypes, FlightTypes
<1>7. Addressed'
  BY DEF Addressed, CallTypes
<1> QED
  BY <1>1, <1>2, <1>3, <1>4, <1>5, <1>6, <1>7

\* Closing.
LEMMA ShutdownBase ==
    ASSUME BaseInv, NEW s \in Closers, Shutdown(s)
    PROVE  BaseInv'
<1> USE DEF BaseInv, Shutdown, storeVars, providerVars, memoryVars, flightVars, shutdownVars
<1>1. StoreTypes' /\ FlightTypes' /\ CallTypes' /\ OwnerTypes'
  BY DEF StoreTypes, FlightTypes, CallTypes, OwnerTypes
<1>2. MemoryTypes'
  BY DEF MemoryTypes
<1>3. ShutdownTypes'
  BY DEF ShutdownTypes, Saves, NoSave, ClosePhases
<1>4. Closing'
  BY DEF Closing, Airborne
<1>5. ShutdownSavesAll'
  BY DEF ShutdownSavesAll, Airborne
<1>6. Carried'
  BY Apart DEF Carried, Opening, StoreTypes, MemoryTypes, FlightTypes
<1>7. Addressed'
  BY DEF Addressed, CallTypes
<1> QED
  BY <1>1, <1>2, <1>3, <1>4, <1>5, <1>6, <1>7

\* The saves begin with every entry on their list.
LEMMA BeginSavesBase ==
    ASSUME BaseInv, NEW s \in Closers, BeginSaves(s)
    PROVE  BaseInv'
<1> USE DEF BaseInv, BeginSaves, storeVars, providerVars, memoryVars, flightVars,
        shutdownVars, Drained, NoSave
<1>1. StoreTypes' /\ MemoryTypes' /\ FlightTypes' /\ CallTypes' /\ OwnerTypes'
  BY DEF StoreTypes, MemoryTypes, FlightTypes, CallTypes, OwnerTypes
<1>2. ShutdownTypes'
  <2>1. save' \in Saves
    BY SaveRecords
  <2> QED
    BY <2>1 DEF ShutdownTypes, ClosePhases
<1>3. Closing'
  BY DEF Closing, Airborne
<1>4. ShutdownSavesAll'
  BY DEF ShutdownSavesAll, Airborne
<1>5. Carried'
  BY Apart DEF Carried, Opening, StoreTypes, MemoryTypes, FlightTypes
<1>6. Addressed'
  BY DEF Addressed, CallTypes
<1> QED
  BY <1>1, <1>2, <1>3, <1>4, <1>5, <1>6

\* A caller of Shutdown gives up.
LEMMA ShutdownGivesUpBase ==
    ASSUME BaseInv, NEW s \in Closers, ShutdownGivesUp(s)
    PROVE  BaseInv'
<1> USE DEF BaseInv, ShutdownGivesUp, storeVars, providerVars, memoryVars, flightVars,
        shutdownVars
<1>1. StoreTypes' /\ MemoryTypes' /\ FlightTypes' /\ CallTypes' /\ OwnerTypes'
  BY DEF StoreTypes, MemoryTypes, FlightTypes, CallTypes, OwnerTypes
<1>2. ShutdownTypes'
  BY DEF ShutdownTypes, Saves, NoSave, ClosePhases
<1>3. Closing'
  BY DEF Closing, Airborne
<1>4. ShutdownSavesAll'
  BY DEF ShutdownSavesAll, Airborne
<1>5. Carried'
  BY Apart DEF Carried, Opening, StoreTypes, MemoryTypes, FlightTypes
<1>6. Addressed'
  BY DEF Addressed, CallTypes
<1> QED
  BY <1>1, <1>2, <1>3, <1>4, <1>5, <1>6

\* One entry is taken off the list, and its credential copied.
LEMMA SavePendingBase ==
    ASSUME BaseInv, NEW e \in Epochs, SavePending(e)
    PROVE  BaseInv'
<1> USE DEF BaseInv, SavePending, storeVars, providerVars, memoryVars, flightVars,
        shutdownVars
<1>a. /\ save \in Saves /\ save.todo \subseteq Epochs
      /\ pending[e] # None /\ pending[e] # Empty => pending[e] \in Tokens
  BY SaveRecords DEF ShutdownTypes, MemoryTypes
<1>b. \/ /\ pending[e] = None
         /\ save' = [save EXCEPT !.todo = @ \ {e}]
         /\ save'.phase = "pick" /\ save'.token = save.token /\ save'.failed = save.failed
         /\ save'.todo = save.todo \ {e}
      \/ /\ pending[e] \in Tokens
         /\ save' = [save EXCEPT !.phase = "write", !.todo = @ \ {e}, !.epoch = e, !.token = pending[e]]
         /\ save'.phase = "write" /\ save'.token = pending[e] /\ save'.failed = save.failed
         /\ save'.todo = save.todo \ {e} /\ save'.epoch = e
  BY <1>a DEF Saves
<1>1. StoreTypes' /\ MemoryTypes' /\ FlightTypes' /\ CallTypes' /\ OwnerTypes'
      /\ ShutdownSavesAll'
  BY DEF StoreTypes, MemoryTypes, FlightTypes, CallTypes, OwnerTypes, ShutdownSavesAll,
         Airborne
<1>2. ShutdownTypes'
  <2>1. save' \in Saves
    <3>1. [save EXCEPT !.todo = @ \ {e}] \in Saves
      BY <1>a, SaveRecords
    <3>2. ASSUME pending[e] \in Tokens
          PROVE  [save EXCEPT !.phase = "write", !.todo = @ \ {e}, !.epoch = e,
                              !.token = pending[e]] \in Saves
      BY <1>a, <3>2, SaveRecords
    <3> QED
      BY <1>b, <3>1, <3>2
  <2> QED
    BY <2>1 DEF ShutdownTypes
<1>3. Closing'
  <2>1. Closing /\ save.phase = "pick" /\ e \in save.todo
        /\ UNCHANGED <<storeVars, providerVars, memoryVars, flightVars, call, owner, closer>>
    OBVIOUS
  <2> HIDE DEF BaseInv, SavePending
  <2> QED
    BY <1>b, <2>1, Apart DEF Closing, Airborne
<1>4. Carried'
  BY Apart DEF Carried, Opening, StoreTypes, MemoryTypes, FlightTypes
<1>5. Addressed'
  <2>1. Addressed /\ UNCHANGED call
    OBVIOUS
  <2> HIDE DEF BaseInv, SavePending
  <2> QED
    BY <1>b, <2>1 DEF Addressed
<1> QED
  BY <1>1, <1>2, <1>3, <1>4, <1>5

\* The save's write is a new revision with a usable token; a failure is noted.
LEMMA SaveWritesBase ==
    ASSUME BaseInv, SaveWrites
    PROVE  BaseInv'
<1> USE DEF BaseInv, SaveWrites, storeVars, providerVars, memoryVars, flightVars,
        shutdownVars, Replace
<1>a. save \in Saves /\ save.epoch \in Epochs /\ save.token \in Tokens
  BY DEF ShutdownTypes, Addressed
<1>b. \/ UNCHANGED <<rev, held, reconnect>>
      \/ /\ rev = save.epoch /\ rev < MaxRevision /\ rev' = rev + 1 /\ held' = save.token
         /\ reconnect' = FALSE
  OBVIOUS
<1>c. \/ /\ save' = [save EXCEPT !.phase = "settle"]
         /\ save'.phase = "settle" /\ save'.token = save.token /\ save'.epoch = save.epoch
         /\ save'.failed = save.failed /\ save'.todo = save.todo
         /\ rev' # save.epoch
      \/ /\ save'.phase = "pick" /\ save'.token = None /\ save'.todo = save.todo
         /\ save'.failed <=> (save.failed \/ pending[save.epoch] # None)
  <2>1. rev \in Int
    BY EpochRange DEF StoreTypes
  <2>2. CASE save' = [save EXCEPT !.phase = "settle"] /\ rev' # save.epoch
    BY <1>a, <2>2 DEF Saves
  <2>3. CASE save' = [save EXCEPT !.phase = "pick", !.epoch = 0, !.token = None,
                                  !.failed = @ \/ pending[save.epoch] # None]
    <3>1. save'.phase = "pick" /\ save'.token = None /\ save'.todo = save.todo
      BY <1>a, <2>3 DEF Saves
    <3>2. save'.failed <=> (save.failed \/ pending[save.epoch] # None)
      BY <1>a, <2>3, Zenon DEF Saves
    <3> QED
      BY <3>1, <3>2
  <2> QED
    BY <2>1, <2>2, <2>3
<1>d. /\ save.phase = "write" /\ closing
      /\ \A q \in Epochs : flight[q] \in {"none", "begin", "landed"}
  BY DEF Closing, Airborne
<1>1. MemoryTypes' /\ FlightTypes' /\ CallTypes' /\ OwnerTypes' /\ ShutdownSavesAll'
  BY DEF MemoryTypes, FlightTypes, CallTypes, OwnerTypes, ShutdownSavesAll, Airborne
<1>2. StoreTypes'
  <2>1. rev' \in 0 .. MaxRevision /\ held' \in Tokens \union {None}
    BY <1>a, <1>b, EpochRange DEF StoreTypes
  <2>2. reconnect' \in BOOLEAN /\ UNCHANGED <<consumed, lost, lines>>
    BY <1>b DEF StoreTypes
  <2> QED
    BY <2>1, <2>2 DEF StoreTypes
<1>3. ShutdownTypes'
  <2>1. save' \in Saves
    BY <1>a, SaveRecords
  <2> QED
    BY <2>1 DEF ShutdownTypes
<1>4. Closing'
  <2>1. Closing /\ UNCHANGED <<closing, closer, pending, flight>>
    OBVIOUS
  <2> HIDE DEF BaseInv, SaveWrites
  <2> QED
    BY <1>c, <1>d, <2>1 DEF Closing, Airborne
<1>5. Carried'
  <2>1. \/ UNCHANGED <<rev, held>>
        \/ rev' # 0 /\ held' # None
    BY <1>a, <1>b, Apart
  <2>2. Carried /\ UNCHANGED <<pending, flight, token>>
    OBVIOUS
  <2> HIDE DEF BaseInv, SaveWrites
  <2> QED
    BY <2>1, <2>2 DEF Carried
<1>6. Addressed'
  <2>1. Addressed /\ UNCHANGED call
    OBVIOUS
  <2> HIDE DEF BaseInv, SaveWrites
  <2> QED
    BY <1>a, <1>c, <2>1 DEF Addressed
<1> QED
  BY <1>1, <1>2, <1>3, <1>4, <1>5, <1>6

\* The entry goes once the store has left its epoch.
LEMMA SaveSettlesBase ==
    ASSUME BaseInv, SaveSettles
    PROVE  BaseInv'
<1> USE DEF BaseInv, SaveSettles, storeVars, providerVars, memoryVars, flightVars,
        shutdownVars
<1>a. save \in Saves /\ save.epoch \in Epochs
  BY DEF ShutdownTypes, Addressed
<1>1. StoreTypes' /\ FlightTypes' /\ CallTypes' /\ OwnerTypes'
  BY DEF StoreTypes, FlightTypes, CallTypes, OwnerTypes
<1>2. MemoryTypes'
  BY DEF MemoryTypes
<1>3. ShutdownTypes'
  <2>1. save' \in Saves
    BY <1>a, SaveRecords
  <2> QED
    BY <2>1 DEF ShutdownTypes
<1>4. Closing'
  BY DEF Closing, Airborne, MemoryTypes, ShutdownTypes
<1>5. ShutdownSavesAll'
  BY DEF ShutdownSavesAll, Airborne
<1>6. Carried'
  BY Apart DEF Carried, Opening, StoreTypes, MemoryTypes, FlightTypes
<1>7. Addressed'
  BY DEF Addressed, CallTypes
<1> QED
  BY <1>1, <1>2, <1>3, <1>4, <1>5, <1>6, <1>7

\* Shutdown returns; if no save failed, no entry is left.
LEMMA ShutdownReturnsBase ==
    ASSUME BaseInv, NEW s \in Closers, ShutdownReturns(s)
    PROVE  BaseInv'
<1> USE DEF BaseInv, ShutdownReturns, storeVars, providerVars, memoryVars, flightVars,
        shutdownVars, NoSave
<1>1. StoreTypes' /\ MemoryTypes' /\ FlightTypes' /\ CallTypes' /\ OwnerTypes'
  BY DEF StoreTypes, MemoryTypes, FlightTypes, CallTypes, OwnerTypes
<1>2. ShutdownTypes'
  BY Apart DEF ShutdownTypes, Saves, NoSave, ClosePhases
<1>3. Closing'
  BY DEF Closing, Airborne
<1>4. ShutdownSavesAll'
  BY Apart, EpochRange DEF ShutdownSavesAll, Airborne, StoreTypes, MemoryTypes,
      FlightTypes, Closing, ShutdownTypes
<1>5. Carried'
  BY Apart DEF Carried, Opening, StoreTypes, MemoryTypes, FlightTypes
<1>6. Addressed'
  BY DEF Addressed, CallTypes
<1> QED
  BY <1>1, <1>2, <1>3, <1>4, <1>5, <1>6

\* A fresh manager over a stored credential.
LEMMA InitBase == Init => BaseInv
<1> SUFFICES ASSUME Init PROVE BaseInv
  OBVIOUS
<1> USE DEF Init
<1>0. 1 \in Epochs /\ [line |-> 1, gen |-> 0] \in Tokens
  BY OAuthAssumption DEF Epochs, Tokens
<1>1. StoreTypes
  <2>1. rev \in 0 .. MaxRevision /\ lines \in 1 .. MaxLine
    BY OAuthAssumption
  <2> QED
    BY <1>0, <2>1 DEF StoreTypes
<1>2. MemoryTypes /\ CallTypes /\ OwnerTypes /\ ShutdownTypes
  <2>1. MemoryTypes
    BY DEF MemoryTypes
  <2>2. CallTypes
    BY CallRecords DEF CallTypes
  <2>3. 0 \in 0 .. MaxRevision
    BY Apart
  <2>4. OwnerTypes
    BY <2>3 DEF OwnerTypes, OwnerPhases
  <2>5. ShutdownTypes
    BY SaveRecords DEF ShutdownTypes, ClosePhases
  <2> QED
    BY <2>1, <2>2, <2>4, <2>5
<1>3. FlightTypes
  BY ModeRecords DEF FlightTypes, FlightPhases
<1>4. Carried /\ Addressed
  BY <1>0, Apart DEF Carried, Opening, Addressed, Idle, NoSave
<1>5. Closing /\ ShutdownSavesAll
  BY Apart DEF Closing, ShutdownSavesAll, Airborne, NoSave
<1> QED
  BY <1>1, <1>2, <1>3, <1>4, <1>5 DEF BaseInv

\* Every step keeps it, that of entering a credential again included.
LEMMA NextBase ==
    ASSUME BaseInv, Next
    PROVE  BaseInv'
<1>1. CASE \E c \in Leases, e \in Epochs, automatic \in BOOLEAN : Acquire(c, e, automatic)
  BY <1>1, AcquireBase
<1>2. CASE \E c \in Callers : PrepareStep(c)
  BY <1>2, PrepareBase, PrepareReadsBase, ConsultPermanentBase, JoinFlightBase,
     CallerLeavesBase DEF PrepareStep
<1>3. CASE \E r \in Epochs : RefreshStep(r)
  BY <1>3, RefreshBase, RefreshRefusedBase, ReadCredentialBase, GrantedBase,
     UnavailableBase, DeniedBase, FreezeBase, RetainBase, PersistBase, WriteBase,
     SettleBase, NestedReturnsBase, LandBase, DeliverBase DEF RefreshStep
<1>4. CASE OwnerStep
  BY <1>4, RefreshCredentialBase, CredentialRefreshedBase, ReplaceSecretBase,
     SecretReplacedBase, DeleteSecretBase, SecretDeletedBase, CreateBase, InspectBase
     DEF OwnerStep
<1>5. CASE ShutdownStep
  BY <1>5, ShutdownBase, BeginSavesBase, ShutdownGivesUpBase, SavePendingBase,
     SaveWritesBase, SaveSettlesBase, ShutdownReturnsBase DEF ShutdownStep
<1> QED
  BY <1>1, <1>2, <1>3, <1>4, <1>5 DEF Next

\* A step that changes nothing keeps it.
LEMMA StutterBase ==
    ASSUME BaseInv, UNCHANGED vars
    PROVE  BaseInv'
<1> USE DEF BaseInv, vars, storeVars, providerVars, memoryVars, flightVars, shutdownVars
<1>1. StoreTypes' /\ MemoryTypes' /\ FlightTypes' /\ CallTypes' /\ OwnerTypes' /\ ShutdownTypes'
  BY DEF StoreTypes, MemoryTypes, FlightTypes, CallTypes, OwnerTypes, ShutdownTypes
<1>2. Carried' /\ Addressed' /\ Closing' /\ ShutdownSavesAll'
  BY DEF Carried, Addressed, Closing, Airborne, ShutdownSavesAll
<1> QED
  BY <1>1, <1>2

\* What flights, entries, calls and saves are, whatever the Owner does with the
\* credential, for any number of leases, epochs, rotations and calls of Shutdown.
THEOREM OAuthBase == Spec => []BaseInv
<1>1. BaseInv /\ [Next]_vars => BaseInv'
  BY NextBase, StutterBase
<1> QED
  BY <1>1, InitBase, PTL DEF Spec

\* When Shutdown has reported success, no replacement is unsaved and no refresh is
\* under way: its saves begin when Manager.active is 0, and refresh asks for closing
\* in the critical section that counts it.
THEOREM OAuthShutdownSavesAll == Spec => []ShutdownSavesAll
<1>1. BaseInv => ShutdownSavesAll
  BY DEF BaseInv
<1> QED
  BY <1>1, OAuthBase, PTL

\* Every variable keeps the type of its Go field.
THEOREM OAuthTypes == Spec => []TypeOK
<1>1. BaseInv => TypeOK
  BY DEF BaseInv, TypeOK, CallTypes, OwnerTypes, ShutdownTypes
<1> QED
  BY <1>1, OAuthBase, PTL

-----------------------------------------------------------------------------
(* The second layer: tokens and revisions.                                 *)

\* Steps that send nothing.
LEMMA SentFrame ==
    ASSUME SentOnce, UNCHANGED <<rev, held, consumed, lost>>,
           \A q \in Epochs : flight'[q] \in Sent => flight[q] \in Sent /\ token'[q] = token[q]
    PROVE  SentOnce'
  BY DEF SentOnce

(***************************************************************************)
(* A new revision of the store, written by a flight, by a save or by the   *)
(* Owner: nothing works on it yet, what it holds is usable, and whatever   *)
(* is still sent for earlier epochs is of an earlier line.                 *)
(***************************************************************************)
LEMMA NewRevision ==
    ASSUME IndInv, NEW t \in Tokens,
           rev # 0, rev < MaxRevision, rev' = rev + 1, held' = t,
           t \notin consumed \ lost,
           t.line <= lines', t.gen > 0 => Earlier(t) \in consumed,
           lines' \in Int, lines <= lines',
           UNCHANGED <<consumed, lost, pending>>,
           \A q \in Epochs :
               /\ flight'[q] # "none" => flight[q] # "none"
               /\ flight'[q] \in Opening \union {"write"} => flight'[q] = flight[q]
               /\ flight[q] \in Opening \union {"ending"} => flight'[q] \in Opening \union {"ending"}
               /\ token'[q] = token[q] \/ token'[q] = None
               /\ flight'[q] \in Opening \union {"write"} => token'[q] = token[q]
               /\ flight'[q] \in Sent => token[q].line < t.line,
           save' = save \/ (save.phase = "write" /\ save'.phase \in {"pick", "settle"}
                            /\ save'.token \in {save.token, None}
                            /\ (save'.phase = "settle" => save'.epoch = save.epoch))
    PROVE  /\ Genuine' /\ Entries' /\ SentOnce' /\ Writable' /\ RotationKept'
           /\ \A q \in Epochs : pending'[q] # None \/ flight'[q] # "none" => q < rev'
           /\ save'.phase \in {"write", "settle"} => save'.epoch \in Epochs /\ save'.epoch < rev'
<1> USE DEF IndInv, BaseInv, Rotations
<1>1. rev \in Int /\ rev > 0 /\ rev' \in Int /\ rev' = rev + 1 /\ rev' # 0
  BY EpochRange DEF StoreTypes
<1>2. \A q \in Epochs : pending[q] # None \/ flight'[q] # "none" => q < rev'
  BY <1>1, Apart DEF NotAhead, Reached
<1>3. save'.phase \in {"write", "settle"} => save'.epoch \in Epochs /\ save'.epoch < rev'
  BY <1>1, Apart DEF NotAhead, Reached
<1>4. \A q \in Epochs : flight'[q] \in Opening \union {"write", "wrote", "conflicted"} => rev' # q
  BY <1>1, <1>2, Apart DEF Opening
<1>5. \A q \in Epochs : pending[q] \in Tokens => rev' # q
  BY <1>1, <1>2, Apart
<1>6. Genuine'
  <2>1. \A u \in Tokens : u.line <= lines => u.line <= lines'
    BY TokenFields, Apart DEF StoreTypes
  <2>2. held' # None /\ rev' # 0
    BY <1>1, Apart
  <2>3. \A u \in consumed : u \in Tokens /\ u.line <= lines' /\ (u.gen > 0 => Earlier(u) \in consumed)
    BY <2>1 DEF Genuine, Real, StoreTypes
  <2>4. \A e \in Epochs : pending[e] \in Tokens =>
            pending[e].line <= lines' /\ (pending[e].gen > 0 => Earlier(pending[e]) \in consumed)
    BY <2>1 DEF Genuine, Real
  <2>5. \A q \in Epochs : token[q] # None =>
            token[q].line <= lines' /\ (token[q].gen > 0 => Earlier(token[q]) \in consumed)
    BY <2>1 DEF Genuine, Real, FlightTypes
  <2>6. \A q \in Epochs : token'[q] # None => token'[q] = token[q]
    OBVIOUS
  <2>7. save.token # None =>
            save.token.line <= lines' /\ (save.token.gen > 0 => Earlier(save.token) \in consumed)
    BY <2>1, SaveRecords DEF Genuine, Real, ShutdownTypes
  <2>8. save'.token # None => save'.token = save.token
    OBVIOUS
  <2> HIDE DEF IndInv
  <2> QED
    BY <2>2, <2>3, <2>4, <2>5, <2>6, <2>7, <2>8 DEF Genuine, Real
<1>7. Entries'
  BY <1>4 DEF Entries, Opening
<1>8. SentOnce'
  <2>1. \A q \in Epochs : flight'[q] \in Sent =>
            flight'[q] = flight[q] /\ token'[q] = token[q] /\ token[q].line < t.line /\ rev' # q
    BY <1>4 DEF Sent, Opening
  <2> HIDE DEF IndInv
  <2>2. SentOnce
    BY DEF IndInv
  <2> QED
    BY <2>1, <2>2 DEF SentOnce
<1>9. Writable'
  <2>1. \A q \in Epochs : flight'[q] \in {"hold", "write"} =>
            flight'[q] = flight[q] /\ token'[q] = token[q] /\ rev' # q
    BY <1>4 DEF Opening
  <2>2. \A q \in Epochs : flight'[q] \in {"wrote", "conflicted"} => rev' # q
    BY <1>4
  <2>3. save'.phase \in {"write", "settle"} => rev' # save'.epoch
    BY <1>1, <1>3, Apart
  <2>4. save'.phase = "write" => save' = save
    OBVIOUS
  <2>5. Writable
    OBVIOUS
  <2> HIDE DEF IndInv
  <2> QED
    BY <1>5, <2>1, <2>2, <2>3, <2>4, <2>5 DEF Writable
<1>10. RotationKept'
  BY DEF RotationKept
<1> QED
  BY <1>2, <1>3, <1>6, <1>7, <1>8, <1>9, <1>10

\* A lease is acquired at an epoch the store has had.
LEMMA AcquireInv ==
    ASSUME IndInv, ~Recreates, NEW r \in Leases, NEW e \in Epochs, NEW a \in BOOLEAN, Acquire(r, e, a)
    PROVE  Rotations'
<1> USE DEF IndInv, BaseInv, Rotations, Acquire, storeVars, providerVars, memoryVars,
        flightVars, shutdownVars, Called, Idle
<1>1. Genuine' /\ Entries' /\ SentOnce' /\ Writable' /\ RotationKept'
  BY DEF Genuine, Real, Entries, SentOnce, Writable, Usable, RotationKept
<1>2. NotAhead'
  BY DEF NotAhead, Reached
<1> QED
  BY <1>1, <1>2

\* prepare looks for an entry of its epoch.
LEMMA PrepareInv ==
    ASSUME IndInv, ~Recreates, NEW r \in Callers, Prepare(r)
    PROVE  Rotations'
<1> USE DEF IndInv, BaseInv, Rotations, Prepare, storeVars, providerVars, memoryVars,
        flightVars, shutdownVars, Answer, Answered, Goes, Idle
<1>1. Genuine' /\ Entries' /\ SentOnce' /\ Writable' /\ RotationKept'
  BY DEF Genuine, Real, Entries, SentOnce, Writable, Usable, RotationKept
<1>2. NotAhead'
  <2>1. call[r].phase \notin {"idle", "done"}
    OBVIOUS
  <2>2. \/ \E p : call' = [call EXCEPT ![r] = Answered(r, p)]
        \/ \E p : call' = [call EXCEPT ![r].phase = p]
    BY DEF Answer, Goes
  <2>3. \A c \in Callers :
            \/ call'[c].phase \in {"idle", "done"}
            \/ call'[c].epoch = call[c].epoch /\ call[c].phase \notin {"idle", "done"}
    BY <2>1, <2>2, AnswerKeeps, CallRecords DEF CallTypes, Calls
  <2> HIDE DEF IndInv
  <2> QED
    BY <2>3 DEF NotAhead, Reached, IndInv
<1> QED
  BY <1>1, <1>2

\* prepare reads the credential.
LEMMA PrepareReadsInv ==
    ASSUME IndInv, ~Recreates, NEW r \in Callers, PrepareReads(r)
    PROVE  Rotations'
<1> USE DEF IndInv, BaseInv, Rotations, PrepareReads, storeVars, providerVars, memoryVars,
        flightVars, shutdownVars, Answer, Answered, Goes, Idle
<1>1. Genuine' /\ Entries' /\ SentOnce' /\ Writable' /\ RotationKept'
  BY DEF Genuine, Real, Entries, SentOnce, Writable, Usable, RotationKept
<1>2. NotAhead'
  <2>1. call[r].phase \notin {"idle", "done"}
    OBVIOUS
  <2>2. \/ \E p : call' = [call EXCEPT ![r] = Answered(r, p)]
        \/ \E p : call' = [call EXCEPT ![r].phase = p]
    BY DEF Answer, Goes
  <2>3. \A c \in Callers :
            \/ call'[c].phase \in {"idle", "done"}
            \/ call'[c].epoch = call[c].epoch /\ call[c].phase \notin {"idle", "done"}
    BY <2>1, <2>2, AnswerKeeps, CallRecords DEF CallTypes, Calls
  <2> HIDE DEF IndInv
  <2> QED
    BY <2>3 DEF NotAhead, Reached, IndInv
<1> QED
  BY <1>1, <1>2

\* prepare asks whether its epoch is dead.
LEMMA ConsultPermanentInv ==
    ASSUME IndInv, ~Recreates, NEW r \in Callers, ConsultPermanent(r)
    PROVE  Rotations'
<1> USE DEF IndInv, BaseInv, Rotations, ConsultPermanent, storeVars, providerVars,
        memoryVars, flightVars, shutdownVars, Answer, Answered, Goes, Idle
<1>1. Genuine' /\ Entries' /\ SentOnce' /\ Writable' /\ RotationKept'
  BY DEF Genuine, Real, Entries, SentOnce, Writable, Usable, RotationKept
<1>2. NotAhead'
  <2>1. call[r].phase \notin {"idle", "done"}
    OBVIOUS
  <2>2. \/ \E p : call' = [call EXCEPT ![r] = Answered(r, p)]
        \/ \E p : call' = [call EXCEPT ![r].phase = p]
    BY DEF Answer, Goes
  <2>3. \A c \in Callers :
            \/ call'[c].phase \in {"idle", "done"}
            \/ call'[c].epoch = call[c].epoch /\ call[c].phase \notin {"idle", "done"}
    BY <2>1, <2>2, AnswerKeeps, CallRecords DEF CallTypes, Calls
  <2> HIDE DEF IndInv
  <2> QED
    BY <2>3 DEF NotAhead, Reached, IndInv
<1> QED
  BY <1>1, <1>2

\* A call joins the flight of its epoch, or starts it: nothing is sent yet.
LEMMA JoinFlightInv ==
    ASSUME IndInv, ~Recreates, NEW r \in Callers, JoinFlight(r)
    PROVE  Rotations'
<1> USE DEF IndInv, BaseInv, Rotations, JoinFlight, storeVars, providerVars, memoryVars,
        flightVars, shutdownVars, Goes
<1>1. Genuine'
  BY DEF Genuine, Real
<1>2. NotAhead'
  BY DEF NotAhead, Reached, FlightTypes, CallTypes
<1>3. Entries'
  BY DEF Entries, Opening, FlightTypes
<1>4. SentOnce'
  BY DEF SentOnce, Sent, FlightTypes
<1>5. Writable'
  BY DEF Writable, Usable, FlightTypes
<1>6. RotationKept'
  BY Apart, EpochRange DEF RotationKept, StoreTypes, MemoryTypes, FlightTypes
<1> QED
  BY <1>1, <1>2, <1>3, <1>4, <1>5, <1>6

\* A caller leaves; what its flight carries stays.
LEMMA CallerLeavesInv ==
    ASSUME IndInv, ~Recreates, NEW r \in Callers, CallerLeaves(r)
    PROVE  Rotations'
<1> USE DEF IndInv, BaseInv, Rotations, CallerLeaves, storeVars, providerVars, memoryVars,
        flightVars, shutdownVars, Answer, Answered, Idle
<1>1. Genuine' /\ Entries' /\ SentOnce' /\ Writable' /\ RotationKept'
  BY DEF Genuine, Real, Entries, SentOnce, Writable, Usable, RotationKept
<1>2. NotAhead'
  BY DEF NotAhead, Reached
<1> QED
  BY <1>1, <1>2

\* Inspect forgets dead epochs only.
LEMMA InspectInv ==
    ASSUME IndInv, ~Recreates, Inspect
    PROVE  Rotations'
<1> USE DEF IndInv, BaseInv, Rotations, Inspect, storeVars, providerVars, memoryVars,
        flightVars, shutdownVars
<1>1. Genuine' /\ NotAhead' /\ Entries' /\ SentOnce' /\ Writable' /\ RotationKept'
  BY DEF Genuine, Real, NotAhead, Reached, Entries, SentOnce, Writable, Usable, RotationKept
<1> QED
  BY <1>1

\* A flight makes its entry. It finds a retained credential only in an entry that is
\* not of a flight; none starts once the saves of Shutdown have begun.
LEMMA RefreshInv ==
    ASSUME IndInv, ~Recreates, NEW r \in Epochs, Refresh(r)
    PROVE  Rotations'
<1> USE DEF IndInv, BaseInv, Rotations, Refresh, storeVars, providerVars, memoryVars,
        flightVars, shutdownVars
<1>1. Genuine'
  BY Apart DEF Genuine, Real, MemoryTypes
<1>2. NotAhead'
  BY DEF NotAhead, Reached, MemoryTypes, FlightTypes
<1>3. Entries'
  BY DEF Entries, Opening, MemoryTypes, FlightTypes
<1>4. SentOnce'
  BY DEF SentOnce, Sent, FlightTypes
<1>5. Writable'
  BY Apart DEF Writable, Usable, MemoryTypes, FlightTypes
<1>6. RotationKept'
  BY Apart, EpochRange DEF RotationKept, StoreTypes, MemoryTypes, FlightTypes, Entries, Opening
<1> QED
  BY <1>1, <1>2, <1>3, <1>4, <1>5, <1>6

\* A flight that finds the manager closing ends.
LEMMA RefreshRefusedInv ==
    ASSUME IndInv, ~Recreates, NEW r \in Epochs, RefreshRefused(r)
    PROVE  Rotations'
<1> USE DEF IndInv, BaseInv, Rotations, RefreshRefused, storeVars, providerVars, memoryVars,
        flightVars, shutdownVars
<1>1. Genuine'
  BY DEF Genuine, Real
<1>2. NotAhead'
  BY DEF NotAhead, Reached
<1>3. Entries'
  BY DEF Entries, Opening
<1>4. SentOnce'
  BY DEF SentOnce, Sent
<1>5. Writable'
  BY DEF Writable, Usable
<1>6. RotationKept'
  BY DEF RotationKept
<1> QED
  BY <1>1, <1>2, <1>3, <1>4, <1>5, <1>6

\* The token that is about to be sent was not consumed: if it had been, its
\* replacement would be retained under this epoch, whose entry is empty.
LEMMA ReadCredentialInv ==
    ASSUME IndInv, ~Recreates, NEW r \in Epochs, ReadCredential(r)
    PROVE  Rotations'
<1> USE DEF IndInv, BaseInv, Rotations, ReadCredential, storeVars, providerVars, memoryVars,
        flightVars, shutdownVars, Ends
<1>1. Genuine'
  BY DEF Genuine, Real, FlightTypes
<1>2. NotAhead'
  BY DEF NotAhead, Reached, FlightTypes
<1>3. Entries'
  BY DEF Entries, Opening, FlightTypes
<1>4. SentOnce'
  <2>1. CASE flight'[r] = "ending"
    <3>1. \A q \in Epochs : flight'[q] \in Sent => flight[q] \in Sent /\ token'[q] = token[q]
      BY <2>1 DEF FlightTypes, Sent
    <3> QED
      BY <3>1, SentFrame
  <2>2. CASE rev = r /\ flight' = [flight EXCEPT ![r] = "exchange"]
                    /\ token' = [token EXCEPT ![r] = held]
    <3>1. held \in Tokens
      BY <2>2, Apart DEF Genuine, StoreTypes
    <3>2. held \notin consumed \ lost
      BY <2>2, <3>1, Apart DEF RotationKept, Entries, Opening
    <3>3. ASSUME NEW q \in Epochs, q # r, flight'[q] \in Sent
          PROVE  /\ flight[q] \in Sent /\ token'[q] = token[q] /\ token[q] \in Tokens
                 /\ token[q].line < held.line /\ token[q] \notin consumed \ lost
      BY <2>2, <3>3, Apart DEF SentOnce, FlightTypes
    <3>4. \A q \in Epochs : q # r /\ flight'[q] \in Sent => token'[q] # held
      BY <3>1, <3>3, TokenFields
    <3>5. flight'[r] \in Sent /\ token'[r] = held
      BY <2>2 DEF Sent, FlightTypes
    <3>6. \A q \in Epochs : flight'[q] \in Sent =>
              /\ token'[q] \in Tokens
              /\ rev = q => token'[q] = held
              /\ rev \notin {0, q} => token'[q].line < held.line
              /\ token'[q] \notin consumed \ lost
      BY <2>2, <3>1, <3>2, <3>3, <3>5
    <3>7. \A q, s \in Epochs : flight'[q] \in Sent /\ flight'[s] \in Sent /\ q # s =>
              token'[q] # token'[s]
      BY <3>3, <3>4, <3>5 DEF SentOnce
    <3> QED
      BY <3>6, <3>7 DEF SentOnce
  <2> QED
    BY <2>1, <2>2 DEF FlightTypes
<1>5. Writable'
  BY DEF Writable, Usable, FlightTypes
<1>6. RotationKept'
  BY Apart, EpochRange DEF RotationKept, StoreTypes, MemoryTypes, FlightTypes
<1> QED
  BY <1>1, <1>2, <1>3, <1>4, <1>5, <1>6

\* The provider consumes a token: if it is the stored one, the flight of the store's
\* epoch holds the replacement and has its entry. What others carry is not it.
LEMMA GrantedInv ==
    ASSUME IndInv, ~Recreates, NEW r \in Epochs, Granted(r)
    PROVE  Rotations'
<1> USE DEF IndInv, BaseInv, Rotations, Granted, storeVars, providerVars, memoryVars,
        flightVars, shutdownVars, Consume
<1> DEFINE t == token[r]
<1>a. t \in Tokens /\ t # None /\ t \notin consumed /\ (rev = r => t = held)
      /\ (rev \notin {0, r} => t.line < held.line)
  BY Apart DEF SentOnce, Sent
<1>b. pending[r] \in {None, Empty} /\ (rev = r => pending[r] = Empty)
  BY DEF Entries, Opening
<1>c. save.phase # "write"
  BY DEF Closing, Airborne
<1>d. \/ consumed' = consumed /\ token' = token
      \/ /\ t.gen < MaxGen /\ consumed' = consumed \union {t}
         /\ token' = [token EXCEPT ![r] = Rotate(t)]
  OBVIOUS
<1>e. t.gen < MaxGen => /\ Rotate(t) \in Tokens /\ Rotate(t).line = t.line
                        /\ Rotate(t) # t /\ Earlier(Rotate(t)) = t
  BY <1>a, RotateFacts
<1>f. t.gen < MaxGen => Rotate(t) \notin consumed
  <2>1. Rotate(t) \in Tokens /\ t.gen < MaxGen => Rotate(t).gen > 0
    BY <1>a, TokenFields, Apart DEF Rotate, Tokens
  <2> QED
    BY <1>a, <1>e, <2>1 DEF Genuine, Real
<1>1. Genuine'
  <2>1. CASE consumed' = consumed /\ token' = token
    BY <2>1 DEF Genuine, Real
  <2>2. CASE /\ t.gen < MaxGen /\ consumed' = consumed \union {t}
             /\ token' = [token EXCEPT ![r] = Rotate(t)]
    <3>1. Genuine /\ UNCHANGED <<rev, held, lines, pending, save>>
      OBVIOUS
    <3>2. token'[r] = Rotate(t) /\ \A q \in Epochs : q # r => token'[q] = token[q]
      BY <2>2 DEF FlightTypes
    <3>3. t.line <= lines /\ (t.gen > 0 => Earlier(t) \in consumed)
      BY <1>a DEF Genuine, Real
    <3>4. Rotate(t).line <= lines /\ Earlier(Rotate(t)) \in consumed'
      BY <1>e, <2>2, <3>3
    <3> HIDE DEF IndInv, Granted, t
    <3> QED
      BY <2>2, <3>1, <3>2, <3>3, <3>4 DEF Genuine, Real
  <2> QED
    BY <1>d, <2>1, <2>2
<1>2. NotAhead'
  BY DEF NotAhead, Reached
<1>3. Entries'
  BY DEF Entries, Opening
<1>4. SentOnce'
  BY DEF SentOnce, Sent, StoreTypes, FlightTypes
<1>5. Writable'
  <2>1. ASSUME NEW u \in Tokens, rev # 0, u.line = held.line, u \notin consumed \ lost, rev # r
        PROVE  u \notin consumed' \ lost
    BY <1>a, <1>d, <2>1, TokenFields DEF Genuine, StoreTypes
  <2>2. \A q \in Epochs : q # r => flight'[q] = flight[q] /\ token'[q] = token[q]
    BY <1>d DEF FlightTypes
  <2>3. flight'[r] = "hold" /\ token'[r] \in {t, Rotate(t)} /\ token'[r] \in Tokens
    BY <1>a, <1>d, <1>e DEF FlightTypes
  <2>4. rev = r => token'[r].line = held.line /\ token'[r] \notin consumed' \ lost
    BY <1>a, <1>d, <1>e, <1>f DEF FlightTypes
  <2>5. \A q \in Epochs : q # r /\ flight'[q] \in {"hold", "write"} =>
            token'[q] \in Tokens /\
            (rev = q => token'[q].line = held.line /\ token'[q] \notin consumed' \ lost)
    BY <2>1, <2>2, Apart DEF Writable, Usable
  <2>6. \A e \in Epochs : pending[e] \in Tokens /\ rev = e =>
            pending[e].line = held.line /\ pending[e] \notin consumed' \ lost
    BY <1>b, <2>1, Apart DEF Writable, Usable
  <2>7. \A q \in Epochs : flight'[q] \in {"wrote", "conflicted"} => rev # q
    BY <2>2, <2>3 DEF Writable
  <2>8. Writable /\ UNCHANGED <<rev, held, lost, pending, save>>
    OBVIOUS
  <2> HIDE DEF IndInv, Granted, t
  <2> QED
    BY <1>c, <2>3, <2>4, <2>5, <2>6, <2>7, <2>8 DEF Writable, Usable
<1>6. RotationKept'
  <2>1. CASE rev = r
    BY <1>a, <1>b, <2>1 DEF FlightTypes, RotationKept
  <2>2. CASE rev # r /\ rev # 0
    <3>1. t # held
      BY <1>a, <2>2, TokenFields DEF Genuine, StoreTypes
    <3>2. rev \in Epochs /\ flight'[rev] = flight[rev]
      BY <2>2, EpochRange DEF FlightTypes, StoreTypes
    <3> QED
      BY <1>d, <3>1, <3>2 DEF RotationKept
  <2> QED
    BY <2>1, <2>2 DEF RotationKept
<1> QED
  BY <1>1, <1>2, <1>3, <1>4, <1>5, <1>6

\* No answer arrives: what was consumed is lost.
LEMMA UnavailableInv ==
    ASSUME IndInv, ~Recreates, NEW r \in Epochs, Unavailable(r)
    PROVE  Rotations'
<1> USE DEF IndInv, BaseInv, Rotations, Unavailable, storeVars, providerVars, memoryVars,
        flightVars, shutdownVars, MayBeLost, Consume, Ends
<1>1. Genuine'
  <2>1. token[r] # None /\ token[r] \in Tokens
    BY Apart DEF SentOnce, Sent
  <2>2. consumed \subseteq consumed' /\ \A u \in consumed' : u \in consumed \/ u = token[r]
    OBVIOUS
  <2>3. \A q \in Epochs : token'[q] # None => token'[q] = token[q]
    BY DEF FlightTypes
  <2>4. Genuine /\ UNCHANGED <<rev, held, lines, pending, save>>
    OBVIOUS
  <2> HIDE DEF IndInv, Unavailable
  <2> QED
    BY <2>1, <2>2, <2>3, <2>4 DEF Genuine, Real
<1>2. NotAhead'
  BY DEF NotAhead, Reached
<1>3. Entries'
  BY DEF Entries, Opening
<1>4. SentOnce'
  BY DEF SentOnce, Sent, StoreTypes, FlightTypes
<1>5. Writable'
  BY DEF Writable, Usable
<1>6. RotationKept'
  BY DEF RotationKept
<1> QED
  BY <1>1, <1>2, <1>3, <1>4, <1>5, <1>6

\* The token is denied.
LEMMA DeniedInv ==
    ASSUME IndInv, ~Recreates, NEW r \in Epochs, Denied(r)
    PROVE  Rotations'
<1> USE DEF IndInv, BaseInv, Rotations, Denied, storeVars, providerVars, memoryVars,
        flightVars, shutdownVars, MayBeLost, Consume
<1>1. Genuine'
  <2>1. token[r] # None /\ token[r] \in Tokens
    BY Apart DEF SentOnce, Sent
  <2>2. consumed \subseteq consumed' /\ \A u \in consumed' : u \in consumed \/ u = token[r]
    OBVIOUS
  <2>3. \A q \in Epochs : token'[q] # None => token'[q] = token[q]
    BY DEF FlightTypes
  <2>4. Genuine /\ UNCHANGED <<rev, held, lines, pending, save>>
    OBVIOUS
  <2> HIDE DEF IndInv, Denied
  <2> QED
    BY <2>1, <2>2, <2>3, <2>4 DEF Genuine, Real
<1>2. NotAhead'
  BY DEF NotAhead, Reached
<1>3. Entries'
  BY DEF Entries, Opening
<1>4. SentOnce'
  BY DEF SentOnce, Sent
<1>5. Writable'
  BY DEF Writable, Usable
<1>6. RotationKept'
  BY DEF RotationKept
<1> QED
  BY <1>1, <1>2, <1>3, <1>4, <1>5, <1>6

\* The reconnect state is a new revision with the same token.
LEMMA FreezeInv ==
    ASSUME IndInv, ~Recreates, NEW r \in Epochs, Freeze(r)
    PROVE  Rotations'
<1> USE DEF IndInv, BaseInv, Rotations, Freeze, storeVars, providerVars, memoryVars,
        flightVars, shutdownVars, Replace, Ends
<1>a. flight' = [flight EXCEPT ![r] = "ending"] /\ token' = [token EXCEPT ![r] = None]
  OBVIOUS
<1>b. \/ UNCHANGED <<rev, held, reconnect>>
      \/ rev = r /\ rev < MaxRevision /\ rev' = rev + 1 /\ held' = token[r] /\ reconnect' = TRUE
  OBVIOUS
<1>c. ASSUME rev = r, rev < MaxRevision, rev' = rev + 1, held' = token[r]
      PROVE  Genuine' /\ Entries' /\ SentOnce' /\ Writable' /\ RotationKept'
  <2>1. token[r] \in Tokens /\ token[r] # None /\ token[r] = held /\ token[r] \notin consumed \ lost /\ rev # 0
    BY <1>c, Apart DEF SentOnce, Sent
  <2>2. token[r].line <= lines /\ (token[r].gen > 0 => Earlier(token[r]) \in consumed)
    BY <2>1 DEF Genuine, Real
  <2>3. lines \in Int /\ lines <= lines
    BY Apart DEF StoreTypes
  <2>4. \A q \in Epochs :
            /\ flight'[q] # "none" => flight[q] # "none"
            /\ flight'[q] \in Opening \union {"write"} => flight'[q] = flight[q]
            /\ flight[q] \in Opening \union {"ending"} => flight'[q] \in Opening \union {"ending"}
            /\ token'[q] = token[q] \/ token'[q] = None
            /\ flight'[q] \in Opening \union {"write"} => token'[q] = token[q]
    BY <1>a DEF FlightTypes, Opening
  <2>5. \A q \in Epochs : flight'[q] \in Sent => token[q].line < token[r].line
    BY <1>a, <1>c, <2>1, Apart DEF FlightTypes, Sent, SentOnce
  <2>6. UNCHANGED <<consumed, lost, lines, pending, save>>
    OBVIOUS
  <2> HIDE DEF IndInv, Freeze
  <2> QED
    BY <1>c, <2>1, <2>2, <2>3, <2>4, <2>5, <2>6, NewRevision
<1>1. Genuine'
  <2>1. CASE UNCHANGED <<rev, held>>
    BY <2>1, <1>a, Apart, EpochRange DEF Genuine, Real, FlightTypes
  <2> QED
    BY <1>b, <1>c, <2>1
<1>2. NotAhead'
  BY Apart, CallRecords DEF NotAhead, Reached, StoreTypes, MemoryTypes, FlightTypes,
      CallTypes, OwnerTypes, ShutdownTypes
<1>3. Entries'
  <2>1. CASE UNCHANGED <<rev, held>>
    BY <2>1, <1>a, Apart, EpochRange DEF Entries, Opening, FlightTypes
  <2> QED
    BY <1>b, <1>c, <2>1
<1>4. SentOnce'
  <2>1. CASE UNCHANGED <<rev, held>>
    <3>1. \A q \in Epochs : flight'[q] \in Sent => flight[q] \in Sent /\ token'[q] = token[q]
      BY <1>a DEF FlightTypes, Sent
    <3> QED
      BY <2>1, <3>1, SentFrame
  <2> QED
    BY <1>b, <1>c, <2>1
<1>5. Writable'
  <2>1. CASE UNCHANGED <<rev, held>>
    BY <2>1, <1>a, Apart, EpochRange DEF Writable, Usable, FlightTypes
  <2> QED
    BY <1>b, <1>c, <2>1
<1>6. RotationKept'
  <2>1. CASE UNCHANGED <<rev, held>>
    BY <2>1, <1>a, Apart, EpochRange DEF RotationKept, FlightTypes, StoreTypes
  <2> QED
    BY <1>b, <1>c, <2>1
<1> QED
  BY <1>1, <1>2, <1>3, <1>4, <1>5, <1>6

\* The replacement moves from the flight into its entry.
LEMMA RetainInv ==
    ASSUME IndInv, ~Recreates, NEW r \in Epochs, Retain(r)
    PROVE  Rotations'
<1> USE DEF IndInv, BaseInv, Rotations, Retain, storeVars, providerVars, memoryVars,
        flightVars, shutdownVars, Ends
<1>1. Genuine'
  BY Apart, SMTT(30) DEF Genuine, Real, MemoryTypes, FlightTypes
<1>2. NotAhead'
  BY DEF NotAhead, Reached, MemoryTypes, FlightTypes
<1>3. Entries'
  <2>1. \/ flight' = [flight EXCEPT ![r] = "ending"] /\ UNCHANGED pending
        \/ /\ flight' = [flight EXCEPT ![r] = "persist"]
           /\ pending' = [pending EXCEPT ![r] = token[r]]
    OBVIOUS
  <2>2. /\ token[r] # Empty
        /\ flight \in [Epochs -> FlightPhases] /\ pending \in [Epochs -> Tokens \union {None, Empty}]
    BY Apart DEF Carried, MemoryTypes, FlightTypes
  <2>3. Entries /\ UNCHANGED rev
    OBVIOUS
  <2> HIDE DEF IndInv, BaseInv, Rotations, Retain
  <2> QED
    BY <2>1, <2>2, <2>3 DEF Entries, Opening
<1>4. SentOnce'
  <2>1. \A q \in Epochs : flight'[q] \in Sent => flight[q] \in Sent /\ token'[q] = token[q]
    BY DEF FlightTypes, Sent
  <2> QED
    BY <2>1, SentFrame
<1>5. Writable'
  BY DEF Writable, Usable, MemoryTypes, FlightTypes
<1>6. RotationKept'
  BY Apart, EpochRange DEF RotationKept, StoreTypes, MemoryTypes, FlightTypes, Entries,
      Opening, Writable
<1> QED
  BY <1>1, <1>2, <1>3, <1>4, <1>5, <1>6

\* The retained credential is copied for the write; the entry stays.
LEMMA PersistInv ==
    ASSUME IndInv, ~Recreates, NEW r \in Epochs, Persist(r)
    PROVE  Rotations'
<1> USE DEF IndInv, BaseInv, Rotations, Persist, storeVars, providerVars, memoryVars,
        flightVars, shutdownVars, Persisted, Ends, Called
<1>a. \/ /\ flight' = [flight EXCEPT ![r] = "nested"] \/ flight' = [flight EXCEPT ![r] = "ending"]
         /\ token' = [token EXCEPT ![r] = None] /\ pending[r] = None
      \/ /\ pending[r] # None /\ pending[r] # Empty
         /\ flight' = [flight EXCEPT ![r] = "write"] /\ token' = [token EXCEPT ![r] = pending[r]]
  OBVIOUS
<1>b. \/ call' = call
      \/ \E p \in Epochs : /\ rev = 0 \/ p <= rev
                           /\ call' = [call EXCEPT ![r] = [phase |-> "begin", epoch |-> p, allow |-> TRUE]]
  <2>1. rev \in Int /\ rev <= rev
    BY EpochRange DEF StoreTypes
  <2> QED
    BY <2>1, Apart DEF CurrentPreparedRevision, Failed, Reconnect
<1>1. Genuine'
  BY Apart DEF Genuine, Real, StoreTypes, MemoryTypes, FlightTypes
<1>2. NotAhead'
  <2>1. r \in Callers
    BY DEF Callers
  <2>2. \A c \in Callers : \/ call'[c] = call[c]
                           \/ /\ call'[c].epoch \in Epochs
                              /\ rev = 0 \/ call'[c].epoch <= rev
    BY <1>b, <2>1 DEF CallTypes
  <2>3. \A q \in Epochs : /\ flight'[q] # "none" => flight[q] # "none"
                          /\ pending'[q] # None => pending[q] # None
    BY <1>a DEF FlightTypes, MemoryTypes
  <2>4. NotAhead /\ UNCHANGED <<rev, save, owner>>
    OBVIOUS
  <2> HIDE DEF IndInv, Persist
  <2> QED
    BY <2>2, <2>3, <2>4 DEF NotAhead, Reached
<1>3. Entries'
  BY DEF Entries, Opening, FlightTypes
<1>4. SentOnce'
  BY DEF SentOnce, Sent, FlightTypes
<1>5. Writable'
  BY Apart DEF Writable, Usable, StoreTypes, MemoryTypes, FlightTypes, CallTypes,
      OwnerTypes, ShutdownTypes
<1>6. RotationKept'
  <2>1. rev # 0 => rev \in Epochs
    BY EpochRange DEF StoreTypes
  <2> QED
    BY <1>a, <2>1 DEF RotationKept, FlightTypes
<1> QED
  BY <1>1, <1>2, <1>3, <1>4, <1>5, <1>6

\* The write is a new revision with a usable token.
LEMMA WriteInv ==
    ASSUME IndInv, ~Recreates, NEW r \in Epochs, Write(r)
    PROVE  Rotations'
<1> USE DEF IndInv, BaseInv, Rotations, Write, storeVars, providerVars, memoryVars,
        flightVars, shutdownVars, Replace, Ends
<1>a. /\ flight' = [flight EXCEPT ![r] = "ending"] \/ flight' = [flight EXCEPT ![r] = "wrote"]
         \/ flight' = [flight EXCEPT ![r] = "conflicted"]
      /\ token' = token \/ token' = [token EXCEPT ![r] = None]
  OBVIOUS
<1>b. \/ /\ UNCHANGED <<rev, held, reconnect>>
         /\ flight'[r] = "ending" \/ rev # r
      \/ rev = r /\ rev < MaxRevision /\ rev' = rev + 1 /\ held' = token[r] /\ reconnect' = FALSE
  BY DEF FlightTypes
<1>c. ASSUME rev = r, rev < MaxRevision, rev' = rev + 1, held' = token[r]
      PROVE  Genuine' /\ Entries' /\ SentOnce' /\ Writable' /\ RotationKept'
  <2>1. token[r] \in Tokens /\ token[r] # None /\ token[r].line = held.line
        /\ token[r] \notin consumed \ lost /\ rev # 0
    BY <1>c, Apart DEF Writable, Usable
  <2>2. token[r].line <= lines /\ (token[r].gen > 0 => Earlier(token[r]) \in consumed)
    BY <2>1 DEF Genuine, Real
  <2>3. lines \in Int /\ lines <= lines
    BY Apart DEF StoreTypes
  <2>4. \A q \in Epochs :
            /\ flight'[q] # "none" => flight[q] # "none"
            /\ flight'[q] \in Opening \union {"write"} => flight'[q] = flight[q]
            /\ flight[q] \in Opening \union {"ending"} => flight'[q] \in Opening \union {"ending"}
            /\ token'[q] = token[q] \/ token'[q] = None
            /\ flight'[q] \in Opening \union {"write"} => token'[q] = token[q]
    BY <1>a DEF FlightTypes, Opening
  <2>5. \A q \in Epochs : flight'[q] \in Sent => token[q].line < token[r].line
    BY <1>a, <1>c, <2>1, Apart DEF FlightTypes, Sent, SentOnce
  <2>6. UNCHANGED <<consumed, lost, lines, pending, save>>
    OBVIOUS
  <2> HIDE DEF IndInv, Write
  <2> QED
    BY <1>c, <2>1, <2>2, <2>3, <2>4, <2>5, <2>6, NewRevision
<1>1. Genuine'
  <2>1. CASE UNCHANGED <<rev, held>>
    BY <2>1, <1>a, Apart, EpochRange DEF Genuine, Real, FlightTypes
  <2> QED
    BY <1>b, <1>c, <2>1
<1>2. NotAhead'
  BY Apart, CallRecords DEF NotAhead, Reached, StoreTypes, MemoryTypes, FlightTypes,
      CallTypes, OwnerTypes, ShutdownTypes
<1>3. Entries'
  <2>1. CASE UNCHANGED <<rev, held>>
    BY <2>1, <1>a, Apart, EpochRange DEF Entries, Opening, FlightTypes
  <2> QED
    BY <1>b, <1>c, <2>1
<1>4. SentOnce'
  <2>1. CASE UNCHANGED <<rev, held>>
    <3>1. \A q \in Epochs : flight'[q] \in Sent => flight[q] \in Sent /\ token'[q] = token[q]
      BY <1>a DEF FlightTypes, Sent
    <3> QED
      BY <2>1, <3>1, SentFrame
  <2> QED
    BY <1>b, <1>c, <2>1
<1>5. Writable'
  <2>1. CASE UNCHANGED <<rev, held>> /\ (flight'[r] = "ending" \/ rev # r)
    BY <2>1, <1>a DEF Writable, Usable, FlightTypes
  <2> QED
    BY <1>b, <1>c, <2>1
<1>6. RotationKept'
  <2>1. CASE UNCHANGED <<rev, held>>
    BY <2>1, <1>a, Apart, EpochRange DEF RotationKept, FlightTypes, StoreTypes
  <2> QED
    BY <1>b, <1>c, <2>1
<1> QED
  BY <1>1, <1>2, <1>3, <1>4, <1>5, <1>6

\* The entry goes once the store has left its epoch.
LEMMA SettleInv ==
    ASSUME IndInv, ~Recreates, NEW r \in Epochs, Settle(r)
    PROVE  Rotations'
<1> USE DEF IndInv, BaseInv, Rotations, Settle, storeVars, providerVars, memoryVars,
        flightVars, shutdownVars, Persisted, Ends, Called
<1>a. /\ flight' = [flight EXCEPT ![r] = "nested"] \/ flight' = [flight EXCEPT ![r] = "ending"]
      /\ token' = [token EXCEPT ![r] = None]
      /\ pending' = [pending EXCEPT ![r] = None] /\ rev # r
  BY DEF Writable
<1>b. \/ call' = call
      \/ \E p \in Epochs : /\ rev = 0 \/ p <= rev
                           /\ call' = [call EXCEPT ![r] = [phase |-> "begin", epoch |-> p, allow |-> TRUE]]
  <2>1. rev \in Int /\ rev <= rev
    BY EpochRange DEF StoreTypes
  <2>2. rev = 0 \/ r + 1 <= rev
    BY <1>a, <2>1, Apart DEF NotAhead, Reached
  <2> QED
    BY <2>1, <2>2, Apart DEF CurrentPreparedRevision, Failed, Reconnect
<1>1. Genuine'
  BY Apart DEF Genuine, Real, MemoryTypes, FlightTypes
<1>2. NotAhead'
  <2>1. r \in Callers
    BY DEF Callers
  <2>2. \A c \in Callers : \/ call'[c] = call[c]
                           \/ /\ call'[c].epoch \in Epochs
                              /\ rev = 0 \/ call'[c].epoch <= rev
    BY <1>b, <2>1 DEF CallTypes
  <2>3. \A q \in Epochs : /\ flight'[q] # "none" => flight[q] # "none"
                          /\ pending'[q] # None => pending[q] # None
    BY <1>a DEF FlightTypes, MemoryTypes
  <2>4. NotAhead /\ UNCHANGED <<rev, save, owner>>
    OBVIOUS
  <2> HIDE DEF IndInv, Settle
  <2> QED
    BY <2>2, <2>3, <2>4 DEF NotAhead, Reached
<1>3. Entries'
  BY Apart DEF Entries, Opening, MemoryTypes, FlightTypes
<1>4. SentOnce'
  <2>1. \A q \in Epochs : flight'[q] \in Sent => flight[q] \in Sent /\ token'[q] = token[q]
    BY <1>a DEF FlightTypes, Sent
  <2> QED
    BY <2>1, SentFrame
<1>5. Writable'
  BY DEF Writable, Usable, MemoryTypes, FlightTypes
<1>6. RotationKept'
  <2>1. rev # 0 => rev \in Epochs
    BY EpochRange DEF StoreTypes
  <2> QED
    BY <1>a, <2>1 DEF RotationKept, FlightTypes, MemoryTypes
<1> QED
  BY <1>1, <1>2, <1>3, <1>4, <1>5, <1>6

\* A nested call of prepare returns to its flight.
LEMMA NestedReturnsInv ==
    ASSUME IndInv, ~Recreates, NEW r \in Epochs, NestedReturns(r)
    PROVE  Rotations'
<1> USE DEF IndInv, BaseInv, Rotations, NestedReturns, storeVars, providerVars, memoryVars,
        flightVars, shutdownVars, Ends, Idle
<1>1. Genuine'
  BY DEF Genuine, Real
<1>2. NotAhead'
  BY DEF NotAhead, Reached
<1>3. Entries'
  BY DEF Entries, Opening
<1>4. SentOnce'
  BY DEF SentOnce, Sent
<1>5. Writable'
  BY DEF Writable, Usable
<1>6. RotationKept'
  BY DEF RotationKept
<1> QED
  BY <1>1, <1>2, <1>3, <1>4, <1>5, <1>6

\* A flight that ends takes its empty entry along.
LEMMA LandInv ==
    ASSUME IndInv, ~Recreates, NEW r \in Epochs, Land(r)
    PROVE  Rotations'
<1> USE DEF IndInv, BaseInv, Rotations, Land, storeVars, providerVars, memoryVars,
        flightVars, shutdownVars
<1>1. Genuine'
  BY Apart DEF Genuine, Real, MemoryTypes
<1>2. NotAhead'
  BY DEF NotAhead, Reached
<1>3. Entries'
  BY Apart DEF Entries, Opening, MemoryTypes, FlightTypes
<1>4. SentOnce'
  BY DEF SentOnce, Sent
<1>5. Writable'
  BY Apart DEF Writable, Usable, MemoryTypes, FlightTypes
<1>6. RotationKept'
  BY Apart DEF RotationKept, MemoryTypes, FlightTypes
<1> QED
  BY <1>1, <1>2, <1>3, <1>4, <1>5, <1>6

\* The flight answers all who wait for it.
LEMMA DeliverInv ==
    ASSUME IndInv, ~Recreates, NEW r \in Epochs, Deliver(r)
    PROVE  Rotations'
<1> USE DEF IndInv, BaseInv, Rotations, Deliver, storeVars, providerVars, memoryVars,
        flightVars, shutdownVars, Answered, Idle, Automatic
<1>1. Genuine'
  BY DEF Genuine, Real
<1>2. NotAhead'
  BY DEF NotAhead, Reached
<1>3. Entries'
  BY DEF Entries, Opening
<1>4. SentOnce'
  BY DEF SentOnce, Sent
<1>5. Writable'
  BY DEF Writable, Usable
<1>6. RotationKept'
  BY DEF RotationKept
<1> QED
  BY <1>1, <1>2, <1>3, <1>4, <1>5, <1>6

\* A manual refresh starts at the current epoch.
LEMMA RefreshCredentialInv ==
    ASSUME IndInv, ~Recreates, NEW r \in Manual, RefreshCredential(r)
    PROVE  Rotations'
<1> USE DEF IndInv, BaseInv, Rotations, RefreshCredential, storeVars, providerVars,
        memoryVars, flightVars, shutdownVars, Called
<1>a. r \in Callers /\ rev \in Epochs /\ rev \in Int
  BY EpochRange DEF Callers, StoreTypes
<1>b. call' = [call EXCEPT ![r] = [phase |-> "begin", epoch |-> rev, allow |-> TRUE]]
  OBVIOUS
<1>1. Genuine' /\ Entries' /\ SentOnce' /\ Writable' /\ RotationKept'
  BY DEF Genuine, Real, Entries, SentOnce, Writable, Usable, RotationKept
<1>2. NotAhead'
  <2>1. \A c \in Callers : call'[c] = call[c] \/ (call'[c].epoch \in Epochs /\ call'[c].epoch <= rev)
    BY <1>a, <1>b DEF CallTypes
  <2>2. NotAhead /\ UNCHANGED <<rev, save, pending, flight>> /\ owner'.phase = "refreshing"
    BY DEF OwnerTypes
  <2> HIDE DEF IndInv, RefreshCredential
  <2> QED
    BY <2>1, <2>2 DEF NotAhead, Reached
<1> QED
  BY <1>1, <1>2

\* A manual refresh ends.
LEMMA CredentialRefreshedInv ==
    ASSUME IndInv, ~Recreates, CredentialRefreshed
    PROVE  Rotations'
<1> USE DEF IndInv, BaseInv, Rotations, CredentialRefreshed, storeVars, providerVars,
        memoryVars, flightVars, shutdownVars
<1>1. Genuine' /\ Entries' /\ SentOnce' /\ Writable' /\ RotationKept'
  BY DEF Genuine, Real, Entries, SentOnce, Writable, Usable, RotationKept
<1>2. NotAhead'
  BY DEF NotAhead, Reached
<1> QED
  BY <1>1, <1>2

\* The Owner's credential is a new revision of a new line.
LEMMA ReplaceSecretInv ==
    ASSUME IndInv, ~Recreates, ReplaceSecret
    PROVE  Rotations'
<1> USE DEF IndInv, BaseInv, Rotations, ReplaceSecret, storeVars, providerVars, memoryVars,
        flightVars, shutdownVars, Enter
<1> DEFINE t == [line |-> lines + 1, gen |-> 0]
<1>a. /\ rev # 0 /\ rev < MaxRevision /\ rev' = rev + 1
      /\ lines < MaxLine /\ lines' = lines + 1 /\ held' = t /\ reconnect' = FALSE
  OBVIOUS
<1>b. lines \in Int /\ lines >= 1 /\ t \in Tokens /\ t.line = lines + 1 /\ t.gen = 0
  BY <1>a, Apart DEF StoreTypes, Tokens
<1>c. Genuine' /\ Entries' /\ SentOnce' /\ Writable' /\ RotationKept'
  <2>1. t \notin consumed
    BY <1>b, TokenFields DEF Genuine, Real, StoreTypes
  <2>2. t.line <= lines' /\ (t.gen > 0 => Earlier(t) \in consumed) /\ lines' \in Int /\ lines <= lines'
    BY <1>a, <1>b
  <2>3. \A q \in Epochs : flight[q] \in Sent => token[q].line < t.line
    BY <1>b, TokenFields, Apart DEF SentOnce, Genuine, Real
  <2>4. UNCHANGED <<consumed, lost, pending, flight, token, save>>
    OBVIOUS
  <2> HIDE DEF IndInv, ReplaceSecret, t
  <2> QED
    BY <1>a, <1>b, <2>1, <2>2, <2>3, <2>4, NewRevision
<1>1. Genuine'
  BY <1>c
<1>2. NotAhead'
  BY Apart DEF NotAhead, Reached, StoreTypes, OwnerTypes
<1>3. Entries'
  BY <1>c
<1>4. SentOnce'
  BY <1>c
<1>5. Writable'
  BY <1>c
<1>6. RotationKept'
  BY <1>c
<1> QED
  BY <1>1, <1>2, <1>3, <1>4, <1>5, <1>6

\* Forget drops the entries of epochs the store has left.
LEMMA SecretReplacedInv ==
    ASSUME IndInv, ~Recreates, SecretReplaced
    PROVE  Rotations'
<1> USE DEF IndInv, BaseInv, Rotations, SecretReplaced, storeVars, providerVars, memoryVars,
        flightVars, shutdownVars, Forget
<1>1. SentOnce'
  BY DEF SentOnce
<1>2. Genuine'
  BY Apart DEF Genuine, Real, MemoryTypes
<1>3. NotAhead'
  BY DEF NotAhead, Reached
<1>4. Entries'
  BY Apart, EpochRange DEF Entries, Opening, StoreTypes, MemoryTypes, FlightTypes,
      NotAhead, Reached, OwnerTypes
<1>5. Writable'
  BY Apart DEF Writable, Usable, MemoryTypes
<1>6. RotationKept'
  BY Apart, EpochRange DEF RotationKept, StoreTypes, MemoryTypes, FlightTypes, NotAhead,
      Reached, OwnerTypes
<1> QED
  BY <1>1, <1>2, <1>3, <1>4, <1>5, <1>6

\* Without a stored credential nothing is owed.
LEMMA DeleteSecretInv ==
    ASSUME IndInv, ~Recreates, DeleteSecret
    PROVE  Rotations'
<1> USE DEF IndInv, BaseInv, Rotations, DeleteSecret, storeVars, providerVars, memoryVars,
        flightVars, shutdownVars
<1>1. Genuine'
  BY DEF Genuine, Real
<1>2. NotAhead'
  BY DEF NotAhead, Reached
<1>3. Entries'
  BY Apart DEF Entries, Opening, StoreTypes
<1>4. SentOnce'
  BY Apart DEF SentOnce, Sent, StoreTypes
<1>5. Writable'
  <2>1. \A e \in Epochs : rev' # e
    BY Apart
  <2> QED
    BY <2>1, Apart DEF Writable, Usable, NotAhead
<1>6. RotationKept'
  BY DEF RotationKept
<1> QED
  BY <1>1, <1>2, <1>3, <1>4, <1>5, <1>6

\* Forget drops every entry after the deletion.
LEMMA SecretDeletedInv ==
    ASSUME IndInv, ~Recreates, SecretDeleted
    PROVE  Rotations'
<1> USE DEF IndInv, BaseInv, Rotations, SecretDeleted, storeVars, providerVars, memoryVars,
        flightVars, shutdownVars, Forget
<1>1. SentOnce'
  BY DEF SentOnce
<1>2. Genuine'
  BY Apart DEF Genuine, Real, MemoryTypes
<1>3. NotAhead'
  BY DEF NotAhead, Reached
<1>4. Entries'
  BY Apart, EpochRange DEF Entries, Opening, StoreTypes, MemoryTypes, FlightTypes,
      NotAhead, Reached, OwnerTypes
<1>5. Writable'
  BY Apart DEF Writable, Usable, MemoryTypes
<1>6. RotationKept'
  BY Apart, EpochRange DEF RotationKept, StoreTypes, MemoryTypes, FlightTypes, NotAhead,
      Reached, OwnerTypes
<1> QED
  BY <1>1, <1>2, <1>3, <1>4, <1>5, <1>6

\* Closing.
LEMMA ShutdownInv ==
    ASSUME IndInv, ~Recreates, NEW s \in Closers, Shutdown(s)
    PROVE  Rotations'
<1> USE DEF IndInv, BaseInv, Rotations, Shutdown, storeVars, providerVars, memoryVars,
        flightVars, shutdownVars
<1>1. Genuine' /\ NotAhead' /\ Entries' /\ SentOnce' /\ Writable' /\ RotationKept'
  BY DEF Genuine, Real, NotAhead, Reached, Entries, SentOnce, Writable, Usable, RotationKept
<1> QED
  BY <1>1

\* The saves begin with every entry on their list.
LEMMA BeginSavesInv ==
    ASSUME IndInv, ~Recreates, NEW s \in Closers, BeginSaves(s)
    PROVE  Rotations'
<1> USE DEF IndInv, BaseInv, Rotations, BeginSaves, storeVars, providerVars, memoryVars,
        flightVars, shutdownVars, Drained, NoSave
<1>1. Entries' /\ SentOnce' /\ RotationKept'
  BY DEF Entries, SentOnce, RotationKept
<1>2. Genuine'
  BY DEF Genuine, Real
<1>3. NotAhead'
  BY DEF NotAhead, Reached
<1>4. Writable'
  BY DEF Writable, Usable
<1> QED
  BY <1>1, <1>2, <1>3, <1>4

\* A caller of Shutdown gives up.
LEMMA ShutdownGivesUpInv ==
    ASSUME IndInv, ~Recreates, NEW s \in Closers, ShutdownGivesUp(s)
    PROVE  Rotations'
<1> USE DEF IndInv, BaseInv, Rotations, ShutdownGivesUp, storeVars, providerVars,
        memoryVars, flightVars, shutdownVars
<1>1. Genuine' /\ NotAhead' /\ Entries' /\ SentOnce' /\ Writable' /\ RotationKept'
  BY DEF Genuine, Real, NotAhead, Reached, Entries, SentOnce, Writable, Usable, RotationKept
<1> QED
  BY <1>1

\* One entry is taken off the list, and its credential copied.
LEMMA SavePendingInv ==
    ASSUME IndInv, ~Recreates, NEW e \in Epochs, SavePending(e)
    PROVE  Rotations'
<1> USE DEF IndInv, BaseInv, Rotations, SavePending, storeVars, providerVars, memoryVars,
        flightVars, shutdownVars
<1>a. /\ save \in Saves /\ save.todo \subseteq Epochs
      /\ pending[e] # None /\ pending[e] # Empty => pending[e] \in Tokens
  BY SaveRecords DEF ShutdownTypes, MemoryTypes
<1>b. \/ /\ pending[e] = None
         /\ save' = [save EXCEPT !.todo = @ \ {e}]
         /\ save'.phase = "pick" /\ save'.token = save.token /\ save'.failed = save.failed
         /\ save'.todo = save.todo \ {e}
      \/ /\ pending[e] \in Tokens
         /\ save' = [save EXCEPT !.phase = "write", !.todo = @ \ {e}, !.epoch = e, !.token = pending[e]]
         /\ save'.phase = "write" /\ save'.token = pending[e] /\ save'.failed = save.failed
         /\ save'.todo = save.todo \ {e} /\ save'.epoch = e
  BY <1>a DEF Saves
<1>1. Entries' /\ SentOnce' /\ RotationKept'
  BY DEF Entries, SentOnce, RotationKept
<1>2. Genuine'
  <2>1. Genuine /\ Closing /\ Genuine /\ NotAhead /\ Writable /\ save.phase = "pick" /\ e \in save.todo
        /\ UNCHANGED <<storeVars, providerVars, memoryVars, flightVars, call, owner, closer>>
    OBVIOUS
  <2> HIDE DEF IndInv, SavePending
  <2> QED
    BY <1>b, <2>1, Apart DEF Genuine, Real
<1>3. NotAhead'
  <2>1. NotAhead /\ Closing /\ Genuine /\ NotAhead /\ Writable /\ save.phase = "pick" /\ e \in save.todo
        /\ UNCHANGED <<storeVars, providerVars, memoryVars, flightVars, call, owner, closer>>
    OBVIOUS
  <2> HIDE DEF IndInv, SavePending
  <2> QED
    BY <1>b, <2>1, Apart DEF NotAhead, Reached
<1>4. Writable'
  <2>1. Writable /\ Closing /\ Genuine /\ NotAhead /\ Writable /\ save.phase = "pick" /\ e \in save.todo
        /\ UNCHANGED <<storeVars, providerVars, memoryVars, flightVars, call, owner, closer>>
    OBVIOUS
  <2> HIDE DEF IndInv, SavePending
  <2> QED
    BY <1>b, <2>1, Apart DEF Writable, Usable
<1> QED
  BY <1>1, <1>2, <1>3, <1>4

\* The save's write is a new revision with a usable token; a failure is noted.
LEMMA SaveWritesInv ==
    ASSUME IndInv, ~Recreates, SaveWrites
    PROVE  Rotations'
<1> USE DEF IndInv, BaseInv, Rotations, SaveWrites, storeVars, providerVars, memoryVars,
        flightVars, shutdownVars, Replace
<1>a. save \in Saves /\ save.epoch \in Epochs /\ save.token \in Tokens
  BY DEF ShutdownTypes, NotAhead, Writable
<1>b. \/ UNCHANGED <<rev, held, reconnect>>
      \/ /\ rev = save.epoch /\ rev < MaxRevision /\ rev' = rev + 1 /\ held' = save.token
         /\ reconnect' = FALSE
  OBVIOUS
<1>c. \/ /\ save' = [save EXCEPT !.phase = "settle"]
         /\ save'.phase = "settle" /\ save'.token = save.token /\ save'.epoch = save.epoch
         /\ save'.failed = save.failed /\ save'.todo = save.todo
         /\ rev' # save.epoch
      \/ /\ save'.phase = "pick" /\ save'.token = None /\ save'.todo = save.todo
         /\ save'.failed <=> (save.failed \/ pending[save.epoch] # None)
  <2>1. rev \in Int
    BY EpochRange DEF StoreTypes
  <2>2. CASE save' = [save EXCEPT !.phase = "settle"] /\ rev' # save.epoch
    BY <1>a, <2>2 DEF Saves
  <2>3. CASE save' = [save EXCEPT !.phase = "pick", !.epoch = 0, !.token = None,
                                  !.failed = @ \/ pending[save.epoch] # None]
    <3>1. save'.phase = "pick" /\ save'.token = None /\ save'.todo = save.todo
      BY <1>a, <2>3 DEF Saves
    <3>2. save'.failed <=> (save.failed \/ pending[save.epoch] # None)
      BY <1>a, <2>3, Zenon DEF Saves
    <3> QED
      BY <3>1, <3>2
  <2> QED
    BY <2>1, <2>2, <2>3
<1>d. /\ save.phase = "write" /\ closing
      /\ \A q \in Epochs : flight[q] \in {"none", "begin", "landed"}
  BY DEF Closing, Airborne
<1>e. ASSUME rev = save.epoch, rev < MaxRevision, rev' = rev + 1, held' = save.token
      PROVE  Genuine' /\ Entries' /\ SentOnce' /\ Writable' /\ RotationKept'
  <2>1. save.token # None /\ save.token.line = held.line /\ save.token \notin consumed \ lost /\ rev # 0
    BY <1>a, <1>d, <1>e, Apart DEF Writable, Usable
  <2>2. save.token.line <= lines /\ (save.token.gen > 0 => Earlier(save.token) \in consumed)
    BY <2>1 DEF Genuine, Real
  <2>3. lines \in Int /\ lines <= lines
    BY Apart DEF StoreTypes
  <2>4. \A q \in Epochs : flight[q] \notin Sent
    BY <1>d DEF Sent
  <2>5. UNCHANGED <<consumed, lost, lines, pending, flight, token>>
    OBVIOUS
  <2> HIDE DEF IndInv, SaveWrites
  <2> QED
    BY <1>a, <1>c, <1>d, <1>e, <2>1, <2>2, <2>3, <2>4, <2>5, NewRevision
<1>1. Genuine'
  <2>1. CASE UNCHANGED <<rev, held>>
    <3>1. Genuine /\ UNCHANGED <<providerVars, memoryVars, flightVars>>
      OBVIOUS
    <3> HIDE DEF IndInv, SaveWrites
    <3> QED
      BY <1>c, <1>d, <2>1, <3>1 DEF Genuine, Real
  <2> QED
    BY <1>b, <1>e, <2>1
<1>2. NotAhead'
  <2>1. \A e \in Epochs : Reached(e) => Reached(e)'
    <3>1. rev \in Int /\ (rev = save.epoch => rev > 0)
      BY <1>a, Apart, EpochRange DEF StoreTypes
    <3> QED
      BY <1>b, <3>1, Apart DEF Reached
  <2>2. (rev = 0 => rev' = 0) /\ rev <= rev'
    BY <1>a, <1>b, Apart, EpochRange DEF StoreTypes
  <2>3. NotAhead /\ UNCHANGED <<pending, flight, call, owner>>
    OBVIOUS
  <2>4. owner.rev \in Int /\ rev \in Int /\ rev' \in Int
    BY <1>b, EpochRange DEF OwnerTypes, StoreTypes
  <2> HIDE DEF IndInv, SaveWrites
  <2> QED
    BY <1>a, <1>c, <1>d, <2>1, <2>2, <2>3, <2>4 DEF NotAhead
<1>3. Entries'
  <2>1. CASE UNCHANGED <<rev, held>>
    <3>1. Entries /\ UNCHANGED <<providerVars, memoryVars, flightVars>>
      OBVIOUS
    <3> HIDE DEF IndInv, SaveWrites
    <3> QED
      BY <1>c, <1>d, <2>1, <3>1 DEF Entries
  <2> QED
    BY <1>b, <1>e, <2>1
<1>4. SentOnce'
  <2>1. CASE UNCHANGED <<rev, held>>
    <3>1. SentOnce /\ UNCHANGED <<providerVars, memoryVars, flightVars>>
      OBVIOUS
    <3> HIDE DEF IndInv, SaveWrites
    <3> QED
      BY <1>c, <1>d, <2>1, <3>1 DEF SentOnce
  <2> QED
    BY <1>b, <1>e, <2>1
<1>5. Writable'
  <2>1. CASE UNCHANGED <<rev, held>>
    <3>1. Writable /\ UNCHANGED <<providerVars, memoryVars, flightVars>>
      OBVIOUS
    <3> HIDE DEF IndInv, SaveWrites
    <3> QED
      BY <1>c, <1>d, <2>1, <3>1 DEF Writable, Usable
  <2> QED
    BY <1>b, <1>e, <2>1
<1>6. RotationKept'
  <2>1. CASE UNCHANGED <<rev, held>>
    <3>1. RotationKept /\ UNCHANGED <<providerVars, memoryVars, flightVars>>
      OBVIOUS
    <3> HIDE DEF IndInv, SaveWrites
    <3> QED
      BY <1>c, <1>d, <2>1, <3>1 DEF RotationKept
  <2> QED
    BY <1>b, <1>e, <2>1
<1> QED
  BY <1>1, <1>2, <1>3, <1>4, <1>5, <1>6

\* The entry goes once the store has left its epoch.
LEMMA SaveSettlesInv ==
    ASSUME IndInv, ~Recreates, SaveSettles
    PROVE  Rotations'
<1> USE DEF IndInv, BaseInv, Rotations, SaveSettles, storeVars, providerVars, memoryVars,
        flightVars, shutdownVars
<1>a. save \in Saves /\ save.epoch \in Epochs /\ rev # save.epoch
  BY DEF ShutdownTypes, NotAhead, Writable
<1>b. \A q \in Epochs : flight[q] \in {"none", "begin", "landed"}
  BY DEF Closing, Airborne
<1>1. SentOnce'
  BY DEF SentOnce
<1>2. Genuine'
  BY Apart DEF Genuine, Real, MemoryTypes, ShutdownTypes
<1>3. NotAhead'
  BY DEF NotAhead, Reached
<1>4. Entries'
  <2>1. \A q \in Epochs : pending'[q] # Empty
    BY <1>a, <1>b, Apart DEF Entries, Opening, MemoryTypes
  <2>2. \A q \in Epochs : flight'[q] \notin Opening
    BY <1>b DEF Opening
  <2> QED
    BY <2>1, <2>2 DEF Entries
<1>5. Writable'
  BY DEF Writable, Usable
<1>6. RotationKept'
  <2>1. rev # 0 => rev \in Epochs
    BY EpochRange DEF StoreTypes
  <2> QED
    BY <1>a, <2>1 DEF RotationKept, MemoryTypes
<1> QED
  BY <1>1, <1>2, <1>3, <1>4, <1>5, <1>6

\* Shutdown returns; if no save failed, no entry is left.
LEMMA ShutdownReturnsInv ==
    ASSUME IndInv, ~Recreates, NEW s \in Closers, ShutdownReturns(s)
    PROVE  Rotations'
<1> USE DEF IndInv, BaseInv, Rotations, ShutdownReturns, storeVars, providerVars,
        memoryVars, flightVars, shutdownVars, NoSave
<1>1. Entries' /\ SentOnce' /\ RotationKept'
  BY DEF Entries, SentOnce, RotationKept
<1>2. Genuine'
  BY DEF Genuine, Real
<1>3. NotAhead'
  BY DEF NotAhead, Reached
<1>4. Writable'
  BY DEF Writable, Usable
<1> QED
  BY <1>1, <1>2, <1>3, <1>4

-----------------------------------------------------------------------------
\* The invariant holds of a fresh manager over a stored credential.
LEMMA InitInv == Init => IndInv
<1> SUFFICES ASSUME Init PROVE Rotations
  BY InitBase DEF IndInv
<1> USE DEF Init
<1>0. 1 \in Epochs /\ [line |-> 1, gen |-> 0] \in Tokens
  BY OAuthAssumption DEF Epochs, Tokens
<1>1. Genuine
  BY <1>0, Apart DEF Genuine, Real, NoSave
<1>2. NotAhead
  BY <1>0, Apart DEF NotAhead, Reached, Idle, NoSave
<1>3. Entries /\ SentOnce /\ Writable
  BY Apart DEF Entries, Opening, SentOnce, Sent, Writable, NoSave
<1>4. RotationKept
  BY <1>0, Apart DEF RotationKept
<1> QED
  BY <1>1, <1>2, <1>3, <1>4 DEF Rotations

\* Every step keeps it, if no credential is entered again after a deletion.
LEMMA NextInv ==
    ASSUME IndInv, ~Recreates, Next
    PROVE  IndInv'
<1>0. BaseInv'
  BY NextBase DEF IndInv
<1> SUFFICES Rotations'
  BY <1>0 DEF IndInv
<1>1. CASE \E c \in Leases, e \in Epochs, automatic \in BOOLEAN : Acquire(c, e, automatic)
  BY <1>1, AcquireInv
<1>2. CASE \E c \in Callers : PrepareStep(c)
  BY <1>2, PrepareInv, PrepareReadsInv, ConsultPermanentInv, JoinFlightInv, CallerLeavesInv
     DEF PrepareStep
<1>3. CASE \E r \in Epochs : RefreshStep(r)
  BY <1>3, RefreshInv, RefreshRefusedInv, ReadCredentialInv, GrantedInv, UnavailableInv,
     DeniedInv, FreezeInv, RetainInv, PersistInv, WriteInv, SettleInv, NestedReturnsInv,
     LandInv, DeliverInv DEF RefreshStep
<1>4. CASE OwnerStep
  BY <1>4, RefreshCredentialInv, CredentialRefreshedInv, ReplaceSecretInv, SecretReplacedInv,
     DeleteSecretInv, SecretDeletedInv, InspectInv DEF OwnerStep, Create
<1>5. CASE ShutdownStep
  BY <1>5, ShutdownInv, BeginSavesInv, ShutdownGivesUpInv, SavePendingInv, SaveWritesInv,
     SaveSettlesInv, ShutdownReturnsInv DEF ShutdownStep
<1> QED
  BY <1>1, <1>2, <1>3, <1>4, <1>5 DEF Next

\* A step that changes nothing keeps it.
LEMMA StutterInv ==
    ASSUME IndInv, UNCHANGED vars
    PROVE  IndInv'
<1> USE DEF IndInv, Rotations, vars, storeVars, providerVars, memoryVars, flightVars, shutdownVars
<1>0. BaseInv'
  BY StutterBase
<1>1. Genuine' /\ NotAhead' /\ Entries' /\ SentOnce'
  BY DEF Genuine, Real, NotAhead, Reached, Entries, SentOnce
<1>2. Writable' /\ RotationKept'
  BY DEF Writable, Usable, RotationKept
<1> QED
  BY <1>0, <1>1, <1>2

\* The inductive invariant of the manager, its callers, the store and the
\* provider, for any number of leases, epochs, rotations and calls of Shutdown.
THEOREM OAuthInvariant ==
    ASSUME ~Recreates
    PROVE  Spec => []IndInv
<1>1. IndInv /\ [Next]_vars => IndInv'
  BY NextInv, StutterInv
<1> QED
  BY <1>1, InitInv, PTL DEF Spec

\* The replacement of a consumed refresh token is never lost: refresh retains it
\* until its compare-and-swap commits, whatever Forget, failed saves and other
\* flights do in between.
THEOREM OAuthRotationKept ==
    ASSUME ~Recreates
    PROVE  Spec => []RotationKept
<1>1. IndInv => RotationKept
  BY DEF IndInv, Rotations
<1> QED
  BY <1>1, OAuthInvariant, PTL

\* A refresh token that was consumed is never sent to the provider again.
THEOREM OAuthNoReplay ==
    ASSUME ~Recreates
    PROVE  Spec => []NoReplay
<1>1. IndInv => NoReplay
  BY DEF IndInv, Rotations, SentOnce, Sent, NoReplay
<1> QED
  BY <1>1, OAuthInvariant, PTL
=============================================================================
