----------------------- MODULE RetainedAdmissionProofs -----------------------
(***************************************************************************)
(* Proofs about RetainedAdmission for any number of subscriptions, keys    *)
(* and changes. A read of the source counts only at the version its entry  *)
(* still has, and everything that could make the read out of date moves    *)
(* the version on or takes the entry out: from that the invariant follows  *)
(* what an answer is worth when it is applied.                             *)
(***************************************************************************)
EXTENDS RetainedAdmission, TLAPS

\* The entry is in Retained.entries.
InUse(e) == entries[KeyOf[e]] = e

Types ==
    /\ TypeOK
    /\ targets = [c \in Changes |-> targets[c]]
    /\ \A c \in Changes : DOMAIN targets[c] \subseteq Subs

\* Subscriptions and entries point at each other.
Rooted ==
    /\ \A s \in Subs :
           /\ sub[s] = "idle" => entryOf[s] = None /\ s \notin withdrawn
           /\ sub[s] # "idle" => /\ entryOf[s] \in Subs /\ sub[entryOf[s]] # "idle"
                                 /\ KeyOf[entryOf[s]] = KeyOf[s]
           /\ sub[s] \in {"waiting", "active"} => s \in subscribers[entryOf[s]]
    /\ \A e \in Subs : \A s \in subscribers[e] :
           entryOf[s] = e /\ sub[s] \in {"waiting", "active", "failed"}
    /\ \A k \in Keys : entries[k] # None => KeyOf[entries[k]] = k /\ subscribers[entries[k]] # {}

\* Who has subscribed and is not withdrawn has an entry that is in use.
Withdrawals ==
    \A e \in Subs : \A s \in subscribers[e] : s \in withdrawn <=> ~(accepting /\ InUse(e))

\* The marks, and what has been read of them.
Versions ==
    \A e \in Subs :
        /\ checked[e] <= version[e]
        /\ e \notin dirty => checked[e] = version[e]
        /\ worker.entry = e => worker.version <= version[e]
        /\ ~InUse(e) => subscribers[e] = {} \/ checked[e] = version[e]

\* The permission is there, or somebody has yet to find out that it is not.
Standing(k) ==
    \/ k \in valid \/ k \in expired
    \/ \E c \in Changes : change[c] = "committed" /\ k \in RevokedBy[c]

\* What the worker's answer is worth, if it counts.
Answers ==
    /\ \A e \in Subs : accepting /\ InUse(e) /\ e \notin dirty => Standing(KeyOf[e])
    /\ Reading =>
           /\ worker.answer = "accepted" /\ StillCurrent => Standing(KeyOf[worker.entry])
           /\ worker.answer = "refused" => KeyOf[worker.entry] \notin valid
           /\ worker.cut \/ worker.answer = "canceled" => ~StillCurrent

\* The operations that are withdrawn are canceled.
Owing ==
    /\ Reading => owed["worker"] = {}
    /\ accepting => owed["shutdown"] = {}
    /\ \A s \in Subs :
           sub[s] = "active" /\ s \in withdrawn =>
               s \in canceled \/ \E w \in {"worker", "shutdown"} : s \in owed[w]

\* No read of the entry at this version, or a later one, finds it permitted.
Barred(e, n) ==
    /\ KeyOf[e] \notin valid
    /\ worker.entry = e /\ worker.version >= n => worker.answer # "accepted"
    /\ checked[e] >= n => ~InUse(e)

Revoking(c) ==
    /\ change[c] # "idle" => RevokedBy[c] \intersect valid = {}
    /\ change[c] # "waiting" => joining[c] = {} /\ DOMAIN targets[c] = {}
    /\ \A e \in DOMAIN targets[c] :
           /\ sub[e] # "idle" /\ targets[c][e] <= version[e]
           /\ KeyOf[e] \in RevokedBy[c] => Barred(e, targets[c][e])
    /\ \A s \in joining[c] :
           sub[s] # "idle" /\ (s \notin withdrawn => entryOf[s] \in DOMAIN targets[c])
    /\ change[c] \in {"waiting", "returned"} =>
           \A s \in Subs \ joining[c] : KeyOf[s] \in RevokedBy[c] =>
               /\ sub[s] # "active"
               /\ sub[s] = "waiting" => s \in withdrawn \/ Barred(entryOf[s], asked[s])

Revocations == \A c \in Changes : Revoking(c)

Ended == shutdown = "returned" => ~accepting /\ \A s \in Subs : sub[s] \in {"idle", "done"}

IndInv ==
    /\ Types /\ Rooted /\ Withdrawals /\ Versions /\ Answers /\ Owing /\ Revocations /\ Ended

-----------------------------------------------------------------------------
(* Parts of the state                                                      *)

Workers == Reads \union {Idle, Exited}

LEMMA TypeParts ==
    ASSUME Types
    PROVE  /\ valid \subseteq Keys /\ expired \subseteq Keys
           /\ entries \in [Keys -> Subs \union {None}] /\ entryOf \in [Subs -> Subs \union {None}]
           /\ subscribers \in [Subs -> SUBSET Subs]
           /\ version \in [Subs -> Nat] /\ checked \in [Subs -> Nat] /\ asked \in [Subs -> Nat]
           /\ dirty \subseteq Subs /\ known \subseteq Subs /\ sub \in [Subs -> SubPhases]
           /\ withdrawn \subseteq Subs /\ canceled \subseteq Subs
           /\ owed \in [{"worker", "shutdown"} -> SUBSET Subs] /\ worker \in Workers
           /\ accepting \in BOOLEAN /\ change \in [Changes -> ChangePhases]
           /\ joining \in [Changes -> SUBSET Subs]
           /\ targets = [c \in Changes |-> targets[c]]
           /\ \A c \in Changes : /\ targets[c] \in [DOMAIN targets[c] -> Nat]
                                 /\ DOMAIN targets[c] \subseteq Subs
  BY Zenon DEF Types, TypeOK, Workers

LEMMA TypesTogether ==
    ASSUME valid' \subseteq Keys, expired' \subseteq Keys,
           entries' \in [Keys -> Subs \union {None}], entryOf' \in [Subs -> Subs \union {None}],
           subscribers' \in [Subs -> SUBSET Subs],
           version' \in [Subs -> Nat], checked' \in [Subs -> Nat], asked' \in [Subs -> Nat],
           dirty' \subseteq Subs, known' \subseteq Subs, sub' \in [Subs -> SubPhases],
           withdrawn' \subseteq Subs, canceled' \subseteq Subs,
           owed' \in [{"worker", "shutdown"} -> SUBSET Subs], worker' \in Workers,
           accepting' \in BOOLEAN, change' \in [Changes -> ChangePhases],
           joining' \in [Changes -> SUBSET Subs], targets' = [c \in Changes |-> targets'[c]],
           \A c \in Changes : /\ targets'[c] \in [DOMAIN targets'[c] -> Nat]
                              /\ DOMAIN targets'[c] \subseteq Subs
    PROVE  Types'
  BY Zenon DEF Types, TypeOK, Workers

\* The worker reads one of the entries, or none.
LEMMA WorkerParts ==
    ASSUME NEW w \in Workers
    PROVE  /\ w.entry \in Subs \union {None} /\ w.version \in Nat
           /\ w.entry # None => w \in Reads /\ w.entry \in Subs
           /\ w.entry = None => w \in {Idle, Exited}
<1>1. CASE w \in Reads
  BY <1>1, RetainedAssumption DEF Reads
<1>2. CASE w \in {Idle, Exited}
  <2>1. Idle.entry = None /\ Idle.version = 0 /\ Exited.entry = None /\ Exited.version = 0
    BY DEF Idle, Exited
  <2> QED
    BY <1>2, <2>1
<1> QED
  BY <1>1, <1>2 DEF Workers

\* Cutting a read off changes nothing but its context.
LEMMA CutParts ==
    ASSUME worker \in Workers, NEW E \in SUBSET Subs
    PROVE  /\ Cut(E) \in Workers /\ Cut(E).entry = worker.entry /\ Cut(E).version = worker.version
           /\ Cut(E).answer = worker.answer
           /\ Cut(E).cut => worker.cut \/ worker.entry \in E
<1>1. CASE worker.entry \in E /\ worker.answer = "pending"
  <2>1. Cut(E) = [worker EXCEPT !.cut = TRUE]
    BY <1>1 DEF Cut
  <2>2. worker \in Reads
    BY <1>1, WorkerParts, RetainedAssumption
  <2>3. [worker EXCEPT !.cut = TRUE] \in Reads
    BY <2>2 DEF Reads
  <2>4. /\ [worker EXCEPT !.cut = TRUE].entry = worker.entry
        /\ [worker EXCEPT !.cut = TRUE].version = worker.version
        /\ [worker EXCEPT !.cut = TRUE].answer = worker.answer
    BY <2>2 DEF Reads
  <2> QED
    BY <1>1, <2>1, <2>3, <2>4 DEF Workers
<1>2. CASE ~(worker.entry \in E /\ worker.answer = "pending")
  BY <1>2 DEF Cut
<1> QED
  BY <1>1, <1>2

LEMMA BumpParts ==
    ASSUME version \in [Subs -> Nat], NEW E \in SUBSET Subs
    PROVE  /\ Bump(E) \in [Subs -> Nat]
           /\ \A e \in Subs : Bump(E)[e] = IF e \in E THEN version[e] + 1 ELSE version[e]
  BY DEF Bump

\* The entries that are in use are the live ones.
LEMMA LiveInUse ==
    ASSUME Types, Rooted
    PROVE  Live = {e \in Subs : InUse(e)}
<1>1. entries \in [Keys -> Subs \union {None}] /\ KeyOf \in [Subs -> Keys] /\ None \notin Subs
  BY TypeParts, RetainedAssumption
<1>2. ASSUME NEW e \in Live PROVE e \in Subs /\ InUse(e)
  BY <1>1 DEF Live, InUse, Rooted
<1>3. ASSUME NEW e \in Subs, InUse(e) PROVE e \in Live
  BY <1>1, <1>3 DEF Live, InUse
<1> QED
  BY <1>2, <1>3

\* An entry of which nobody has been subscribed yet is not in use.
LEMMA FreshEntry ==
    ASSUME Types, Rooted, NEW s \in Subs, sub[s] = "idle"
    PROVE  ~InUse(s) /\ subscribers[s] = {}
<1>1. subscribers[s] = {}
  BY TypeParts DEF Rooted
<1>2. ~InUse(s)
  BY <1>1, TypeParts, RetainedAssumption DEF Rooted, InUse
<1> QED
  BY <1>1, <1>2

\* A subscription that runs, or waits to, and was not withdrawn.
LEMMA NotWithdrawn ==
    ASSUME Types, Rooted, Withdrawals, NEW s \in Subs, sub[s] \in {"waiting", "active"}, s \notin withdrawn
    PROVE  /\ accepting /\ entryOf[s] \in Subs /\ InUse(entryOf[s])
           /\ s \in subscribers[entryOf[s]] /\ KeyOf[entryOf[s]] = KeyOf[s]
<1>1. entryOf[s] \in Subs /\ s \in subscribers[entryOf[s]] /\ KeyOf[entryOf[s]] = KeyOf[s]
  BY DEF Rooted
<1> QED
  BY <1>1 DEF Withdrawals

-----------------------------------------------------------------------------
(* Revocation                                                              *)

LEMMA BarredStays ==
    ASSUME NEW e \in Subs, NEW n \in Nat, Barred(e, n), valid' \subseteq valid,
           worker'.entry = e /\ worker'.answer = "accepted" =>
               worker.entry = e /\ worker'.version = worker.version /\ worker.answer = "accepted",
           entries'[KeyOf[e]] = e => /\ InUse(e)
                                     /\ \/ checked'[e] = checked[e]
                                        \/ /\ worker.entry = e /\ worker.answer = "accepted"
                                           /\ checked'[e] = worker.version
    PROVE  /\ KeyOf[e] \notin valid'
           /\ worker'.entry = e /\ worker'.version >= n => worker'.answer # "accepted"
           /\ checked'[e] >= n => entries'[KeyOf[e]] # e
  BY DEF Barred, InUse

\* What the other steps leave of the calls of Changed: permissions only go, entries
\* do not come back, and a read is accepted only if the source said so.
Steady ==
    /\ valid' \subseteq valid /\ withdrawn \subseteq withdrawn'
    /\ \A e \in Subs : /\ version'[e] >= version[e]
                       /\ sub[e] # "idle" => sub'[e] # "idle" /\ entryOf'[e] = entryOf[e]
    /\ \A e \in Subs : sub[e] # "idle" =>
           /\ worker'.entry = e /\ worker'.answer = "accepted" =>
                  \/ KeyOf[e] \in valid
                  \/ worker.entry = e /\ worker'.version = worker.version /\ worker.answer = "accepted"
           /\ entries'[KeyOf[e]] = e =>
                  /\ InUse(e)
                  /\ \/ checked'[e] = checked[e]
                     \/ /\ worker.entry = e /\ worker.answer = "accepted"
                        /\ checked'[e] = worker.version

LEMMA SteadyBarred ==
    ASSUME Steady, NEW e \in Subs, sub[e] # "idle", NEW n \in Nat, Barred(e, n)
    PROVE  /\ KeyOf[e] \notin valid'
           /\ worker'.entry = e /\ worker'.version >= n => worker'.answer # "accepted"
           /\ checked'[e] >= n => entries'[KeyOf[e]] # e
  BY BarredStays DEF Steady, Barred

LEMMA RevokingStays ==
    ASSUME IndInv, Types', NEW c \in Changes, Steady,
           change'[c] = change[c], targets'[c] = targets[c], joining'[c] = joining[c],
           \A s \in Subs : sub'[s] = "active" =>
               \/ sub[s] = "active"
               \/ sub[s] = "waiting" /\ s \notin withdrawn /\ Confirmed(s),
           \A s \in Subs : sub'[s] = "waiting" =>
               \/ sub[s] = "waiting" /\ asked'[s] = asked[s]
               \/ KeyOf[s] \in valid \/ Barred(entryOf[s], asked[s])'
    PROVE  Revoking(c)'
<1>1. Revoking(c) /\ Types /\ Rooted /\ Withdrawals
  BY DEF IndInv, Revocations
<1>2. /\ version \in [Subs -> Nat] /\ version' \in [Subs -> Nat] /\ asked \in [Subs -> Nat]
      /\ targets[c] \in [DOMAIN targets[c] -> Nat] /\ DOMAIN targets[c] \subseteq Subs
      /\ joining[c] \subseteq Subs /\ sub \in [Subs -> SubPhases]
  <2>1. version' \in [Subs -> Nat]
    BY DEF Types, TypeOK
  <2> QED
    BY <1>1, <2>1, TypeParts
<1>3. change'[c] # "idle" => RevokedBy[c] \intersect valid' = {}
  BY <1>1 DEF Revoking, Steady
<1>4. change'[c] # "waiting" => joining'[c] = {} /\ DOMAIN targets'[c] = {}
  BY <1>1 DEF Revoking
<1>5. ASSUME NEW e \in DOMAIN targets'[c]
      PROVE  /\ sub'[e] # "idle" /\ targets'[c][e] <= version'[e]
             /\ KeyOf[e] \in RevokedBy[c] => Barred(e, targets[c][e])'
  <2>1. e \in Subs /\ sub[e] # "idle" /\ targets[c][e] \in Nat /\ targets[c][e] <= version[e]
    BY <1>1, <1>2 DEF Revoking
  <2>2. sub'[e] # "idle" /\ targets'[c][e] <= version'[e]
    BY <1>2, <2>1 DEF Steady
  <2>3. ASSUME KeyOf[e] \in RevokedBy[c] PROVE Barred(e, targets[c][e])'
    <3>1. Barred(e, targets[c][e])
      BY <1>1, <2>3 DEF Revoking
    <3> QED
      BY <2>1, <3>1, SteadyBarred DEF Barred, InUse
  <2> QED
    BY <2>2, <2>3
<1>6. ASSUME NEW s \in joining'[c]
      PROVE  sub'[s] # "idle" /\ (s \notin withdrawn' => entryOf'[s] \in DOMAIN targets'[c])
  BY <1>1, <1>2 DEF Revoking, Steady
<1>7. ASSUME change'[c] \in {"waiting", "returned"}, NEW s \in Subs \ joining'[c], KeyOf[s] \in RevokedBy[c]
      PROVE  /\ sub'[s] # "active"
             /\ sub'[s] = "waiting" => s \in withdrawn' \/ Barred(entryOf[s], asked[s])'
  <2>1. /\ sub[s] # "active"
        /\ sub[s] = "waiting" => s \in withdrawn \/ Barred(entryOf[s], asked[s])
        /\ KeyOf[s] \notin valid
    BY <1>1, <1>7 DEF Revoking
  <2>2. sub'[s] # "active"
    <3> SUFFICES ASSUME sub[s] = "waiting", s \notin withdrawn, Confirmed(s) PROVE FALSE
      BY <2>1
    <3>1. InUse(entryOf[s])
      BY <1>1, NotWithdrawn
    <3> QED
      BY <2>1, <3>1 DEF Barred, Confirmed
  <2>3. ASSUME sub'[s] = "waiting", sub[s] = "waiting", asked'[s] = asked[s], s \notin withdrawn
        PROVE  Barred(entryOf[s], asked[s])'
    <3>1. Barred(entryOf[s], asked[s])
      BY <2>1, <2>3
    <3>2. entryOf[s] \in Subs /\ sub[entryOf[s]] # "idle" /\ entryOf'[s] = entryOf[s] /\ asked[s] \in Nat
      BY <1>1, <1>2, <2>3 DEF Rooted, Steady
    <3> QED
      BY <2>3, <3>1, <3>2, SteadyBarred DEF Barred, InUse
  <2>4. sub'[s] = "waiting" => s \in withdrawn' \/ Barred(entryOf[s], asked[s])'
    BY <2>1, <2>3 DEF Steady
  <2> QED
    BY <2>2, <2>4
<1> QED
  BY <1>3, <1>4, <1>5, <1>6, <1>7 DEF Revoking

-----------------------------------------------------------------------------
(* Parts that a step leaves alone                                          *)

LEMMA RootedStill ==
    ASSUME Rooted, UNCHANGED <<sub, entryOf, withdrawn, subscribers, entries>>
    PROVE  Rooted'
  BY DEF Rooted

LEMMA WithdrawalsStill ==
    ASSUME Withdrawals, UNCHANGED <<subscribers, withdrawn, accepting, entries>>
    PROVE  Withdrawals'
  BY DEF Withdrawals, InUse

LEMMA VersionsStill ==
    ASSUME Versions, UNCHANGED <<checked, version, dirty, worker, entries, subscribers>>
    PROVE  Versions'
  BY DEF Versions, InUse

LEMMA AnswersStill ==
    ASSUME Answers, UNCHANGED <<accepting, entries, dirty, version, worker>>,
           valid' \subseteq valid, \A k \in Keys : Standing(k) => Standing(k)',
           Types
    PROVE  Answers'
<1>1. Reading => KeyOf[worker.entry] \in Keys
  BY TypeParts, WorkerParts, RetainedAssumption DEF Reading
<1>2. \A e \in Subs : KeyOf[e] \in Keys
  BY RetainedAssumption
<1> QED
  BY <1>1, <1>2 DEF Answers, InUse, Reading, StillCurrent

LEMMA OwingStill ==
    ASSUME Owing, UNCHANGED <<worker, owed, accepting, sub, withdrawn, canceled>>
    PROVE  Owing'
  BY DEF Owing, Reading

LEMMA SteadyStill ==
    ASSUME Types, UNCHANGED <<worker, checked, version, entries, entryOf>>, valid' \subseteq valid,
           withdrawn \subseteq withdrawn',
           \A e \in Subs : sub[e] # "idle" => sub'[e] # "idle"
    PROVE  Steady
  BY TypeParts DEF Steady, InUse

-----------------------------------------------------------------------------
(* The end of Retain                                                       *)

LEMMA RetainEndsKeeps ==
    ASSUME IndInv, NEW s \in Subs, RetainSucceeds(s) \/ RetainRejected(s)
    PROVE  IndInv'
<1>1. /\ UNCHANGED <<sourceVars, entryVars, withdrawn, canceled, owed, worker, accepting, changeVars,
                     shutdown>>
      /\ sub[s] = "waiting" /\ asked' = [asked EXCEPT ![s] = 0]
  BY DEF RetainSucceeds, RetainRejected
<1>2. UNCHANGED <<valid, expired, entries, entryOf, subscribers, version, checked, dirty, known, withdrawn,
                  canceled, owed, worker, accepting, change, targets, joining, shutdown>>
  BY <1>1 DEF sourceVars, entryVars, changeVars
<1>3. PICK to \in {"active", "failed"} :
          /\ sub' = [sub EXCEPT ![s] = to]
          /\ to = "active" => s \notin withdrawn /\ Confirmed(s)
  BY DEF RetainSucceeds, RetainRejected
<1>4. Types /\ Rooted /\ Withdrawals /\ Versions /\ Answers /\ Owing /\ Revocations /\ Ended
  BY DEF IndInv
<1>5. sub \in [Subs -> SubPhases] /\ asked \in [Subs -> Nat]
  BY <1>4, TypeParts
<1>6. /\ sub' \in [Subs -> SubPhases] /\ sub'[s] = to /\ \A t \in Subs \ {s} : sub'[t] = sub[t]
      /\ asked' \in [Subs -> Nat] /\ \A t \in Subs \ {s} : asked'[t] = asked[t]
  BY <1>1, <1>3, <1>5 DEF SubPhases
<1>7. Types'
  BY <1>2, <1>4, <1>6, TypeParts, TypesTogether
<1>8. Rooted'
  BY <1>1, <1>2, <1>3, <1>4, <1>6 DEF Rooted
<1>9. Withdrawals' /\ Versions'
  BY <1>2, <1>4, WithdrawalsStill, VersionsStill
<1>10. Answers'
  BY <1>2, <1>4, AnswersStill DEF Standing
<1>11. Owing'
  BY <1>2, <1>3, <1>4, <1>6 DEF Owing, Reading
<1>12. Steady
  BY <1>1, <1>2, <1>4, <1>6, SteadyStill
<1>13. /\ \A t \in Subs : sub'[t] = "active" =>
               \/ sub[t] = "active"
               \/ sub[t] = "waiting" /\ t \notin withdrawn /\ Confirmed(t)
       /\ \A t \in Subs : sub'[t] = "waiting" => sub[t] = "waiting" /\ asked'[t] = asked[t]
  BY <1>1, <1>3, <1>6
<1>14. Revocations'
  BY <1>2, <1>7, <1>12, <1>13, RevokingStays DEF Revocations
<1>15. Ended'
  BY <1>1, <1>2, <1>4 DEF Ended
<1> QED
  BY <1>7, <1>8, <1>9, <1>10, <1>11, <1>14, <1>15 DEF IndInv

-----------------------------------------------------------------------------
(* The source changes                                                      *)

LEMMA SourceKeeps ==
    ASSUME IndInv, (\E k \in Keys : Expire(k)) \/ (\E c \in Changes : Commit(c))
    PROVE  IndInv'
<1>1. UNCHANGED <<entries, entryOf, subscribers, version, checked, dirty, known, asked, sub, withdrawn,
                  canceled, owed, worker, accepting, targets, joining, shutdown>>
  BY DEF Expire, Commit, entryVars, changeVars
<1>2. Types /\ Rooted /\ Withdrawals /\ Versions /\ Answers /\ Owing /\ Revocations /\ Ended
  BY DEF IndInv
<1>3. valid \subseteq Keys /\ expired \subseteq Keys /\ change \in [Changes -> ChangePhases]
  BY <1>2, TypeParts
<1>4. /\ valid' \subseteq valid /\ expired' \subseteq Keys /\ change' \in [Changes -> ChangePhases]
      /\ \A k \in Keys : Standing(k) => Standing(k)'
  <2>1. ASSUME NEW k \in Keys, Expire(k)
        PROVE  /\ valid' = valid \ {k} /\ expired' = expired \union {k} /\ change' = change
    BY <2>1 DEF Expire, changeVars
  <2>2. ASSUME NEW c \in Changes, Commit(c)
        PROVE  /\ valid' = valid \ RevokedBy[c] /\ expired' = expired
               /\ change[c] = "idle" /\ change' = [change EXCEPT ![c] = "committed"]
    BY <2>2 DEF Commit
  <2>3. CASE \E k \in Keys : Expire(k)
    BY <1>3, <2>1, <2>3 DEF Standing
  <2>4. CASE \E c \in Changes : Commit(c)
    <3>1. PICK c \in Changes : Commit(c)
      BY <2>4
    <3>2. change' \in [Changes -> ChangePhases]
      BY <1>3, <2>2, <3>1 DEF ChangePhases
    <3>3. change'[c] = "committed" /\ \A d \in Changes \ {c} : change'[d] = change[d]
      BY <1>3, <2>2, <3>1
    <3>4. change[c] = "idle" /\ valid' = valid \ RevokedBy[c] /\ expired' = expired
      BY <2>2, <3>1
    <3>5. \A k \in Keys : Standing(k) => Standing(k)'
      BY <3>3, <3>4 DEF Standing
    <3> QED
      BY <1>3, <3>2, <3>4, <3>5
  <2> QED
    BY <2>3, <2>4
<1>5. Types'
  <2>1. valid' \subseteq Keys
    BY <1>3, <1>4
  <2> QED
    BY <1>1, <1>2, <1>4, <2>1, TypeParts, TypesTogether
<1>6. Rooted' /\ Withdrawals' /\ Versions' /\ Owing'
  BY <1>1, <1>2, RootedStill, WithdrawalsStill, VersionsStill, OwingStill
<1>7. Answers'
  BY <1>1, <1>2, <1>4, AnswersStill
<1>8. Steady
  BY <1>1, <1>2, <1>4, SteadyStill
<1>9. ASSUME NEW d \in Changes PROVE Revoking(d)'
  <2>1. CASE change'[d] = change[d]
    BY <1>1, <1>5, <1>8, <2>1, RevokingStays
  <2>2. CASE change'[d] # change[d]
    <3>1. PICK c \in Changes : Commit(c)
      BY <2>2 DEF Expire, changeVars
    <3>2. c = d
      BY <1>3, <2>2, <3>1 DEF Commit
    <3>3. change[d] = "idle" /\ change'[d] = "committed" /\ valid' = valid \ RevokedBy[d]
      BY <1>3, <3>1, <3>2 DEF Commit
    <3>4. joining[d] = {} /\ DOMAIN targets[d] = {}
      BY <1>2, <3>3 DEF Revocations, Revoking
    <3> QED
      BY <1>1, <3>3, <3>4 DEF Revoking
  <2> QED
    BY <2>1, <2>2
<1>10. Ended'
  BY <1>1, <1>2 DEF Ended
<1> QED
  BY <1>5, <1>6, <1>7, <1>9, <1>10 DEF IndInv, Revocations

-----------------------------------------------------------------------------
(* Cancel functions, and the ends of the worker and of Shutdown            *)

LEMMA CallCancelKeeps ==
    ASSUME IndInv, NEW w \in {"worker", "shutdown"}, NEW s \in Subs, CallCancel(w, s)
    PROVE  IndInv'
<1>1. UNCHANGED <<valid, expired, entries, entryOf, subscribers, version, checked, dirty, known, asked, sub,
                  withdrawn, worker, accepting, change, targets, joining, shutdown>>
  BY DEF CallCancel, sourceVars, entryVars, changeVars
<1>2. Types /\ Rooted /\ Withdrawals /\ Versions /\ Answers /\ Owing /\ Revocations /\ Ended
  BY DEF IndInv
<1>3. owed \in [{"worker", "shutdown"} -> SUBSET Subs] /\ canceled \subseteq Subs
  BY <1>2, TypeParts
<1>4. /\ owed' \in [{"worker", "shutdown"} -> SUBSET Subs] /\ canceled' = canceled \union {s}
      /\ \A v \in {"worker", "shutdown"} : owed'[v] \subseteq owed[v] /\ owed[v] \subseteq owed'[v] \union {s}
  BY <1>3 DEF CallCancel
<1>5. Types'
  <2>1. canceled' \subseteq Subs
    BY <1>3, <1>4
  <2> QED
    BY <1>1, <1>2, <1>4, <2>1, TypeParts, TypesTogether
<1>6. Rooted' /\ Withdrawals' /\ Versions'
  BY <1>1, <1>2, RootedStill, WithdrawalsStill, VersionsStill
<1>7. Answers'
  BY <1>1, <1>2, AnswersStill DEF Standing
<1>8. Owing'
  BY <1>1, <1>2, <1>4 DEF Owing, Reading
<1>9. Steady
  BY <1>1, <1>2, SteadyStill
<1>10. Revocations'
  BY <1>1, <1>5, <1>9, RevokingStays DEF Revocations
<1>11. Ended'
  BY <1>1, <1>2 DEF Ended
<1> QED
  BY <1>5, <1>6, <1>7, <1>8, <1>10, <1>11 DEF IndInv

LEMMA EndKeeps ==
    ASSUME IndInv, WorkerExits \/ ShutdownReturns
    PROVE  IndInv'
<1>1. UNCHANGED <<valid, expired, entries, entryOf, subscribers, version, checked, dirty, known, asked, sub,
                  withdrawn, canceled, owed, accepting, change, targets, joining>>
  BY DEF WorkerExits, ShutdownReturns, sourceVars, entryVars, changeVars
<1>2. Types /\ Rooted /\ Withdrawals /\ Versions /\ Answers /\ Owing /\ Revocations /\ Ended
  BY DEF IndInv
<1>3. worker' = worker \/ worker' = Exited
  BY DEF WorkerExits, ShutdownReturns
<1>4. worker' \in Workers /\ Exited.entry = None
  BY <1>2, <1>3, TypeParts DEF Workers, Exited, Idle
<1>5. Types'
  BY <1>1, <1>2, <1>4, TypeParts, TypesTogether
<1>6. Rooted' /\ Withdrawals'
  BY <1>1, <1>2, RootedStill, WithdrawalsStill
<1>7. worker' # worker => worker'.entry = None
  BY <1>3, <1>4
<1>8. Versions'
  BY <1>1, <1>2, <1>7, RetainedAssumption DEF Versions, InUse
<1>9. Answers'
  <2>1. CASE worker' = worker
    BY <1>1, <1>2, <2>1, AnswersStill DEF Standing
  <2>2. CASE worker'.entry = None
    BY <1>1, <1>2, <2>2 DEF Answers, Reading, InUse, Standing
  <2> QED
    BY <1>7, <2>1, <2>2
<1>10. Owing'
  BY <1>1, <1>2, <1>7 DEF Owing, Reading
<1>11. Steady
  BY <1>1, <1>2, <1>7, TypeParts, RetainedAssumption DEF Steady, InUse
<1>12. Revocations'
  BY <1>1, <1>5, <1>11, RevokingStays DEF Revocations
<1>13. Ended'
  <2>1. CASE WorkerExits
    BY <1>1, <1>2, <2>1 DEF Ended, WorkerExits
  <2>2. CASE ShutdownReturns
    <3>1. ~accepting /\ \A s \in Subs : sub[s] \notin {"waiting", "active", "failed"}
      BY <2>2 DEF ShutdownReturns, Registered
    <3>2. \A s \in Subs : sub[s] \in SubPhases
      BY <1>2, TypeParts
    <3> QED
      BY <1>1, <3>1, <3>2 DEF Ended, SubPhases
  <2> QED
    BY <2>1, <2>2
<1> QED
  BY <1>5, <1>6, <1>8, <1>9, <1>10, <1>12, <1>13 DEF IndInv

-----------------------------------------------------------------------------
(* A subscription leaves its entry                                         *)

\* What LeaveEntry does to the entries, and that it only takes the last one out.
LEMMA LeaveParts ==
    ASSUME Types, Rooted, NEW s \in Subs, sub[s] # "idle", LeaveEntry(s)
    PROVE  /\ UNCHANGED <<entryOf, version, checked, dirty, known>>
           /\ entries' \in [Keys -> Subs \union {None}] /\ subscribers' \in [Subs -> SUBSET Subs]
           /\ worker' \in Workers
           /\ worker'.entry = worker.entry /\ worker'.version = worker.version
           /\ worker'.answer = worker.answer
           /\ worker'.cut => worker.cut \/ (worker.entry = entryOf[s] /\ entries'[KeyOf[s]] = None)
           /\ subscribers'[entryOf[s]] = subscribers[entryOf[s]] \ {s}
           /\ \A e \in Subs \ {entryOf[s]} : subscribers'[e] = subscribers[e]
           /\ \A k \in Keys : entries'[k] # None => entries'[k] = entries[k]
           /\ \A e \in Subs : InUse(e) /\ ~InUse(e)' => e = entryOf[s] /\ subscribers'[e] = {}
           /\ InUse(entryOf[s])' => subscribers'[entryOf[s]] # {}
<1> DEFINE e == entryOf[s]
           k == KeyOf[s]
           last == entries[k] = e /\ subscribers[e] \subseteq {s}
<1>1. /\ entries \in [Keys -> Subs \union {None}] /\ subscribers \in [Subs -> SUBSET Subs]
      /\ worker \in Workers /\ k \in Keys /\ e \in Subs /\ KeyOf[e] = k /\ None \notin Subs
      /\ KeyOf \in [Subs -> Keys]
  BY TypeParts, RetainedAssumption DEF Rooted
<1>2. /\ UNCHANGED <<entryOf, version, checked, dirty, known>>
      /\ subscribers' = [subscribers EXCEPT ![e] = @ \ {s}]
      /\ entries' = IF last THEN [entries EXCEPT ![k] = None] ELSE entries
      /\ worker' = IF last THEN Cut({e}) ELSE worker
  BY DEF LeaveEntry
<1>3. InUse(e) => subscribers[e] # {}
  BY <1>1 DEF Rooted, InUse
<1> HIDE DEF e, k
<1>4. /\ subscribers' \in [Subs -> SUBSET Subs] /\ subscribers'[e] = subscribers[e] \ {s}
      /\ \A d \in Subs \ {e} : subscribers'[d] = subscribers[d]
  BY <1>1, <1>2
<1>5. /\ entries' \in [Keys -> Subs \union {None}]
      /\ last => entries'[k] = None /\ \A j \in Keys \ {k} : entries'[j] = entries[j]
      /\ ~last => entries' = entries
  BY <1>1, <1>2
<1>6. /\ worker' \in Workers /\ worker'.entry = worker.entry /\ worker'.version = worker.version
      /\ worker'.answer = worker.answer /\ (worker'.cut => worker.cut \/ (worker.entry = e /\ last))
  <2>1. CASE last
    BY <1>1, <1>2, <2>1, CutParts
  <2>2. CASE ~last
    BY <1>1, <1>2, <2>2
  <2> QED
    BY <2>1, <2>2
<1>7. ASSUME NEW d \in Subs, InUse(d), ~InUse(d)' PROVE d = e /\ subscribers'[d] = {}
  <2>1. last /\ KeyOf[d] = k
    BY <1>1, <1>5, <1>7 DEF InUse
  <2> QED
    BY <1>4, <1>7, <2>1 DEF InUse
<1>8. InUse(e)' => subscribers'[e] # {}
  <2> SUFFICES ASSUME entries'[KeyOf[e]] = e PROVE subscribers'[e] # {}
    BY <1>2 DEF InUse, e
  <2>1. ~last /\ InUse(e)
    BY <1>1, <1>5 DEF InUse
  <2> QED
    BY <1>1, <1>4, <2>1 DEF InUse
<1>9. UNCHANGED e
  BY <1>2 DEF e
<1>10. \A j \in Keys : entries'[j] # None => entries'[j] = entries[j]
  BY <1>5
<1>11. worker'.cut => worker.cut \/ (worker.entry = e /\ entries'[k] = None)
  BY <1>5, <1>6
<1> QED
  BY <1>2, <1>4, <1>5, <1>6, <1>7, <1>8, <1>9, <1>10, <1>11 DEF e, k

LEMMA LeaveKeeps ==
    ASSUME IndInv, NEW s \in Subs, RetainGivesUp(s) \/ Release(s)
    PROVE  IndInv'
<1>1. /\ UNCHANGED <<valid, expired, canceled, owed, accepting, change, targets, joining, shutdown>>
      /\ LeaveEntry(s) /\ sub[s] \in {"waiting", "active", "failed"}
      /\ asked' = [asked EXCEPT ![s] = 0] \/ asked' = asked
  BY DEF RetainGivesUp, Release, sourceVars, changeVars
<1>2. PICK to \in {"failed", "done"} :
          /\ sub' = [sub EXCEPT ![s] = to]
          /\ withdrawn' \in {withdrawn, withdrawn \union {s}}
  BY DEF RetainGivesUp, Release
<1>3. Types /\ Rooted /\ Withdrawals /\ Versions /\ Answers /\ Owing /\ Revocations /\ Ended
  BY DEF IndInv
<1>4. /\ sub \in [Subs -> SubPhases] /\ asked \in [Subs -> Nat] /\ withdrawn \subseteq Subs
      /\ subscribers \in [Subs -> SUBSET Subs] /\ entries \in [Keys -> Subs \union {None}]
      /\ KeyOf \in [Subs -> Keys] /\ None \notin Subs /\ worker \in Workers
      /\ entryOf[s] \in Subs /\ KeyOf[entryOf[s]] = KeyOf[s]
  BY <1>1, <1>3, TypeParts, RetainedAssumption DEF Rooted
<1>5. /\ sub' \in [Subs -> SubPhases] /\ sub'[s] = to /\ \A t \in Subs \ {s} : sub'[t] = sub[t]
      /\ asked' \in [Subs -> Nat] /\ \A t \in Subs \ {s} : asked'[t] = asked[t]
      /\ withdrawn' \subseteq Subs /\ withdrawn \subseteq withdrawn'
      /\ \A t \in Subs \ {s} : t \in withdrawn' <=> t \in withdrawn
  BY <1>1, <1>2, <1>4 DEF SubPhases
<1>6. /\ UNCHANGED <<entryOf, version, checked, dirty, known>>
      /\ entries' \in [Keys -> Subs \union {None}] /\ subscribers' \in [Subs -> SUBSET Subs]
      /\ worker' \in Workers
      /\ worker'.entry = worker.entry /\ worker'.version = worker.version
      /\ worker'.answer = worker.answer
      /\ worker'.cut => worker.cut \/ (worker.entry = entryOf[s] /\ entries'[KeyOf[s]] = None)
      /\ subscribers'[entryOf[s]] = subscribers[entryOf[s]] \ {s}
      /\ \A e \in Subs \ {entryOf[s]} : subscribers'[e] = subscribers[e]
      /\ \A k \in Keys : entries'[k] # None => entries'[k] = entries[k]
  BY <1>1, <1>3, LeaveParts
<1>7. /\ \A e \in Subs : InUse(e) /\ ~InUse(e)' => e = entryOf[s] /\ subscribers'[e] = {}
      /\ InUse(entryOf[s])' => subscribers'[entryOf[s]] # {}
  BY <1>1, <1>3, LeaveParts
<1>8. Types'
  BY <1>1, <1>3, <1>5, <1>6, TypeParts, TypesTogether
<1>9. \A e \in Subs : s \notin subscribers'[e] /\ subscribers'[e] \subseteq subscribers[e]
  BY <1>3, <1>6 DEF Rooted
<1>10. Rooted'
  <2>1. \A t \in Subs :
            /\ sub'[t] = "idle" => entryOf'[t] = None /\ t \notin withdrawn'
            /\ sub'[t] # "idle" => /\ entryOf'[t] \in Subs /\ sub'[entryOf'[t]] # "idle"
                                   /\ KeyOf[entryOf'[t]] = KeyOf[t]
            /\ sub'[t] \in {"waiting", "active"} => t \in subscribers'[entryOf'[t]]
    BY <1>1, <1>2, <1>3, <1>4, <1>5, <1>6 DEF Rooted
  <2>2. \A e \in Subs : \A t \in subscribers'[e] :
            entryOf'[t] = e /\ sub'[t] \in {"waiting", "active", "failed"}
    BY <1>3, <1>4, <1>5, <1>6, <1>9 DEF Rooted
  <2>3. ASSUME NEW k \in Keys, entries'[k] # None
        PROVE  KeyOf[entries'[k]] = k /\ subscribers'[entries'[k]] # {}
    <3>1. entries'[k] = entries[k] /\ entries[k] \in Subs
      BY <1>4, <1>6, <2>3
    <3>2. KeyOf[entries[k]] = k /\ subscribers[entries[k]] # {}
      BY <1>3, <2>3, <3>1 DEF Rooted
    <3>3. CASE entries[k] = entryOf[s]
      BY <1>6, <1>7, <3>1, <3>2, <3>3 DEF InUse
    <3>4. CASE entries[k] # entryOf[s]
      BY <1>6, <3>1, <3>2, <3>4
    <3> QED
      BY <3>1, <3>2, <3>3, <3>4
  <2> QED
    BY <2>1, <2>2, <2>3 DEF Rooted
<1>11. \A e \in Subs : InUse(e)' => InUse(e)
  BY <1>4, <1>6 DEF InUse
<1>12. Withdrawals'
  BY <1>1, <1>3, <1>4, <1>5, <1>7, <1>9, <1>11 DEF Withdrawals
<1>13. Versions'
  BY <1>3, <1>6, <1>7, <1>9 DEF Versions
<1>14. Answers'
  <2>1. \A k \in Keys : Standing(k)' = Standing(k)
    BY <1>1 DEF Standing
  <2>2. Reading /\ StillCurrent' => StillCurrent
    BY <1>1, <1>4, <1>6, WorkerParts DEF StillCurrent, Reading
  <2>3. Reading' = Reading
    BY <1>6 DEF Reading
  <2>4. \A e \in Subs : KeyOf[e] \in Keys
    BY <1>4
  <2>5. \A e \in Subs : accepting' /\ InUse(e)' /\ e \notin dirty' => Standing(KeyOf[e])'
    BY <1>1, <1>3, <1>6, <1>11, <2>1, <2>4 DEF Answers
  <2>6. ASSUME Reading'
        PROVE  /\ worker'.answer = "accepted" /\ StillCurrent' => Standing(KeyOf[worker.entry])'
               /\ worker'.answer = "refused" => KeyOf[worker'.entry] \notin valid'
               /\ worker'.cut \/ worker'.answer = "canceled" => ~StillCurrent'
    <3>1. worker.entry \in Subs /\ Reading
      BY <1>4, <2>3, <2>6, WorkerParts DEF Reading
    <3>2. worker'.answer = "accepted" /\ StillCurrent' => Standing(KeyOf[worker.entry])
      BY <1>3, <1>6, <2>2, <3>1 DEF Answers
    <3>3. Standing(KeyOf[worker.entry]) => Standing(KeyOf[worker.entry])'
      BY <1>1, <1>6 DEF Standing
    <3>4. worker'.answer = "refused" => KeyOf[worker'.entry] \notin valid'
      BY <1>1, <1>3, <1>6, <3>1 DEF Answers
    <3>5. worker'.cut \/ worker'.answer = "canceled" => ~StillCurrent'
      <4>1. worker.entry = entryOf[s] /\ entries'[KeyOf[s]] = None => ~StillCurrent'
        BY <1>4, <1>6 DEF StillCurrent
      <4> QED
        BY <1>3, <1>6, <2>2, <3>1, <4>1 DEF Answers
    <3> QED
      BY <3>2, <3>3, <3>4, <3>5
  <2> QED
    BY <2>5, <2>6 DEF Answers
<1>15. Owing'
  BY <1>1, <1>2, <1>3, <1>5, <1>6 DEF Owing, Reading
<1>16. Steady
  <2>1. \A e \in Subs : version'[e] >= version[e]
    BY <1>3, <1>6, TypeParts
  <2>2. \A e \in Subs : entries'[KeyOf[e]] = e => InUse(e)
    BY <1>4, <1>6 DEF InUse
  <2>3. \A e \in Subs : sub[e] # "idle" => sub'[e] # "idle" /\ entryOf'[e] = entryOf[e]
    BY <1>2, <1>5, <1>6
  <2> QED
    BY <1>1, <1>5, <1>6, <2>1, <2>2, <2>3 DEF Steady
<1>17. /\ \A t \in Subs : sub'[t] = "active" => sub[t] = "active"
       /\ \A t \in Subs : sub'[t] = "waiting" => sub[t] = "waiting" /\ asked'[t] = asked[t]
  BY <1>2, <1>5
<1>18. Revocations'
  BY <1>1, <1>8, <1>16, <1>17, RevokingStays DEF Revocations
<1>19. Ended'
  BY <1>1, <1>3 DEF Ended
<1> QED
  BY <1>8, <1>10, <1>12, <1>13, <1>14, <1>15, <1>18, <1>19 DEF IndInv

-----------------------------------------------------------------------------
(* Marks                                                                   *)

\* The entries of E are marked: what the versions say, and that no read that was
\* under way counts.
LEMMA MarkParts ==
    ASSUME Types, Versions, NEW E \in SUBSET Subs, version' = Bump(E), dirty' = dirty \union E,
           worker' = Cut(E)
    PROVE  /\ version' \in [Subs -> Nat] /\ dirty' \subseteq Subs /\ worker' \in Workers
           /\ worker'.entry = worker.entry /\ worker'.version = worker.version
           /\ worker'.answer = worker.answer
           /\ worker'.cut => worker.cut \/ worker.entry \in E
           /\ \A e \in E : version'[e] = version[e] + 1
           /\ \A e \in Subs \ E : version'[e] = version[e]
           /\ \A e \in Subs : version'[e] >= version[e]
           /\ \A e \in Subs : checked[e] <= version'[e] /\ (e \notin dirty' => checked[e] = version'[e])
           /\ \A e \in Subs : worker'.entry = e => worker'.version <= version'[e]
           /\ \A e \in E : /\ checked[e] < version'[e]
                           /\ worker'.entry = e => worker'.version < version'[e]
<1>1. version \in [Subs -> Nat] /\ checked \in [Subs -> Nat] /\ dirty \subseteq Subs /\ worker \in Workers
  BY TypeParts
<1>2. worker.version \in Nat
  BY <1>1, WorkerParts
<1>3. /\ version' \in [Subs -> Nat]
      /\ \A e \in Subs : version'[e] = IF e \in E THEN version[e] + 1 ELSE version[e]
  BY <1>1, BumpParts
<1>4. /\ worker' \in Workers /\ worker'.entry = worker.entry /\ worker'.version = worker.version
      /\ worker'.answer = worker.answer /\ (worker'.cut => worker.cut \/ worker.entry \in E)
  BY <1>1, CutParts
<1> QED
  BY <1>1, <1>2, <1>3, <1>4 DEF Versions

LEMMA RetainKeeps ==
    ASSUME IndInv, NEW s \in Subs, Retain(s)
    PROVE  IndInv'
<1> DEFINE k == KeyOf[s]
           e == IF entries[k] = None THEN s ELSE entries[k]
<1>1. /\ sub[s] = "idle" /\ accepting
      /\ entries' = [entries EXCEPT ![k] = e] /\ entryOf' = [entryOf EXCEPT ![s] = e]
      /\ subscribers' = [subscribers EXCEPT ![e] = @ \union {s}]
      /\ version' = Bump({e}) /\ dirty' = dirty \union {e} /\ worker' = Cut({e})
      /\ asked' = [asked EXCEPT ![s] = version'[e]] /\ sub' = [sub EXCEPT ![s] = "waiting"]
      /\ UNCHANGED <<valid, expired, checked, known, withdrawn, canceled, owed, accepting, change, targets,
                     joining, shutdown>>
  BY DEF Retain, sourceVars, changeVars
<1>2. Types /\ Rooted /\ Withdrawals /\ Versions /\ Answers /\ Owing /\ Revocations /\ Ended
  BY DEF IndInv
<1>3. /\ sub \in [Subs -> SubPhases] /\ asked \in [Subs -> Nat] /\ subscribers \in [Subs -> SUBSET Subs]
      /\ entries \in [Keys -> Subs \union {None}] /\ entryOf \in [Subs -> Subs \union {None}]
      /\ KeyOf \in [Subs -> Keys] /\ None \notin Subs /\ worker \in Workers /\ k \in Keys
  BY <1>2, TypeParts, RetainedAssumption
<1>4. /\ e \in Subs /\ KeyOf[e] = k /\ (e # s => InUse(e) /\ sub[e] # "idle")
      /\ entries[k] # None => entries[k] = e
  <2>1. CASE entries[k] = None
    BY <2>1
  <2>2. CASE entries[k] # None
    <3>1. e \in Subs /\ KeyOf[e] = k /\ subscribers[e] # {} /\ entries[k] = e
      BY <1>2, <1>3, <2>2 DEF Rooted
    <3>2. PICK t \in Subs : t \in subscribers[e]
      BY <1>3, <3>1
    <3>3. sub[t] # "idle" /\ entryOf[t] = e
      BY <1>2, <3>1, <3>2 DEF Rooted
    <3>4. sub[e] # "idle"
      BY <1>2, <3>2, <3>3 DEF Rooted
    <3> QED
      BY <3>1, <3>4 DEF InUse
  <2> QED
    BY <2>1, <2>2
<1>5. ~InUse(s) /\ subscribers[s] = {} /\ s \notin withdrawn
  BY <1>1, <1>2, FreshEntry DEF Rooted
<1> HIDE DEF e, k
<1>6. /\ version' \in [Subs -> Nat] /\ dirty' \subseteq Subs /\ worker' \in Workers
      /\ worker'.entry = worker.entry /\ worker'.version = worker.version
      /\ worker'.answer = worker.answer
      /\ worker'.cut => worker.cut \/ worker.entry = e
      /\ version'[e] = version[e] + 1
      /\ \A d \in Subs \ {e} : version'[d] = version[d]
      /\ \A d \in Subs : version'[d] >= version[d]
      /\ \A d \in Subs : checked[d] <= version'[d] /\ (d \notin dirty' => checked[d] = version'[d])
      /\ \A d \in Subs : worker'.entry = d => worker'.version <= version'[d]
      /\ checked[e] < version'[e] /\ (worker'.entry = e => worker'.version < version'[e])
  <2>1. {e} \in SUBSET Subs
    BY <1>4
  <2> QED
    BY <1>1, <1>2, <1>4, <2>1, MarkParts
<1>7. /\ sub' \in [Subs -> SubPhases] /\ sub'[s] = "waiting" /\ \A t \in Subs \ {s} : sub'[t] = sub[t]
      /\ asked' \in [Subs -> Nat] /\ asked'[s] = version'[e] /\ \A t \in Subs \ {s} : asked'[t] = asked[t]
      /\ entryOf' \in [Subs -> Subs \union {None}] /\ entryOf'[s] = e
      /\ \A t \in Subs \ {s} : entryOf'[t] = entryOf[t]
  BY <1>1, <1>3, <1>4, <1>6 DEF SubPhases
<1>8. /\ entries' \in [Keys -> Subs \union {None}] /\ entries'[k] = e
      /\ \A j \in Keys \ {k} : entries'[j] = entries[j]
      /\ subscribers' \in [Subs -> SUBSET Subs] /\ subscribers'[e] = subscribers[e] \union {s}
      /\ \A d \in Subs \ {e} : subscribers'[d] = subscribers[d]
  BY <1>1, <1>3, <1>4
<1>9. Types'
  BY <1>1, <1>2, <1>6, <1>7, <1>8, TypeParts, TypesTogether
<1>10. /\ \A d \in Subs \ {e} : InUse(d)' <=> InUse(d)
       /\ entries'[KeyOf[e]] = e
  <2>1. entries'[KeyOf[e]] = e
    BY <1>4, <1>8
  <2>2. ASSUME NEW d \in Subs \ {e} PROVE entries'[KeyOf[d]] = d <=> entries[KeyOf[d]] = d
    <3>1. KeyOf[d] \in Keys /\ d # None
      BY <1>3
    <3>2. CASE KeyOf[d] = k
      BY <1>4, <1>8, <3>1, <3>2
    <3>3. CASE KeyOf[d] # k
      BY <1>8, <3>1, <3>3
    <3> QED
      BY <3>2, <3>3
  <2> QED
    BY <2>1, <2>2 DEF InUse
<1>11. Rooted'
  <2>1. ASSUME NEW t \in Subs
        PROVE  /\ sub'[t] = "idle" => entryOf'[t] = None /\ t \notin withdrawn'
               /\ sub'[t] # "idle" => /\ entryOf'[t] \in Subs /\ sub'[entryOf'[t]] # "idle"
                                      /\ KeyOf[entryOf'[t]] = KeyOf[t]
               /\ sub'[t] \in {"waiting", "active"} => t \in subscribers'[entryOf'[t]]
    <3>1. CASE t = s
      BY <1>4, <1>7, <1>8, <3>1 DEF k
    <3>2. CASE t # s
      BY <1>1, <1>2, <1>7, <1>8, <3>2 DEF Rooted
    <3> QED
      BY <3>1, <3>2
  <2>2. ASSUME NEW d \in Subs, NEW t \in subscribers'[d]
        PROVE  entryOf'[t] = d /\ sub'[t] \in {"waiting", "active", "failed"}
    <3>1. CASE t = s
      <4>1. s \notin subscribers[d]
        BY <1>1, <1>2 DEF Rooted
      <4> QED
        BY <1>7, <1>8, <2>2, <3>1, <4>1
    <3>2. CASE t # s
      <4>1. t \in subscribers[d] /\ t \in Subs
        BY <1>3, <1>8, <2>2, <3>2
      <4> QED
        BY <1>2, <1>7, <3>2, <4>1 DEF Rooted
    <3> QED
      BY <3>1, <3>2
  <2>3. ASSUME NEW j \in Keys, entries'[j] # None
        PROVE  KeyOf[entries'[j]] = j /\ subscribers'[entries'[j]] # {}
    <3>1. CASE j = k
      BY <1>4, <1>8, <3>1
    <3>2. CASE j # k
      <4>1. entries'[j] = entries[j] /\ KeyOf[entries[j]] = j /\ subscribers[entries[j]] # {}
        BY <1>2, <1>8, <2>3, <3>2 DEF Rooted
      <4> QED
        BY <1>3, <1>8, <2>3, <4>1
    <3> QED
      BY <3>1, <3>2
  <2> QED
    BY <2>1, <2>2, <2>3 DEF Rooted
<1>12. Withdrawals'
  <2>1. ASSUME NEW d \in Subs, NEW t \in subscribers'[d]
        PROVE  t \in withdrawn' <=> ~(accepting' /\ InUse(d)')
    <3>1. CASE d = e
      <4>1. t \in subscribers[e] => t \notin withdrawn
        BY <1>1, <1>2, <1>4, <1>5 DEF Withdrawals
      <4>2. InUse(d)'
        BY <1>10, <3>1 DEF InUse
      <4> QED
        BY <1>1, <1>5, <1>8, <2>1, <3>1, <4>1, <4>2
    <3>2. CASE d # e
      BY <1>1, <1>2, <1>8, <1>10, <2>1, <3>2 DEF Withdrawals
    <3> QED
      BY <3>1, <3>2
  <2> QED
    BY <2>1 DEF Withdrawals
<1>13. Versions'
  <2>1. ASSUME NEW d \in Subs, ~InUse(d)'
        PROVE  subscribers'[d] = {} \/ checked'[d] = version'[d]
    <3>1. d # e /\ ~InUse(d)
      BY <1>10, <2>1 DEF InUse
    <3>2. subscribers[d] = {} \/ checked[d] = version[d]
      BY <1>2, <3>1 DEF Versions
    <3>3. checked'[d] = checked[d] /\ version'[d] = version[d]
      BY <1>1, <1>6, <3>1
    <3>4. subscribers'[d] = subscribers[d]
      BY <1>8, <3>1
    <3> QED
      BY <3>2, <3>3, <3>4
  <2> QED
    BY <1>1, <1>6, <2>1 DEF Versions
<1>14. Answers'
  <2>1. ASSUME NEW d \in Subs, accepting', InUse(d)', d \notin dirty' PROVE Standing(KeyOf[d])'
    <3>1. d # e /\ d \notin dirty /\ InUse(d)
      BY <1>1, <1>10, <2>1
    <3> QED
      BY <1>1, <1>2, <3>1 DEF Answers, Standing
  <2>2. ASSUME Reading'
        PROVE  /\ worker'.answer = "accepted" /\ StillCurrent' => Standing(KeyOf[worker.entry])'
               /\ worker'.answer = "refused" => KeyOf[worker'.entry] \notin valid'
               /\ worker'.cut \/ worker'.answer = "canceled" => ~StillCurrent'
    <3>1. worker.entry \in Subs /\ Reading
      BY <1>3, <1>6, <2>2, WorkerParts DEF Reading
    <3>2. CASE worker.entry = e
      <4>1. ~StillCurrent'
        BY <1>6, <3>2, <1>4, WorkerParts, <1>3 DEF StillCurrent
      <4> QED
        BY <1>1, <1>2, <1>6, <3>1, <4>1 DEF Answers
    <3>3. CASE worker.entry # e
      <4>1. StillCurrent' <=> StillCurrent
        <5>1. entries'[KeyOf[worker.entry]] = worker.entry <=> entries[KeyOf[worker.entry]] = worker.entry
          BY <1>10, <3>1, <3>3 DEF InUse
        <5>2. /\ worker'.entry = worker.entry /\ worker'.version = worker.version /\ accepting' = accepting
              /\ version'[worker.entry] = version[worker.entry]
          BY <1>1, <1>6, <3>1, <3>3
        <5> QED
          BY <5>1, <5>2, Zenon DEF StillCurrent
      <4>2. Standing(KeyOf[worker.entry])' = Standing(KeyOf[worker.entry])
        BY <1>1, <1>6 DEF Standing
      <4> QED
        BY <1>1, <1>2, <1>6, <3>1, <3>3, <4>1, <4>2 DEF Answers
    <3> QED
      BY <3>2, <3>3
  <2> QED
    BY <2>1, <2>2 DEF Answers
<1>15. Owing'
  BY <1>1, <1>2, <1>6, <1>7 DEF Owing, Reading
<1>16. Steady
  <2>1. \A d \in Subs : sub[d] # "idle" => sub'[d] # "idle" /\ entryOf'[d] = entryOf[d]
    BY <1>1, <1>7
  <2>2. ASSUME NEW d \in Subs, sub[d] # "idle", entries'[KeyOf[d]] = d PROVE InUse(d)
    BY <1>1, <1>4, <1>10, <2>2 DEF InUse
  <2> QED
    BY <1>1, <1>6, <2>1, <2>2 DEF Steady
<1>17. ASSUME NEW t \in Subs, sub'[t] = "waiting"
       PROVE  \/ sub[t] = "waiting" /\ asked'[t] = asked[t]
              \/ KeyOf[t] \in valid \/ Barred(entryOf[t], asked[t])'
  <2>1. CASE t # s
    BY <1>7, <1>17, <2>1
  <2>2. CASE t = s
    <3> SUFFICES ASSUME KeyOf[s] \notin valid PROVE Barred(entryOf[s], asked[s])'
      BY <2>2
    <3>1. worker'.version \in Nat /\ checked \in [Subs -> Nat] /\ version'[e] \in Nat
      BY <1>2, <1>4, <1>6, WorkerParts, TypeParts
    <3>2. /\ KeyOf[e] \notin valid' /\ ~(worker'.entry = e /\ worker'.version >= version'[e])
          /\ ~(checked'[e] >= version'[e])
      BY <1>1, <1>4, <1>6, <3>1 DEF k
    <3> QED
      BY <1>7, <3>2 DEF Barred
  <2> QED
    BY <2>1, <2>2
<1>18. \A t \in Subs : sub'[t] = "active" => sub[t] = "active"
  BY <1>7
<1>19. Revocations'
  BY <1>1, <1>9, <1>16, <1>17, <1>18, RevokingStays DEF Revocations
<1>20. Ended'
  BY <1>1, <1>2 DEF Ended
<1> QED
  BY <1>9, <1>11, <1>12, <1>13, <1>14, <1>15, <1>19, <1>20 DEF IndInv

-----------------------------------------------------------------------------
(* The worker                                                              *)

LEMMA WorkerSelectsKeeps ==
    ASSUME IndInv, WorkerSelects
    PROVE  IndInv'
<1>1. /\ UNCHANGED <<valid, expired, entries, entryOf, subscribers, checked, known, asked, sub, withdrawn,
                     canceled, owed, accepting, change, targets, joining, shutdown>>
      /\ owed["worker"] = {} /\ accepting
      /\ version' = Bump(Overdue) /\ dirty' = dirty \union Overdue
  BY DEF WorkerSelects, sourceVars, changeVars
<1>2. PICK e \in Live \intersect dirty' :
          worker' = [entry |-> e, version |-> version'[e], cut |-> FALSE, answer |-> "pending"]
  BY DEF WorkerSelects
<1>3. Types /\ Rooted /\ Withdrawals /\ Versions /\ Answers /\ Owing /\ Revocations /\ Ended
  BY DEF IndInv
<1>4. Live = {d \in Subs : InUse(d)}
  BY <1>3, LiveInUse
<1>5. e \in Subs /\ \A d \in Overdue : d \in Subs /\ InUse(d)
  BY <1>2, <1>4 DEF Overdue
<1>6. /\ version \in [Subs -> Nat] /\ checked \in [Subs -> Nat] /\ dirty \subseteq Subs
      /\ version' \in [Subs -> Nat]
      /\ \A d \in Subs : version'[d] = IF d \in Overdue THEN version[d] + 1 ELSE version[d]
  <2>1. Overdue \in SUBSET Subs
    BY <1>5
  <2> QED
    BY <1>1, <1>3, <2>1, BumpParts, TypeParts
<1>7. /\ worker'.entry = e /\ worker'.version = version'[e] /\ worker'.cut = FALSE
      /\ worker'.answer = "pending"
  BY <1>2
<1>8. Types'
  <2>1. worker' \in Workers
    <3>1. version'[e] \in Nat
      BY <1>5, <1>6
    <3> QED
      BY <1>2, <1>5, <3>1 DEF Workers, Reads
  <2>2. dirty' \subseteq Subs
    BY <1>1, <1>5, <1>6
  <2> QED
    BY <1>1, <1>3, <1>6, <2>1, <2>2, TypeParts, TypesTogether
<1>9. Rooted' /\ Withdrawals'
  BY <1>1, <1>3, RootedStill, WithdrawalsStill
<1>10. Versions'
  <2>1. \A d \in Subs : InUse(d)' <=> InUse(d)
    BY <1>1 DEF InUse
  <2>2. \A d \in Subs : /\ checked'[d] <= version'[d]
                        /\ d \notin dirty' => checked'[d] = version'[d]
                        /\ ~InUse(d)' => subscribers'[d] = {} \/ checked'[d] = version'[d]
    BY <1>1, <1>3, <1>5, <1>6, <2>1 DEF Versions
  <2>3. version'[e] <= version'[e]
    BY <1>5, <1>6
  <2> QED
    BY <1>7, <2>2, <2>3 DEF Versions
<1>11. Answers'
  BY <1>1, <1>3, <1>7 DEF Answers, InUse, Standing
<1>12. Owing'
  BY <1>1, <1>3 DEF Owing
<1>13. Steady
  <2>1. \A d \in Subs : version'[d] >= version[d]
    BY <1>6
  <2> QED
    BY <1>1, <1>7, <2>1 DEF Steady, InUse
<1>14. Revocations'
  BY <1>1, <1>8, <1>13, RevokingStays DEF Revocations
<1>15. Ended'
  BY <1>1, <1>3 DEF Ended
<1> QED
  BY <1>8, <1>9, <1>10, <1>11, <1>12, <1>14, <1>15 DEF IndInv

LEMMA SourceAnswersKeeps ==
    ASSUME IndInv, SourceAnswers
    PROVE  IndInv'
<1>1. UNCHANGED <<valid, expired, entries, entryOf, subscribers, version, checked, dirty, known, asked, sub,
                  withdrawn, canceled, owed, accepting, change, targets, joining, shutdown>>
  BY DEF SourceAnswers, sourceVars, entryVars, changeVars
<1>2. PICK a \in {"accepted", "refused", "failed", "canceled"} :
          /\ a = "accepted" => KeyOf[worker.entry] \in valid
          /\ a = "refused" => KeyOf[worker.entry] \notin valid
          /\ a = "canceled" => worker.cut \/ ~accepting
          /\ worker' = [worker EXCEPT !.answer = a]
  BY DEF SourceAnswers
<1>3. Types /\ Rooted /\ Withdrawals /\ Versions /\ Answers /\ Owing /\ Revocations /\ Ended
  BY DEF IndInv
<1>4. worker \in Reads /\ worker.entry \in Subs /\ Reading /\ worker.answer = "pending"
  BY <1>3, TypeParts, WorkerParts DEF SourceAnswers, Reading
<1>5. worker' \in Reads
  BY <1>2, <1>4 DEF Reads
<1>6. /\ worker'.entry = worker.entry /\ worker'.version = worker.version /\ worker'.cut = worker.cut
      /\ worker'.answer = a
  BY <1>2, <1>4 DEF Reads
<1>7. Types'
  BY <1>1, <1>3, <1>5, TypeParts, TypesTogether DEF Workers
<1>8. Rooted' /\ Withdrawals'
  BY <1>1, <1>3, RootedStill, WithdrawalsStill
<1>9. Versions'
  BY <1>1, <1>3, <1>6 DEF Versions, InUse
<1>10. Answers'
  <2>1. StillCurrent' <=> StillCurrent
    BY <1>1, <1>6 DEF StillCurrent
  <2>2. \A d \in Subs : accepting' /\ InUse(d)' /\ d \notin dirty' => Standing(KeyOf[d])'
    BY <1>1, <1>3 DEF Answers, InUse, Standing
  <2>3. worker'.answer = "accepted" => Standing(KeyOf[worker.entry])'
    BY <1>1, <1>2, <1>6 DEF Standing
  <2>4. worker'.answer = "refused" => KeyOf[worker'.entry] \notin valid'
    BY <1>1, <1>2, <1>6
  <2>5. worker.cut => ~StillCurrent
    BY <1>3, <1>4 DEF Answers
  <2>6. worker'.cut \/ worker'.answer = "canceled" => ~StillCurrent'
    BY <1>2, <1>6, <2>1, <2>5 DEF StillCurrent
  <2> QED
    BY <2>2, <2>3, <2>4, <2>6 DEF Answers
<1>11. Owing'
  BY <1>1, <1>3, <1>4 DEF Owing, Reading
<1>12. Steady
  <2>1. \A d \in Subs : version'[d] >= version[d]
    BY <1>1, <1>3, TypeParts
  <2> QED
    BY <1>1, <1>2, <1>6, <2>1 DEF Steady, InUse
<1>13. Revocations'
  BY <1>1, <1>7, <1>12, RevokingStays DEF Revocations
<1>14. Ended'
  BY <1>1, <1>3 DEF Ended
<1> QED
  BY <1>7, <1>8, <1>9, <1>10, <1>11, <1>13, <1>14 DEF IndInv

LEMMA WorkerAppliesKeeps ==
    ASSUME IndInv, WorkerApplies
    PROVE  IndInv'
<1> DEFINE e == worker.entry
           drop == StillCurrent /\ worker.answer # "accepted"
<1>1. /\ UNCHANGED <<valid, expired, entryOf, subscribers, version, asked, sub, canceled, accepting, change,
                     targets, joining, shutdown>>
      /\ Reading /\ worker.answer # "pending" /\ worker' = Idle
  BY DEF WorkerApplies, sourceVars, changeVars
<1>2. /\ checked' = IF StillCurrent THEN [checked EXCEPT ![e] = worker.version] ELSE checked
      /\ dirty' = IF StillCurrent THEN dirty \ {e} ELSE dirty
      /\ known' = IF StillCurrent /\ ~drop THEN known \union {e} ELSE known
      /\ entries' = IF drop THEN [entries EXCEPT ![KeyOf[e]] = None] ELSE entries
      /\ withdrawn' = IF drop THEN withdrawn \union subscribers[e] ELSE withdrawn
      /\ owed' = IF drop THEN [owed EXCEPT !["worker"] = subscribers[e]] ELSE owed
  BY DEF WorkerApplies, Cancellations
<1>3. Types /\ Rooted /\ Withdrawals /\ Versions /\ Answers /\ Owing /\ Revocations /\ Ended
  BY DEF IndInv
<1>4. /\ subscribers \in [Subs -> SUBSET Subs] /\ entries \in [Keys -> Subs \union {None}]
      /\ KeyOf \in [Subs -> Keys] /\ None \notin Subs /\ worker \in Workers
      /\ version \in [Subs -> Nat] /\ checked \in [Subs -> Nat] /\ withdrawn \subseteq Subs
      /\ owed \in [{"worker", "shutdown"} -> SUBSET Subs] /\ dirty \subseteq Subs /\ known \subseteq Subs
      /\ sub \in [Subs -> SubPhases]
  BY <1>3, TypeParts, RetainedAssumption
<1>5. e \in Subs /\ worker.version \in Nat
  BY <1>1, <1>4, WorkerParts DEF Reading
<1>6. worker'.entry = None /\ worker' \in Workers
  BY <1>1 DEF Idle, Workers
<1>7. StillCurrent => InUse(e) /\ version[e] = worker.version /\ accepting
  BY DEF StillCurrent, InUse
<1> HIDE DEF e, drop
<1>8. /\ checked' \in [Subs -> Nat]
      /\ checked'[e] = IF StillCurrent THEN version[e] ELSE checked[e]
      /\ \A d \in Subs \ {e} : checked'[d] = checked[d]
  BY <1>2, <1>4, <1>5, <1>7
<1>9. /\ entries' \in [Keys -> Subs \union {None}] /\ (~drop => entries' = entries)
      /\ drop => entries'[KeyOf[e]] = None /\ \A k \in Keys \ {KeyOf[e]} : entries'[k] = entries[k]
  BY <1>2, <1>4, <1>5
<1>10. /\ owed' \in [{"worker", "shutdown"} -> SUBSET Subs] /\ owed'["shutdown"] = owed["shutdown"]
       /\ drop => owed'["worker"] = subscribers[e]
       /\ ~drop => owed' = owed
  BY <1>2, <1>4, <1>5
<1>11. /\ \A d \in Subs \ {e} : InUse(d)' <=> InUse(d)
       /\ entries'[KeyOf[e]] = e <=> InUse(e) /\ ~drop
       /\ drop => StillCurrent
  <2>1. drop => StillCurrent
    BY DEF drop
  <2>2. ASSUME NEW d \in Subs \ {e} PROVE InUse(d)' <=> InUse(d)
    <3>1. d # None /\ KeyOf[d] \in Keys
      BY <1>4
    <3> QED
      BY <1>7, <1>9, <2>1, <3>1 DEF InUse
  <2>3. entries'[KeyOf[e]] = e <=> InUse(e) /\ ~drop
    BY <1>4, <1>5, <1>9 DEF InUse
  <2> QED
    BY <2>1, <2>2, <2>3
<1>12. Types'
  <2>1. dirty' \subseteq Subs /\ known' \subseteq Subs /\ withdrawn' \subseteq Subs
    BY <1>2, <1>4, <1>5
  <2> QED
    BY <1>1, <1>3, <1>6, <1>8, <1>9, <1>10, <2>1, TypeParts, TypesTogether
<1>13. \A t \in withdrawn' \ withdrawn : drop /\ t \in subscribers[e]
  BY <1>2
<1>14. withdrawn \subseteq withdrawn' /\ (drop => subscribers[e] \subseteq withdrawn')
  BY <1>2
<1>15. Rooted'
  <2>1. \A t \in Subs : sub[t] = "idle" => t \notin withdrawn'
    BY <1>3, <1>5, <1>13 DEF Rooted
  <2>2. ASSUME NEW k \in Keys, entries'[k] # None
        PROVE  KeyOf[entries'[k]] = k /\ subscribers'[entries'[k]] # {}
    <3>1. entries'[k] = entries[k]
      BY <1>9, <2>2
    <3> QED
      BY <1>1, <1>3, <2>2, <3>1 DEF Rooted
  <2> QED
    BY <1>1, <1>3, <2>1, <2>2 DEF Rooted
<1>16. Withdrawals'
  <2>1. ASSUME NEW d \in Subs, NEW t \in subscribers'[d]
        PROVE  t \in withdrawn' <=> ~(accepting' /\ InUse(d)')
    <3>1. t \in subscribers[d] /\ (t \in withdrawn <=> ~(accepting /\ InUse(d)))
      BY <1>1, <1>3, <2>1 DEF Withdrawals
    <3>2. CASE d = e
      <4>1. InUse(d)' <=> InUse(d) /\ ~drop
        BY <1>11, <3>2 DEF InUse
      <4> QED
        BY <1>1, <1>13, <1>14, <3>1, <3>2, <4>1
    <3>3. CASE d # e
      <4>1. t \notin subscribers[e]
        BY <1>3, <1>5, <3>1, <3>3 DEF Rooted
      <4> QED
        BY <1>1, <1>11, <1>13, <1>14, <3>1, <3>3, <4>1
    <3> QED
      BY <3>2, <3>3
  <2> QED
    BY <2>1 DEF Withdrawals
<1>17. Versions'
  <2>1. ASSUME NEW d \in Subs
        PROVE  /\ checked'[d] <= version'[d]
               /\ d \notin dirty' => checked'[d] = version'[d]
               /\ ~InUse(d)' => subscribers'[d] = {} \/ checked'[d] = version'[d]
    <3>1. CASE d = e
      <4>1. InUse(d)' <=> InUse(d) /\ ~drop
        BY <1>11, <3>1 DEF InUse
      <4>2. CASE StillCurrent
        BY <1>1, <1>4, <1>5, <1>8, <3>1, <4>2
      <4>3. CASE ~StillCurrent
        BY <1>1, <1>2, <1>3, <1>5, <1>8, <1>11, <3>1, <4>1, <4>3 DEF Versions
      <4> QED
        BY <4>2, <4>3
    <3>2. CASE d # e
      BY <1>1, <1>2, <1>3, <1>8, <1>11, <3>2 DEF Versions
    <3> QED
      BY <3>1, <3>2
  <2> QED
    BY <1>4, <1>6, <2>1 DEF Versions
<1>18. Answers'
  <2>1. ASSUME NEW d \in Subs, accepting', InUse(d)', d \notin dirty' PROVE Standing(KeyOf[d])'
    <3>1. Standing(KeyOf[d])
      <4>1. CASE d = e /\ StillCurrent
        <5>1. ~drop
          BY <1>11, <2>1, <4>1 DEF InUse
        <5> QED
          BY <1>1, <1>3, <4>1, <5>1 DEF Answers, drop, e
      <4>2. CASE d # e
        BY <1>1, <1>2, <1>3, <1>11, <2>1, <4>2 DEF Answers
      <4>3. CASE d = e /\ ~StillCurrent
        <5>1. InUse(d) /\ d \notin dirty
          BY <1>2, <1>9, <1>11, <2>1, <4>3 DEF InUse
        <5> QED
          BY <1>1, <1>3, <2>1, <5>1 DEF Answers
      <4> QED
        BY <4>1, <4>2, <4>3
    <3> QED
      BY <1>1, <3>1 DEF Standing
  <2> QED
    BY <1>6, <2>1 DEF Answers, Reading
<1>19. Owing'
  <2>1. owed["worker"] = {}
    BY <1>1, <1>3 DEF Owing
  <2>2. ASSUME NEW t \in Subs, sub'[t] = "active", t \in withdrawn'
        PROVE  t \in canceled' \/ \E w \in {"worker", "shutdown"} : t \in owed'[w]
    <3>1. CASE t \in withdrawn
      BY <1>1, <1>3, <1>10, <2>1, <2>2, <3>1 DEF Owing
    <3>2. CASE t \notin withdrawn
      BY <1>10, <1>13, <2>2, <3>2
    <3> QED
      BY <3>1, <3>2
  <2>3. accepting' => owed'["shutdown"] = {}
    BY <1>1, <1>3, <1>10 DEF Owing
  <2> QED
    BY <1>6, <2>2, <2>3 DEF Owing, Reading
<1>20. Steady
  <2>1. \A d \in Subs : version'[d] >= version[d]
    BY <1>1, <1>4
  <2>2. ASSUME NEW d \in Subs, entries'[KeyOf[d]] = d
        PROVE  /\ InUse(d)
               /\ \/ checked'[d] = checked[d]
                  \/ worker.entry = d /\ worker.answer = "accepted" /\ checked'[d] = worker.version
    <3>1. CASE d = e
      <4>1. InUse(d) /\ ~drop
        BY <1>11, <2>2, <3>1
      <4> QED
        BY <1>7, <1>8, <3>1, <4>1 DEF drop, e
    <3>2. CASE d # e
      BY <1>8, <1>11, <2>2, <3>2 DEF InUse
    <3> QED
      BY <3>1, <3>2
  <2>3. \A d \in Subs : worker'.entry # d
    BY <1>4, <1>6
  <2> QED
    BY <1>1, <1>14, <2>1, <2>2, <2>3 DEF Steady
<1>21. Revocations'
  BY <1>1, <1>12, <1>20, RevokingStays DEF Revocations
<1>22. Ended'
  BY <1>1, <1>3 DEF Ended
<1> QED
  BY <1>12, <1>15, <1>16, <1>17, <1>18, <1>19, <1>21, <1>22 DEF IndInv

-----------------------------------------------------------------------------
(* Changed                                                                 *)

LEMMA BeginChangeKeeps ==
    ASSUME IndInv, NEW c \in Changes, BeginChange(c)
    PROVE  IndInv'
<1> DEFINE E == IF accepting THEN {e \in Live : Matches(c, e)} ELSE {}
<1>1. /\ UNCHANGED <<valid, expired, entries, entryOf, subscribers, checked, known, asked, sub, withdrawn,
                     canceled, owed, accepting, shutdown>>
      /\ change[c] = "committed" /\ change' = [change EXCEPT ![c] = "waiting"]
      /\ version' = Bump(E) /\ dirty' = dirty \union E /\ worker' = Cut(E)
      /\ targets' = [targets EXCEPT ![c] = [e \in E |-> version'[e]]]
      /\ joining' = [joining EXCEPT ![c] = (UNION {subscribers[e] : e \in E}) \union Retired(c)]
  BY DEF BeginChange, sourceVars
<1>2. Types /\ Rooted /\ Withdrawals /\ Versions /\ Answers /\ Owing /\ Revocations /\ Ended
  BY DEF IndInv
<1>3. /\ KeyOf \in [Subs -> Keys] /\ RevokedBy[c] \subseteq ScopeOf[c] /\ None \notin Subs
      /\ subscribers \in [Subs -> SUBSET Subs] /\ worker \in Workers
      /\ change \in [Changes -> ChangePhases] /\ joining \in [Changes -> SUBSET Subs]
      /\ targets = [d \in Changes |-> targets[d]]
      /\ \A d \in Changes : targets[d] \in [DOMAIN targets[d] -> Nat] /\ DOMAIN targets[d] \subseteq Subs
  BY <1>2, TypeParts, RetainedAssumption
<1>4. /\ \A e \in E : e \in Subs /\ InUse(e)
      /\ \A e \in Subs : accepting /\ InUse(e) /\ KeyOf[e] \in RevokedBy[c] => e \in E
  <2>1. Live = {e \in Subs : InUse(e)}
    BY <1>2, LiveInUse
  <2> QED
    BY <1>3, <2>1 DEF Matches
<1> HIDE DEF E
<1>5. /\ version' \in [Subs -> Nat] /\ dirty' \subseteq Subs /\ worker' \in Workers
      /\ worker'.entry = worker.entry /\ worker'.version = worker.version
      /\ worker'.answer = worker.answer
      /\ worker'.cut => worker.cut \/ worker.entry \in E
      /\ \A e \in Subs \ E : version'[e] = version[e]
      /\ \A e \in Subs : version'[e] >= version[e]
      /\ \A e \in Subs : checked[e] <= version'[e] /\ (e \notin dirty' => checked[e] = version'[e])
      /\ \A e \in Subs : worker'.entry = e => worker'.version <= version'[e]
      /\ \A e \in E : /\ checked[e] < version'[e]
                      /\ worker'.entry = e => worker'.version < version'[e]
  <2>1. E \in SUBSET Subs
    BY <1>4
  <2> QED
    BY <1>1, <1>2, <2>1, MarkParts
<1>6. /\ change' \in [Changes -> ChangePhases] /\ change'[c] = "waiting"
      /\ \A d \in Changes \ {c} : change'[d] = change[d]
  BY <1>1, <1>3 DEF ChangePhases
<1>7. /\ targets' = [d \in Changes |-> targets'[d]] /\ targets'[c] = [e \in E |-> version'[e]]
      /\ \A d \in Changes \ {c} : targets'[d] = targets[d]
  BY <1>1, <1>3
<1>8. /\ joining' \in [Changes -> SUBSET Subs]
      /\ joining'[c] = (UNION {subscribers[e] : e \in E}) \union Retired(c)
      /\ \A d \in Changes \ {c} : joining'[d] = joining[d]
  <2>1. (UNION {subscribers[e] : e \in E}) \union Retired(c) \subseteq Subs
    BY <1>3, <1>4 DEF Retired, Registered
  <2> QED
    BY <1>1, <1>3, <2>1
<1>9. Types'
  <2>1. \A d \in Changes : targets'[d] \in [DOMAIN targets'[d] -> Nat] /\ DOMAIN targets'[d] \subseteq Subs
    <3>1. targets'[c] \in [E -> Nat] /\ DOMAIN targets'[c] = E /\ E \subseteq Subs
      BY <1>4, <1>5, <1>7
    <3> QED
      BY <1>3, <1>7, <3>1
  <2> QED
    BY <1>1, <1>2, <1>5, <1>6, <1>7, <1>8, <2>1, TypeParts, TypesTogether
<1>10. Rooted' /\ Withdrawals'
  BY <1>1, <1>2, RootedStill, WithdrawalsStill
<1>11. Versions'
  <2>1. \A e \in Subs : ~InUse(e)' => subscribers'[e] = {} \/ checked'[e] = version'[e]
    BY <1>1, <1>2, <1>4, <1>5 DEF Versions, InUse
  <2> QED
    BY <1>1, <1>5, <2>1 DEF Versions
<1>12. \A k \in Keys : Standing(k) /\ k \notin RevokedBy[c] => Standing(k)'
  BY <1>1, <1>6 DEF Standing
<1>13. Answers'
  <2>1. ASSUME NEW e \in Subs, accepting', InUse(e)', e \notin dirty' PROVE Standing(KeyOf[e])'
    <3>1. accepting /\ InUse(e) /\ e \notin dirty /\ e \notin E /\ KeyOf[e] \in Keys
      BY <1>1, <1>3, <2>1 DEF InUse
    <3>2. KeyOf[e] \notin RevokedBy[c] /\ Standing(KeyOf[e])
      BY <1>2, <1>4, <3>1 DEF Answers
    <3> QED
      BY <1>12, <3>1, <3>2
  <2>2. ASSUME Reading'
        PROVE  /\ worker'.answer = "accepted" /\ StillCurrent' => Standing(KeyOf[worker.entry])'
               /\ worker'.answer = "refused" => KeyOf[worker'.entry] \notin valid'
               /\ worker'.cut \/ worker'.answer = "canceled" => ~StillCurrent'
    <3>1. worker.entry \in Subs /\ Reading /\ KeyOf[worker.entry] \in Keys
      BY <1>3, <1>5, <2>2, WorkerParts DEF Reading
    <3>2. CASE worker.entry \in E
      <4>1. worker'.version \in Nat /\ version'[worker.entry] \in Nat
        BY <1>3, <1>5, <3>1, WorkerParts
      <4>2. ~StillCurrent'
        BY <1>5, <3>2, <4>1 DEF StillCurrent
      <4> QED
        BY <1>1, <1>2, <1>5, <3>1, <4>2 DEF Answers
    <3>3. CASE worker.entry \notin E
      <4>1. StillCurrent' <=> StillCurrent
        BY <1>1, <1>5, <3>1, <3>3 DEF StillCurrent
      <4>2. StillCurrent => KeyOf[worker.entry] \notin RevokedBy[c]
        BY <1>4, <3>1, <3>3 DEF StillCurrent, InUse
      <4>3. Standing(KeyOf[worker.entry]) /\ KeyOf[worker.entry] \notin RevokedBy[c] =>
                Standing(KeyOf[worker.entry])'
        BY <1>1, <1>5, <1>6 DEF Standing
      <4> QED
        BY <1>1, <1>2, <1>5, <3>1, <3>3, <4>1, <4>2, <4>3 DEF Answers
    <3> QED
      BY <3>2, <3>3
  <2> QED
    BY <2>1, <2>2 DEF Answers
<1>14. Owing'
  BY <1>1, <1>2, <1>5 DEF Owing, Reading
<1>15. Steady
  BY <1>1, <1>5 DEF Steady, InUse
<1>16. ASSUME NEW d \in Changes \ {c} PROVE Revoking(d)'
  BY <1>1, <1>6, <1>7, <1>8, <1>9, <1>15, RevokingStays
<1>17. Revoking(c)'
  <2>1. RevokedBy[c] \intersect valid = {}
    BY <1>1, <1>2 DEF Revocations, Revoking
  <2>2. DOMAIN targets'[c] = E /\ \A e \in E : targets'[c][e] = version'[e]
    BY <1>7
  <2>3. ASSUME NEW e \in DOMAIN targets'[c]
        PROVE  /\ sub'[e] # "idle" /\ targets'[c][e] <= version'[e]
               /\ KeyOf[e] \in RevokedBy[c] => Barred(e, targets[c][e])'
    <3>1. e \in E /\ e \in Subs /\ InUse(e)
      BY <1>4, <2>2, <2>3
    <3>2. sub[e] # "idle"
      BY <1>2, <3>1, FreshEntry
    <3>3. /\ version'[e] \in Nat /\ checked[e] \in Nat /\ worker'.version \in Nat
      BY <1>2, <1>5, <3>1, TypeParts, WorkerParts
    <3>4. KeyOf[e] \in RevokedBy[c] =>
              /\ KeyOf[e] \notin valid' /\ ~(checked'[e] >= version'[e])
              /\ ~(worker'.entry = e /\ worker'.version >= version'[e])
      BY <1>1, <1>5, <2>1, <3>1, <3>3
    <3> QED
      BY <1>1, <2>2, <3>1, <3>2, <3>3, <3>4 DEF Barred
  <2>4. ASSUME NEW s \in joining'[c]
        PROVE  sub'[s] # "idle" /\ (s \notin withdrawn' => entryOf'[s] \in DOMAIN targets'[c])
    <3>1. CASE s \in Retired(c)
      BY <1>1, <3>1 DEF Retired, Registered
    <3>2. CASE s \in UNION {subscribers[e] : e \in E}
      <4>1. PICK e \in E : s \in subscribers[e]
        BY <3>2
      <4> QED
        BY <1>1, <1>2, <1>4, <2>2, <4>1 DEF Rooted
    <3> QED
      BY <1>8, <2>4, <3>1, <3>2
  <2>5. ASSUME NEW s \in Subs \ joining'[c], KeyOf[s] \in RevokedBy[c]
        PROVE  sub'[s] \notin {"active", "waiting"}
    <3> SUFFICES ASSUME sub[s] \in {"active", "waiting"} PROVE s \in joining'[c]
      BY <1>1, <2>5
    <3>1. CASE s \in withdrawn
      <4>1. KeyOf[entryOf[s]] = KeyOf[s]
        BY <1>2 DEF Rooted
      <4>2. s \in Retired(c)
        BY <1>3, <2>5, <3>1, <4>1 DEF Retired, Registered, Matches
      <4> QED
        BY <1>8, <4>2
    <3>2. CASE s \notin withdrawn
      <4>1. /\ accepting /\ entryOf[s] \in Subs /\ InUse(entryOf[s]) /\ s \in subscribers[entryOf[s]]
            /\ KeyOf[entryOf[s]] = KeyOf[s]
        BY <1>2, <3>2, NotWithdrawn
      <4>2. entryOf[s] \in E
        BY <1>4, <2>5, <4>1
      <4> QED
        BY <1>8, <4>1, <4>2
    <3> QED
      BY <3>1, <3>2
  <2> QED
    BY <1>1, <1>6, <2>1, <2>3, <2>4, <2>5 DEF Revoking
<1>18. Ended'
  BY <1>1, <1>2 DEF Ended
<1> QED
  BY <1>9, <1>10, <1>11, <1>13, <1>14, <1>16, <1>17, <1>18 DEF IndInv, Revocations

\* A subscription on a key that the change revoked is joined only once it is over.
LEMMA JoinedIsOver ==
    ASSUME IndInv, NEW c \in Changes, NEW s \in Subs, Join(c, s), KeyOf[s] \in RevokedBy[c]
    PROVE  sub[s] \notin {"active", "waiting"}
<1>1. Types /\ Rooted /\ Withdrawals /\ Revoking(c)
  BY DEF IndInv, Revocations
<1> SUFFICES ASSUME sub[s] \in {"active", "waiting"} PROVE FALSE
  OBVIOUS
<1>2. s \notin withdrawn /\ s \in joining[c] /\ (entryOf[s] \in DOMAIN targets[c] => Settled(c, entryOf[s]))
  BY DEF Join
<1>3. /\ accepting /\ entryOf[s] \in Subs /\ InUse(entryOf[s]) /\ s \in subscribers[entryOf[s]]
      /\ KeyOf[entryOf[s]] = KeyOf[s]
  BY <1>1, <1>2, NotWithdrawn
<1>4. entryOf[s] \in DOMAIN targets[c]
  BY <1>1, <1>2 DEF Revoking
<1>5. checked[entryOf[s]] >= targets[c][entryOf[s]]
  BY <1>2, <1>3, <1>4 DEF Settled
<1>6. Barred(entryOf[s], targets[c][entryOf[s]])
  BY <1>1, <1>3, <1>4 DEF Revoking
<1> QED
  BY <1>3, <1>5, <1>6 DEF Barred

LEMMA ChangedKeeps ==
    ASSUME IndInv, NEW c \in Changes,
           (\E s \in Subs : Join(c, s)) \/ ChangedReturns(c) \/ ChangedTimesOut(c)
    PROVE  IndInv'
<1>1. /\ UNCHANGED <<valid, expired, entries, entryOf, subscribers, version, checked, dirty, known, asked,
                     sub, withdrawn, canceled, owed, worker, accepting, shutdown>>
      /\ change[c] = "waiting"
  BY DEF Join, ChangedReturns, ChangedTimesOut, sourceVars, entryVars
<1>2. Types /\ Rooted /\ Withdrawals /\ Versions /\ Answers /\ Owing /\ Revocations /\ Ended
  BY DEF IndInv
<1>3. /\ change \in [Changes -> ChangePhases] /\ joining \in [Changes -> SUBSET Subs]
      /\ targets = [d \in Changes |-> targets[d]]
      /\ \A d \in Changes : targets[d] \in [DOMAIN targets[d] -> Nat] /\ DOMAIN targets[d] \subseteq Subs
  BY <1>2, TypeParts
<1>4. /\ change' \in [Changes -> ChangePhases] /\ joining' \in [Changes -> SUBSET Subs]
      /\ \A d \in Changes \ {c} : change'[d] = change[d] /\ joining'[d] = joining[d]
      /\ change'[c] # "committed"
  <2>1. CASE \E s \in Subs : Join(c, s)
    BY <1>1, <1>3, <2>1 DEF Join
  <2>2. CASE ChangedReturns(c)
    BY <1>3, <2>2 DEF ChangedReturns, ChangePhases
  <2>3. CASE ChangedTimesOut(c)
    BY <1>3, <2>3 DEF ChangedTimesOut, ChangePhases
  <2> QED
    BY <2>1, <2>2, <2>3
<1>5. targets' = targets \/ targets' = [targets EXCEPT ![c] = NoTargets]
  BY DEF Join, ChangedReturns, ChangedTimesOut
<1>6. /\ targets' = [d \in Changes |-> targets'[d]] /\ \A d \in Changes \ {c} : targets'[d] = targets[d]
      /\ targets'[c] = targets[c] \/ targets'[c] = NoTargets
  BY <1>3, <1>5
<1>7. NoTargets \in [DOMAIN NoTargets -> Nat] /\ DOMAIN NoTargets = {}
  BY DEF NoTargets
<1>8. Types'
  <2>1. \A d \in Changes : targets'[d] \in [DOMAIN targets'[d] -> Nat] /\ DOMAIN targets'[d] \subseteq Subs
    BY <1>3, <1>6, <1>7
  <2> QED
    BY <1>1, <1>2, <1>4, <1>6, <2>1, TypeParts, TypesTogether
<1>9. Rooted' /\ Withdrawals' /\ Versions' /\ Owing'
  BY <1>1, <1>2, RootedStill, WithdrawalsStill, VersionsStill, OwingStill
<1>10. Answers'
  <2>1. \A k \in Keys : Standing(k) => Standing(k)'
    BY <1>1, <1>4 DEF Standing
  <2> QED
    BY <1>1, <1>2, <2>1, AnswersStill
<1>11. Steady
  BY <1>1, <1>2, SteadyStill
<1>12. ASSUME NEW d \in Changes \ {c} PROVE Revoking(d)'
  BY <1>1, <1>4, <1>6, <1>8, <1>11, RevokingStays
<1>13. Revoking(c)'
  <2>1. Revoking(c)
    BY <1>2 DEF Revocations
  <2>2. CASE \E s \in Subs : Join(c, s)
    <3>1. PICK s \in Subs : Join(c, s)
      BY <2>2
    <3>2. /\ joining' = [joining EXCEPT ![c] = @ \ {s}] /\ UNCHANGED <<change, targets>>
      BY <3>1 DEF Join
    <3>3. joining'[c] = joining[c] \ {s}
      BY <1>3, <3>2
    <3>4. KeyOf[s] \in RevokedBy[c] => sub[s] \notin {"active", "waiting"}
      BY <3>1, JoinedIsOver
    <3> QED
      BY <1>1, <2>1, <3>2, <3>3, <3>4 DEF Revoking, Barred, InUse
  <2>3. CASE ChangedReturns(c)
    <3>1. change'[c] = "returned" /\ targets'[c] = NoTargets /\ joining'[c] = {} /\ joining[c] = {}
      BY <1>3, <2>3 DEF ChangedReturns
    <3> QED
      BY <1>1, <1>7, <2>1, <3>1 DEF Revoking, Barred, InUse
  <2>4. CASE ChangedTimesOut(c)
    <3>1. change'[c] = "timedOut" /\ targets'[c] = NoTargets /\ joining'[c] = {}
      BY <1>3, <2>4 DEF ChangedTimesOut
    <3> QED
      BY <1>1, <1>7, <2>1, <3>1 DEF Revoking
  <2> QED
    BY <2>2, <2>3, <2>4
<1>14. Ended'
  BY <1>1, <1>2 DEF Ended
<1> QED
  BY <1>8, <1>9, <1>10, <1>12, <1>13, <1>14 DEF IndInv, Revocations

-----------------------------------------------------------------------------
(* Shutdown                                                                *)

LEMMA BeginShutdownKeeps ==
    ASSUME IndInv, BeginShutdown
    PROVE  IndInv'
<1>1. /\ UNCHANGED <<valid, expired, entries, entryOf, subscribers, version, checked, dirty, known, asked,
                     sub, canceled, change, targets, joining, shutdown>>
      /\ accepting /\ accepting' = FALSE /\ worker' = Cut(Live)
      /\ withdrawn' = withdrawn \union OwnedByEntries
      /\ owed' = [owed EXCEPT !["shutdown"] = OwnedByEntries]
  BY DEF BeginShutdown, sourceVars, entryVars, changeVars
<1>2. Types /\ Rooted /\ Withdrawals /\ Versions /\ Answers /\ Owing /\ Revocations /\ Ended
  BY DEF IndInv
<1>3. /\ subscribers \in [Subs -> SUBSET Subs] /\ withdrawn \subseteq Subs /\ worker \in Workers
      /\ owed \in [{"worker", "shutdown"} -> SUBSET Subs] /\ version \in [Subs -> Nat]
  BY <1>2, TypeParts
<1>4. Live = {e \in Subs : InUse(e)}
  BY <1>2, LiveInUse
<1>5. /\ OwnedByEntries \subseteq Subs
      /\ \A t \in OwnedByEntries : sub[t] # "idle"
      /\ \A e \in Subs : InUse(e) => subscribers[e] \subseteq OwnedByEntries
  BY <1>2, <1>3, <1>4 DEF OwnedByEntries, Rooted
<1>6. /\ worker' \in Workers /\ worker'.entry = worker.entry /\ worker'.version = worker.version
      /\ worker'.answer = worker.answer
  BY <1>1, <1>3, <1>4, CutParts
<1>7. /\ owed' \in [{"worker", "shutdown"} -> SUBSET Subs] /\ owed'["worker"] = owed["worker"]
      /\ owed'["shutdown"] = OwnedByEntries
  BY <1>1, <1>3, <1>5
<1>8. withdrawn' \subseteq Subs /\ accepting' \in BOOLEAN
  BY <1>1, <1>3, <1>5
<1>9. Types'
  BY <1>1, <1>2, <1>6, <1>7, <1>8, TypeParts, TypesTogether
<1>10. Rooted'
  <2>1. \A t \in Subs : sub[t] = "idle" => t \notin withdrawn'
    BY <1>1, <1>2, <1>5 DEF Rooted
  <2> QED
    BY <1>1, <1>2, <2>1 DEF Rooted
<1>11. Withdrawals'
  BY <1>1, <1>2, <1>5 DEF Withdrawals
<1>12. Versions'
  BY <1>1, <1>2, <1>6 DEF Versions, InUse
<1>13. Answers'
  <2>1. ~StillCurrent'
    BY <1>1 DEF StillCurrent
  <2>2. Reading => (worker.answer = "refused" => KeyOf[worker.entry] \notin valid)
    BY <1>2 DEF Answers
  <2> QED
    BY <1>1, <1>6, <2>1, <2>2 DEF Answers, Reading
<1>14. Owing'
  <2>1. owed["shutdown"] = {}
    BY <1>1, <1>2 DEF Owing
  <2> QED
    BY <1>1, <1>2, <1>6, <1>7, <2>1 DEF Owing, Reading
<1>15. Steady
  BY <1>1, <1>3, <1>6 DEF Steady, InUse
<1>16. Revocations'
  BY <1>1, <1>9, <1>15, RevokingStays DEF Revocations
<1>17. Ended'
  BY <1>1, <1>2 DEF Ended
<1> QED
  BY <1>9, <1>10, <1>11, <1>12, <1>13, <1>14, <1>16, <1>17 DEF IndInv

-----------------------------------------------------------------------------
(* Theorems                                                                *)

LEMMA InitInv == Init => IndInv
<1> SUFFICES ASSUME Init PROVE IndInv
  OBVIOUS
<1>1. /\ valid = Keys /\ expired = {} /\ dirty = {} /\ known = {} /\ withdrawn = {} /\ canceled = {}
      /\ worker = Idle /\ accepting = TRUE /\ shutdown = "idle"
      /\ entries = [k \in Keys |-> None] /\ entryOf = [s \in Subs |-> None]
      /\ subscribers = [e \in Subs |-> {}] /\ version = [e \in Subs |-> 0]
      /\ checked = [e \in Subs |-> 0] /\ asked = [s \in Subs |-> 0]
      /\ sub = [s \in Subs |-> "idle"] /\ owed = [w \in {"worker", "shutdown"} |-> {}]
      /\ change = [c \in Changes |-> "idle"] /\ targets = [c \in Changes |-> NoTargets]
      /\ joining = [c \in Changes |-> {}]
  BY DEF Init
<1>2. Idle.entry = None /\ NoTargets \in [DOMAIN NoTargets -> Nat] /\ DOMAIN NoTargets = {}
  BY DEF Idle, NoTargets
<1>3. TypeOK
  <2>1. /\ valid \subseteq Keys /\ expired \subseteq Keys
        /\ entries \in [Keys -> Subs \union {None}] /\ entryOf \in [Subs -> Subs \union {None}]
        /\ subscribers \in [Subs -> SUBSET Subs]
        /\ version \in [Subs -> Nat] /\ checked \in [Subs -> Nat] /\ asked \in [Subs -> Nat]
        /\ dirty \subseteq Subs /\ known \subseteq Subs
        /\ withdrawn \subseteq Subs /\ canceled \subseteq Subs
    BY <1>1
  <2>2. /\ sub \in [Subs -> SubPhases] /\ owed \in [{"worker", "shutdown"} -> SUBSET Subs]
        /\ change \in [Changes -> ChangePhases] /\ joining \in [Changes -> SUBSET Subs]
    BY <1>1 DEF SubPhases, ChangePhases
  <2>3. worker \in Reads \union {Idle, Exited} /\ accepting \in BOOLEAN
    BY <1>1, Zenon
  <2>4. \A c \in Changes : targets[c] \in [DOMAIN targets[c] -> Nat]
    BY <1>1, <1>2
  <2> QED
    BY <2>1, <2>2, <2>3, <2>4, Zenon DEF TypeOK
<1>4. Types
  <2>1. targets = [c \in Changes |-> targets[c]] /\ \A c \in Changes : DOMAIN targets[c] \subseteq Subs
    BY <1>1, <1>2
  <2> QED
    BY <1>3, <2>1 DEF Types
<1>5. Rooted /\ Withdrawals
  BY <1>1 DEF Rooted, Withdrawals
<1>6. Versions
  BY <1>1, <1>2, RetainedAssumption DEF Versions
<1>7. Answers
  BY <1>1, <1>2, RetainedAssumption DEF Answers, Reading, Standing
<1>8. Owing
  BY <1>1 DEF Owing
<1>9. Revocations /\ Ended
  BY <1>1, <1>2 DEF Revocations, Revoking, Ended
<1> QED
  BY <1>4, <1>5, <1>6, <1>7, <1>8, <1>9 DEF IndInv

LEMMA StutterInv ==
    ASSUME IndInv, UNCHANGED vars
    PROVE  IndInv'
<1>1. UNCHANGED <<valid, expired, entries, entryOf, subscribers, version, checked, dirty, known, asked, sub,
                  withdrawn, canceled, owed, worker, accepting, change, targets, joining, shutdown>>
  BY DEF vars, sourceVars, entryVars, changeVars
<1>2. Types /\ Rooted /\ Withdrawals /\ Versions /\ Answers /\ Owing /\ Revocations /\ Ended
  BY DEF IndInv
<1>3. Types'
  BY <1>1, <1>2, TypeParts, TypesTogether
<1>4. Rooted' /\ Withdrawals' /\ Versions' /\ Owing'
  BY <1>1, <1>2, RootedStill, WithdrawalsStill, VersionsStill, OwingStill
<1>5. Answers'
  BY <1>1, <1>2, AnswersStill DEF Standing
<1>6. Steady
  BY <1>1, <1>2, SteadyStill
<1>7. Revocations'
  BY <1>1, <1>3, <1>6, RevokingStays DEF Revocations
<1>8. Ended'
  BY <1>1, <1>2 DEF Ended
<1> QED
  BY <1>3, <1>4, <1>5, <1>7, <1>8 DEF IndInv

\* The registry, the reads and the calls of Changed are always as IndInv says.
THEOREM RetainedInvariant == Spec => []IndInv
<1>1. IndInv /\ [Next]_vars => IndInv'
  <2> SUFFICES ASSUME IndInv, [Next]_vars PROVE IndInv'
    OBVIOUS
  <2>1. CASE \E s \in Subs : \/ Retain(s) \/ RetainSucceeds(s) \/ RetainRejected(s) \/ RetainGivesUp(s)
                             \/ Release(s)
                             \/ \E w \in {"worker", "shutdown"} : CallCancel(w, s)
    BY <2>1, RetainKeeps, RetainEndsKeeps, LeaveKeeps, CallCancelKeeps
  <2>2. CASE \E k \in Keys : Expire(k)
    BY <2>2, SourceKeeps
  <2>3. CASE WorkerSelects \/ SourceAnswers \/ WorkerApplies \/ WorkerExits \/ ShutdownReturns
    BY <2>3, WorkerSelectsKeeps, SourceAnswersKeeps, WorkerAppliesKeeps, EndKeeps
  <2>4. CASE \E c \in Changes : \/ Commit(c) \/ BeginChange(c) \/ ChangedReturns(c) \/ ChangedTimesOut(c)
                                \/ \E s \in Subs : Join(c, s)
    BY <2>4, SourceKeeps, BeginChangeKeeps, ChangedKeeps
  <2>5. CASE BeginShutdown
    BY <2>5, BeginShutdownKeeps
  <2>6. CASE UNCHANGED vars
    BY <2>6, StutterInv
  <2> QED
    BY <2>1, <2>2, <2>3, <2>4, <2>5, <2>6 DEF Next
<1> QED
  BY <1>1, InitInv, PTL DEF Spec

\* The variables have their types and the registry has no ghosts: an entry that is
\* registered has subscribers, all of them registered with it and none withdrawn while
\* the process accepts, for any subscriptions on any keys.
THEOREM RetainedRegistrySound == Spec => []RegistrySound
<1>1. IndInv => RegistrySound
  <2> SUFFICES ASSUME IndInv PROVE RegistrySound
    OBVIOUS
  <2>1. Types /\ Rooted /\ Withdrawals /\ TypeOK
    BY DEF IndInv, Types
  <2>2. ASSUME NEW k \in Keys, entries[k] # None
        PROVE  /\ subscribers[entries[k]] # {}
               /\ \A s \in subscribers[entries[k]] :
                      /\ KeyOf[s] = k /\ entryOf[s] = entries[k]
                      /\ sub[s] \in {"waiting", "active", "failed"}
                      /\ accepting => s \notin withdrawn
    <3>1. entries[k] \in Subs /\ subscribers[entries[k]] \subseteq Subs
      BY <2>1, <2>2, TypeParts
    <3>2. KeyOf[entries[k]] = k /\ subscribers[entries[k]] # {} /\ InUse(entries[k])
      BY <2>1, <2>2 DEF Rooted, InUse
    <3>3. ASSUME NEW s \in subscribers[entries[k]]
          PROVE  /\ entryOf[s] = entries[k] /\ sub[s] \in {"waiting", "active", "failed"}
                 /\ KeyOf[s] = k /\ (accepting => s \notin withdrawn)
      BY <2>1, <3>1, <3>2, <3>3 DEF Rooted, Withdrawals
    <3> QED
      BY <3>2, <3>3
  <2> QED
    BY <2>1, <2>2 DEF RegistrySound, EntriesOwnTheirSubscribers
<1> QED
  BY <1>1, RetainedInvariant, PTL

\* What Changed and Shutdown have waited for is gone once they have returned: no
\* operation runs on a key that the change revoked, although subscriptions come and go
\* and reads are under way while Changed waits, and none is left after Shutdown.
THEOREM RetainedJoinedMeansGone == Spec => []JoinedMeansGone
<1>1. IndInv => JoinedMeansGone
  <2> SUFFICES ASSUME IndInv PROVE JoinedMeansGone
    OBVIOUS
  <2>1. ASSUME NEW c \in Changes, NEW s \in Subs, change[c] = "returned", KeyOf[s] \in RevokedBy[c]
        PROVE  sub[s] # "active"
    <3>1. Revoking(c)
      BY DEF IndInv, Revocations
    <3>2. joining[c] = {}
      BY <2>1, <3>1 DEF Revoking
    <3> QED
      BY <2>1, <3>1, <3>2 DEF Revoking
  <2>2. ShutdownJoinsAll
    BY DEF IndInv, Ended, ShutdownJoinsAll
  <2> QED
    BY <2>1, <2>2 DEF JoinedMeansGone, RevocationJoined
<1> QED
  BY <1>1, RetainedInvariant, PTL

\* No read that was under way when the permission went hides that it went: an operation
\* without permission is withdrawn, or its entry is due, or the hint has not come yet.
THEOREM RetainedRevocationNotLost == Spec => []RevocationNotLost
<1>1. IndInv => RevocationNotLost
  <2> SUFFICES ASSUME IndInv, NEW s \in Subs, sub[s] = "active", KeyOf[s] \notin valid,
                      s \notin withdrawn, entryOf[s] \notin dirty
               PROVE  \/ KeyOf[s] \in expired
                      \/ \E c \in Changes : change[c] = "committed" /\ KeyOf[s] \in RevokedBy[c]
    BY DEF RevocationNotLost
  <2>1. Types /\ Rooted /\ Withdrawals /\ Answers
    BY DEF IndInv
  <2>2. accepting /\ entryOf[s] \in Subs /\ InUse(entryOf[s]) /\ KeyOf[entryOf[s]] = KeyOf[s]
    BY <2>1, NotWithdrawn
  <2>3. Standing(KeyOf[s])
    BY <2>1, <2>2 DEF Answers
  <2> QED
    BY <2>3 DEF Standing
<1> QED
  BY <1>1, RetainedInvariant, PTL

\* A call of Changed waits only for what somebody will do: for an entry that is
\* registered and due, and for withdrawn operations that are canceled or about to be.
THEOREM RetainedWaitsOnSomebody == Spec => []ChangedWaitsOnSomebody
<1>1. IndInv => ChangedWaitsOnSomebody
  <2> SUFFICES ASSUME IndInv, NEW c \in Changes, change[c] = "waiting"
               PROVE  /\ \A e \in DOMAIN targets[c] : Settled(c, e) \/ e \in Live \intersect dirty
                      /\ \A s \in joining[c] \intersect withdrawn :
                             \/ sub[s] # "active"
                             \/ s \in canceled \/ \E w \in {"worker", "shutdown"} : s \in owed[w]
    BY DEF ChangedWaitsOnSomebody
  <2>1. Types /\ Rooted /\ Versions /\ Owing /\ Revoking(c)
    BY DEF IndInv, Revocations
  <2>2. ASSUME NEW e \in DOMAIN targets[c], ~Settled(c, e) PROVE e \in Live \intersect dirty
    <3>1. e \in Subs /\ targets[c][e] \in Nat /\ targets[c][e] <= version[e]
      BY <2>1, TypeParts DEF Revoking
    <3>2. ~(checked[e] >= targets[c][e]) /\ subscribers[e] # {} /\ checked[e] \in Nat /\ version[e] \in Nat
      BY <2>1, <2>2, <3>1, TypeParts DEF Settled
    <3>3. InUse(e) /\ e \in dirty
      BY <2>1, <3>1, <3>2 DEF Versions
    <3> QED
      BY <2>1, <3>1, <3>3, LiveInUse
  <2>3. joining[c] \subseteq Subs
    BY <2>1, TypeParts
  <2> QED
    BY <2>1, <2>2, <2>3 DEF Owing
<1> QED
  BY <1>1, RetainedInvariant, PTL

\* A subscription is withdrawn because the source refused or failed a read of its entry,
\* because its own caller gave up, or by shutdown, and never because a hint cut a read off.
THEOREM RetainedHintsDoNotWithdraw == Spec => HintsDoNotWithdraw
<1>1. ASSUME IndInv, [Next]_vars, NEW s \in withdrawn' \ withdrawn
      PROVE  \/ ~accepting' \/ sub'[s] = "failed"
             \/ worker.answer = "failed"
             \/ worker.answer = "refused" /\ KeyOf[s] \notin valid
  <2>1. (\E t \in Subs : RetainGivesUp(t)) \/ WorkerApplies \/ BeginShutdown
    BY <1>1 DEF Next, Retain, RetainSucceeds, RetainRejected, Release, CallCancel, Expire, WorkerSelects,
       SourceAnswers, WorkerExits, Commit, BeginChange, ChangedReturns, ChangedTimesOut, Join,
       ShutdownReturns, vars
  <2>2. CASE \E t \in Subs : RetainGivesUp(t)
    <3>1. PICK t \in Subs : RetainGivesUp(t)
      BY <2>2
    <3>2. s = t /\ sub \in [Subs -> SubPhases]
      BY <1>1, <3>1, TypeParts DEF RetainGivesUp, IndInv
    <3> QED
      BY <3>1, <3>2 DEF RetainGivesUp
  <2>3. CASE BeginShutdown
    BY <2>3 DEF BeginShutdown
  <2>4. CASE WorkerApplies
    <3>1. Types /\ Rooted /\ Answers
      BY <1>1 DEF IndInv
    <3>2. /\ StillCurrent /\ worker.answer # "accepted" /\ worker.answer # "pending" /\ Reading
          /\ s \in subscribers[worker.entry]
      BY <1>1, <2>4 DEF WorkerApplies
    <3>3. worker \in Reads /\ worker.entry \in Subs
      BY <3>1, <3>2, TypeParts, WorkerParts DEF Reading
    <3>4. worker.answer \in {"refused", "failed", "canceled"}
      BY <3>2, <3>3 DEF Reads
    <3>5. worker.answer # "canceled" /\ (worker.answer = "refused" => KeyOf[worker.entry] \notin valid)
      BY <3>1, <3>2 DEF Answers
    <3>6. KeyOf[s] = KeyOf[worker.entry]
      <4>1. entryOf[s] = worker.entry /\ sub[s] # "idle" /\ s \in Subs
        BY <3>1, <3>2, <3>3, TypeParts DEF Rooted
      <4> QED
        BY <3>1, <4>1 DEF Rooted
    <3> QED
      BY <3>4, <3>5, <3>6
  <2> QED
    BY <2>1, <2>2, <2>3, <2>4
<1>2. IndInv /\ [Next]_vars =>
        [\A s \in withdrawn' \ withdrawn :
            \/ ~accepting' \/ sub'[s] = "failed"
            \/ worker.answer = "failed"
            \/ worker.answer = "refused" /\ KeyOf[s] \notin valid]_vars
  BY <1>1
<1> QED
  BY <1>2, RetainedInvariant, PTL DEF Spec, HintsDoNotWithdraw
=============================================================================
