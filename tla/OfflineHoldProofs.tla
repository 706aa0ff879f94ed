------------------------- MODULE OfflineHoldProofs -------------------------
(***************************************************************************)
(* Proofs about the offline-hold gate, for every number of requests,       *)
(* actions, operators and targets and every configuration.                 *)
(***************************************************************************)
EXTENDS OfflineHold, FiniteSetTheorems, SequenceTheorems, TLAPS

\* A prefix of a sequence without repetition has as many elements as its length.
LEMMA HeadsCardinality ==
    ASSUME NEW q \in Seq(Requests), NEW k \in 0..Len(q),
           \A i, j \in 1..Len(q) : q[i] = q[j] => i = j
    PROVE  IsFiniteSet(Heads(q, k)) /\ Cardinality(Heads(q, k)) = k
<1> DEFINE f == [i \in 1..k |-> q[i]]
<1>1. f \in Bijection(1..k, Heads(q, k))
  <2>1. \A i \in 1..k : i \in 1..Len(q)
    OBVIOUS
  <2>2. f \in [1..k -> Heads(q, k)]
    BY DEF Heads
  <2>3. \A i, j \in 1..k : f[i] = f[j] => i = j
    BY <2>1
  <2>4. \A t \in Heads(q, k) : \E i \in 1..k : f[i] = t
    BY DEF Heads
  <2> QED
    BY <2>2, <2>3, <2>4 DEF Bijection, Injection, Surjection, IsInjective
<1>2. ExistsBijection(1..k, Heads(q, k))
  BY <1>1 DEF ExistsBijection
<1>3. IsFiniteSet(1..k) /\ Cardinality(1..k) = k
  BY FS_Interval
<1> QED
  BY <1>2, <1>3, FS_Bijection

\* Taking the first k requests off the queue and granting them: the rest of the
\* queue lists the requests that still wait, and k more requests are in flight.
LEMMA GrantHeads ==
    ASSUME NEW q \in Seq(Requests), NEW ph \in [Requests -> Phases],
           Lists(q, QueuedIn(ph)), NEW k \in 0..Len(q)
    PROVE  LET ph2 == Grant(ph, Heads(q, k))
           IN  /\ ph2 \in [Requests -> Phases]
               /\ Rest(q, k) \in Seq(Requests) /\ Len(Rest(q, k)) = Len(q) - k
               /\ Lists(Rest(q, k), QueuedIn(ph2))
               /\ FlyingIn(ph2) = FlyingIn(ph) \union Heads(q, k)
               /\ Cardinality(FlyingIn(ph2)) = Cardinality(FlyingIn(ph)) + k
               /\ QueuedIn(ph2) \union FlyingIn(ph2) = QueuedIn(ph) \union FlyingIn(ph)
<1> DEFINE ph2  == Grant(ph, Heads(q, k))
           rest == Rest(q, k)
<1>1. /\ Len(q) \in Nat
      /\ \A i \in 1..Len(q) : q[i] \in Requests /\ q[i] \in QueuedIn(ph)
      /\ \A i, j \in 1..Len(q) : q[i] = q[j] => i = j
      /\ \A r \in QueuedIn(ph) : \E i \in 1..Len(q) : q[i] = r
  BY DEF Lists, Heads
<1>2. ph2 \in [Requests -> Phases]
  BY DEF Phases, Grant
<1>3. /\ rest \in Seq(Requests) /\ Len(rest) = Len(q) - k
      /\ \A i \in 1..Len(rest) : rest[i] = q[k + i]
  <2>1. \A i \in (k + 1)..Len(q) : q[i] \in Requests
    BY <1>1
  <2> QED
    BY <2>1, <1>1, SubSeqProperties DEF Rest
<1>4. Heads(q, k) \subseteq QueuedIn(ph) /\ Heads(q, k) \subseteq Requests
  BY <1>1 DEF Heads
<1>5. FlyingIn(ph2) = FlyingIn(ph) \union Heads(q, k)
  BY <1>4 DEF FlyingIn, Grant
<1>6. QueuedIn(ph2) = QueuedIn(ph) \ Heads(q, k)
  BY <1>4 DEF QueuedIn, Grant
<1> HIDE DEF ph2, rest
<1>7. Lists(rest, QueuedIn(ph2))
  <2>1. ASSUME NEW i \in 1..Len(rest), NEW j \in 1..Len(rest), rest[i] = rest[j]
        PROVE  i = j
    <3>1. k + i \in 1..Len(q) /\ k + j \in 1..Len(q) /\ q[k + i] = q[k + j]
      BY <1>1, <1>3, <2>1
    <3>2. k + i = k + j
      BY <1>1, <3>1
    <3> QED
      BY <3>2
  <2>2. ASSUME NEW i \in 1..Len(rest) PROVE rest[i] \in QueuedIn(ph) \ Heads(q, k)
    <3>1. rest[i] = q[k + i] /\ k + i \in 1..Len(q) /\ k + i \notin 1..k
      BY <1>1, <1>3
    <3>2. \A j \in 1..k : j \in 1..Len(q) /\ q[j] # q[k + i]
      BY <1>1, <3>1
    <3> QED
      BY <1>1, <3>1, <3>2 DEF Heads
  <2>3. ASSUME NEW r \in QueuedIn(ph) \ Heads(q, k) PROVE \E i \in 1..Len(rest) : rest[i] = r
    <3>1. PICK j \in 1..Len(q) : q[j] = r
      BY <1>1
    <3>2. j \notin 1..k
      BY <3>1 DEF Heads
    <3>3. j - k \in 1..Len(rest) /\ rest[j - k] = q[j]
      BY <1>1, <1>3, <3>2
    <3> QED
      BY <3>1, <3>3
  <2>4. Heads(rest, Len(rest)) = QueuedIn(ph2)
    BY <2>2, <2>3, <1>6 DEF Heads
  <2> QED
    BY <2>1, <2>4 DEF Lists
<1>8. Cardinality(FlyingIn(ph2)) = Cardinality(FlyingIn(ph)) + k
  <2>1. IsFiniteSet(FlyingIn(ph)) /\ Cardinality(FlyingIn(ph)) \in Nat
    <3>1. FlyingIn(ph) \in SUBSET Requests
      BY DEF FlyingIn
    <3> QED
      BY <3>1, RequestAssumption, FS_Subset, FS_CardinalityType
  <2>2. IsFiniteSet(Heads(q, k)) /\ Cardinality(Heads(q, k)) = k
    BY <1>1, HeadsCardinality
  <2>3. FlyingIn(ph) \cap Heads(q, k) = {}
    BY <1>4 DEF FlyingIn, QueuedIn
  <2>4. Cardinality(FlyingIn(ph) \union Heads(q, k))
            = Cardinality(FlyingIn(ph)) + k - Cardinality({})
    BY <2>1, <2>2, <2>3, FS_Union
  <2> QED
    BY <1>5, <2>1, <2>4, FS_EmptySet
<1>9. QueuedIn(ph2) \union FlyingIn(ph2) = QueuedIn(ph) \union FlyingIn(ph)
  BY <1>4, <1>5, <1>6
<1> QED
  BY <1>2, <1>3, <1>5, <1>7, <1>8, <1>9 DEF ph2, rest

\* What releaseQueuedLocked leaves behind, from any consistent queue: exact
\* accounts, leases for probed targets only, and a gate that is held or online
\* only when nothing is in flight.
LEMMA ReleaseQueuedResult ==
    ASSUME NEW q \in Seq(Requests), NEW ph \in [Requests -> Phases],
           NEW n \in Nat, NEW bytes, NEW P \in SUBSET Targets, NEW acts,
           Lists(q, QueuedIn(ph)), n = Cardinality(FlyingIn(ph)),
           n <= ReleaseConcurrency,
           \A r \in FlyingIn(ph) : TargetOf[r] \in P,
           ReleaseQueued(q, n, bytes, P, acts, ph)
    PROVE  /\ queue' \in Seq(Requests) /\ Len(queue') <= Len(q)
           /\ active' \in Nat /\ active' <= ReleaseConcurrency
           /\ phase' \in [Requests -> Phases]
           /\ active' = Cardinality(FlyingIn(phase'))
           /\ Lists(queue', QueuedIn(phase'))
           /\ QueuedIn(phase') \union FlyingIn(phase') = QueuedIn(ph) \union FlyingIn(ph)
           /\ \A r \in FlyingIn(phase') : TargetOf[r] \in P
           /\ \/ state' = "held" /\ active' = 0 /\ probed' = {}
              \/ state' = "online" /\ active' = 0 /\ queue' = <<>> /\ acts = {} /\ probed' = {}
              \/ /\ state' = "releasing" /\ probed' = P
                 /\ queue' # <<>> => active' > 0
                 /\ queue' = <<>> => active' > 0 \/ acts # {}
<1> DEFINE refused(k) == /\ n + k < ReleaseConcurrency
                         /\ Rest(q, k) # <<>>
                         /\ ~Approved(q[k + 1], P)
<1>1. PICK k \in 0..Len(q) :
          /\ k > 0 => n + k <= ReleaseConcurrency
          /\ \A i \in 1..k : Approved(q[i], P)
          /\ n + k >= ReleaseConcurrency \/ Rest(q, k) = <<>> \/ refused(k)
          /\ queue' = Rest(q, k)
          /\ active' = n + k
          /\ phase' = Grant(ph, Heads(q, k))
          /\ state' = IF refused(k) /\ n + k = 0 THEN "held"
                      ELSE IF MayReopen(Rest(q, k), n + k, acts) THEN "online" ELSE "releasing"
          /\ probed' = IF (refused(k) /\ n + k = 0) \/ MayReopen(Rest(q, k), n + k, acts)
                       THEN {} ELSE P
  BY DEF ReleaseQueued
<1>2. Len(q) \in Nat /\ k \in Nat
  OBVIOUS
<1>3. /\ phase' \in [Requests -> Phases]
      /\ queue' \in Seq(Requests) /\ Len(queue') = Len(q) - k
      /\ Lists(queue', QueuedIn(phase'))
      /\ FlyingIn(phase') = FlyingIn(ph) \union Heads(q, k)
      /\ Cardinality(FlyingIn(phase')) = n + k
      /\ QueuedIn(phase') \union FlyingIn(phase') = QueuedIn(ph) \union FlyingIn(ph)
  BY <1>1, GrantHeads
<1>4. \A r \in FlyingIn(phase') : TargetOf[r] \in P
  BY <1>1, <1>3 DEF Approved, Heads
<1>5. active' \in Nat /\ active' <= ReleaseConcurrency /\ Len(queue') <= Len(q)
  BY <1>1, <1>2, <1>3, ConfigAssumption
<1>6. \/ state' = "held" /\ active' = 0 /\ probed' = {}
      \/ state' = "online" /\ active' = 0 /\ queue' = <<>> /\ acts = {} /\ probed' = {}
      \/ /\ state' = "releasing" /\ probed' = P
         /\ queue' # <<>> => active' > 0
         /\ queue' = <<>> => active' > 0 \/ acts # {}
  <2>1. CASE refused(k) /\ n + k = 0
    BY <1>1, <2>1
  <2>2. CASE ~(refused(k) /\ n + k = 0) /\ MayReopen(Rest(q, k), n + k, acts)
    BY <1>1, <2>2 DEF MayReopen
  <2>3. CASE ~(refused(k) /\ n + k = 0) /\ ~MayReopen(Rest(q, k), n + k, acts)
    BY <1>1, <1>2, <2>3, ConfigAssumption DEF MayReopen
  <2> QED
    BY <2>1, <2>2, <2>3
<1> QED
  BY <1>1, <1>3, <1>4, <1>5, <1>6

\* The requests in flight are finitely many.
LEMMA FlyingFinite ==
    ASSUME NEW ph
    PROVE  /\ IsFiniteSet(FlyingIn(ph))
           /\ Cardinality(FlyingIn(ph)) \in Nat
           /\ Cardinality(FlyingIn(ph)) = 0 <=> FlyingIn(ph) = {}
<1>1. FlyingIn(ph) \in SUBSET Requests
  BY DEF FlyingIn
<1>2. IsFiniteSet(FlyingIn(ph))
  BY <1>1, RequestAssumption, FS_Subset
<1> QED
  BY <1>2, FS_CardinalityType, FS_EmptySet

\* One more call has a lease.
LEMMA FlyingAdd ==
    ASSUME NEW ph \in [Requests -> Phases], NEW r \in Requests, r \notin FlyingIn(ph),
           NEW v \in {"granted", "leased"}
    PROVE  LET ph2 == [ph EXCEPT ![r] = v]
           IN  /\ ph2 \in [Requests -> Phases]
               /\ FlyingIn(ph2) = FlyingIn(ph) \union {r}
               /\ Cardinality(FlyingIn(ph2)) = Cardinality(FlyingIn(ph)) + 1
               /\ QueuedIn(ph2) = QueuedIn(ph) \ {r}
<1> DEFINE ph2 == [ph EXCEPT ![r] = v]
<1>1. ph2 \in [Requests -> Phases]
  BY DEF Phases
<1>2. FlyingIn(ph2) = FlyingIn(ph) \union {r}
  BY DEF FlyingIn
<1>3. QueuedIn(ph2) = QueuedIn(ph) \ {r}
  BY DEF QueuedIn
<1>4. Cardinality(FlyingIn(ph2)) = Cardinality(FlyingIn(ph)) + 1
  BY <1>2, FlyingFinite, FS_AddElement
<1> QED
  BY <1>1, <1>2, <1>3, <1>4

\* One call is over: it held a lease, waited, or had been canceled.
LEMMA CallEnds ==
    ASSUME NEW ph \in [Requests -> Phases], NEW r \in Requests
    PROVE  LET ph2 == [ph EXCEPT ![r] = "none"]
           IN  /\ ph2 \in [Requests -> Phases]
               /\ FlyingIn(ph2) = FlyingIn(ph) \ {r}
               /\ Cardinality(FlyingIn(ph2)) = IF r \in FlyingIn(ph)
                                               THEN Cardinality(FlyingIn(ph)) - 1
                                               ELSE Cardinality(FlyingIn(ph))
               /\ QueuedIn(ph2) = QueuedIn(ph) \ {r}
<1> DEFINE ph2 == [ph EXCEPT ![r] = "none"]
<1>1. ph2 \in [Requests -> Phases]
  BY DEF Phases
<1>2. FlyingIn(ph2) = FlyingIn(ph) \ {r}
  BY DEF FlyingIn
<1>3. QueuedIn(ph2) = QueuedIn(ph) \ {r}
  BY DEF QueuedIn
<1>4. Cardinality(FlyingIn(ph2)) = IF r \in FlyingIn(ph)
                                   THEN Cardinality(FlyingIn(ph)) - 1
                                   ELSE Cardinality(FlyingIn(ph))
  BY <1>2, FlyingFinite, FS_RemoveElement
<1> QED
  BY <1>1, <1>2, <1>3, <1>4

\* A new waiter at the end of the queue.
LEMMA AppendLists ==
    ASSUME NEW q \in Seq(Requests), NEW S, Lists(q, S), NEW r \in Requests, r \notin S
    PROVE  Append(q, r) \in Seq(Requests) /\ Lists(Append(q, r), S \union {r})
<1> DEFINE q2 == Append(q, r)
<1>1. /\ q2 \in Seq(Requests) /\ Len(q2) = Len(q) + 1 /\ Len(q) \in Nat
      /\ \A i \in 1..Len(q) : q2[i] = q[i]
      /\ q2[Len(q) + 1] = r
  BY AppendProperties
<1>2. /\ \A i \in 1..Len(q) : q[i] \in S
      /\ \A x \in S : \E i \in 1..Len(q) : q[i] = x
      /\ \A i, j \in 1..Len(q) : q[i] = q[j] => i = j
  BY DEF Lists, Heads
<1> HIDE DEF q2
<1>3. \A i \in 1..Len(q2) : (i \in 1..Len(q) /\ q2[i] = q[i]) \/ (i = Len(q) + 1 /\ q2[i] = r)
  BY <1>1
<1>4. \A i, j \in 1..Len(q2) : q2[i] = q2[j] => i = j
  BY <1>2, <1>3
<1>5. \A i \in 1..Len(q2) : q2[i] \in S \union {r}
  BY <1>2, <1>3
<1>6. \A x \in S \union {r} : \E i \in 1..Len(q2) : q2[i] = x
  <2>1. ASSUME NEW x \in S PROVE \E i \in 1..Len(q2) : q2[i] = x
    <3>1. PICK i \in 1..Len(q) : q[i] = x
      BY <1>2
    <3>2. i \in 1..Len(q2) /\ q2[i] = x
      BY <1>1, <3>1
    <3> QED
      BY <3>2
  <2>2. Len(q) + 1 \in 1..Len(q2)
    BY <1>1
  <2> QED
    BY <1>1, <2>1, <2>2
<1>7. Heads(q2, Len(q2)) = S \union {r}
  BY <1>5, <1>6 DEF Heads
<1> QED
  BY <1>1, <1>4, <1>7 DEF Lists, q2

\* A waiter leaves the queue from any place in it.
LEMMA RemoveLists ==
    ASSUME NEW q \in Seq(Requests), NEW S, Lists(q, S), NEW m \in 1..Len(q)
    PROVE  LET q2 == SubSeq(q, 1, m - 1) \o SubSeq(q, m + 1, Len(q))
           IN  q2 \in Seq(Requests) /\ Len(q2) = Len(q) - 1 /\ Lists(q2, S \ {q[m]})
<1> DEFINE left  == SubSeq(q, 1, m - 1)
           right == SubSeq(q, m + 1, Len(q))
           q2    == left \o right
<1>1. /\ Len(q) \in Nat
      /\ \A i \in 1..Len(q) : q[i] \in S /\ q[i] \in Requests
      /\ \A x \in S : \E i \in 1..Len(q) : q[i] = x
      /\ \A i, j \in 1..Len(q) : q[i] = q[j] => i = j
  BY DEF Lists, Heads
<1>2. /\ left \in Seq(Requests) /\ Len(left) = m - 1
      /\ \A i \in 1..(m - 1) : left[i] = q[i]
  <2>1. \A i \in 1..(m - 1) : q[i] \in Requests
    BY <1>1
  <2> QED
    BY <1>1, <2>1, SubSeqProperties
<1>3. /\ right \in Seq(Requests) /\ Len(right) = Len(q) - m
      /\ \A i \in 1..(Len(q) - m) : right[i] = q[m + i]
  <2>1. \A i \in (m + 1)..Len(q) : q[i] \in Requests
    BY <1>1
  <2> QED
    BY <1>1, <2>1, SubSeqProperties
<1> HIDE DEF left, right
<1>4. /\ q2 \in Seq(Requests) /\ Len(q2) = Len(q) - 1
      /\ \A i \in 1..Len(q2) : q2[i] = IF i < m THEN q[i] ELSE q[i + 1]
  <2>1. /\ q2 \in Seq(Requests) /\ Len(q2) = Len(q) - 1
        /\ \A i \in 1..Len(q2) : q2[i] = IF i <= Len(left) THEN left[i] ELSE right[i - Len(left)]
    BY <1>1, <1>2, <1>3, ConcatProperties
  <2> HIDE DEF q2
  <2>2. ASSUME NEW i \in 1..Len(q2) PROVE q2[i] = IF i < m THEN q[i] ELSE q[i + 1]
    <3>1. CASE i < m
      BY <1>1, <1>2, <2>1, <3>1
    <3>2. CASE i >= m
      <4>1. i - Len(left) \in 1..(Len(q) - m) /\ m + (i - Len(left)) = i + 1
        BY <1>1, <1>2, <2>1, <3>2
      <4> QED
        BY <1>1, <1>2, <1>3, <2>1, <3>2, <4>1
    <3> QED
      BY <3>1, <3>2, <1>1, <2>1
  <2> QED
    BY <2>1, <2>2
<1> HIDE DEF q2
<1>5. ASSUME NEW i \in 1..Len(q2)
      PROVE  \E a \in 1..Len(q) : a = (IF i < m THEN i ELSE i + 1) /\ a # m /\ q2[i] = q[a]
  BY <1>1, <1>4
<1>6. \A i, j \in 1..Len(q2) : q2[i] = q2[j] => i = j
  <2> SUFFICES ASSUME NEW i \in 1..Len(q2), NEW j \in 1..Len(q2), q2[i] = q2[j]
               PROVE  i = j
    OBVIOUS
  <2>1. PICK a \in 1..Len(q) : a = (IF i < m THEN i ELSE i + 1) /\ a # m /\ q2[i] = q[a]
    BY <1>5
  <2>2. PICK b \in 1..Len(q) : b = (IF j < m THEN j ELSE j + 1) /\ b # m /\ q2[j] = q[b]
    BY <1>5
  <2>3. a = b
    BY <1>1, <2>1, <2>2
  <2> QED
    BY <2>1, <2>2, <2>3, <1>1, <1>4
<1>7. \A i \in 1..Len(q2) : q2[i] \in S \ {q[m]}
  BY <1>1, <1>5
<1>8. ASSUME NEW x \in S \ {q[m]} PROVE \E i \in 1..Len(q2) : q2[i] = x
  <2>1. PICK a \in 1..Len(q) : q[a] = x
    BY <1>1
  <2>2. a # m
    BY <2>1
  <2>3. CASE a < m
    <3>1. a \in 1..Len(q2) /\ q2[a] = q[a]
      BY <1>1, <1>4, <2>3
    <3> QED
      BY <2>1, <3>1
  <2>4. CASE a > m
    <3>1. a - 1 \in 1..Len(q2) /\ q2[a - 1] = q[a]
      BY <1>1, <1>4, <2>4
    <3> QED
      BY <2>1, <3>1
  <2> QED
    BY <2>2, <2>3, <2>4
<1>9. Heads(q2, Len(q2)) = S \ {q[m]}
  BY <1>7, <1>8 DEF Heads
<1> QED
  BY <1>4, <1>6, <1>9 DEF Lists, q2, left, right
-----------------------------------------------------------------------------
\* What release and releaseAction leave behind: the gate was releasing and its
\* queue was looked at, or it may have gone from entering to held.
LEMMA AfterReleaseResult ==
    ASSUME IndInv, NEW n \in Nat, NEW e \in Nat, NEW acts \in SUBSET actions,
           NEW ph \in [Requests -> Phases],
           QueuedIn(ph) = QueuedIn(phase), FlyingIn(ph) \subseteq FlyingIn(phase),
           n = Cardinality(FlyingIn(ph)), n <= active,
           AfterRelease(n, e, acts, ph)
    PROVE  /\ state' \in States
           /\ queue' \in Seq(Requests) /\ Len(queue') <= Len(queue)
           /\ active' \in Nat /\ probed' \subseteq Targets
           /\ phase' \in [Requests -> Phases]
           /\ active' = Cardinality(FlyingIn(phase'))
           /\ Lists(queue', QueuedIn(phase'))
           /\ QueuedIn(phase') \union FlyingIn(phase') = QueuedIn(ph) \union FlyingIn(ph)
           /\ ReleasedWereProbed'
           /\ \/ state = "releasing" /\ state' = "held" /\ active' = 0
              \/ /\ state = "releasing" /\ state' = "online" /\ active' = 0
                 /\ queue' = <<>> /\ acts = {} /\ probed' = {}
              \/ /\ state = "releasing" /\ state' = "releasing"
                 /\ queue' # <<>> => active' > 0
                 /\ queue' = <<>> => active' > 0 \/ acts # {}
              \/ /\ state = "entering" /\ state' = "held" /\ n = 0 /\ e = 0
                 /\ active' = 0
              \/ /\ state # "releasing" /\ state' = state
                 /\ active' = n /\ phase' = ph /\ queue' = queue /\ probed' = probed
<1> USE DEF IndInv
<1>1. CASE state = "releasing"
  <2>1. ReleaseQueued(queue, n, heldBytes, probed, acts, ph)
    BY <1>1 DEF AfterRelease
  <2>2. /\ queue \in Seq(Requests) /\ probed \in SUBSET Targets /\ Lists(queue, QueuedIn(ph))
        /\ n <= ReleaseConcurrency /\ \A r \in FlyingIn(ph) : TargetOf[r] \in probed
    BY <1>1, ConfigAssumption
       DEF TypeOK, QueueAccounting, Waiting, ReleasedWereProbed, InFlight
  <2>3. /\ queue' \in Seq(Requests) /\ Len(queue') <= Len(queue)
        /\ active' \in Nat /\ active' <= ReleaseConcurrency
        /\ phase' \in [Requests -> Phases]
        /\ active' = Cardinality(FlyingIn(phase'))
        /\ Lists(queue', QueuedIn(phase'))
        /\ QueuedIn(phase') \union FlyingIn(phase') = QueuedIn(ph) \union FlyingIn(ph)
        /\ \A r \in FlyingIn(phase') : TargetOf[r] \in probed
        /\ \/ state' = "held" /\ active' = 0 /\ probed' = {}
           \/ state' = "online" /\ active' = 0 /\ queue' = <<>> /\ acts = {} /\ probed' = {}
           \/ /\ state' = "releasing" /\ probed' = probed
              /\ queue' # <<>> => active' > 0
              /\ queue' = <<>> => active' > 0 \/ acts # {}
    BY <2>1, <2>2, ReleaseQueuedResult
  <2>4. ReleasedWereProbed'
    BY <2>3 DEF ReleasedWereProbed, InFlight
  <2> QED
    BY <1>1, <2>2, <2>3, <2>4 DEF States
<1>2. CASE state # "releasing"
  <2>1. /\ state' = IF state = "entering" /\ Quiet(n, e) THEN "held" ELSE state
        /\ active' = n /\ phase' = ph /\ queue' = queue /\ probed' = probed
    BY <1>2 DEF AfterRelease
  <2>2. state' # "releasing" /\ state' \in States
    BY <1>2, <2>1 DEF TypeOK, States
  <2>3. ReleasedWereProbed'
    BY <2>2 DEF ReleasedWereProbed
  <2> QED
    BY <1>2, <2>1, <2>2, <2>3 DEF TypeOK, QueueAccounting, Waiting, Quiet
<1> QED
  BY <1>1, <1>2

\* Giving back an action keeps the invariant.
LEMMA ReleaseActionInv ==
    ASSUME IndInv, NEW a \in Actions, ReleaseAction(a)
    PROVE  IndInv'
<1> USE DEF IndInv
<1>1. /\ IsFiniteSet(beforeEnter) /\ entering = Cardinality(beforeEnter) /\ entering \in Nat
      /\ beforeEnter = {} <=> entering = 0
  <2>1. IsFiniteSet(beforeEnter)
    BY RequestAssumption, FS_Subset DEF TypeOK
  <2> QED
    BY <2>1, FS_EmptySet DEF CountersExact, TypeOK
<1>2. /\ actions' = actions \ {a} /\ beforeEnter' = beforeEnter \ {a}
      /\ entering' \in Nat /\ entering' = Cardinality(beforeEnter')
      /\ IsFiniteSet(beforeEnter')
  <2>1. a \in beforeEnter => entering > 0
    BY <1>1
  <2> QED
    BY <1>1, <2>1, FS_RemoveElement DEF ReleaseAction, EnteringWithout
<1>3. /\ fresh' = {} /\ control' = control /\ wanted' = wanted /\ drained' = drained
      /\ requestIDs' = requestIDs /\ a \in actions
  BY DEF ReleaseAction, Mutated, ControlUnchanged
<1>4. /\ active \in Nat /\ phase \in [Requests -> Phases]
      /\ active = Cardinality(FlyingIn(phase))
  BY DEF TypeOK, CountersExact, InFlight
<1>5. AfterRelease(active, entering', actions', phase)
  BY DEF ReleaseAction
<1>6. /\ state' \in States
      /\ queue' \in Seq(Requests) /\ Len(queue') <= Len(queue)
      /\ active' \in Nat /\ probed' \subseteq Targets
      /\ phase' \in [Requests -> Phases]
      /\ active' = Cardinality(FlyingIn(phase'))
      /\ Lists(queue', QueuedIn(phase'))
      /\ QueuedIn(phase') \union FlyingIn(phase') = QueuedIn(phase) \union FlyingIn(phase)
      /\ ReleasedWereProbed'
      /\ \/ state = "releasing" /\ state' = "held" /\ active' = 0
         \/ /\ state = "releasing" /\ state' = "online" /\ active' = 0
            /\ queue' = <<>> /\ actions' = {} /\ probed' = {}
         \/ /\ state = "releasing" /\ state' = "releasing"
            /\ queue' # <<>> => active' > 0
            /\ queue' = <<>> => active' > 0 \/ actions' # {}
         \/ /\ state = "entering" /\ state' = "held" /\ active = 0 /\ entering' = 0
            /\ active' = 0
         \/ /\ state # "releasing" /\ state' = state
            /\ active' = active /\ phase' = phase /\ queue' = queue /\ probed' = probed
  <2>1. actions' \in SUBSET actions /\ active <= active
    BY <1>2, <1>4
  <2> DEFINE e == entering'
             acts == actions'
  <2>2. e \in Nat /\ acts \in SUBSET actions /\ AfterRelease(active, e, acts, phase)
    BY <1>2, <1>5, <2>1
  <2> HIDE DEF e, acts, IndInv
  <2>3. IndInv
    OBVIOUS
  <2> QED
    BY <1>4, <2>1, <2>2, <2>3, AfterReleaseResult DEF e, acts
<1>7. TypeOK'
  BY <1>2, <1>3, <1>6 DEF TypeOK
<1>8. CountersExact' /\ QueueAccounting'
  <2>1. CountersExact'
    BY <1>2, <1>6 DEF CountersExact, InFlight
  <2>2. QueueAccounting'
    BY <1>3, <1>6, ConfigAssumption DEF QueueAccounting, Waiting, InFlight, TypeOK
  <2> QED
    BY <2>1, <2>2
<1>9. HoldDiscipline'
  <2>1. entering' = 0 => beforeEnter' = {}
    BY <1>2, FS_EmptySet
  <2>2. state' = "entering" => ~Quiet(active', entering')
    BY <1>5, <1>6 DEF AfterRelease, Quiet
  <2> QED
    BY <1>2, <1>3, <1>6, <2>1, <2>2 DEF HoldDiscipline, TypeOK
<1>10. OnlineIsOpen'
  BY <1>2, <1>3, <1>6 DEF OnlineIsOpen, HoldDiscipline
<1>11. ReleasingCanMove' /\ DrainedIsQuiet'
  BY <1>2, <1>3, <1>6 DEF ReleasingCanMove, DrainedIsQuiet, InFlight
<1> QED
  BY <1>6, <1>7, <1>8, <1>9, <1>10, <1>11

\* Giving back a lease keeps the invariant.
LEMMA ReleaseLeaseInv ==
    ASSUME IndInv, NEW r \in Requests, r \in FlyingIn(phase), ReleaseLease(r)
    PROVE  IndInv'
<1> USE DEF IndInv
<1> DEFINE ph == [phase EXCEPT ![r] = "none"]
           n  == IF active > 0 THEN active - 1 ELSE active
<1>1. /\ active \in Nat /\ phase \in [Requests -> Phases] /\ entering \in Nat
      /\ active = Cardinality(FlyingIn(phase)) /\ active > 0
  BY FlyingFinite DEF TypeOK, CountersExact, InFlight
<1>2. /\ ph \in [Requests -> Phases]
      /\ FlyingIn(ph) = FlyingIn(phase) \ {r} /\ n = Cardinality(FlyingIn(ph)) /\ n \in Nat
      /\ QueuedIn(ph) = QueuedIn(phase) \ {r}
  <2>1. /\ ph \in [Requests -> Phases]
        /\ FlyingIn(ph) = FlyingIn(phase) \ {r}
        /\ Cardinality(FlyingIn(ph)) = Cardinality(FlyingIn(phase)) - 1
        /\ QueuedIn(ph) = QueuedIn(phase) \ {r}
    BY <1>1, CallEnds
  <2>2. n = active - 1 /\ n \in Nat
    BY <1>1
  <2> QED
    BY <1>1, <2>1, <2>2
<1>3. r \notin QueuedIn(phase)
  BY DEF FlyingIn, QueuedIn
<1>4. /\ fresh' = {} /\ control' = control /\ wanted' = wanted /\ drained' = drained
      /\ requestIDs' = requestIDs \ {r} /\ actions' = actions
      /\ beforeEnter' = beforeEnter /\ entering' = entering
  BY DEF ReleaseLease, Mutated, ControlUnchanged
<1>5. AfterRelease(n, entering, actions, ph)
  BY DEF ReleaseLease
<1> HIDE DEF n, ph
<1>6. /\ state' \in States
      /\ queue' \in Seq(Requests) /\ Len(queue') <= Len(queue)
      /\ active' \in Nat /\ probed' \subseteq Targets
      /\ phase' \in [Requests -> Phases]
      /\ active' = Cardinality(FlyingIn(phase'))
      /\ Lists(queue', QueuedIn(phase'))
      /\ QueuedIn(phase') \union FlyingIn(phase') = QueuedIn(ph) \union FlyingIn(ph)
      /\ ReleasedWereProbed'
      /\ \/ state = "releasing" /\ state' = "held" /\ active' = 0
         \/ /\ state = "releasing" /\ state' = "online" /\ active' = 0
            /\ queue' = <<>> /\ actions = {} /\ probed' = {}
         \/ /\ state = "releasing" /\ state' = "releasing"
            /\ queue' # <<>> => active' > 0
            /\ queue' = <<>> => active' > 0 \/ actions # {}
         \/ /\ state = "entering" /\ state' = "held" /\ n = 0 /\ entering = 0
            /\ active' = 0
         \/ /\ state # "releasing" /\ state' = state
            /\ active' = n /\ phase' = ph /\ queue' = queue /\ probed' = probed
  <2>1. n <= active /\ QueuedIn(ph) = QueuedIn(phase) /\ FlyingIn(ph) \subseteq FlyingIn(phase)
    BY <1>1, <1>2, <1>3 DEF n
  <2> QED
    BY <1>1, <1>2, <1>5, <2>1, AfterReleaseResult
<1>7. TypeOK'
  BY <1>4, <1>6 DEF TypeOK
<1>8. CountersExact' /\ QueueAccounting'
  <2>1. CountersExact'
    BY <1>4, <1>6 DEF CountersExact, InFlight
  <2>2. requestIDs' = Waiting' \union InFlight'
    BY <1>2, <1>3, <1>4, <1>6 DEF QueueAccounting, Waiting, InFlight
  <2>3. Lists(queue', Waiting') /\ Len(queue') <= MaxHeldRequests
    BY <1>6, ConfigAssumption DEF QueueAccounting, Waiting, TypeOK
  <2> QED
    BY <2>1, <2>2, <2>3 DEF QueueAccounting
<1>9. HoldDiscipline'
  <2>1. entering = 0 => beforeEnter = {}
    <3>1. IsFiniteSet(beforeEnter)
      BY RequestAssumption, FS_Subset DEF TypeOK
    <3> QED
      BY <3>1, FS_EmptySet DEF CountersExact
  <2>2. state \notin {"unbound", "held", "probing"}
    BY <1>1 DEF HoldDiscipline
  <2>3. state' = "entering" => ~Quiet(active', entering')
    BY <1>4, <1>5, <1>6 DEF AfterRelease, Quiet
  <2> QED
    BY <1>4, <1>6, <2>1, <2>2, <2>3 DEF HoldDiscipline
<1>10. OnlineIsOpen'
  <2>1. state = "releasing" => beforeEnter = {}
    BY DEF HoldDiscipline
  <2> QED
    BY <1>4, <1>6, <2>1 DEF OnlineIsOpen
<1>11. ReleasingCanMove' /\ DrainedIsQuiet'
  <2>1. ~drained
    BY DEF DrainedIsQuiet, InFlight
  <2> QED
    BY <1>4, <1>6, <2>1 DEF ReleasingCanMove, DrainedIsQuiet
<1> QED
  BY <1>6, <1>7, <1>8, <1>9, <1>10, <1>11

\* A request that joins the queue keeps the invariant, whether the gate only
\* queues it or looks at its queue at once.
LEMMA AcquireQueuedInv ==
    ASSUME IndInv, NEW a \in Actions, NEW r \in Requests, AcquireQueued(a, r)
    PROVE  IndInv'
<1> USE DEF IndInv
<1> DEFINE ph == [phase EXCEPT ![r] = "queued"]
           q  == Append(queue, r)
<1>1. /\ active \in Nat /\ phase \in [Requests -> Phases] /\ queue \in Seq(Requests)
      /\ active = Cardinality(FlyingIn(phase)) /\ probed \in SUBSET Targets
      /\ Lists(queue, QueuedIn(phase)) /\ requestIDs = QueuedIn(phase) \union FlyingIn(phase)
  BY DEF TypeOK, CountersExact, InFlight, QueueAccounting, Waiting
<1>2. /\ state \in {"entering", "held", "probing", "releasing"} /\ phase[r] = "none"
      /\ Len(queue) < MaxHeldRequests
      /\ requestIDs' = requestIDs \union {r}
      /\ fresh' = {} /\ control' = control /\ wanted' = wanted /\ drained' = drained
      /\ actions' = actions /\ beforeEnter' = beforeEnter /\ entering' = entering
      /\ a \in actions
  BY DEF AcquireQueued, Admissible, Immediate, HasCapacity, Mutated, ControlUnchanged,
         TypeOK, States
<1>3. /\ ph \in [Requests -> Phases] /\ FlyingIn(ph) = FlyingIn(phase)
      /\ QueuedIn(ph) = QueuedIn(phase) \union {r} /\ r \notin QueuedIn(phase)
  BY <1>1, <1>2 DEF FlyingIn, QueuedIn, Phases
<1>4. q \in Seq(Requests) /\ Lists(q, QueuedIn(ph)) /\ q # <<>>
      /\ Len(q) \in Nat /\ Len(q) <= MaxHeldRequests
  <2>1. q \in Seq(Requests) /\ Lists(q, QueuedIn(phase) \union {r})
    BY <1>1, <1>3, AppendLists
  <2>2. Len(q) = Len(queue) + 1 /\ q # <<>> /\ Len(queue) \in Nat
    BY <1>1, AppendProperties
  <2>3. QueuedIn(ph) = QueuedIn(phase) \union {r}
    BY <1>3
  <2> HIDE DEF q, ph
  <2>4. Lists(q, QueuedIn(ph))
    BY <2>1, <2>3
  <2> QED
    BY <2>1, <2>2, <2>4, <1>2, ConfigAssumption
<1>5. Enqueue(q, heldBytes + SizeOf[r], ph)
  BY DEF AcquireQueued
<1> HIDE DEF q, ph
<1>6. CASE state = "releasing"
  <2>1. ReleaseQueued(q, active, heldBytes + SizeOf[r], probed, actions, ph)
    BY <1>5, <1>6 DEF Enqueue
  <2>2. active <= ReleaseConcurrency /\ \A x \in FlyingIn(ph) : TargetOf[x] \in probed
    BY <1>3, <1>6 DEF ReleasedWereProbed, InFlight
  <2>3. /\ queue' \in Seq(Requests) /\ Len(queue') <= Len(q)
        /\ active' \in Nat /\ active' <= ReleaseConcurrency
        /\ phase' \in [Requests -> Phases]
        /\ active' = Cardinality(FlyingIn(phase'))
        /\ Lists(queue', QueuedIn(phase'))
        /\ QueuedIn(phase') \union FlyingIn(phase') = QueuedIn(ph) \union FlyingIn(ph)
        /\ \A x \in FlyingIn(phase') : TargetOf[x] \in probed
        /\ \/ state' = "held" /\ active' = 0 /\ probed' = {}
           \/ /\ state' = "online" /\ active' = 0 /\ queue' = <<>> /\ actions = {}
              /\ probed' = {}
           \/ /\ state' = "releasing" /\ probed' = probed
              /\ queue' # <<>> => active' > 0
              /\ queue' = <<>> => active' > 0 \/ actions # {}
    <3>1. active = Cardinality(FlyingIn(ph))
      BY <1>1, <1>3
    <3>2. ph \in [Requests -> Phases]
      BY <1>3
    <3>3. active \in Nat /\ probed \in SUBSET Targets
      BY <1>1
    <3> HIDE DEF IndInv
    <3> QED
      BY <1>4, <2>1, <2>2, <3>1, <3>2, <3>3, ReleaseQueuedResult
  <2>4. state' \in {"held", "releasing"}
    BY <1>2, <2>3
  <2>5. TypeOK'
    BY <1>2, <2>3, <2>4 DEF TypeOK, States
  <2>6. CountersExact'
    BY <1>2, <2>3 DEF CountersExact, InFlight
  <2>7. QueueAccounting'
    <3>1. requestIDs' = QueuedIn(phase') \union FlyingIn(phase')
      BY <1>1, <1>2, <1>3, <2>3
    <3>2. Len(queue') <= MaxHeldRequests
      BY <1>4, <2>3, ConfigAssumption
    <3> QED
      BY <2>3, <3>1, <3>2 DEF QueueAccounting, Waiting, InFlight
  <2>8. HoldDiscipline'
    BY <1>2, <1>6, <2>3, <2>4 DEF HoldDiscipline
  <2>9. OnlineIsOpen' /\ ReleasingCanMove' /\ ReleasedWereProbed'
    BY <1>2, <2>3, <2>4 DEF OnlineIsOpen, ReleasingCanMove, ReleasedWereProbed, InFlight
  <2>10. DrainedIsQuiet'
    BY <1>2, <1>6 DEF DrainedIsQuiet
  <2> QED
    BY <2>5, <2>6, <2>7, <2>8, <2>9, <2>10
<1>7. CASE state # "releasing"
  <2>1. /\ queue' = q /\ phase' = ph /\ state' = state /\ active' = active
        /\ probed' = probed
    BY <1>5, <1>7 DEF Enqueue
  <2>2. TypeOK'
    BY <1>2, <1>3, <1>4, <2>1 DEF TypeOK
  <2>3. CountersExact'
    BY <1>2, <1>3, <2>1 DEF CountersExact, InFlight
  <2>4. QueueAccounting'
    BY <1>1, <1>2, <1>3, <1>4, <2>1 DEF QueueAccounting, Waiting, InFlight
  <2>5. HoldDiscipline'
    BY <1>2, <2>1 DEF HoldDiscipline
  <2>6. OnlineIsOpen' /\ ReleasingCanMove' /\ ReleasedWereProbed'
    BY <1>2, <1>7, <2>1 DEF OnlineIsOpen, ReleasingCanMove, ReleasedWereProbed
  <2>7. DrainedIsQuiet'
    BY <1>2 DEF DrainedIsQuiet
  <2> QED
    BY <2>2, <2>3, <2>4, <2>5, <2>6, <2>7
<1> QED
  BY <1>6, <1>7

\* A call that leaves the queue, or the gate, without a lease keeps the invariant.
LEMMA CancelInv ==
    ASSUME IndInv, NEW r \in Requests, CancelWaiter(r) \/ CollectCanceled(r)
    PROVE  IndInv'
<1> USE DEF IndInv
<1> DEFINE ph == [phase EXCEPT ![r] = "none"]
<1>1. /\ active \in Nat /\ phase \in [Requests -> Phases] /\ queue \in Seq(Requests)
      /\ active = Cardinality(FlyingIn(phase))
      /\ Lists(queue, QueuedIn(phase)) /\ requestIDs = QueuedIn(phase) \union FlyingIn(phase)
      /\ Len(queue) <= MaxHeldRequests /\ Len(queue) \in Nat
  BY DEF TypeOK, CountersExact, InFlight, QueueAccounting, Waiting
<1>2. /\ phase[r] \in {"queued", "canceled"} /\ phase' = ph
      /\ control' = control /\ wanted' = wanted /\ drained' = drained /\ state' = state
      /\ actions' = actions /\ beforeEnter' = beforeEnter /\ entering' = entering
      /\ active' = active /\ probed' = probed
  BY DEF CancelWaiter, CollectCanceled, Mutated, ControlUnchanged
<1>3. /\ ph \in [Requests -> Phases] /\ FlyingIn(ph) = FlyingIn(phase) /\ r \notin FlyingIn(phase)
      /\ QueuedIn(ph) = QueuedIn(phase) \ {r}
  <2>1. r \notin FlyingIn(phase)
    BY <1>2 DEF FlyingIn
  <2>2. /\ ph \in [Requests -> Phases] /\ FlyingIn(ph) = FlyingIn(phase) \ {r}
        /\ QueuedIn(ph) = QueuedIn(phase) \ {r}
    BY <1>1, CallEnds
  <2> HIDE DEF ph
  <2>3. FlyingIn(phase) \ {r} = FlyingIn(phase)
    BY <2>1
  <2> QED
    BY <2>1, <2>2, <2>3
<1> HIDE DEF ph
<1>4. /\ queue' \in Seq(Requests) /\ Len(queue') <= Len(queue) /\ Len(queue') \in Nat
      /\ Lists(queue', QueuedIn(ph)) /\ requestIDs' = QueuedIn(ph) \union FlyingIn(ph)
      /\ fresh' = {} \/ (fresh' = fresh /\ queue' = queue)
      /\ queue = <<>> => queue' = <<>>
  <2>1. CASE CancelWaiter(r)
    <3>1. PICK i \in 1..Len(queue) :
              /\ queue[i] = r
              /\ queue' = SubSeq(queue, 1, i - 1) \o SubSeq(queue, i + 1, Len(queue))
      BY <2>1 DEF CancelWaiter
    <3>2. /\ queue' \in Seq(Requests) /\ Len(queue') = Len(queue) - 1
          /\ Lists(queue', QueuedIn(phase) \ {r})
      BY <1>1, <3>1, RemoveLists
    <3>3. queue # <<>> /\ fresh' = {} /\ requestIDs' = requestIDs \ {r}
      BY <2>1, <3>1 DEF CancelWaiter, Mutated
    <3> QED
      BY <1>1, <1>3, <3>2, <3>3
  <2>2. CASE CollectCanceled(r)
    <3>1. queue' = queue /\ fresh' = fresh /\ requestIDs' = requestIDs /\ r \notin QueuedIn(phase)
      BY <2>2 DEF CollectCanceled, QueuedIn
    <3>2. QueuedIn(phase) \ {r} = QueuedIn(phase)
      BY <3>1
    <3>3. QueuedIn(ph) = QueuedIn(phase) /\ FlyingIn(ph) = FlyingIn(phase)
      BY <1>3, <3>2
    <3>4. Lists(queue', QueuedIn(ph)) /\ requestIDs' = QueuedIn(ph) \union FlyingIn(ph)
      BY <1>1, <3>1, <3>3
    <3> QED
      BY <1>1, <3>1, <3>4
  <2> QED
    BY <2>1, <2>2
<1>5. TypeOK'
  BY <1>2, <1>3, <1>4 DEF TypeOK, QueuedIn, FlyingIn
<1>6. CountersExact' /\ QueueAccounting'
  BY <1>1, <1>2, <1>3, <1>4, ConfigAssumption
     DEF CountersExact, QueueAccounting, Waiting, InFlight
<1>7. HoldDiscipline'
  BY <1>2, <1>4 DEF HoldDiscipline, PendingTargets
<1>8. OnlineIsOpen' /\ ReleasedWereProbed' /\ DrainedIsQuiet'
  BY <1>2, <1>3, <1>4 DEF OnlineIsOpen, ReleasedWereProbed, DrainedIsQuiet, InFlight
<1>9. ReleasingCanMove'
  <2>1. CASE CancelWaiter(r)
    <3>1. queue # <<>>
      BY <2>1, <1>1 DEF CancelWaiter
    <3> QED
      BY <1>2, <1>4, <3>1 DEF ReleasingCanMove
  <2>2. CASE CollectCanceled(r)
    BY <1>2, <2>2 DEF ReleasingCanMove, CollectCanceled
  <2> QED
    BY <2>1, <2>2
<1> QED
  BY <1>5, <1>6, <1>7, <1>8, <1>9

\* A lease that is granted at once, or collected, keeps the invariant.
LEMMA TakeLeaseInv ==
    ASSUME IndInv, NEW r \in Requests,
           (\E a \in Actions : AcquireNow(a, r)) \/ CollectLease(r)
    PROVE  IndInv'
<1> USE DEF IndInv
<1>1. /\ active \in Nat /\ phase \in [Requests -> Phases]
      /\ active = Cardinality(FlyingIn(phase))
      /\ Lists(queue, QueuedIn(phase)) /\ requestIDs = QueuedIn(phase) \union FlyingIn(phase)
  BY DEF TypeOK, CountersExact, InFlight, QueueAccounting, Waiting
<1>2. ASSUME NEW a \in Actions, AcquireNow(a, r) PROVE IndInv'
  <2>1. /\ state \in {"online", "entering"} /\ phase[r] = "none"
        /\ phase' = [phase EXCEPT ![r] = "leased"] /\ active' = active + 1
        /\ requestIDs' = requestIDs \union {r} /\ fresh' = {}
        /\ state' = state /\ actions' = actions /\ beforeEnter' = beforeEnter
        /\ entering' = entering /\ queue' = queue /\ probed' = probed
        /\ control' = control /\ wanted' = wanted /\ drained' = drained
    BY <1>2 DEF AcquireNow, Admissible, Immediate, Mutated, ControlUnchanged
  <2>2. r \notin FlyingIn(phase) /\ r \notin QueuedIn(phase)
    BY <2>1 DEF FlyingIn, QueuedIn
  <2>3. /\ phase' \in [Requests -> Phases] /\ FlyingIn(phase') = FlyingIn(phase) \union {r}
        /\ Cardinality(FlyingIn(phase')) = active + 1
        /\ QueuedIn(phase') = QueuedIn(phase) \ {r}
    BY <1>1, <2>1, <2>2, FlyingAdd
  <2>4. QueuedIn(phase') = QueuedIn(phase)
    BY <2>2, <2>3
  <2>5. TypeOK'
    BY <1>1, <2>1, <2>3 DEF TypeOK
  <2>6. CountersExact'
    BY <2>1, <2>3 DEF CountersExact, InFlight
  <2>7. QueueAccounting'
    <3>1. requestIDs' = QueuedIn(phase') \union FlyingIn(phase')
      BY <1>1, <2>1, <2>3, <2>4
    <3> QED
      BY <1>1, <2>1, <2>4, <3>1 DEF QueueAccounting, Waiting, InFlight
  <2>8. OnlineIsOpen' /\ ReleasingCanMove' /\ ReleasedWereProbed'
    BY <2>1 DEF OnlineIsOpen, ReleasingCanMove, ReleasedWereProbed
  <2>9. DrainedIsQuiet'
    BY <2>1 DEF DrainedIsQuiet
  <2>10. HoldDiscipline'
    BY <1>1, <2>1 DEF HoldDiscipline, Quiet
  <2> QED
    BY <2>5, <2>6, <2>7, <2>8, <2>9, <2>10
<1>3. CASE CollectLease(r)
  <2>1. /\ phase[r] = "granted" /\ phase' = [phase EXCEPT ![r] = "leased"]
        /\ requestIDs' = requestIDs /\ fresh' = fresh
        /\ state' = state /\ actions' = actions /\ beforeEnter' = beforeEnter
        /\ entering' = entering /\ queue' = queue /\ probed' = probed
        /\ control' = control /\ wanted' = wanted /\ drained' = drained
        /\ active' = active
    BY <1>3 DEF CollectLease, ControlUnchanged
  <2>2. phase' \in [Requests -> Phases]
    BY <1>1, <2>1 DEF Phases
  <2>3. FlyingIn(phase') = FlyingIn(phase) /\ QueuedIn(phase') = QueuedIn(phase)
    BY <1>1, <2>1 DEF FlyingIn, QueuedIn
  <2>4. TypeOK'
    BY <2>1, <2>2 DEF TypeOK
  <2>5. CountersExact' /\ QueueAccounting'
    BY <2>1, <2>3 DEF CountersExact, InFlight, QueueAccounting, Waiting
  <2>6. HoldDiscipline'
    BY <2>1 DEF HoldDiscipline, PendingTargets
  <2>7. /\ OnlineIsOpen' /\ ReleasingCanMove' /\ ReleasedWereProbed'
        /\ DrainedIsQuiet'
    BY <2>1, <2>3 DEF OnlineIsOpen, ReleasingCanMove, ReleasedWereProbed,
                      DrainedIsQuiet, InFlight
  <2> QED
    BY <2>4, <2>5, <2>6, <2>7
<1> QED
  BY <1>2, <1>3

\* A probe that succeeds starts the release and keeps the invariant.
LEMMA ProbeSucceedsInv ==
    ASSUME IndInv, NEW o \in Operators, ProbeSucceeds(o)
    PROVE  IndInv'
<1> USE DEF IndInv
<1>1. /\ state = "probing" /\ control' = [control EXCEPT ![o] = "idle"]
      /\ wanted' = [wanted EXCEPT ![o] = {}] /\ fresh' = {}
      /\ actions' = actions /\ beforeEnter' = beforeEnter /\ entering' = entering
      /\ requestIDs' = requestIDs /\ drained' = drained
      /\ ReleaseQueued(queue, active, heldBytes, wanted[o], actions, phase)
  BY DEF ProbeSucceeds, Mutated
<1>2. /\ active = 0 /\ active = Cardinality(FlyingIn(phase)) /\ beforeEnter = {}
      /\ queue \in Seq(Requests) /\ phase \in [Requests -> Phases] /\ active \in Nat
      /\ Lists(queue, QueuedIn(phase)) /\ requestIDs = QueuedIn(phase) \union FlyingIn(phase)
      /\ Len(queue) <= MaxHeldRequests /\ wanted[o] \in SUBSET Targets
  BY <1>1 DEF HoldDiscipline, TypeOK, CountersExact, InFlight, QueueAccounting, Waiting
<1>3. \A x \in FlyingIn(phase) : TargetOf[x] \in wanted[o]
  BY <1>2, FlyingFinite
<1>4. /\ queue' \in Seq(Requests) /\ Len(queue') <= Len(queue)
      /\ active' \in Nat /\ active' <= ReleaseConcurrency
      /\ phase' \in [Requests -> Phases]
      /\ active' = Cardinality(FlyingIn(phase'))
      /\ Lists(queue', QueuedIn(phase'))
      /\ QueuedIn(phase') \union FlyingIn(phase') = QueuedIn(phase) \union FlyingIn(phase)
      /\ \A r \in FlyingIn(phase') : TargetOf[r] \in wanted[o]
      /\ \/ state' = "held" /\ active' = 0 /\ probed' = {}
         \/ state' = "online" /\ active' = 0 /\ queue' = <<>> /\ actions = {} /\ probed' = {}
         \/ /\ state' = "releasing" /\ probed' = wanted[o]
            /\ queue' # <<>> => active' > 0
            /\ queue' = <<>> => active' > 0 \/ actions # {}
  <2>1. active <= ReleaseConcurrency
    BY <1>2, ConfigAssumption
  <2> HIDE DEF IndInv
  <2> QED
    BY <1>1, <1>2, <1>3, <2>1, ReleaseQueuedResult
<1>5. TypeOK'
  BY <1>1, <1>2, <1>4 DEF TypeOK, States, ControlPhases
<1>6. CountersExact'
  BY <1>1, <1>4 DEF CountersExact, InFlight
<1>7. QueueAccounting'
  BY <1>1, <1>2, <1>4, ConfigAssumption DEF QueueAccounting, Waiting, InFlight
<1>8. HoldDiscipline'
  BY <1>1, <1>2, <1>4 DEF HoldDiscipline
<1>9. OnlineIsOpen' /\ ReleasingCanMove' /\ ReleasedWereProbed'
  BY <1>1, <1>2, <1>4 DEF OnlineIsOpen, ReleasingCanMove, ReleasedWereProbed, InFlight, TypeOK
<1>10. DrainedIsQuiet'
  BY <1>1 DEF DrainedIsQuiet
<1> QED
  BY <1>5, <1>6, <1>7, <1>8, <1>9, <1>10

\* The steps that start or stop the gate or begin an action.
LEMMA LifecycleInv ==
    ASSUME IndInv, Start \/ BeginShutdown \/ DrainReturns \/ \E a \in Actions : BeginAction(a)
    PROVE  IndInv'
<1> USE DEF IndInv
<1>1. CASE Start
  <2>1. /\ state = "unbound" /\ state' = "online" /\ fresh' = {}
        /\ control' = control /\ wanted' = wanted /\ drained' = drained
        /\ actions' = actions /\ beforeEnter' = beforeEnter /\ entering' = entering
        /\ active' = active /\ queue' = queue /\ requestIDs' = requestIDs
        /\ probed' = probed /\ phase' = phase
    BY <1>1 DEF Start, Mutated, ControlUnchanged
  <2>2. TypeOK'
    BY <2>1 DEF TypeOK, States
  <2>3. CountersExact' /\ QueueAccounting'
    BY <2>1 DEF CountersExact, InFlight, QueueAccounting, Waiting
  <2>4. HoldDiscipline' /\ OnlineIsOpen'
    BY <2>1 DEF HoldDiscipline, OnlineIsOpen, TypeOK
  <2>5. ReleasingCanMove' /\ ReleasedWereProbed' /\ DrainedIsQuiet'
    BY <2>1 DEF ReleasingCanMove, ReleasedWereProbed, DrainedIsQuiet
  <2> QED
    BY <2>2, <2>3, <2>4, <2>5
<1>2. CASE DrainReturns
  <2>1. state = "stopping" /\ active = 0 /\ actions = {} /\ drained' = TRUE
    BY <1>2 DEF DrainReturns, NothingLeft
  <2>2. InFlight = {}
    BY <2>1, FlyingFinite DEF CountersExact, InFlight
  <2>3. UNCHANGED <<gateVars, fresh, control, wanted>>
    BY <1>2 DEF DrainReturns
  <2> QED
    BY <2>1, <2>2, <2>3
       DEF gateVars, TypeOK, CountersExact, InFlight, QueueAccounting, Waiting,
           HoldDiscipline, PendingTargets, OnlineIsOpen, ReleasingCanMove,
           ReleasedWereProbed, DrainedIsQuiet
<1>3. CASE BeginShutdown
  <2>1. /\ state' = "stopping" /\ queue' = <<>> /\ probed' = {} /\ fresh' = {}
        /\ phase' = [r \in Requests |-> IF phase[r] = "queued" THEN "canceled" ELSE phase[r]]
        /\ requestIDs' = requestIDs \ {r \in Requests : phase[r] = "queued"}
        /\ control' = control /\ wanted' = wanted /\ drained' = drained
        /\ actions' = actions /\ beforeEnter' = beforeEnter /\ entering' = entering
        /\ active' = active /\ ~drained
    BY <1>3 DEF BeginShutdown, Mutated, ControlUnchanged, DrainedIsQuiet
  <2>2. phase \in [Requests -> Phases]
    BY DEF TypeOK
  <2>3. phase' \in [Requests -> Phases]
    BY <2>1, <2>2 DEF Phases
  <2>4. FlyingIn(phase') = FlyingIn(phase) /\ QueuedIn(phase') = {}
    BY <2>1, <2>2 DEF FlyingIn, QueuedIn
  <2>5. TypeOK'
    BY <2>1, <2>3 DEF TypeOK, States
  <2>6. CountersExact'
    BY <2>1, <2>4 DEF CountersExact, InFlight
  <2>7. QueueAccounting'
    <3>1. requestIDs' = FlyingIn(phase)
      <4>1. requestIDs' = requestIDs \ QueuedIn(phase)
        BY <2>1 DEF QueuedIn
      <4>2. requestIDs = QueuedIn(phase) \union FlyingIn(phase)
        BY DEF QueueAccounting, Waiting, InFlight
      <4>3. QueuedIn(phase) \cap FlyingIn(phase) = {}
        BY DEF QueuedIn, FlyingIn
      <4> QED
        BY <4>1, <4>2, <4>3
    <3>2. Len(queue') = 0 /\ Heads(queue', Len(queue')) = {}
      BY <2>1 DEF Heads
    <3>3. Lists(queue', {})
      BY <3>2 DEF Lists
    <3>4. requestIDs' = Waiting' \union InFlight'
      BY <2>4, <3>1 DEF Waiting, InFlight
    <3>5. Lists(queue', Waiting')
      BY <2>4, <3>3 DEF Waiting
    <3> QED
      BY <3>2, <3>4, <3>5, ConfigAssumption DEF QueueAccounting
  <2>8. HoldDiscipline' /\ DrainedIsQuiet'
    BY <2>1 DEF HoldDiscipline, DrainedIsQuiet
  <2>9. OnlineIsOpen' /\ ReleasingCanMove' /\ ReleasedWereProbed'
    BY <2>1 DEF OnlineIsOpen, ReleasingCanMove, ReleasedWereProbed
  <2> QED
    BY <2>5, <2>6, <2>7, <2>8, <2>9
<1>4. ASSUME NEW a \in Actions, BeginAction(a) PROVE IndInv'
  <2>1. /\ state \notin {"unbound", "stopping"} /\ a \notin actions
        /\ actions' = actions \union {a} /\ fresh' = {}
        /\ control' = control /\ wanted' = wanted /\ drained' = drained
        /\ state' = state /\ active' = active /\ queue' = queue /\ probed' = probed
        /\ requestIDs' = requestIDs /\ phase' = phase
    BY <1>4 DEF BeginAction, Mutated, ControlUnchanged
  <2>2. /\ beforeEnter' = IF state = "online" THEN beforeEnter \union {a} ELSE beforeEnter
        /\ entering' = IF state = "online" THEN entering + 1 ELSE entering
    BY <1>4 DEF BeginAction
  <2>3. entering' \in Nat /\ entering' = Cardinality(beforeEnter')
    <3>1. IsFiniteSet(beforeEnter) /\ a \notin beforeEnter
      BY <2>1, RequestAssumption, FS_Subset DEF TypeOK
    <3>2. entering \in Nat /\ entering = Cardinality(beforeEnter)
      BY DEF CountersExact, TypeOK
    <3>3. Cardinality(beforeEnter \union {a}) = entering + 1
      BY <3>1, <3>2, FS_AddElement
    <3> QED
      BY <2>2, <3>2, <3>3
  <2>4. TypeOK'
    BY <2>1, <2>2, <2>3 DEF TypeOK
  <2>5. CountersExact' /\ QueueAccounting'
    BY <2>1, <2>3 DEF CountersExact, QueueAccounting, Waiting, InFlight
  <2>6. HoldDiscipline' /\ OnlineIsOpen'
    BY <2>1, <2>2 DEF HoldDiscipline, OnlineIsOpen
  <2>7. ReleasingCanMove' /\ ReleasedWereProbed' /\ DrainedIsQuiet'
    BY <2>1 DEF ReleasingCanMove, ReleasedWereProbed, DrainedIsQuiet, InFlight
  <2> QED
    BY <2>4, <2>5, <2>6, <2>7
<1> QED
  BY <1>1, <1>2, <1>3, <1>4

\* The other steps of an operator.
LEMMA OperatorInv ==
    ASSUME IndInv, NEW o \in Operators,
           \/ ReadSnapshot(o) \/ Enter(o) \/ EnterReturns(o) \/ EnterGivesUp(o)
           \/ ReadTargets(o) \/ ResumeProbes(o) \/ ResumeRefused(o)
           \/ ProbeFails(o) \/ ProbeTooLate(o)
    PROVE  IndInv'
<1> USE DEF IndInv
<1>1. CASE ReadSnapshot(o)
  BY <1>1 DEF ReadSnapshot, gateVars, TypeOK, CountersExact, InFlight, QueueAccounting,
              Waiting, HoldDiscipline, PendingTargets, OnlineIsOpen, ReleasingCanMove,
              ReleasedWereProbed, DrainedIsQuiet
<1>2. CASE Enter(o)
  <2>1. entering = 0 => beforeEnter = {}
    <3>1. IsFiniteSet(beforeEnter)
      BY RequestAssumption, FS_Subset DEF TypeOK
    <3> QED
      BY <3>1, FS_EmptySet DEF CountersExact
  <2>2. TypeOK'
    BY <1>2 DEF Enter, Mutated, TypeOK, States, ControlPhases
  <2>3. HoldDiscipline'
    BY <1>2, <2>1 DEF Enter, Mutated, Quiet, HoldDiscipline
  <2> QED
    BY <1>2, <2>2, <2>3
       DEF Enter, CountersExact, InFlight, QueueAccounting, Waiting, OnlineIsOpen,
           ReleasingCanMove, ReleasedWereProbed, DrainedIsQuiet
<1>3. CASE EnterReturns(o) \/ EnterGivesUp(o)
  BY <1>3 DEF EnterReturns, EnterGivesUp, gateVars, TypeOK, ControlPhases, CountersExact,
              InFlight, QueueAccounting, Waiting, HoldDiscipline, PendingTargets,
              OnlineIsOpen, ReleasingCanMove, ReleasedWereProbed, DrainedIsQuiet
<1>4. CASE ReadTargets(o)
  <2>1. PendingTargets \in SUBSET Targets
    BY RequestAssumption DEF PendingTargets, TypeOK
  <2>2. TypeOK'
    BY <1>4, <2>1 DEF ReadTargets, gateVars, TypeOK, ControlPhases
  <2>3. HoldDiscipline'
    <3>1. PendingTargets' = PendingTargets
      BY <1>4 DEF ReadTargets, gateVars, PendingTargets
    <3> QED
      BY <1>4, <3>1 DEF ReadTargets, gateVars, HoldDiscipline, TypeOK
  <2> QED
    BY <1>4, <2>2, <2>3
       DEF ReadTargets, gateVars, CountersExact, InFlight, QueueAccounting, Waiting,
           OnlineIsOpen, ReleasingCanMove, ReleasedWereProbed, DrainedIsQuiet
<1>5. CASE ResumeProbes(o)
  BY <1>5 DEF ResumeProbes, ResumeAllowed, Mutated, TypeOK, States, ControlPhases,
              CountersExact, InFlight, QueueAccounting, Waiting, HoldDiscipline,
              OnlineIsOpen, ReleasingCanMove, ReleasedWereProbed, DrainedIsQuiet
<1>6. CASE ResumeRefused(o) \/ ProbeTooLate(o)
  BY <1>6 DEF ResumeRefused, ProbeTooLate, gateVars, TypeOK, ControlPhases, CountersExact,
              InFlight, QueueAccounting, Waiting, HoldDiscipline, PendingTargets,
              OnlineIsOpen, ReleasingCanMove, ReleasedWereProbed, DrainedIsQuiet
<1>7. CASE ProbeFails(o)
  BY <1>7 DEF ProbeFails, Mutated, TypeOK, States, ControlPhases, CountersExact, InFlight,
              QueueAccounting, Waiting, HoldDiscipline, OnlineIsOpen, ReleasingCanMove,
              ReleasedWereProbed, DrainedIsQuiet
<1> QED
  BY <1>1, <1>2, <1>3, <1>4, <1>5, <1>6, <1>7
-----------------------------------------------------------------------------
\* Every step keeps the invariant, one case per action.
LEMMA IndInvNext ==
    ASSUME IndInv, [Next]_vars
    PROVE  IndInv'
<1>1. CASE Start \/ BeginShutdown \/ DrainReturns \/ \E a \in Actions : BeginAction(a)
  BY <1>1, LifecycleInv
<1>2. ASSUME NEW a \in Actions, ReleaseAction(a) PROVE IndInv'
  BY <1>2, ReleaseActionInv
<1>3. ASSUME NEW a \in Actions, NEW r \in Requests, AcquireNow(a, r) PROVE IndInv'
  BY <1>3, TakeLeaseInv
<1>4. ASSUME NEW a \in Actions, NEW r \in Requests, AcquireQueued(a, r) PROVE IndInv'
  BY <1>4, AcquireQueuedInv
<1>5. ASSUME NEW r \in Requests, CollectLease(r) PROVE IndInv'
  BY <1>5, TakeLeaseInv
<1>6. ASSUME NEW r \in Requests, CancelWaiter(r) \/ CollectCanceled(r) PROVE IndInv'
  BY <1>6, CancelInv
<1>7. ASSUME NEW r \in Requests, Release(r) \/ AbandonGrant(r) PROVE IndInv'
  <2>1. r \in FlyingIn(phase) /\ ReleaseLease(r)
    BY <1>7 DEF Release, AbandonGrant, FlyingIn
  <2> QED
    BY <2>1, ReleaseLeaseInv
<1>8. ASSUME NEW o \in Operators, ProbeSucceeds(o) PROVE IndInv'
  BY <1>8, ProbeSucceedsInv
<1>9. ASSUME NEW o \in Operators,
             \/ ReadSnapshot(o) \/ Enter(o) \/ EnterReturns(o) \/ EnterGivesUp(o)
             \/ ReadTargets(o) \/ ResumeProbes(o) \/ ResumeRefused(o)
             \/ ProbeFails(o) \/ ProbeTooLate(o)
      PROVE  IndInv'
  BY <1>9, OperatorInv
<1>10. CASE UNCHANGED vars
  BY <1>10 DEF vars, gateVars, IndInv, TypeOK, CountersExact, InFlight, QueueAccounting,
               Waiting, HoldDiscipline, PendingTargets, OnlineIsOpen, ReleasingCanMove,
               ReleasedWereProbed, DrainedIsQuiet
<1>11. CASE Stopped
  BY <1>10, <1>11 DEF Stopped
<1> QED
  BY <1>1, <1>2, <1>3, <1>4, <1>5, <1>6, <1>7, <1>8, <1>9, <1>10, <1>11 DEF Next

\* The gate starts in the invariant.
LEMMA IndInvInit == Init => IndInv
<1> SUFFICES ASSUME Init PROVE IndInv
  OBVIOUS
<1> USE DEF Init
<1>1. TypeOK
  <2>1. phase \in [Requests -> Phases] /\ control \in [Operators -> ControlPhases]
    BY DEF Phases, ControlPhases
  <2>2. wanted \in [Operators -> SUBSET Targets] /\ drained \in BOOLEAN
    OBVIOUS
  <2>3. /\ state \in States /\ queue \in Seq(Requests) /\ entering \in Nat /\ active \in Nat
        /\ actions \subseteq Actions /\ beforeEnter \subseteq actions
        /\ requestIDs \subseteq Requests /\ probed \subseteq Targets /\ fresh \subseteq Operators
    BY DEF States
  <2> QED
    BY <2>1, <2>2, <2>3 DEF TypeOK
<1>2. FlyingIn(phase) = {} /\ QueuedIn(phase) = {}
  BY DEF FlyingIn, QueuedIn
<1>3. CountersExact
  BY <1>2, FS_EmptySet DEF CountersExact, InFlight
<1>4. QueueAccounting
  <2>1. Len(queue) = 0 /\ Heads(queue, Len(queue)) = {}
    BY DEF Heads
  <2>2. Lists(queue, {})
    BY <2>1 DEF Lists
  <2>3. Waiting = {} /\ InFlight = {}
    BY <1>2 DEF Waiting, InFlight
  <2>4. requestIDs = Waiting \union InFlight /\ Lists(queue, Waiting)
    BY <2>2, <2>3
  <2> QED
    BY <2>1, <2>4, ConfigAssumption DEF QueueAccounting
<1>5. HoldDiscipline /\ OnlineIsOpen /\ ReleasingCanMove /\ ReleasedWereProbed /\ DrainedIsQuiet
  BY DEF HoldDiscipline, OnlineIsOpen, ReleasingCanMove, ReleasedWereProbed, DrainedIsQuiet
<1> QED
  BY <1>1, <1>3, <1>4, <1>5 DEF IndInv

\* The invariant holds in every state of every behaviour of the gate.
THEOREM GateInvariant == Spec => []IndInv
<1>1. Init => IndInv
  BY IndInvInit
<1>2. IndInv /\ [Next]_vars => IndInv'
  BY IndInvNext
<1> QED
  BY <1>1, <1>2, PTL DEF Spec

\* Every variable keeps its type.
THEOREM GateTypes == Spec => []TypeOK
<1>1. IndInv => TypeOK
  BY DEF IndInv
<1> QED
  BY <1>1, GateInvariant, PTL

\* Whenever the gate is held or probing, nothing that was admitted is in flight and
\* nothing from before the hold can still be sent: the SafeToDisconnect a snapshot
\* reports is true of the leases, not only of the counters.
THEOREM GateSafeToDisconnect == Spec => []SafeToDisconnect
<1>1. IndInv => SafeToDisconnect
  <2> SUFFICES ASSUME IndInv, state \in {"held", "probing"}
               PROVE  InFlight = {} /\ beforeEnter = {} /\ active = 0 /\ entering = 0
    BY DEF SafeToDisconnect
  <2>1. beforeEnter = {} /\ active = 0
    BY DEF IndInv, HoldDiscipline
  <2>2. InFlight = {}
    BY <2>1, FlyingFinite DEF IndInv, CountersExact, InFlight
  <2>3. entering = 0
    BY <2>1, FS_EmptySet DEF IndInv, CountersExact
  <2> QED
    BY <2>1, <2>2, <2>3
<1> QED
  BY <1>1, GateInvariant, PTL

\* A release never sends a request whose target the last Resume did not probe, and
\* never exceeds its concurrency.
THEOREM GateReleasesProbed == Spec => []ReleasedWereProbed
<1>1. IndInv => ReleasedWereProbed
  BY DEF IndInv
<1> QED
  BY <1>1, GateInvariant, PTL

\* A release never waits for a step nobody will take.
THEOREM GateReleasingCanMove == Spec => []ReleasingCanMove
<1>1. IndInv => ReleasingCanMove
  BY DEF IndInv
<1> QED
  BY <1>1, GateInvariant, PTL

\* Resume probes the targets of the requests that are queued when it starts.
THEOREM GateProbesQueued == Spec => ProbesWhatIsQueued
<1>1. ASSUME IndInv, [Next]_vars, state = "held", state' = "probing"
      PROVE  \E o \in Operators : control'[o] = "probing" /\ wanted[o] = PendingTargets
  <2>1. PICK o \in Operators : ResumeProbes(o)
    <3>1. \A q, n, b, P, ac, ph : ReleaseQueued(q, n, b, P, ac, ph) => state' # "probing"
      BY DEF ReleaseQueued
    <3>2. \A n, e, ac, ph : AfterRelease(n, e, ac, ph) => state' # "probing"
      BY <1>1, <3>1 DEF AfterRelease
    <3>3. \A q, b, ph : Enqueue(q, b, ph) => state' # "probing"
      BY <1>1 DEF Enqueue
    <3> QED
      BY <1>1, <3>1, <3>2, <3>3
         DEF Next, Start, BeginShutdown, DrainReturns, Stopped, BeginAction, ReleaseAction,
             AcquireNow, AcquireQueued, CollectLease, CollectCanceled, Release, AbandonGrant,
             ReleaseLease, CancelWaiter, ReadSnapshot, Enter, EnterReturns, EnterGivesUp,
             ReadTargets, ResumeRefused, ProbeSucceeds, ProbeFails, ProbeTooLate,
             vars, gateVars
  <2>2. control[o] = "resuming" /\ o \in fresh /\ control' = [control EXCEPT ![o] = "probing"]
    BY <2>1 DEF ResumeProbes, ResumeAllowed
  <2>3. control'[o] = "probing" /\ wanted[o] = PendingTargets
    BY <1>1, <2>2 DEF IndInv, HoldDiscipline, TypeOK
  <2> QED
    BY <2>3
<1>2. IndInv /\ [Next]_vars =>
        [(state = "held" /\ state' = "probing") =>
            \E o \in Operators : control'[o] = "probing" /\ wanted[o] = PendingTargets]_vars
  BY <1>1
<1> QED
  BY <1>2, GateInvariant, PTL DEF Spec, ProbesWhatIsQueued
-----------------------------------------------------------------------------
(* The byte account                                                        *)

LEMMA BytesFinite ==
    ASSUME NEW S \in SUBSET Requests
    PROVE  /\ IsFiniteSet(UNION {{r} \X (1 .. SizeOf[r]) : r \in S})
           /\ BytesOf(S) \in Nat
<1> DEFINE body(r) == {r} \X (1 .. SizeOf[r])
           T == {body(r) : r \in S}
           m == [r \in S |-> body(r)]
<1>1. m \in Surjection(S, T)
  <2>1. m \in [S -> T]
    OBVIOUS
  <2>2. \A t \in T : \E s \in S : m[s] = t
    OBVIOUS
  <2> QED
    BY <2>1, <2>2, Zenon DEF Surjection
<1>2. IsFiniteSet(S)
  BY RequestAssumption, FS_Subset
<1>3. \A t \in T : IsFiniteSet(t)
  <2>1. SUFFICES ASSUME NEW r \in S PROVE IsFiniteSet(body(r))
    OBVIOUS
  <2>2. SizeOf[r] \in Int /\ 1 \in Int
    BY RequestAssumption
  <2>3. IsFiniteSet(1 .. SizeOf[r])
    BY <2>2, FS_Interval
  <2>4. IsFiniteSet({r})
    BY FS_Singleton
  <2> QED
    BY <2>3, <2>4, FS_Product, Zenon
<1> HIDE DEF m
<1>4. IsFiniteSet(T)
  BY <1>1, <1>2, FS_Surjection
<1>5. BytesOf(S) = Cardinality(UNION T)
  BY Zenon DEF BytesOf
<1>6. IsFiniteSet(UNION T)
  <2> HIDE DEF T
  <2> QED
    BY <1>3, <1>4, FS_UNION
<1> QED
  BY <1>5, <1>6, FS_CardinalityType, Zenon

LEMMA BytesOfOne ==
    ASSUME NEW r \in Requests
    PROVE  BytesOf({r}) = SizeOf[r] /\ SizeOf[r] \in Nat
<1> DEFINE n == SizeOf[r]
<1>1. UNION {{x} \X (1 .. SizeOf[x]) : x \in {r}} = {r} \X (1 .. n)
  OBVIOUS
<1>2. n \in Nat /\ 1 \in Int /\ n \in Int
  BY RequestAssumption
<1> HIDE DEF n
<1>3. /\ IsFiniteSet(1 .. n)
      /\ Cardinality(1 .. n) = IF 1 > n THEN 0 ELSE n - 1 + 1
  BY <1>2, FS_Interval
<1>4. IsFiniteSet({r}) /\ Cardinality({r}) = 1
  BY FS_Singleton
<1>5. Cardinality({r} \X (1 .. n)) = Cardinality({r}) * Cardinality(1 .. n)
  BY <1>3, <1>4, FS_Product, Zenon
<1>6. Cardinality({r} \X (1 .. n)) = n
  BY <1>2, <1>3, <1>4, <1>5
<1> QED
  BY <1>1, <1>2, <1>6, Zenon DEF BytesOf, n

\* The bytes of requests that leave, or of one that joins.
LEMMA BytesApart ==
    ASSUME NEW S \in SUBSET Requests, NEW T \in SUBSET Requests, S \intersect T = {}
    PROVE  BytesOf(S \union T) = BytesOf(S) + BytesOf(T)
<1> DEFINE A == UNION {{r} \X (1 .. SizeOf[r]) : r \in S}
           B == UNION {{r} \X (1 .. SizeOf[r]) : r \in T}
<1>1. UNION {{r} \X (1 .. SizeOf[r]) : r \in S \union T} = A \union B
  OBVIOUS
<1>2. A \intersect B = {}
  OBVIOUS
<1>3. IsFiniteSet(A) /\ IsFiniteSet(B)
  BY BytesFinite, Zenon
<1>4. BytesOf(S) = Cardinality(A) /\ BytesOf(T) = Cardinality(B) /\ BytesOf(S \union T) = Cardinality(A \union B)
  BY <1>1, Zenon DEF BytesOf
<1>5. BytesOf(S) \in Nat /\ BytesOf(T) \in Nat
  BY BytesFinite
<1> HIDE DEF A, B
<1>6. Cardinality(A \union B) = Cardinality(A) + Cardinality(B) - Cardinality(A \intersect B)
  BY <1>3, FS_Union
<1>7. Cardinality(A \intersect B) = 0
  BY <1>2, FS_EmptySet
<1> QED
  BY <1>4, <1>5, <1>6, <1>7

LEMMA BytesLeave ==
    ASSUME NEW S \in SUBSET Requests, NEW T \in SUBSET S
    PROVE  /\ BytesOf(S \ T) = BytesOf(S) - BytesOf(T)
           /\ BytesOf(S \ T) \in Nat /\ BytesOf(S) \in Nat /\ BytesOf(T) \in Nat
<1>1. S \ T \in SUBSET Requests /\ T \in SUBSET Requests /\ (S \ T) \intersect T = {} /\ (S \ T) \union T = S
  OBVIOUS
<1>2. BytesOf((S \ T) \union T) = BytesOf(S \ T) + BytesOf(T)
  BY <1>1, BytesApart
<1>3. BytesOf(S \ T) \in Nat /\ BytesOf(T) \in Nat /\ BytesOf(S) \in Nat
  BY <1>1, BytesFinite
<1>4. BytesOf(S) = BytesOf(S \ T) + BytesOf(T)
  BY <1>1, <1>2, Zenon
<1> QED
  BY <1>3, <1>4

\* What the account says of the calls that wait.
Accounts(bytes, ph) == bytes = BytesOf(QueuedIn(ph)) /\ bytes <= MaxHeldBytes

\* releaseQueuedLocked takes from the account what it takes from the queue.
LEMMA ReleaseQueuedBytes ==
    ASSUME NEW q \in Seq(Requests), NEW ph \in [Requests -> Phases], NEW n, NEW bytes, NEW P, NEW acts,
           Lists(q, QueuedIn(ph)), Accounts(bytes, ph), ReleaseQueued(q, n, bytes, P, acts, ph)
    PROVE  Accounts(heldBytes', phase')
<1>1. PICK k \in 0..Len(q) : heldBytes' = bytes - BytesOf(Heads(q, k)) /\ phase' = Grant(ph, Heads(q, k))
  BY DEF ReleaseQueued
<1> DEFINE S == QueuedIn(ph)
           H == Heads(q, k)
<1>2. H \in SUBSET S /\ S \in SUBSET Requests
  BY DEF Lists, Heads, QueuedIn
<1>3. QueuedIn(phase') = S \ H
  BY <1>1, <1>2 DEF QueuedIn, Grant
<1>4. bytes = BytesOf(S) /\ bytes <= MaxHeldBytes /\ MaxHeldBytes \in Nat
  BY ConfigAssumption DEF Accounts
<1>5. heldBytes' = bytes - BytesOf(H)
  BY <1>1
<1> HIDE DEF S, H
<1>6. /\ BytesOf(S \ H) = BytesOf(S) - BytesOf(H)
      /\ BytesOf(S \ H) \in Nat /\ BytesOf(S) \in Nat /\ BytesOf(H) \in Nat
  BY <1>2, BytesLeave
<1>7. heldBytes' = BytesOf(S \ H) /\ heldBytes' <= MaxHeldBytes
  BY <1>4, <1>5, <1>6
<1> QED
  BY <1>3, <1>7 DEF Accounts

LEMMA AfterReleaseBytes ==
    ASSUME NEW ph \in [Requests -> Phases], NEW n, NEW e, NEW acts,
           queue \in Seq(Requests), Lists(queue, QueuedIn(ph)), Accounts(heldBytes, ph), AfterRelease(n, e, acts, ph)
    PROVE  Accounts(heldBytes', phase')
<1>1. CASE state = "releasing"
  BY <1>1, ReleaseQueuedBytes DEF AfterRelease
<1>2. CASE state # "releasing"
  BY <1>2 DEF AfterRelease
<1> QED
  BY <1>1, <1>2

LEMMA AccountsStay ==
    ASSUME Accounts(heldBytes, phase), UNCHANGED heldBytes, QueuedIn(phase') = QueuedIn(phase)
    PROVE  Accounts(heldBytes', phase')
  BY DEF Accounts

LEMMA BytesNext ==
    ASSUME IndInv, Accounts(heldBytes, phase), [Next]_vars
    PROVE  Accounts(heldBytes', phase')
<1>1. /\ phase \in [Requests -> Phases] /\ queue \in Seq(Requests) /\ Lists(queue, QueuedIn(phase))
  BY DEF IndInv, TypeOK, QueueAccounting, Waiting
<1>2. ASSUME UNCHANGED <<heldBytes, phase>> PROVE Accounts(heldBytes', phase')
  BY <1>2 DEF Accounts
<1>3. ASSUME NEW r \in Requests, UNCHANGED heldBytes, phase[r] # "queued",
             \E to \in {"none", "leased"} : phase' = [phase EXCEPT ![r] = to]
      PROVE  Accounts(heldBytes', phase')
  <2>1. QueuedIn(phase') = QueuedIn(phase)
    BY <1>1, <1>3 DEF QueuedIn
  <2> QED
    BY <1>3, <2>1, AccountsStay
<1>4. CASE BeginShutdown
  <2>1. QueuedIn(phase') = {} /\ heldBytes' = 0
    BY <1>4 DEF BeginShutdown, QueuedIn
  <2>2. BytesOf({}) = 0
    BY FS_EmptySet DEF BytesOf
  <2> QED
    BY <2>1, <2>2, ConfigAssumption DEF Accounts
<1>5. CASE Start \/ DrainReturns \/ Stopped \/ \E a \in Actions : BeginAction(a)
  BY <1>2, <1>5 DEF Start, DrainReturns, Stopped, BeginAction, vars, gateVars
<1>6. ASSUME NEW a \in Actions, ReleaseAction(a) PROVE Accounts(heldBytes', phase')
  BY <1>1, <1>6, AfterReleaseBytes DEF ReleaseAction
<1>7. ASSUME NEW a \in Actions, NEW r \in Requests, AcquireNow(a, r) PROVE Accounts(heldBytes', phase')
  BY <1>3, <1>7 DEF AcquireNow, Admissible
<1>8. ASSUME NEW a \in Actions, NEW r \in Requests, AcquireQueued(a, r) PROVE Accounts(heldBytes', phase')
  <2> DEFINE ph == [phase EXCEPT ![r] = "queued"]
             q  == Append(queue, r)
             b  == heldBytes + SizeOf[r]
  <2>1. phase[r] = "none" /\ SizeOf[r] <= MaxHeldBytes - heldBytes /\ Enqueue(q, b, ph)
    BY <1>8 DEF AcquireQueued, Admissible, HasCapacity
  <2>2. ph \in [Requests -> Phases] /\ QueuedIn(ph) = QueuedIn(phase) \union {r} /\ r \notin QueuedIn(phase)
    BY <1>1, <2>1 DEF QueuedIn, Phases
  <2>3. q \in Seq(Requests) /\ Lists(q, QueuedIn(phase) \union {r})
    BY <1>1, <2>2, AppendLists
  <2>4. Accounts(b, ph)
    <3>1. QueuedIn(phase) \in SUBSET Requests /\ {r} \in SUBSET Requests /\ QueuedIn(phase) \intersect {r} = {}
      BY <2>2 DEF QueuedIn
    <3>2. BytesOf(QueuedIn(phase) \union {r}) = BytesOf(QueuedIn(phase)) + BytesOf({r})
      BY <3>1, BytesApart
    <3>3. BytesOf({r}) = SizeOf[r] /\ SizeOf[r] \in Nat /\ BytesOf(QueuedIn(phase)) \in Nat
      BY <3>1, BytesOfOne, BytesFinite
    <3>4. heldBytes = BytesOf(QueuedIn(phase)) /\ MaxHeldBytes \in Nat
      BY ConfigAssumption DEF Accounts
    <3>5. b = BytesOf(QueuedIn(phase) \union {r}) /\ b <= MaxHeldBytes
      BY <2>1, <3>2, <3>3, <3>4
    <3> HIDE DEF b, ph
    <3> QED
      BY <2>2, <3>5 DEF Accounts
  <2> HIDE DEF b, ph, q
  <2>5. CASE state = "releasing"
    BY <2>1, <2>2, <2>3, <2>4, <2>5, ReleaseQueuedBytes DEF Enqueue
  <2>6. CASE state # "releasing"
    BY <2>1, <2>4, <2>6 DEF Enqueue
  <2> QED
    BY <2>5, <2>6
<1>9. ASSUME NEW r \in Requests, CollectLease(r) \/ CollectCanceled(r) PROVE Accounts(heldBytes', phase')
  BY <1>3, <1>9 DEF CollectLease, CollectCanceled
<1>10. ASSUME NEW r \in Requests, Release(r) \/ AbandonGrant(r) PROVE Accounts(heldBytes', phase')
  <2> DEFINE ph == [phase EXCEPT ![r] = "none"]
             n  == IF active > 0 THEN active - 1 ELSE active
  <2>1. phase[r] \in {"leased", "granted"} /\ AfterRelease(n, entering, actions, ph)
    BY <1>10 DEF Release, AbandonGrant, ReleaseLease
  <2>2. ph \in [Requests -> Phases] /\ QueuedIn(ph) = QueuedIn(phase)
    BY <1>1, <2>1 DEF QueuedIn, Phases
  <2> HIDE DEF ph, n
  <2>3. Accounts(heldBytes, ph)
    BY <2>2 DEF Accounts
  <2> QED
    BY <1>1, <2>1, <2>2, <2>3, AfterReleaseBytes
<1>11. ASSUME NEW r \in Requests, CancelWaiter(r) PROVE Accounts(heldBytes', phase')
  <2>1. phase[r] = "queued" /\ phase' = [phase EXCEPT ![r] = "none"] /\ heldBytes' = heldBytes - SizeOf[r]
    BY <1>11 DEF CancelWaiter
  <2>2. QueuedIn(phase') = QueuedIn(phase) \ {r} /\ {r} \in SUBSET QueuedIn(phase) /\ QueuedIn(phase) \in SUBSET Requests
    BY <1>1, <2>1 DEF QueuedIn
  <2>3. /\ BytesOf(QueuedIn(phase) \ {r}) = BytesOf(QueuedIn(phase)) - BytesOf({r})
        /\ BytesOf(QueuedIn(phase)) \in Nat
    BY <2>2, BytesLeave
  <2>4. BytesOf({r}) = SizeOf[r] /\ SizeOf[r] \in Nat
    BY BytesOfOne
  <2>5. heldBytes = BytesOf(QueuedIn(phase)) /\ heldBytes <= MaxHeldBytes /\ MaxHeldBytes \in Nat
    BY ConfigAssumption DEF Accounts
  <2>6. heldBytes' = BytesOf(QueuedIn(phase) \ {r}) /\ heldBytes' <= MaxHeldBytes
    BY <2>1, <2>3, <2>4, <2>5
  <2> QED
    BY <2>2, <2>6 DEF Accounts
<1>12. ASSUME NEW o \in Operators, ProbeSucceeds(o) PROVE Accounts(heldBytes', phase')
  BY <1>1, <1>12, ReleaseQueuedBytes DEF ProbeSucceeds
<1>13. ASSUME NEW o \in Operators,
              \/ ReadSnapshot(o) \/ Enter(o) \/ EnterReturns(o) \/ EnterGivesUp(o)
              \/ ReadTargets(o) \/ ResumeProbes(o) \/ ResumeRefused(o)
              \/ ProbeFails(o) \/ ProbeTooLate(o)
       PROVE  Accounts(heldBytes', phase')
  BY <1>2, <1>13 DEF ReadSnapshot, Enter, EnterReturns, EnterGivesUp, ReadTargets, ResumeProbes, ResumeRefused,
                     ProbeFails, ProbeTooLate, gateVars
<1>14. CASE UNCHANGED vars
  BY <1>2, <1>14 DEF vars, gateVars
<1> QED
  BY <1>4, <1>5, <1>6, <1>7, <1>8, <1>9, <1>10, <1>11, <1>12, <1>13, <1>14 DEF Next

\* The byte account is the size of what is queued and never exceeds its limit, through
\* every grant, timeout, cancellation and shutdown.
THEOREM GateHeldBytes == Spec => []HeldBytesExact
<1>1. Init => Accounts(heldBytes, phase)
  <2>1. SUFFICES ASSUME Init PROVE Accounts(heldBytes, phase)
    OBVIOUS
  <2>2. QueuedIn(phase) = {} /\ heldBytes = 0
    BY <2>1 DEF Init, QueuedIn
  <2>3. BytesOf({}) = 0
    BY FS_EmptySet DEF BytesOf
  <2> QED
    BY <2>2, <2>3, ConfigAssumption DEF Accounts
<1>2. IndInv /\ Accounts(heldBytes, phase) /\ [Next]_vars => Accounts(heldBytes, phase)'
  BY BytesNext
<1>3. IndInv /\ Accounts(heldBytes, phase) => HeldBytesExact
  BY DEF IndInv, QueueAccounting, Lists, Waiting, Accounts, HeldBytesExact
<1> QED
  BY <1>1, <1>2, <1>3, GateInvariant, PTL DEF Spec
-----------------------------------------------------------------------------
(* The order of a release                                                  *)

\* releaseQueuedLocked grants a prefix: whoever is granted stood before whoever waits.
LEMMA ReleaseIsFifo ==
    ASSUME NEW q \in Seq(Requests), NEW ph \in [Requests -> Phases], NEW n, NEW bytes, NEW P, NEW acts,
           queue \in Seq(Requests), Len(queue) <= Len(q), \A i \in 1..Len(queue) : q[i] = queue[i],
           FlyingIn(ph) \subseteq FlyingIn(phase), ReleaseQueued(q, n, bytes, P, acts, ph),
           NEW r \in Requests, r \in FlyingIn(phase') \ FlyingIn(phase),
           NEW i \in 1..Len(queue), phase'[queue[i]] = "queued"
    PROVE  \E j \in 1..(i - 1) : queue[j] = r
<1>1. PICK k \in 0..Len(q) : phase' = Grant(ph, Heads(q, k))
  BY DEF ReleaseQueued
<1>2. Len(q) \in Nat /\ Len(queue) \in Nat /\ i \in 1..Len(q) /\ q[i] = queue[i] /\ queue[i] \in Requests
  OBVIOUS
<1>3. r \in Heads(q, k)
  BY <1>1 DEF FlyingIn, Grant
<1>4. PICK j \in 1..k : q[j] = r
  BY <1>3 DEF Heads
<1>5. queue[i] \notin Heads(q, k)
  BY <1>1, <1>2 DEF Grant
<1>6. i > k
  BY <1>2, <1>5 DEF Heads
<1>7. j \in 1..(i - 1) /\ j \in 1..Len(queue)
  BY <1>2, <1>4, <1>6
<1> QED
  BY <1>4, <1>7

LEMMA FifoStep ==
    ASSUME IndInv, [Next]_vars, state \in {"probing", "releasing"},
           NEW r \in Requests, r \in InFlight' \ InFlight,
           NEW i \in 1..Len(queue), phase'[queue[i]] = "queued"
    PROVE  \E j \in 1..(i - 1) : queue[j] = r
<1> DEFINE Goal == \E j \in 1..(i - 1) : queue[j] = r
<1>1. /\ phase \in [Requests -> Phases] /\ queue \in Seq(Requests)
      /\ r \in FlyingIn(phase') \ FlyingIn(phase)
  BY DEF IndInv, TypeOK, InFlight
<1>2. ASSUME NEW ph \in [Requests -> Phases], NEW n, NEW bytes, NEW P, NEW acts, FlyingIn(ph) \subseteq FlyingIn(phase),
             ReleaseQueued(queue, n, bytes, P, acts, ph)
      PROVE  Goal
  BY <1>1, <1>2, ReleaseIsFifo
<1>3. ASSUME NEW ph \in [Requests -> Phases], NEW n, NEW e, NEW acts, FlyingIn(ph) \subseteq FlyingIn(phase),
             AfterRelease(n, e, acts, ph)
      PROVE  Goal
  <2>1. CASE state = "releasing"
    BY <1>2, <1>3, <2>1 DEF AfterRelease
  <2>2. CASE state # "releasing"
    BY <1>1, <1>3, <2>2 DEF AfterRelease
  <2> QED
    BY <2>1, <2>2
<1>4. ASSUME FlyingIn(phase') \subseteq FlyingIn(phase) PROVE Goal
  BY <1>1, <1>4
<1>5. CASE BeginShutdown
  BY <1>1, <1>4, <1>5 DEF BeginShutdown, FlyingIn
<1>6. CASE Start \/ DrainReturns \/ Stopped \/ \E a \in Actions : BeginAction(a)
  BY <1>4, <1>6 DEF Start, DrainReturns, Stopped, BeginAction, vars, gateVars
<1>7. ASSUME NEW a \in Actions, ReleaseAction(a) PROVE Goal
  BY <1>1, <1>3, <1>7 DEF ReleaseAction
<1>8. ASSUME NEW a \in Actions, NEW x \in Requests, AcquireNow(a, x) PROVE Goal
  BY <1>8 DEF AcquireNow, Immediate
<1>9. ASSUME NEW a \in Actions, NEW x \in Requests, AcquireQueued(a, x) PROVE Goal
  <2> DEFINE ph == [phase EXCEPT ![x] = "queued"]
             q  == Append(queue, x)
             b  == heldBytes + SizeOf[x]
  <2>1. Enqueue(q, b, ph)
    BY <1>9 DEF AcquireQueued
  <2>2. ph \in [Requests -> Phases] /\ FlyingIn(ph) \subseteq FlyingIn(phase)
    BY <1>1 DEF FlyingIn, Phases
  <2>3. q \in Seq(Requests) /\ Len(queue) <= Len(q) /\ \A m \in 1..Len(queue) : q[m] = queue[m]
    BY <1>1, AppendProperties
  <2> HIDE DEF b, ph, q
  <2>4. CASE state = "releasing"
    BY <1>1, <2>1, <2>2, <2>3, <2>4, ReleaseIsFifo DEF Enqueue
  <2>5. CASE state # "releasing"
    BY <1>4, <2>1, <2>2, <2>5 DEF Enqueue
  <2> QED
    BY <2>4, <2>5
<1>10. ASSUME NEW x \in Requests, CollectLease(x) \/ CollectCanceled(x) \/ CancelWaiter(x) PROVE Goal
  BY <1>1, <1>4, <1>10 DEF CollectLease, CollectCanceled, CancelWaiter, FlyingIn
<1>11. ASSUME NEW x \in Requests, Release(x) \/ AbandonGrant(x) PROVE Goal
  <2> DEFINE ph == [phase EXCEPT ![x] = "none"]
             n  == IF active > 0 THEN active - 1 ELSE active
  <2>1. AfterRelease(n, entering, actions, ph)
    BY <1>11 DEF Release, AbandonGrant, ReleaseLease
  <2>2. ph \in [Requests -> Phases] /\ FlyingIn(ph) \subseteq FlyingIn(phase)
    BY <1>1 DEF FlyingIn, Phases
  <2> HIDE DEF ph, n
  <2> QED
    BY <1>3, <2>1, <2>2
<1>12. ASSUME NEW o \in Operators, ProbeSucceeds(o) PROVE Goal
  BY <1>1, <1>2, <1>12 DEF ProbeSucceeds
<1>13. ASSUME NEW o \in Operators,
              \/ ReadSnapshot(o) \/ Enter(o) \/ EnterReturns(o) \/ EnterGivesUp(o)
              \/ ReadTargets(o) \/ ResumeProbes(o) \/ ResumeRefused(o)
              \/ ProbeFails(o) \/ ProbeTooLate(o)
       PROVE  Goal
  BY <1>4, <1>13 DEF ReadSnapshot, Enter, EnterReturns, EnterGivesUp, ReadTargets, ResumeProbes, ResumeRefused,
                     ProbeFails, ProbeTooLate, gateVars
<1>14. CASE UNCHANGED vars
  BY <1>4, <1>14 DEF vars, gateVars
<1> QED
  BY <1>5, <1>6, <1>7, <1>8, <1>9, <1>10, <1>11, <1>12, <1>13, <1>14 DEF Next

\* Releases are first come, first served: nobody gets a lease while a release is under way
\* and somebody who has waited longer is left waiting.
THEOREM GateFifoRelease == Spec => FifoRelease
<1>1. IndInv /\ [Next]_vars =>
        [\A r \in Requests :
            (state \in {"probing", "releasing"} /\ r \in InFlight' \ InFlight) =>
                (\A i \in 1..Len(queue) :
                    phase'[queue[i]] = "queued" => (\E j \in 1..(i - 1) : queue[j] = r))]_vars
  BY FifoStep
<1> QED
  BY <1>1, GateInvariant, PTL DEF Spec, FifoRelease

\* Resume probes what is queued, and its release serves the queue first come, first
\* served.
THEOREM GateResumesInOrder == Spec => ResumesInOrder
  BY GateFifoRelease, GateProbesQueued, PTL DEF ResumesInOrder
-----------------------------------------------------------------------------
\* Every step of the gate is a step of the abstract window, or none.
LEMMA WindowStep ==
    ASSUME IndInv, IndInv', [Next]_vars
    PROVE  [Window!Next]_(Window!vars)
<1> DEFINE Same == InFlight' = InFlight /\ beforeEnter' = beforeEnter /\ WindowState' = WindowState
<1>1. Same => UNCHANGED Window!vars
  BY DEF Window!vars
<1> USE DEF WindowState
<1>2. CASE Start
  <2>1. InFlight = {} /\ InFlight' = {} /\ beforeEnter' = beforeEnter /\ beforeEnter = {}
    BY <1>2, FlyingFinite
       DEF Start, IndInv, HoldDiscipline, TypeOK, CountersExact, InFlight
  <2> QED
    BY <1>2, <2>1 DEF Start, Window!Next, Window!Open
<1>3. CASE BeginShutdown
  <2>1. FlyingIn(phase') = FlyingIn(phase)
    BY <1>3 DEF BeginShutdown, FlyingIn, IndInv, TypeOK
  <2> QED
    BY <1>3, <2>1 DEF BeginShutdown, InFlight, Window!Next, Window!Stop
<1>4. CASE DrainReturns \/ Stopped \/ UNCHANGED vars
  BY <1>1, <1>4 DEF DrainReturns, Stopped, vars, gateVars, InFlight
<1>5. ASSUME NEW a \in Actions, BeginAction(a) PROVE [Window!Next]_(Window!vars)
  BY <1>1, <1>5 DEF BeginAction, InFlight, Window!Next, Window!Join
<1>6. ASSUME NEW a \in Actions, NEW r \in Requests, AcquireNow(a, r)
      PROVE  [Window!Next]_(Window!vars)
  <2>1. /\ phase \in [Requests -> Phases] /\ r \notin InFlight
        /\ InFlight' = InFlight \union {r}
    BY <1>6 DEF AcquireNow, Admissible, InFlight, FlyingIn, IndInv, TypeOK
  <2> QED
    BY <1>6, <2>1 DEF AcquireNow, Immediate, Window!Next, Window!Fly
<1>7. ASSUME NEW r \in Requests, CollectLease(r) \/ CollectCanceled(r) \/ CancelWaiter(r)
      PROVE  [Window!Next]_(Window!vars)
  <2>1. InFlight' = InFlight
    BY <1>7 DEF CollectLease, CollectCanceled, CancelWaiter, InFlight, FlyingIn, IndInv, TypeOK
  <2> QED
    BY <1>1, <1>7, <2>1 DEF CollectLease, CollectCanceled, CancelWaiter
\* The steps out of a release, and into one, are the trickle of the window.
<1>8. ASSUME state \in {"held", "probing", "releasing"},
             state' \in {"held", "online", "releasing"},
             beforeEnter' = beforeEnter,
             state' = "held" => active' = 0, state' = "online" => active' = 0
      PROVE  [Window!Next]_(Window!vars)
  <2>1. active' = 0 => InFlight' = {}
    BY FlyingFinite DEF IndInv, CountersExact, InFlight
  <2>2. CASE state' = "releasing"
    <3>1. Cardinality(InFlight') <= ReleaseConcurrency
      BY <2>2 DEF IndInv, CountersExact, ReleasedWereProbed
    <3>2. InFlight' \in SUBSET Requests
      BY DEF InFlight, FlyingIn
    <3>3. Window!WithinLimit(InFlight')
      <4> DEFINE S == InFlight'
                 n == Cardinality(S)
      <4>1. IsFiniteSet(S) /\ n <= ReleaseConcurrency
        BY <3>1, FlyingFinite DEF InFlight
      <4> HIDE DEF S
      <4>2. n \in Nat /\ \E f \in Bijection(1..n, S) : TRUE
        BY <4>1, FS_CardinalityType DEF ExistsBijection
      <4> HIDE DEF n
      <4>3. PICK f \in [1..n -> S] : \A r \in S : \E i \in 1..n : f[i] = r
        BY <4>2 DEF Bijection, Surjection
      <4> DEFINE slot == [r \in S |-> CHOOSE i \in 1..n : f[i] = r]
      <4>4. \A r \in S : slot[r] \in 1..n /\ f[slot[r]] = r
        BY <4>3
      <4>5. slot \in [S -> 1..ReleaseConcurrency]
        BY <4>1, <4>2, <4>4, ConfigAssumption
      <4>6. \A r, s \in S : slot[r] = slot[s] => r = s
        BY <4>4
      <4> HIDE DEF slot
      <4>7. Window!WithinLimit(S)
        BY <4>5, <4>6 DEF Window!WithinLimit
      <4> QED
        BY <4>7 DEF S
    <3> QED
      BY <1>8, <2>2, <3>2, <3>3 DEF Window!Next, Window!Trickle
  <2>3. CASE state' = "online"
    BY <1>8, <2>1, <2>3 DEF Window!Next, Window!Open
  <2>4. CASE state' = "held" /\ state = "releasing"
    <3>1. beforeEnter' = {}
      BY <2>4 DEF IndInv, HoldDiscipline
    <3> QED
      BY <1>8, <2>1, <2>4, <3>1 DEF Window!Next, Window!ShutAgain, Window!Shuts
  <2>5. CASE state' = "held" /\ state # "releasing"
    <3>1. InFlight = {}
      BY <1>8, <2>5, FlyingFinite DEF IndInv, HoldDiscipline, CountersExact, InFlight
    <3> QED
      BY <1>1, <1>8, <2>1, <2>5, <3>1
  <2> QED
    BY <1>8, <2>2, <2>3, <2>4, <2>5
<1>9. \A q, b, P, ac, ph : \A n \in Nat :
          ReleaseQueued(q, n, b, P, ac, ph) =>
              /\ state' \in {"held", "online", "releasing"}
              /\ state' = "held" => active' = 0
              /\ state' = "online" => active' = 0
  BY DEF ReleaseQueued, MayReopen
<1>10. active \in Nat /\ entering \in Nat
  BY DEF IndInv, TypeOK
<1>11. ASSUME NEW a \in Actions, NEW r \in Requests, AcquireQueued(a, r)
       PROVE  [Window!Next]_(Window!vars)
  <2>1. CASE state = "releasing"
    <3>1. ReleaseQueued(Append(queue, r), active, heldBytes + SizeOf[r], probed, actions,
                        [phase EXCEPT ![r] = "queued"])
      BY <1>11, <2>1 DEF AcquireQueued, Enqueue
    <3>2. beforeEnter' = beforeEnter
      BY <1>11 DEF AcquireQueued
    <3> QED
      BY <1>8, <1>9, <1>10, <2>1, <3>1, <3>2
  <2>2. CASE state # "releasing"
    <3>1. /\ phase' = [phase EXCEPT ![r] = "queued"] /\ state' = state
          /\ beforeEnter' = beforeEnter /\ phase[r] = "none"
      BY <1>11, <2>2 DEF AcquireQueued, Enqueue, Admissible
    <3>2. InFlight' = InFlight
      BY <3>1 DEF InFlight, FlyingIn, IndInv, TypeOK
    <3> QED
      BY <1>1, <3>1, <3>2
  <2> QED
    BY <2>1, <2>2
<1>12. ASSUME NEW o \in Operators, ProbeSucceeds(o) PROVE [Window!Next]_(Window!vars)
  <2>1. /\ state = "probing" /\ beforeEnter' = beforeEnter
        /\ ReleaseQueued(queue, active, heldBytes, wanted[o], actions, phase)
    BY <1>12 DEF ProbeSucceeds
  <2> QED
    BY <1>8, <1>9, <1>10, <2>1
<1>13. ASSUME NEW o \in Operators, ProbeFails(o) \/ ResumeProbes(o)
       PROVE  [Window!Next]_(Window!vars)
  BY <1>1, <1>13 DEF ProbeFails, ResumeProbes, ResumeAllowed, InFlight
<1>14. ASSUME NEW o \in Operators, Enter(o) PROVE [Window!Next]_(Window!vars)
  <2>1. state' = "held" => InFlight = {} /\ beforeEnter = {}
    <3>1. state' = "held" => active' = 0 /\ beforeEnter' = {}
      BY DEF IndInv, HoldDiscipline
    <3> QED
      BY <1>14, <3>1, FlyingFinite DEF Enter, IndInv, CountersExact, InFlight
  <2> QED
    BY <1>14, <2>1 DEF Enter, InFlight, Window!Next, Window!Close, Window!Shuts
<1>15. ASSUME NEW o \in Operators,
              \/ ReadSnapshot(o) \/ EnterReturns(o) \/ EnterGivesUp(o)
              \/ ReadTargets(o) \/ ResumeRefused(o) \/ ProbeTooLate(o)
       PROVE  [Window!Next]_(Window!vars)
  BY <1>1, <1>15 DEF ReadSnapshot, EnterReturns, EnterGivesUp, ReadTargets, ResumeRefused,
                     ProbeTooLate, gateVars, InFlight
\* Giving back a lease or an action outside a release.
<1>16. ASSUME NEW n, NEW e, NEW acts, NEW ph, AfterRelease(n, e, acts, ph), state # "releasing"
       PROVE  /\ phase' = ph
              /\ state' = state \/ (state = "entering" /\ state' = "held")
  BY <1>16 DEF AfterRelease
<1>17. state = "entering" /\ state' = "held" => InFlight' = {} /\ beforeEnter' = {}
  <2>1. state' = "held" => active' = 0 /\ beforeEnter' = {}
    BY DEF IndInv, HoldDiscipline
  <2> QED
    BY <2>1, FlyingFinite DEF IndInv, CountersExact, InFlight
<1>18. ASSUME NEW r \in Requests, Release(r) \/ AbandonGrant(r)
       PROVE  [Window!Next]_(Window!vars)
  <2> DEFINE n  == IF active > 0 THEN active - 1 ELSE active
             ph == [phase EXCEPT ![r] = "none"]
  <2>1. /\ AfterRelease(n, entering, actions, ph) /\ beforeEnter' = beforeEnter
        /\ r \in InFlight /\ n \in Nat
    BY <1>10, <1>18 DEF Release, AbandonGrant, ReleaseLease, InFlight, FlyingIn
  <2>2. CASE state = "releasing"
    <3>1. ReleaseQueued(queue, n, heldBytes, probed, actions, ph)
      BY <2>1, <2>2 DEF AfterRelease
    <3> HIDE DEF n, ph
    <3> QED
      BY <1>8, <1>9, <2>1, <2>2, <3>1
  <2>3. CASE state # "releasing"
    <3>1. /\ phase' = ph /\ (state' = state \/ (state = "entering" /\ state' = "held"))
      BY <1>16, <2>1, <2>3
    <3>2. InFlight' = InFlight \ {r}
      BY <3>1 DEF InFlight, FlyingIn, IndInv, TypeOK
    <3> HIDE DEF n, ph
    <3> QED
      BY <1>17, <2>1, <3>1, <3>2 DEF Window!Next, Window!Land, Window!Shuts
  <2> QED
    BY <2>2, <2>3
<1>19. ASSUME NEW a \in Actions, ReleaseAction(a) PROVE [Window!Next]_(Window!vars)
  <2>1. /\ AfterRelease(active, entering', actions', phase)
        /\ beforeEnter' = beforeEnter \ {a}
    BY <1>19 DEF ReleaseAction
  <2>2. CASE state = "releasing"
    <3>1. ReleaseQueued(queue, active, heldBytes, probed, actions', phase)
      BY <2>1, <2>2 DEF AfterRelease
    <3>2. beforeEnter' = beforeEnter
      BY <2>1, <2>2 DEF IndInv, HoldDiscipline
    <3> QED
      BY <1>8, <1>9, <1>10, <2>2, <3>1, <3>2
  <2>3. CASE state # "releasing"
    <3>1. phase' = phase /\ (state' = state \/ (state = "entering" /\ state' = "held"))
      BY <2>1, <2>3 DEF AfterRelease
    <3>2. InFlight' = InFlight
      BY <3>1 DEF InFlight
    <3>3. CASE a \in beforeEnter
      BY <1>17, <2>1, <3>1, <3>2, <3>3 DEF Window!Next, Window!Leave, Window!Shuts
    <3>4. CASE a \notin beforeEnter
      <4>1. beforeEnter' = beforeEnter
        BY <2>1, <3>4
      <4>2. state' = state
        <5>1. CASE state = "entering"
          <6>1. entering' = entering /\ active' = active
            BY <1>19, <2>1, <2>3, <3>4 DEF ReleaseAction, EnteringWithout, AfterRelease
          <6> QED
            BY <2>1, <3>1, <5>1, <6>1 DEF AfterRelease, IndInv, HoldDiscipline
        <5> QED
          BY <3>1, <5>1
      <4> QED
        BY <1>1, <3>2, <4>1, <4>2
    <3> QED
      BY <3>3, <3>4
  <2> QED
    BY <2>2, <2>3
<1> HIDE DEF WindowState
<1> QED
  BY <1>2, <1>3, <1>4, <1>5, <1>6, <1>7, <1>11, <1>12, <1>13, <1>14, <1>15, <1>18, <1>19
     DEF Next

\* The gate is an implementation of the window of EgressWindow: the planned-offline
\* protocol of the code shuts the window only in a step that leaves nothing in
\* flight, and while it is shut nothing takes off.
THEOREM GateImplementsWindow == Spec => ImplementsWindow
<1>1. Init => Window!Init
  BY DEF Init, Window!Init, WindowState, InFlight, FlyingIn
<1>2. IndInv /\ IndInv' /\ [Next]_vars => [Window!Next]_(Window!vars)
  BY WindowStep
<1> QED
  BY <1>1, <1>2, GateInvariant, PTL DEF Spec, ImplementsWindow, Window!Spec
=============================================================================
