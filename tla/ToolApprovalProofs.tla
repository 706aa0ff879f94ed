------------------------- MODULE ToolApprovalProofs -------------------------
(***************************************************************************)
(* Proofs about ToolApproval for any asks, questions, commands and number  *)
(* of restarts. A row is written by the one ask that created its entry and *)
(* is settled once; who settles it holds a slot, owes its waiters the      *)
(* news, or is the last of them: the invariant follows who owes what.      *)
(* ClearNotBlocked is about ENABLED and stays with TLC; what it rests on   *)
(* is JoinersServed.                                                       *)
(***************************************************************************)
EXTENDS ToolApproval, TLAPS

CommandRecords ==
    [phase : {"idle", "admitted", "decided", "unheard", "done"},
     rec : Asks \union {None}, decision : {"allowed", "denied"}, got : {"none"} \union Terminal]

Early   == {"idle", "begun", "admitted"}
Inside  == {"creating", "created", "failed", "joining", "waiting"}
Leaving == {"leaving", "leavingEarly"}
Holding == {"admitted", "creating", "created", "failed", "joining", "leavingEarly"}

\* An entry is named by the ask that created it; who is in its list waits on it.
Registry ==
    \A w \in Asks :
        /\ phase[w] \in Early => entryOf[w] = None
        /\ entryOf[w] = None =>
               /\ phase[w] \in Early \union {"rejected", "lost"}
               /\ result[w] = "none" /\ row[w] = "none" /\ ready[w] = "no"
        /\ entryOf[w] # None => entryOf[entryOf[w]] = entryOf[w]
        /\ \A e \in Asks : w \in waiters[e] => entryOf[w] = e /\ phase[w] \in Inside

\* What has become of the row of the ask, and of the row it waits on.
Progressing ==
    \A w \in Asks :
        /\ phase[w] \in {"creating", "failed"} =>
               entryOf[w] = w /\ w \in waiters[w] /\ row[w] = "none" /\ ready[w] = "no"
        /\ phase[w] = "created" => entryOf[w] = w /\ row[w] # "none" /\ ready[w] = "no"
        /\ ready[w] = "created" => row[w] # "none"
        /\ ready[w] = "failed" => row[w] = "none"
        /\ phase[w] \in {"waiting", "leaving"} => row[entryOf[w]] # "none"

\* A person's answer, its command and its row.
Decided ==
    \A e \in Asks :
        /\ decidedBy[e] # None =>
               /\ command[decidedBy[e]].phase # "idle" /\ command[decidedBy[e]].rec = e
               /\ row[e] \in {command[decidedBy[e]].decision, "deleted"}
        /\ row[e] \in {"allowed", "denied"} => decidedBy[e] # None

Deciding ==
    \A c \in Commands :
        /\ command[c].phase # "idle" => command[c].rec \in Asks /\ row[command[c].rec] # "none"
        /\ command[c].phase = "decided" =>
               /\ command[c].got \in Terminal /\ row[command[c].rec] = command[c].got
               /\ command[c].rec \notin ToolIntents => decidedBy[command[c].rec] = c

AllowedBy(e) == decidedBy[e] # None /\ command[decidedBy[e]].decision = "allowed"

Told ==
    \A w \in Asks :
        /\ result[w] # "none" => row[entryOf[w]] \in {result[w], "deleted"}
        /\ phase[w] = "allowed" \/ result[w] = "allowed" => entryOf[w] \in Asks /\ AllowedBy(entryOf[w])

Refusals ==
    \A w \in refused :
        /\ phase[w] \in {"waiting", "leaving", "rejected", "lost"} /\ result[w] # "allowed"
        /\ entryOf[w] \in Asks /\ row[entryOf[w]] = "deleted"

\* The publication gate.
Gate ==
    /\ clear \in {"held", "committed"} =>
           /\ \A w \in Asks : phase[w] \notin Holding
           /\ \A c \in Commands : command[c].phase \notin {"admitted", "decided"}
    /\ clear = "committed" => \A e \in Asks : row[e] \in {"none", "deleted"}
    /\ \A e \in Asks : row[e] = "deleted" /\ waiters[e] # {} => clear = "committed"

\* What the cancelers owe.
Owing ==
    /\ \A x \in Cancelers : \A e \in owed[x] : row[e] \in {"canceled", "deleted"}
    /\ capture # "canceling" => owed["capture"] = {}
    /\ shutdown \in {"idle", "closing"} => owed["shutdown"] = {}
    /\ ~closing => shutdown = "idle"
    /\ stale \subseteq ToolIntents
    /\ capture \in {"canceling", "canceled"} => \A e \in Owned : row[e] # "pending"

IndInv ==
    /\ TypeOK /\ Registry /\ Progressing /\ Decided /\ Deciding /\ Told /\ Refusals /\ Gate /\ Owing
    /\ PendingHasAudience /\ NobodyStranded /\ CountsReadable

-----------------------------------------------------------------------------
(* Parts of the state                                                      *)

LEMMA TypeParts ==
    ASSUME TypeOK
    PROVE  /\ phase \in [Asks -> AskPhases] /\ entryOf \in [Asks -> Asks \union {None}]
           /\ waiters \in [Asks -> SUBSET Asks] /\ ready \in [Asks -> {"no", "created", "failed"}]
           /\ result \in [Asks -> {"none"} \union Terminal] /\ row \in [Asks -> RowStates]
           /\ lapsed \subseteq Asks /\ stale \subseteq Asks
           /\ requestCount \in [Asks -> Int] /\ waiterCount \in [Asks -> Int]
           /\ command \in [Commands -> CommandRecords]
           /\ decidedBy \in [Asks -> Commands \union {None}]
           /\ clear \in {"idle", "waiting", "held", "committed", "done"}
           /\ capture \in {"active", "revoked", "canceling", "canceled"}
           /\ closing \in BOOLEAN
           /\ shutdown \in {"idle", "closing", "canceling", "returned", "gaveUp"}
           /\ owed \in [Cancelers -> SUBSET Asks]
           /\ orphaned \subseteq Asks /\ refused \subseteq Asks /\ restarts \in 0..MaxRestarts
  BY Zenon DEF TypeOK, CommandRecords

LEMMA TypesTogether ==
    ASSUME phase' \in [Asks -> AskPhases], entryOf' \in [Asks -> Asks \union {None}],
           waiters' \in [Asks -> SUBSET Asks], ready' \in [Asks -> {"no", "created", "failed"}],
           result' \in [Asks -> {"none"} \union Terminal], row' \in [Asks -> RowStates],
           lapsed' \subseteq Asks, stale' \subseteq Asks,
           requestCount' \in [Asks -> Int], waiterCount' \in [Asks -> Int],
           command' \in [Commands -> CommandRecords], decidedBy' \in [Asks -> Commands \union {None}],
           clear' \in {"idle", "waiting", "held", "committed", "done"},
           capture' \in {"active", "revoked", "canceling", "canceled"}, closing' \in BOOLEAN,
           shutdown' \in {"idle", "closing", "canceling", "returned", "gaveUp"},
           owed' \in [Cancelers -> SUBSET Asks], orphaned' \subseteq Asks, refused' \subseteq Asks,
           restarts' \in 0..MaxRestarts
    PROVE  TypeOK'
  BY Zenon DEF TypeOK, CommandRecords

LEMMA Constants ==
    /\ Owned \subseteq ToolIntents /\ ToolIntents \subseteq Asks /\ None \notin Asks /\ None \notin Commands
    /\ MaxRestarts \in Nat
  BY ApprovalAssumption

LEMMA PhaseMoves ==
    ASSUME TypeOK, NEW w \in Asks, NEW to \in AskPhases, phase' = [phase EXCEPT ![w] = to]
    PROVE  /\ phase' \in [Asks -> AskPhases] /\ phase'[w] = to
           /\ \A t \in Asks \ {w} : phase'[t] = phase[t]
  BY TypeParts

\* An ask that is past its registration has an entry, and the entry its creator.
LEMMA HasEntry ==
    ASSUME TypeOK, Registry, NEW w \in Asks, phase[w] \notin Early \union {"rejected", "lost"}
    PROVE  entryOf[w] \in Asks /\ entryOf[entryOf[w]] = entryOf[w]
  BY TypeParts, Constants DEF Registry

\* An entry nobody has registered yet has no list.
LEMMA NoEntry ==
    ASSUME TypeOK, Registry, NEW w \in Asks, entryOf[w] = None
    PROVE  /\ waiters[w] = {} /\ \A t \in Asks : entryOf[t] # w
           /\ \A e \in Asks : w \notin waiters[e]
<1>1. \A t \in Asks : entryOf[t] # w
  BY Constants DEF Registry
<1> QED
  BY <1>1, TypeParts, Constants DEF Registry

LEMMA SomeWaiter ==
    ASSUME TypeOK, Registry, NEW e \in Asks, waiters[e] # {}
    PROVE  entryOf[e] = e
<1>1. PICK t \in Asks : t \in waiters[e]
  BY TypeParts
<1>2. entryOf[t] = e
  BY <1>1 DEF Registry
<1> QED
  BY <1>2, Constants DEF Registry

\* Rows are left alone, or canceled while they are pending.
Settling == \A e \in Asks : row'[e] = row[e] \/ (row[e] = "pending" /\ row'[e] = "canceled")

LEMMA DecidedStays ==
    ASSUME TypeOK, Decided, Settling, UNCHANGED <<command, decidedBy>>
    PROVE  Decided'
<1>1. ASSUME NEW e \in Asks PROVE decidedBy[e] # None => decidedBy[e] \in Commands
  BY TypeParts
<1>2. \A c \in Commands : command[c].decision # "pending"
  BY TypeParts DEF CommandRecords
<1> QED
  BY <1>1, <1>2 DEF Decided, Settling

LEMMA DecidingStays ==
    ASSUME TypeOK, Deciding, Settling, UNCHANGED <<command, decidedBy>>
    PROVE  Deciding'
  BY DEF Deciding, Settling, Terminal

LEMMA ToldStays ==
    ASSUME TypeOK, Registry, Told, Settling, UNCHANGED <<result, entryOf, command, decidedBy>>,
           \A w \in Asks : phase'[w] = "allowed" =>
               phase[w] = "allowed" \/ (result[w] = "allowed" /\ entryOf[w] \in Asks)
    PROVE  Told'
<1>1. \A w \in Asks : result[w] # "none" => entryOf[w] \in Asks
  BY TypeParts DEF Registry
<1>2. \A w \in Asks : result[w] # "pending"
  BY TypeParts DEF Terminal
<1> QED
  BY <1>1, <1>2 DEF Told, Settling, AllowedBy

LEMMA RefusalsStay ==
    ASSUME TypeOK, Refusals, Settling, UNCHANGED <<refused, entryOf>>,
           \A w \in refused : result'[w] # "allowed" /\ phase'[w] \in {"waiting", "leaving", "rejected", "lost"}
    PROVE  Refusals'
  BY DEF Refusals, Settling

LEMMA RegistryStays ==
    ASSUME Registry, Settling, UNCHANGED <<phase, entryOf, result, ready, waiters>>
    PROVE  Registry'
  BY DEF Registry, Settling

LEMMA ProgressingStays ==
    ASSUME TypeOK, Registry, Progressing, Settling, UNCHANGED <<phase, entryOf, ready, waiters>>
    PROVE  Progressing'
<1>1. \A w \in Asks : phase[w] \in {"waiting", "leaving"} => entryOf[w] \in Asks
  BY HasEntry DEF Early
<1> QED
  BY <1>1 DEF Progressing, Settling

LEMMA StrandedStill ==
    ASSUME NobodyStranded, UNCHANGED <<row, command, decidedBy, owed>>,
           \A e \in Asks : waiters'[e] # {} =>
               waiters[e] # {} \/ row[e] \notin Terminal \union {"deleted"},
           clear = "committed" => clear' = "committed"
    PROVE  NobodyStranded'
  BY DEF NobodyStranded

LEMMA OwingStill ==
    ASSUME Owing, UNCHANGED <<row, owed, capture, shutdown, closing, stale>>
    PROVE  Owing'
  BY DEF Owing

LEMMA CountsStill ==
    ASSUME CountsReadable, UNCHANGED <<requestCount, waiterCount>>
    PROVE  CountsReadable'
  BY DEF CountsReadable

-----------------------------------------------------------------------------
(* On the way in                                                           *)

LEMMA ArrivalKeeps ==
    ASSUME IndInv, NEW w \in Asks, Begin(w) \/ AcquirePublication(w) \/ GiveUp(w)
    PROVE  IndInv'
<1>1. UNCHANGED <<entryOf, waiters, ready, result, row, lapsed, requestCount, waiterCount, decidedBy, command,
                  clear, stale, capture, closing, shutdown, owed, orphaned, refused, restarts>>
  BY DEF Begin, AcquirePublication, GiveUp, registryVars, rowVars, endVars, historyVars
<1>2. PICK to \in {"begun", "admitted", "rejected"} :
          /\ phase' = [phase EXCEPT ![w] = to] /\ phase[w] \in {"idle", "begun"}
          /\ to = "admitted" => SlotFree
  BY DEF Begin, AcquirePublication, GiveUp, Step
<1>3. /\ TypeOK /\ Registry /\ Progressing /\ Decided /\ Deciding /\ Told /\ Refusals /\ Gate /\ Owing
      /\ PendingHasAudience /\ NobodyStranded /\ CountsReadable
  BY DEF IndInv
<1>4. /\ phase' \in [Asks -> AskPhases] /\ phase'[w] = to /\ \A t \in Asks \ {w} : phase'[t] = phase[t]
  BY <1>2, <1>3, PhaseMoves DEF AskPhases, Outcomes
<1>5. TypeOK'
  BY <1>1, <1>3, <1>4, TypeParts, TypesTogether
<1>6. Settling
  BY <1>1 DEF Settling
<1>7. Registry' /\ Progressing'
  BY <1>1, <1>2, <1>3, <1>4 DEF Registry, Progressing, Early, Inside
<1>8. Decided' /\ Deciding'
  BY <1>1, <1>3, <1>6, DecidedStays, DecidingStays
<1>9. Told'
  BY <1>1, <1>2, <1>3, <1>4, <1>6, ToldStays
<1>10. Refusals'
  <2>1. \A t \in refused : t \in Asks /\ t # w
    BY <1>2, <1>3, TypeParts DEF Refusals
  <2> QED
    BY <1>1, <1>3, <1>4, <1>6, <2>1, RefusalsStay DEF Refusals
<1>11. Gate'
  BY <1>1, <1>2, <1>3, <1>4 DEF Gate, Holding, SlotFree
<1>12. Owing' /\ CountsReadable' /\ NobodyStranded'
  BY <1>1, <1>3, OwingStill, CountsStill, StrandedStill
<1>13. PendingHasAudience'
  BY <1>1, <1>2, <1>3, <1>4 DEF PendingHasAudience
<1> QED
  BY <1>5, <1>7, <1>8, <1>9, <1>10, <1>11, <1>12, <1>13 DEF IndInv


\* The gate and the debts, when rows are at most canceled.
LEMMA GateStays ==
    ASSUME Gate, Settling, UNCHANGED <<clear, command>>,
           \A t \in Asks : phase'[t] \in Holding => phase[t] \in Holding,
           \A e \in Asks : waiters'[e] # {} => waiters[e] # {} \/ row[e] # "deleted"
    PROVE  Gate'
  BY DEF Gate, Settling

LEMMA OwingSettles ==
    ASSUME Owing, Settling, TypeOK, UNCHANGED <<owed, capture, shutdown, closing, stale>>
    PROVE  Owing'
<1>1. \A x \in Cancelers : \A e \in owed[x] : e \in Asks
  BY TypeParts
<1>2. \A e \in Owned : e \in Asks
  BY Constants
<1> QED
  BY <1>1, <1>2 DEF Owing, Settling

LEMMA RegisterKeeps ==
    ASSUME IndInv, NEW w \in Asks, Register(w)
    PROVE  IndInv'
<1>1. UNCHANGED <<ready, result, row, lapsed, requestCount, waiterCount, decidedBy, command,
                  clear, stale, capture, closing, shutdown, owed, orphaned, refused, restarts>>
  BY DEF Register, rowVars, endVars, historyVars
<1>2. PICK e \in IF OpenEntries(KeyOf[w]) = {} THEN {w} ELSE OpenEntries(KeyOf[w]) :
          /\ Step(w, "admitted", IF e = w THEN "creating" ELSE "joining")
          /\ entryOf' = [entryOf EXCEPT ![w] = e]
          /\ waiters' = [waiters EXCEPT ![e] = @ \union {w}]
  BY DEF Register
<1>3. /\ TypeOK /\ Registry /\ Progressing /\ Decided /\ Deciding /\ Told /\ Refusals /\ Gate /\ Owing
      /\ PendingHasAudience /\ NobodyStranded /\ CountsReadable
  BY DEF IndInv
<1>4. phase[w] = "admitted" /\ phase' = [phase EXCEPT ![w] = IF e = w THEN "creating" ELSE "joining"]
  BY <1>2 DEF Step
<1>5. entryOf[w] = None /\ result[w] = "none" /\ row[w] = "none" /\ ready[w] = "no"
  BY <1>3, <1>4 DEF Registry, Early
<1>6. /\ waiters[w] = {} /\ \A t \in Asks : entryOf[t] # w
      /\ \A f \in Asks : w \notin waiters[f]
  BY <1>3, <1>5, NoEntry
<1>7. e \in Asks /\ (e = w \/ (waiters[e] # {} /\ e # w))
  BY <1>2, <1>6 DEF OpenEntries
<1>8. e # w => entryOf[e] = e
  BY <1>3, <1>7, SomeWaiter
<1>9. /\ phase' \in [Asks -> AskPhases] /\ \A t \in Asks \ {w} : phase'[t] = phase[t]
      /\ (e = w => phase'[w] = "creating") /\ (e # w => phase'[w] = "joining")
  BY <1>3, <1>4, PhaseMoves DEF AskPhases
<1>10. /\ entryOf' \in [Asks -> Asks \union {None}] /\ entryOf'[w] = e
       /\ \A t \in Asks \ {w} : entryOf'[t] = entryOf[t]
  BY <1>2, <1>3, <1>7, TypeParts
<1>11. /\ waiters' \in [Asks -> SUBSET Asks] /\ waiters'[e] = waiters[e] \union {w}
       /\ \A f \in Asks \ {e} : waiters'[f] = waiters[f]
  BY <1>2, <1>3, <1>7, TypeParts
<1>12. TypeOK'
  BY <1>1, <1>3, <1>9, <1>10, <1>11, TypeParts, TypesTogether
<1>13. Settling
  BY <1>1 DEF Settling
<1>14. Registry'
  <2>1. ASSUME NEW t \in Asks
        PROVE  /\ phase'[t] \in Early => entryOf'[t] = None
               /\ entryOf'[t] = None =>
                     /\ phase'[t] \in Early \union {"rejected", "lost"}
                     /\ result'[t] = "none" /\ row'[t] = "none" /\ ready'[t] = "no"
    <3>1. CASE t = w
      BY <3>1, <1>7, <1>9, <1>10, Constants DEF Early
    <3>2. CASE t # w
      BY <3>2, <1>1, <1>3, <1>9, <1>10 DEF Registry
    <3> QED
      BY <3>1, <3>2
  <2>2. ASSUME NEW t \in Asks, entryOf'[t] # None PROVE entryOf'[entryOf'[t]] = entryOf'[t]
    <3>1. CASE t = w
      BY <3>1, <1>7, <1>8, <1>10
    <3>2. CASE t # w
      <4>1. entryOf'[t] = entryOf[t] /\ entryOf[t] \in Asks /\ entryOf[t] # w
        BY <3>2, <2>2, <1>3, <1>6, <1>10, TypeParts
      <4>2. entryOf[entryOf[t]] = entryOf[t]
        BY <4>1, <1>3, Constants DEF Registry
      <4> QED
        BY <4>1, <4>2, <1>10
    <3> QED
      BY <3>1, <3>2
  <2>3. ASSUME NEW t \in Asks, NEW f \in Asks, t \in waiters'[f]
        PROVE  entryOf'[t] = f /\ phase'[t] \in Inside
    <3>1. CASE t = w
      <4>1. f = e
        BY <3>1, <2>3, <1>6, <1>11
      <4> QED
        BY <3>1, <4>1, <1>9, <1>10 DEF Inside
    <3>2. CASE t # w
      <4>1. t \in waiters[f]
        BY <3>2, <2>3, <1>11
      <4> QED
        BY <3>2, <4>1, <1>3, <1>9, <1>10 DEF Registry
    <3> QED
      BY <3>1, <3>2
  <2> QED
    BY <2>1, <2>2, <2>3 DEF Registry
<1>15. Progressing'
  <2>1. \A t \in Asks : waiters[t] \subseteq waiters'[t]
    BY <1>11
  <2>2. e = w => w \in waiters'[w]
    BY <1>11
  <2> QED
    BY <1>1, <1>3, <1>5, <1>7, <1>9, <1>10, <2>1, <2>2 DEF Progressing
<1>16. Decided' /\ Deciding'
  BY <1>1, <1>3, <1>13, DecidedStays, DecidingStays
<1>17. Told'
  <2>1. phase'[w] # "allowed" /\ result'[w] = "none"
    BY <1>1, <1>5, <1>9
  <2> QED
    BY <1>1, <1>3, <1>9, <1>10, <2>1 DEF Told, AllowedBy
<1>18. Refusals'
  <2>1. \A t \in refused : t \in Asks \ {w}
    BY <1>3, <1>4, TypeParts DEF Refusals
  <2> QED
    BY <1>1, <1>3, <1>9, <1>10, <2>1 DEF Refusals
<1>19. Gate'
  <2>1. \A t \in Asks : phase'[t] \in Holding => phase[t] \in Holding
    BY <1>4, <1>9 DEF Holding
  <2>2. \A f \in Asks : waiters'[f] # {} => waiters[f] # {} \/ row[f] # "deleted"
    BY <1>5, <1>7, <1>11
  <2> QED
    BY <1>1, <1>3, <1>13, <2>1, <2>2, GateStays
<1>20. Owing' /\ CountsReadable'
  BY <1>1, <1>3, OwingStill, CountsStill
<1>21. NobodyStranded'
  <2>1. \A f \in Asks : waiters'[f] # {} => waiters[f] # {} \/ row[f] \notin Terminal \union {"deleted"}
    BY <1>5, <1>7, <1>11 DEF Terminal
  <2> QED
    BY <1>1, <1>3, <2>1, StrandedStill
<1>22. PendingHasAudience'
  <2>1. ASSUME NEW f \in Asks, row'[f] = "pending", waiters'[f] = {}, f \notin orphaned'
        PROVE  \E t \in Asks : entryOf'[t] = f /\ phase'[t] \in {"leaving", "leavingEarly"}
    <3>1. waiters[f] = {}
      BY <2>1, <1>11
    <3>2. PICK t \in Asks : entryOf[t] = f /\ phase[t] \in {"leaving", "leavingEarly"}
      BY <2>1, <3>1, <1>1, <1>3 DEF PendingHasAudience
    <3>3. t # w
      BY <3>2, <1>4
    <3> QED
      BY <3>2, <3>3, <1>9, <1>10
  <2> QED
    BY <2>1 DEF PendingHasAudience
<1> QED
  BY <1>12, <1>14, <1>15, <1>16, <1>17, <1>18, <1>19, <1>20, <1>21, <1>22 DEF IndInv

LEMMA CreateKeeps ==
    ASSUME IndInv, NEW w \in Asks, Create(w)
    PROVE  IndInv'
<1>1. UNCHANGED <<entryOf, waiters, ready, result, lapsed, requestCount, waiterCount, decidedBy, command,
                  clear, stale, capture, closing, shutdown, owed, orphaned, refused, restarts>>
  BY DEF Create, registryVars, endVars, historyVars
<1>2. PICK ok \in BOOLEAN :
        /\ ok => MayCreate(w)
        /\ Step(w, "creating", IF ok THEN "created" ELSE "failed")
        /\ row' = IF ok THEN [row EXCEPT ![w] = "pending"] ELSE row
  BY DEF Create
<1>3. /\ TypeOK /\ Registry /\ Progressing /\ Decided /\ Deciding /\ Told /\ Refusals /\ Gate /\ Owing
      /\ PendingHasAudience /\ NobodyStranded /\ CountsReadable
  BY DEF IndInv
<1>4. phase[w] = "creating" /\ phase' = [phase EXCEPT ![w] = IF ok THEN "created" ELSE "failed"]
  BY <1>2 DEF Step
<1>5. entryOf[w] = w /\ w \in waiters[w] /\ row[w] = "none" /\ ready[w] = "no"
  BY <1>3, <1>4 DEF Progressing
<1>6. /\ phase' \in [Asks -> AskPhases] /\ \A t \in Asks \ {w} : phase'[t] = phase[t]
      /\ (ok => phase'[w] = "created") /\ (~ok => phase'[w] = "failed")
  BY <1>3, <1>4, PhaseMoves DEF AskPhases
<1>7. /\ row' \in [Asks -> RowStates] /\ \A t \in Asks \ {w} : row'[t] = row[t]
      /\ (ok => row'[w] = "pending") /\ (~ok => row'[w] = "none")
  BY <1>2, <1>3, <1>5, TypeParts DEF RowStates
<1>8. TypeOK'
  BY <1>1, <1>3, <1>6, <1>7, TypeParts, TypesTogether
<1>9. Registry'
  BY <1>1, <1>3, <1>4, <1>5, <1>6, <1>7, Constants DEF Registry, Early, Inside
<1>10. Progressing'
  <2>1. \A t \in Asks : phase[t] \in {"waiting", "leaving"} => entryOf[t] \in Asks
    BY <1>3, HasEntry DEF Early
  <2>2. \A t \in Asks : row[t] # "none" => row'[t] # "none"
    BY <1>5, <1>7
  <2>3. ASSUME NEW t \in Asks, t # w
        PROVE  /\ phase'[t] \in {"creating", "failed"} =>
                      entryOf'[t] = t /\ t \in waiters'[t] /\ row'[t] = "none" /\ ready'[t] = "no"
               /\ phase'[t] = "created" => entryOf'[t] = t /\ row'[t] # "none" /\ ready'[t] = "no"
               /\ ready'[t] = "created" => row'[t] # "none"
               /\ ready'[t] = "failed" => row'[t] = "none"
               /\ phase'[t] \in {"waiting", "leaving"} => row'[entryOf'[t]] # "none"
    BY <1>1, <1>3, <1>6, <1>7, <2>1, <2>2, <2>3 DEF Progressing
  <2> QED
    BY <1>1, <1>5, <1>6, <1>7, <2>3 DEF Progressing
<1>11. Decided'
  <2>1. decidedBy[w] = None
    BY <1>3, <1>5, TypeParts DEF Decided, CommandRecords
  <2> QED
    BY <1>1, <1>3, <1>7, <2>1 DEF Decided
<1>12. Deciding'
  <2>1. \A c \in Commands : command[c].phase # "idle" => command[c].rec # w
    BY <1>3, <1>5 DEF Deciding
  <2> QED
    BY <1>1, <1>3, <1>7, <2>1 DEF Deciding
<1>13. Told'
  <2>1. \A t \in Asks : result[t] # "none" => entryOf[t] # w /\ entryOf[t] \in Asks
    BY <1>3, <1>5, TypeParts DEF Told, Registry
  <2> QED
    BY <1>1, <1>3, <1>6, <1>7, <2>1 DEF Told, AllowedBy
<1>14. Refusals'
  <2>1. \A t \in refused : t \in Asks \ {w} /\ entryOf[t] \in Asks \ {w}
    BY <1>3, <1>4, <1>5, TypeParts DEF Refusals
  <2> QED
    BY <1>1, <1>3, <1>6, <1>7, <2>1 DEF Refusals
<1>15. Gate'
  <2>1. clear \notin {"held", "committed"}
    BY <1>3, <1>4 DEF Gate, Holding
  <2> QED
    BY <1>1, <1>3, <1>5, <1>7, <2>1 DEF Gate
<1>16. Owing'
  <2>1. \A x \in Cancelers : \A e \in owed[x] : e \in Asks \ {w}
    BY <1>3, <1>5, TypeParts DEF Owing
  <2>2. ok /\ w \in Owned => capture = "active"
    BY <1>2 DEF MayCreate
  <2>3. capture \in {"canceling", "canceled"} => \A e \in Owned : row'[e] # "pending"
    BY <1>3, <1>5, <1>7, <2>2, Constants DEF Owing
  <2> QED
    BY <1>1, <1>3, <1>7, <2>1, <2>3 DEF Owing
<1>17. CountsReadable'
  BY <1>1, <1>3, CountsStill
<1>18. NobodyStranded'
  <2>1. \A e \in Asks : row'[e] \in Terminal \union {"deleted"} => row'[e] = row[e]
    BY <1>7, <1>5 DEF Terminal
  <2> QED
    BY <1>1, <1>3, <2>1 DEF NobodyStranded
<1>19. PendingHasAudience'
  <2>1. ASSUME NEW f \in Asks, row'[f] = "pending", waiters'[f] = {}, f \notin orphaned'
        PROVE  \E t \in Asks : entryOf'[t] = f /\ phase'[t] \in {"leaving", "leavingEarly"}
    <3>1. f # w /\ row[f] = "pending"
      BY <2>1, <1>1, <1>5, <1>7
    <3>2. PICK t \in Asks : entryOf[t] = f /\ phase[t] \in {"leaving", "leavingEarly"}
      BY <2>1, <3>1, <1>1, <1>3 DEF PendingHasAudience
    <3>3. t # w
      BY <3>2, <1>4
    <3> QED
      BY <3>2, <3>3, <1>1, <1>6
  <2> QED
    BY <2>1 DEF PendingHasAudience
<1> QED
  BY <1>8, <1>9, <1>10, <1>11, <1>12, <1>13, <1>14, <1>15, <1>16, <1>17, <1>18, <1>19 DEF IndInv

LEMMA PublishKeeps ==
    ASSUME IndInv, NEW w \in Asks, Publish(w)
    PROVE  IndInv'
<1>1. UNCHANGED <<entryOf, waiters, result, row, lapsed, requestCount, waiterCount, decidedBy, command,
                  clear, stale, capture, closing, shutdown, owed, orphaned, refused, restarts>>
  BY DEF Publish, rowVars, endVars, historyVars
<1>2. /\ phase[w] = "created" /\ phase' = [phase EXCEPT ![w] = "waiting"]
      /\ ready' = [ready EXCEPT ![w] = "created"]
  BY DEF Publish, Step
<1>3. /\ TypeOK /\ Registry /\ Progressing /\ Decided /\ Deciding /\ Told /\ Refusals /\ Gate /\ Owing
      /\ PendingHasAudience /\ NobodyStranded /\ CountsReadable
  BY DEF IndInv
<1>4. entryOf[w] = w /\ row[w] # "none"
  BY <1>2, <1>3 DEF Progressing
<1>5. /\ phase' \in [Asks -> AskPhases] /\ \A t \in Asks \ {w} : phase'[t] = phase[t]
      /\ phase'[w] = "waiting"
  BY <1>2, <1>3, PhaseMoves DEF AskPhases
<1>6. /\ ready' \in [Asks -> {"no", "created", "failed"}] /\ ready'[w] = "created"
      /\ \A t \in Asks \ {w} : ready'[t] = ready[t]
  BY <1>2, <1>3, TypeParts
<1>7. TypeOK'
  BY <1>1, <1>3, <1>5, <1>6, TypeParts, TypesTogether
<1>8. Settling
  BY <1>1 DEF Settling
<1>9. Registry' /\ Progressing'
  BY <1>1, <1>2, <1>3, <1>4, <1>5, <1>6, Constants DEF Registry, Progressing, Early, Inside
<1>10. Decided' /\ Deciding' /\ Told'
  BY <1>1, <1>2, <1>3, <1>5, <1>8, DecidedStays, DecidingStays, ToldStays
<1>11. Refusals'
  <2>1. \A t \in refused : t \in Asks /\ t # w
    BY <1>2, <1>3, TypeParts DEF Refusals
  <2> QED
    BY <1>1, <1>3, <1>5, <1>8, <2>1, RefusalsStay DEF Refusals
<1>12. Gate'
  BY <1>1, <1>3, <1>5, <1>8, GateStays DEF Holding
<1>13. Owing' /\ CountsReadable' /\ NobodyStranded'
  BY <1>1, <1>3, OwingStill, CountsStill, StrandedStill
<1>14. PendingHasAudience'
  BY <1>1, <1>2, <1>3, <1>5 DEF PendingHasAudience
<1> QED
  BY <1>7, <1>9, <1>10, <1>11, <1>12, <1>13, <1>14 DEF IndInv

LEMMA JoinerWaitsKeeps ==
    ASSUME IndInv, NEW w \in Asks, JoinerWaits(w)
    PROVE  IndInv'
<1> DEFINE e == entryOf[w]
<1>1. UNCHANGED <<entryOf, waiters, ready, result, row, lapsed, decidedBy, command,
                  clear, stale, capture, closing, shutdown, owed, orphaned, refused, restarts>>
  BY DEF JoinerWaits, registryVars, endVars, historyVars
<1>2. /\ phase[w] = "joining" /\ phase' = [phase EXCEPT ![w] = "waiting"] /\ ready[e] = "created"
  BY DEF JoinerWaits, Step
<1>3. /\ TypeOK /\ Registry /\ Progressing /\ Decided /\ Deciding /\ Told /\ Refusals /\ Gate /\ Owing
      /\ PendingHasAudience /\ NobodyStranded /\ CountsReadable
  BY DEF IndInv
<1>4. e \in Asks /\ row[e] # "none"
  <2>1. e \in Asks
    BY <1>2, <1>3, HasEntry DEF Early
  <2> QED
    BY <1>2, <1>3, <2>1 DEF Progressing
<1>5. /\ phase' \in [Asks -> AskPhases] /\ \A t \in Asks \ {w} : phase'[t] = phase[t]
      /\ phase'[w] = "waiting"
  BY <1>2, <1>3, PhaseMoves DEF AskPhases
<1>6. /\ requestCount' \in [Asks -> Int] /\ waiterCount' \in [Asks -> Int] /\ CountsReadable'
  <2>1. requestCount \in [Asks -> Int] /\ waiterCount \in [Asks -> Int]
    BY <1>3, TypeParts
  <2>2. CASE UNCHANGED <<requestCount, waiterCount>>
    BY <2>1, <2>2, <1>3, CountsStill
  <2>3. CASE /\ requestCount' = [requestCount EXCEPT ![e] = @ + 1]
             /\ waiterCount' = [waiterCount EXCEPT ![e] = @ + 1]
    <3>1. /\ requestCount' \in [Asks -> Int] /\ waiterCount' \in [Asks -> Int]
          /\ requestCount'[e] = requestCount[e] + 1 /\ waiterCount'[e] = waiterCount[e] + 1
          /\ \A f \in Asks \ {e} : requestCount'[f] = requestCount[f] /\ waiterCount'[f] = waiterCount[f]
      BY <2>1, <2>3, <1>4
    <3> QED
      BY <2>1, <3>1, <1>3, <1>4 DEF CountsReadable
  <2> QED
    BY <2>2, <2>3 DEF JoinerWaits
<1>7. TypeOK'
  BY <1>1, <1>3, <1>5, <1>6, TypeParts, TypesTogether
<1>8. Settling
  BY <1>1 DEF Settling
<1>9. Registry' /\ Progressing'
  BY <1>1, <1>2, <1>3, <1>4, <1>5, Constants DEF Registry, Progressing, Early, Inside
<1>10. Decided' /\ Deciding' /\ Told'
  BY <1>1, <1>2, <1>3, <1>5, <1>8, DecidedStays, DecidingStays, ToldStays
<1>11. Refusals'
  <2>1. \A t \in refused : t \in Asks /\ t # w
    BY <1>2, <1>3, TypeParts DEF Refusals
  <2> QED
    BY <1>1, <1>3, <1>5, <1>8, <2>1, RefusalsStay DEF Refusals
<1>12. Gate'
  BY <1>1, <1>3, <1>5, <1>8, GateStays DEF Holding
<1>13. Owing' /\ NobodyStranded'
  BY <1>1, <1>3, OwingStill, StrandedStill
<1>14. PendingHasAudience'
  BY <1>1, <1>2, <1>3, <1>5 DEF PendingHasAudience
<1> QED
  BY <1>6, <1>7, <1>9, <1>10, <1>11, <1>12, <1>13, <1>14 DEF IndInv

-----------------------------------------------------------------------------
(* On the way out                                                          *)

\* Whoever takes itself off an entry's list leaves no pending row behind it, or is
\* on its way to cancel it.
LEMMA LeaverKeeps ==
    ASSUME IndInv, NEW w \in Asks, NEW to \in {"rejected", "allowed", "leaving", "leavingEarly"},
           phase' = [phase EXCEPT ![w] = to], waiters' = Without(w),
           UNCHANGED <<entryOf, result, row, lapsed, requestCount, waiterCount, decidedBy, command,
                       clear, stale, capture, closing, shutdown, owed, orphaned, refused, restarts>>,
           phase[w] \in {"failed", "joining", "waiting"},
           \/ ready' = ready /\ phase[w] # "failed"
           \/ ready' = [ready EXCEPT ![w] = "failed"] /\ phase[w] = "failed",
           to = "leaving" => phase[w] = "waiting",
           to = "leavingEarly" => phase[w] = "joining",
           to = "allowed" => result[w] = "allowed",
           to \in {"rejected", "allowed"} => row[entryOf[w]] # "pending"
    PROVE  IndInv'
<1> DEFINE e == entryOf[w]
<1>1. /\ TypeOK /\ Registry /\ Progressing /\ Decided /\ Deciding /\ Told /\ Refusals /\ Gate /\ Owing
      /\ PendingHasAudience /\ NobodyStranded /\ CountsReadable
  BY DEF IndInv
<1>2. e \in Asks
  BY <1>1, HasEntry DEF Early
<1>3. /\ phase' \in [Asks -> AskPhases] /\ \A t \in Asks \ {w} : phase'[t] = phase[t]
      /\ phase'[w] = to
  <2>1. to \in AskPhases
    BY DEF AskPhases, Outcomes
  <2> QED
    BY <1>1, <2>1, PhaseMoves
<1>4. /\ waiters' \in [Asks -> SUBSET Asks] /\ waiters'[e] = waiters[e] \ {w}
      /\ \A f \in Asks \ {e} : waiters'[f] = waiters[f]
  BY <1>1, <1>2, TypeParts DEF Without
<1>5. \A f \in Asks : w \notin waiters'[f]
  BY <1>1, <1>4 DEF Registry
<1>6. \A f \in Asks : waiters'[f] \subseteq waiters[f] /\ \A t \in Asks \ {w} : t \in waiters[f] => t \in waiters'[f]
  BY <1>4
<1>7. /\ ready' \in [Asks -> {"no", "created", "failed"}]
      /\ \A t \in Asks \ {w} : ready'[t] = ready[t]
      /\ phase[w] # "failed" => ready'[w] = ready[w]
      /\ phase[w] = "failed" => ready'[w] = "failed"
  <2>1. ready \in [Asks -> {"no", "created", "failed"}]
    BY <1>1, TypeParts
  <2> QED
    BY <2>1
<1>8. TypeOK'
  BY <1>1, <1>3, <1>4, <1>7, TypeParts, TypesTogether
<1>9. Settling
  BY DEF Settling
<1>10. Registry'
  <2>1. ASSUME NEW t \in Asks
        PROVE  /\ phase'[t] \in Early => entryOf[t] = None
               /\ entryOf[t] = None =>
                     /\ phase'[t] \in Early \union {"rejected", "lost"}
                     /\ result[t] = "none" /\ row[t] = "none" /\ ready'[t] = "no"
    <3>1. CASE t = w
      BY <3>1, <1>2, <1>3, Constants DEF Early
    <3>2. CASE t # w
      BY <3>2, <1>1, <1>3, <1>7 DEF Registry
    <3> QED
      BY <3>1, <3>2
  <2>2. ASSUME NEW t \in Asks, NEW f \in Asks, t \in waiters'[f]
        PROVE  entryOf[t] = f /\ phase'[t] \in Inside
    BY <2>2, <1>1, <1>3, <1>5, <1>6 DEF Registry
  <2> QED
    BY <2>1, <2>2, <1>1 DEF Registry
<1>11. Progressing'
  <2>1. ASSUME NEW t \in Asks, t # w
        PROVE  /\ phase'[t] \in {"creating", "failed"} =>
                      entryOf[t] = t /\ t \in waiters'[t] /\ row[t] = "none" /\ ready'[t] = "no"
               /\ phase'[t] = "created" => entryOf[t] = t /\ row[t] # "none" /\ ready'[t] = "no"
               /\ ready'[t] = "created" => row[t] # "none"
               /\ ready'[t] = "failed" => row[t] = "none"
               /\ phase'[t] \in {"waiting", "leaving"} => row[entryOf[t]] # "none"
    BY <2>1, <1>1, <1>3, <1>6, <1>7 DEF Progressing
  <2>2. /\ ready'[w] = "created" => row[w] # "none"
        /\ ready'[w] = "failed" => row[w] = "none"
        /\ phase'[w] = "leaving" => row[entryOf[w]] # "none"
    BY <1>1, <1>3, <1>7 DEF Progressing
  <2> QED
    BY <2>1, <2>2, <1>3 DEF Progressing
<1>12. Decided' /\ Deciding'
  BY <1>1, <1>9, DecidedStays, DecidingStays
<1>13. Told'
  BY <1>1, <1>2, <1>3, <1>9, ToldStays
<1>14. Refusals'
  <2>1. ASSUME NEW t \in refused
        PROVE  result[t] # "allowed" /\ phase'[t] \in {"waiting", "leaving", "rejected", "lost"}
    BY <1>1, <1>3, TypeParts DEF Refusals
  <2> QED
    BY <1>1, <1>9, <2>1, RefusalsStay
<1>15. Gate'
  <2>1. \A t \in Asks : phase'[t] \in Holding => phase[t] \in Holding
    BY <1>3 DEF Holding
  <2>2. \A f \in Asks : waiters'[f] # {} => waiters[f] # {}
    BY <1>6
  <2> QED
    BY <1>1, <1>9, <2>1, <2>2, GateStays
<1>16. Owing' /\ CountsReadable'
  BY <1>1, OwingStill, CountsStill
<1>17. NobodyStranded'
  <2>1. \A f \in Asks : waiters'[f] # {} => waiters[f] # {}
    BY <1>6
  <2> QED
    BY <1>1, <2>1, StrandedStill
<1>18. PendingHasAudience'
  <2>1. ASSUME NEW f \in Asks, row[f] = "pending", waiters'[f] = {}, f \notin orphaned
        PROVE  \E t \in Asks : entryOf[t] = f /\ phase'[t] \in {"leaving", "leavingEarly"}
    <3>1. CASE f = e
      BY <3>1, <2>1, <1>3
    <3>2. CASE f # e
      <4>1. waiters[f] = {}
        BY <3>2, <2>1, <1>4
      <4>2. PICK t \in Asks : entryOf[t] = f /\ phase[t] \in {"leaving", "leavingEarly"}
        BY <2>1, <4>1, <1>1 DEF PendingHasAudience
      <4> QED
        BY <4>2, <3>2, <1>3
    <3> QED
      BY <3>1, <3>2
  <2> QED
    BY <2>1 DEF PendingHasAudience
<1> QED
  BY <1>8, <1>10, <1>11, <1>12, <1>13, <1>14, <1>15, <1>16, <1>17, <1>18 DEF IndInv

LEMMA DepartureKeeps ==
    ASSUME IndInv, NEW w \in Asks, PublishFailure(w) \/ JoinerRejected(w) \/ Receive(w) \/ Depart(w)
    PROVE  IndInv'
<1>1. UNCHANGED <<entryOf, result, row, lapsed, requestCount, waiterCount, decidedBy, command,
                  clear, stale, capture, closing, shutdown, owed, orphaned, refused, restarts>>
  BY DEF PublishFailure, JoinerRejected, Receive, Depart, rowVars, endVars, historyVars
<1>2. TypeOK /\ Registry /\ Progressing /\ Told
  BY DEF IndInv
<1>3. CASE PublishFailure(w)
  <2>1. /\ phase[w] = "failed" /\ phase' = [phase EXCEPT ![w] = "rejected"]
        /\ ready' = [ready EXCEPT ![w] = "failed"] /\ waiters' = Without(w)
    BY <1>3 DEF PublishFailure, Step
  <2>2. row[entryOf[w]] # "pending"
    BY <1>2, <2>1 DEF Progressing
  <2> QED
    BY <1>1, <2>1, <2>2, LeaverKeeps
<1>4. CASE JoinerRejected(w)
  <2>1. /\ phase[w] = "joining" /\ phase' = [phase EXCEPT ![w] = "rejected"]
        /\ ready' = ready /\ ready[entryOf[w]] = "failed" /\ waiters' = Without(w)
    BY <1>4 DEF JoinerRejected, Step
  <2>2. entryOf[w] \in Asks
    BY <1>2, <2>1, HasEntry DEF Early
  <2>3. row[entryOf[w]] # "pending"
    BY <1>2, <2>1, <2>2 DEF Progressing
  <2> QED
    BY <1>1, <2>1, <2>3, LeaverKeeps
<1>5. CASE Receive(w)
  <2>1. /\ phase[w] = "waiting" /\ phase' = [phase EXCEPT ![w] = OutcomeOf(result[w])]
        /\ ready' = ready /\ result[w] # "none" /\ waiters' = Without(w)
    BY <1>5 DEF Receive, Step
  <2>2. row[entryOf[w]] # "pending"
    <3>1. result[w] # "pending"
      BY <1>2, TypeParts DEF Terminal
    <3> QED
      BY <1>2, <2>1, <3>1 DEF Told
  <2>3. OutcomeOf(result[w]) \in {"rejected", "allowed"} /\ (OutcomeOf(result[w]) = "allowed" => result[w] = "allowed")
    BY DEF OutcomeOf
  <2> QED
    BY <1>1, <2>1, <2>2, <2>3, LeaverKeeps
<1>6. CASE Depart(w)
  <2>1. /\ \/ phase[w] = "waiting" /\ phase' = [phase EXCEPT ![w] = "leaving"]
           \/ phase[w] = "joining" /\ phase' = [phase EXCEPT ![w] = "leavingEarly"]
        /\ ready' = ready /\ waiters' = Without(w)
    BY <1>6 DEF Depart, Step
  <2> QED
    BY <1>1, <2>1, LeaverKeeps
<1> QED
  BY <1>3, <1>4, <1>5, <1>6

LEMMA WithdrawKeeps ==
    ASSUME IndInv, NEW w \in Asks, Withdraw(w)
    PROVE  IndInv'
<1> DEFINE e == entryOf[w]
<1>1. UNCHANGED <<entryOf, waiters, ready, result, lapsed, requestCount, decidedBy, command,
                  clear, stale, capture, closing, shutdown, owed, refused, restarts>>
  BY DEF Withdraw, registryVars, endVars
<1>2. phase[w] \in Leaving /\ phase' = [phase EXCEPT ![w] = "rejected"]
  BY DEF Withdraw, Leaving
<1>3. /\ TypeOK /\ Registry /\ Progressing /\ Decided /\ Deciding /\ Told /\ Refusals /\ Gate /\ Owing
      /\ PendingHasAudience /\ NobodyStranded /\ CountsReadable
  BY DEF IndInv
<1>4. e \in Asks
  BY <1>2, <1>3, HasEntry DEF Early, Leaving
<1>5. /\ phase' \in [Asks -> AskPhases] /\ \A t \in Asks \ {w} : phase'[t] = phase[t]
      /\ phase'[w] = "rejected"
  BY <1>2, <1>3, PhaseMoves DEF AskPhases, Outcomes
<1>6. \/ /\ waiters[e] = {} /\ row' = [row EXCEPT ![e] = IF @ = "pending" THEN "canceled" ELSE @]
         /\ UNCHANGED <<waiterCount, orphaned>>
      \/ waiters[e] = {} /\ orphaned' = orphaned \union {e} /\ UNCHANGED <<row, waiterCount>>
      \/ /\ waiters[e] # {} /\ UNCHANGED <<row, orphaned>>
         /\ waiterCount' = [waiterCount EXCEPT ![e] = Left(@)] \/ waiterCount' = waiterCount
  BY DEF Withdraw, LastOne
<1>7. row' \in [Asks -> RowStates] /\ Settling
  BY <1>3, <1>4, <1>6, TypeParts DEF Settling, RowStates
<1>8. waiterCount' \in [Asks -> Int] /\ CountsReadable'
  <2>1. requestCount \in [Asks -> Int] /\ waiterCount \in [Asks -> Int]
    BY <1>3, TypeParts
  <2>2. CASE waiterCount' = waiterCount
    BY <2>1, <2>2, <1>1, <1>3, CountsStill
  <2>3. CASE waiterCount' = [waiterCount EXCEPT ![e] = Left(@)]
    <3>1. /\ waiterCount[e] >= 1 /\ waiterCount[e] <= requestCount[e]
          /\ waiterCount[e] \in Int /\ requestCount[e] \in Int
      BY <2>1, <1>3, <1>4 DEF CountsReadable
    <3>2. Left(waiterCount[e]) \in Int /\ 1 <= Left(waiterCount[e]) /\ Left(waiterCount[e]) <= requestCount[e]
      BY <3>1 DEF Left
    <3>3. /\ waiterCount' \in [Asks -> Int] /\ waiterCount'[e] = Left(waiterCount[e])
          /\ \A f \in Asks \ {e} : waiterCount'[f] = waiterCount[f]
      BY <2>1, <2>3, <3>2, <1>4
    <3> QED
      BY <3>2, <3>3, <1>1, <1>3 DEF CountsReadable
  <2> QED
    BY <2>2, <2>3, <1>6
<1>9. orphaned' \subseteq Asks
  BY <1>3, <1>4, <1>6, TypeParts
<1>10. TypeOK'
  BY <1>1, <1>3, <1>5, <1>7, <1>8, <1>9, TypeParts, TypesTogether
<1>11. Registry'
  <2>1. \A t \in Asks : row[t] = "none" => row'[t] = "none"
    BY <1>7 DEF Settling
  <2>2. \A f \in Asks : w \notin waiters[f]
    BY <1>2, <1>3 DEF Registry, Leaving, Inside
  <2> QED
    BY <1>1, <1>3, <1>4, <1>5, <2>1, <2>2, Constants DEF Registry, Early
<1>12. Progressing'
  <2>1. \A t \in Asks : row[t] = "none" <=> row'[t] = "none"
    BY <1>7 DEF Settling
  <2>2. \A t \in Asks : phase[t] \in {"waiting", "leaving"} => entryOf[t] \in Asks
    BY <1>3, HasEntry DEF Early
  <2> QED
    BY <1>1, <1>3, <1>5, <2>1, <2>2 DEF Progressing
<1>13. Decided' /\ Deciding'
  BY <1>1, <1>3, <1>7, DecidedStays, DecidingStays
<1>14. Told'
  BY <1>1, <1>3, <1>5, <1>7, ToldStays
<1>15. Refusals'
  <2>1. ASSUME NEW t \in refused
        PROVE  result'[t] # "allowed" /\ phase'[t] \in {"waiting", "leaving", "rejected", "lost"}
    BY <1>1, <1>3, <1>5, TypeParts DEF Refusals
  <2> QED
    BY <1>1, <1>3, <1>7, <2>1, RefusalsStay
<1>16. Gate'
  BY <1>1, <1>3, <1>5, <1>7, GateStays DEF Holding
<1>17. Owing'
  BY <1>1, <1>3, <1>7, OwingSettles
<1>18. NobodyStranded'
  <2>1. \A f \in Asks : waiters[f] # {} => row'[f] = row[f]
    BY <1>3, <1>4, <1>6, TypeParts
  <2> QED
    BY <1>1, <1>3, <2>1 DEF NobodyStranded
<1>19. PendingHasAudience'
  <2>1. ASSUME NEW f \in Asks, row'[f] = "pending", waiters[f] = {}, f \notin orphaned'
        PROVE  \E t \in Asks : entryOf[t] = f /\ phase'[t] \in {"leaving", "leavingEarly"}
    <3>1. f # e
      BY <2>1, <1>3, <1>4, <1>6, TypeParts
    <3>2. row[f] = "pending" /\ f \notin orphaned
      BY <2>1, <1>6, <1>7 DEF Settling
    <3>3. PICK t \in Asks : entryOf[t] = f /\ phase[t] \in {"leaving", "leavingEarly"}
      BY <2>1, <3>2, <1>3 DEF PendingHasAudience
    <3> QED
      BY <3>1, <3>3, <1>5
  <2> QED
    BY <2>1, <1>1 DEF PendingHasAudience
<1> QED
  BY <1>8, <1>10, <1>11, <1>12, <1>13, <1>14, <1>15, <1>16, <1>17, <1>18, <1>19 DEF IndInv

-----------------------------------------------------------------------------
(* Steps that move neither rows nor lists                                  *)

LEMMA QuietKeeps ==
    ASSUME IndInv, TypeOK', Owing',
           UNCHANGED <<phase, entryOf, waiters, ready, result, row, requestCount, waiterCount, decidedBy,
                       command, owed, orphaned, refused>>,
           clear' = "committed" <=> clear = "committed",
           clear' = "held" => \/ clear = "held"
                              \/ /\ \A w \in Asks : phase[w] \notin Holding
                                 /\ \A c \in Commands : command[c].phase \notin {"admitted", "decided"}
    PROVE  IndInv'
<1>1. /\ TypeOK /\ Registry /\ Progressing /\ Decided /\ Deciding /\ Told /\ Refusals /\ Gate
      /\ PendingHasAudience /\ NobodyStranded /\ CountsReadable
  BY DEF IndInv
<1>2. Settling
  BY DEF Settling
<1>3. Registry' /\ Progressing' /\ Decided' /\ Deciding'
  BY <1>1, <1>2, RegistryStays, ProgressingStays, DecidedStays, DecidingStays
<1>4. Told' /\ Refusals'
  BY <1>1 DEF Told, Refusals, AllowedBy
<1>5. Gate'
  BY <1>1 DEF Gate
<1>6. PendingHasAudience' /\ CountsReadable' /\ NobodyStranded'
  BY <1>1 DEF PendingHasAudience, CountsReadable, NobodyStranded
<1> QED
  BY <1>3, <1>4, <1>5, <1>6 DEF IndInv

LEMMA LapseKeeps ==
    ASSUME IndInv, NEW e \in Asks, Lapse(e)
    PROVE  IndInv'
<1>1. /\ lapsed' = lapsed \union {e}
      /\ UNCHANGED <<phase, entryOf, waiters, ready, result, row, requestCount, waiterCount, decidedBy, command,
                     clear, stale, capture, closing, shutdown, owed, orphaned, refused, restarts>>
  BY DEF Lapse, askVars, registryVars, endVars, historyVars
<1>2. TypeOK /\ Owing
  BY DEF IndInv
<1>3. TypeOK'
  BY <1>1, <1>2, TypeParts, TypesTogether
<1>4. Owing'
  BY <1>1, <1>2, OwingStill
<1> QED
  BY <1>1, <1>3, <1>4, QuietKeeps

LEMMA CaptureKeeps ==
    ASSUME IndInv, RevokeCapture \/ CaptureCanceled
    PROVE  IndInv'
<1>1. UNCHANGED <<phase, entryOf, waiters, ready, result, row, lapsed, requestCount, waiterCount, decidedBy,
                  command, clear, stale, closing, shutdown, owed, orphaned, refused, restarts>>
  BY DEF RevokeCapture, CaptureCanceled, askVars, registryVars, rowVars, historyVars
<1>2. TypeOK /\ Owing
  BY DEF IndInv
<1>3. \/ capture = "active" /\ capture' = "revoked"
      \/ capture = "canceling" /\ owed["capture"] = {} /\ capture' = "canceled"
  BY DEF RevokeCapture, CaptureCanceled
<1>4. TypeOK'
  <2>1. capture' \in {"active", "revoked", "canceling", "canceled"}
    BY <1>3
  <2> QED
    BY <1>1, <1>2, <2>1, TypeParts, TypesTogether
<1>5. Owing'
  BY <1>1, <1>2, <1>3 DEF Owing
<1> QED
  BY <1>1, <1>4, <1>5, QuietKeeps

LEMMA ClearMovesKeep ==
    ASSUME IndInv, WantClear \/ AcquireClear \/ ClearGivesUp \/ ClearFails
    PROVE  IndInv'
<1>1. UNCHANGED <<phase, entryOf, waiters, ready, result, row, lapsed, requestCount, waiterCount, decidedBy,
                  command, stale, capture, closing, shutdown, owed, orphaned, refused, restarts>>
  BY DEF WantClear, AcquireClear, ClearGivesUp, ClearFails, askVars, registryVars, rowVars, historyVars
<1>2. TypeOK /\ Owing
  BY DEF IndInv
<1>3. clear \in {"idle", "waiting", "held"} /\ clear' \in {"waiting", "held", "done"}
  BY DEF WantClear, AcquireClear, ClearGivesUp, ClearFails
<1>4. clear' = "held" => /\ \A w \in Asks : phase[w] \notin Holding
                         /\ \A c \in Commands : command[c].phase \notin {"admitted", "decided"}
  BY DEF WantClear, AcquireClear, ClearGivesUp, ClearFails, AskHolds, CommandHolds, Holding
<1>5. TypeOK'
  <2>1. clear' \in {"idle", "waiting", "held", "committed", "done"}
    BY <1>3
  <2> QED
    BY <1>1, <1>2, <2>1, TypeParts, TypesTogether
<1>6. Owing'
  BY <1>1, <1>2, OwingStill
<1> QED
  BY <1>1, <1>3, <1>4, <1>5, <1>6, QuietKeeps

LEMMA ShutdownKeeps ==
    ASSUME IndInv,
           \/ CloseAuthority
           \/ ShutdownReturns
           \/ ShutdownGivesUp
           \/ CancelPending /\ UNCHANGED <<row, owed>>
    PROVE  IndInv'
<1>1. UNCHANGED <<phase, entryOf, waiters, ready, result, row, lapsed, requestCount, waiterCount, decidedBy,
                  command, clear, stale, capture, owed, orphaned, refused, restarts>>
  BY DEF CloseAuthority, ShutdownReturns, ShutdownGivesUp, CancelPending, askVars, registryVars, rowVars,
         historyVars
<1>2. TypeOK /\ Owing
  BY DEF IndInv
<1>3. \/ ~closing /\ closing' = TRUE /\ shutdown' = "closing"
      \/ shutdown = "canceling" /\ shutdown' \in {"returned", "gaveUp"} /\ closing' = closing
      \/ shutdown = "closing" /\ shutdown' = "canceling" /\ closing' = closing
  BY DEF CloseAuthority, ShutdownReturns, ShutdownGivesUp, CancelPending
<1>4. TypeOK'
  <2>1. closing' \in BOOLEAN
    BY <1>2, <1>3, TypeParts
  <2>2. shutdown' \in {"idle", "closing", "canceling", "returned", "gaveUp"}
    BY <1>3
  <2> QED
    BY <1>1, <1>2, <2>1, <2>2, TypeParts, TypesTogether
<1>5. Owing'
  BY <1>1, <1>2, <1>3 DEF Owing
<1> QED
  BY <1>1, <1>4, <1>5, QuietKeeps

-----------------------------------------------------------------------------
(* The person's commands                                                   *)

\* A command that moves without touching a row: it keeps its question and its
\* answer, and does not forget the waiters of a row it has decided.
LEMMA CommandKeeps ==
    ASSUME IndInv, NEW c \in Commands, command' \in [Commands -> CommandRecords],
           UNCHANGED <<phase, entryOf, waiters, ready, result, row, lapsed, requestCount, waiterCount, decidedBy,
                       clear, stale, capture, closing, shutdown, owed, orphaned, refused, restarts>>,
           \A d \in Commands \ {c} : command'[d] = command[d],
           command'[c].phase # "idle", command'[c].rec \in Asks, row[command'[c].rec] # "none",
           command[c].phase # "idle" =>
               command'[c].rec = command[c].rec /\ command'[c].decision = command[c].decision,
           command'[c].phase = "decided" =>
               /\ command'[c].got \in Terminal /\ row[command'[c].rec] = command'[c].got
               /\ command'[c].rec \notin ToolIntents => decidedBy[command'[c].rec] = c,
           command'[c].phase \in {"admitted", "decided"} => clear \notin {"held", "committed"},
           (/\ command[c].phase \notin {"idle", "done"} /\ waiters[command[c].rec] # {}
            /\ command[c].phase = "decided" \/ decidedBy[command[c].rec] = c)
               => \/ command'[c].phase = "decided"
                  \/ decidedBy[command[c].rec] = c /\ command'[c].phase # "done"
    PROVE  IndInv'
<1>1. /\ TypeOK /\ Registry /\ Progressing /\ Decided /\ Deciding /\ Told /\ Refusals /\ Gate /\ Owing
      /\ PendingHasAudience /\ NobodyStranded /\ CountsReadable
  BY DEF IndInv
<1>2. TypeOK'
  BY <1>1, TypeParts, TypesTogether
<1>3. Settling
  BY DEF Settling
<1>4. Registry' /\ Progressing'
  BY <1>1, <1>3, RegistryStays, ProgressingStays
<1>5. \A e \in Asks : decidedBy[e] # None =>
          /\ decidedBy[e] \in Commands /\ command'[decidedBy[e]].phase # "idle"
          /\ command'[decidedBy[e]].rec = command[decidedBy[e]].rec
          /\ command'[decidedBy[e]].decision = command[decidedBy[e]].decision
  <2>1. ASSUME NEW e \in Asks, decidedBy[e] # None
        PROVE  decidedBy[e] \in Commands /\ command[decidedBy[e]].phase # "idle"
    BY <1>1, <2>1, TypeParts DEF Decided
  <2> QED
    BY <2>1
<1>6. Decided'
  BY <1>1, <1>5 DEF Decided
<1>7. Deciding'
  BY <1>1 DEF Deciding
<1>8. Told'
  BY <1>1, <1>5 DEF Told, AllowedBy
<1>9. Refusals' /\ PendingHasAudience' /\ CountsReadable'
  BY <1>1 DEF Refusals, PendingHasAudience, CountsReadable
<1>10. Gate'
  <2>1. clear \in {"held", "committed"} => \A d \in Commands : command'[d].phase \notin {"admitted", "decided"}
    BY <1>1 DEF Gate
  <2> QED
    BY <1>1, <2>1 DEF Gate
<1>11. Owing'
  BY <1>1, OwingStill
<1>12. NobodyStranded'
  <2>1. ASSUME NEW e \in Asks, waiters[e] # {}, row[e] \in Terminal \union {"deleted"},
               NEW d \in Commands, command[d].rec = e,
               command[d].phase = "decided" \/ (decidedBy[e] = d /\ command[d].phase # "done")
        PROVE  /\ command'[d].rec = e
               /\ command'[d].phase = "decided" \/ (decidedBy[e] = d /\ command'[d].phase # "done")
    <3>1. CASE d # c
      BY <2>1, <3>1
    <3>2. CASE d = c
      <4>1. command[c].phase \notin {"idle", "done"}
        BY <1>1, <2>1, <3>2, Constants DEF Decided
      <4> QED
        BY <2>1, <3>2, <4>1
    <3> QED
      BY <3>1, <3>2
  <2>2. ASSUME NEW e \in Asks, waiters[e] # {}, row[e] \in Terminal \union {"deleted"}
        PROVE  \/ \E d \in Commands : /\ command'[d].rec = e
                                      /\ \/ command'[d].phase = "decided"
                                         \/ decidedBy[e] = d /\ command'[d].phase # "done"
               \/ \E x \in Cancelers : e \in owed[x]
               \/ clear = "committed"
    <3>1. CASE \E d \in Commands : command[d].rec = e /\
                   (command[d].phase = "decided" \/ (decidedBy[e] = d /\ command[d].phase # "done"))
      BY <2>1, <2>2, <3>1
    <3> QED
      BY <1>1, <2>2, <3>1 DEF NobodyStranded
  <2> QED
    BY <2>2 DEF NobodyStranded
<1> QED
  BY <1>2, <1>4, <1>6, <1>7, <1>8, <1>9, <1>10, <1>11, <1>12 DEF IndInv

\* What moving a command leaves alone.
LEMMA CommandMoves ==
    ASSUME TypeOK, NEW c \in Commands, NEW to \in {"admitted", "decided", "unheard", "done"},
           NEW g \in {"none"} \union Terminal,
           command' = [command EXCEPT ![c].phase = to, ![c].got = g]
    PROVE  /\ command' \in [Commands -> CommandRecords]
           /\ \A d \in Commands \ {c} : command'[d] = command[d]
           /\ command'[c].phase = to /\ command'[c].got = g
           /\ command'[c].rec = command[c].rec /\ command'[c].decision = command[c].decision
<1>1. command \in [Commands -> CommandRecords] /\ command[c] \in CommandRecords
  BY TypeParts
<1>2. /\ command'[c] = [command[c] EXCEPT !.phase = to, !.got = g]
      /\ \A d \in Commands \ {c} : command'[d] = command[d]
      /\ DOMAIN command' = Commands
  BY <1>1
<1>3. command'[c] = [phase |-> to, rec |-> command[c].rec, decision |-> command[c].decision, got |-> g]
  BY <1>1, <1>2 DEF CommandRecords
<1>4. command'[c] \in CommandRecords
  BY <1>1, <1>3 DEF CommandRecords
<1>5. command' \in [Commands -> CommandRecords]
  BY <1>1, <1>2, <1>4
<1> QED
  BY <1>2, <1>3, <1>5

LEMMA BeginDecisionKeeps ==
    ASSUME IndInv, NEW c \in Commands, BeginDecision(c)
    PROVE  IndInv'
<1>1. UNCHANGED <<phase, entryOf, waiters, ready, result, row, lapsed, requestCount, waiterCount, decidedBy,
                  clear, stale, capture, closing, shutdown, owed, orphaned, refused, restarts>>
  BY DEF BeginDecision, askVars, registryVars, rowVars, endVars, historyVars
<1>2. TypeOK /\ Deciding
  BY DEF IndInv
<1>3. clear \notin {"held", "committed"}
  BY DEF BeginDecision, SlotFree
<1>4. CASE command[c].phase = "idle" /\ \E e \in Asks, d \in {"allowed", "denied"} :
                 /\ row[e] # "none"
                 /\ command' = [command EXCEPT ![c] =
                                    [phase |-> "admitted", rec |-> e, decision |-> d, got |-> "none"]]
  <2>1. PICK e \in Asks, d \in {"allowed", "denied"} :
                 /\ row[e] # "none"
                 /\ command' = [command EXCEPT ![c] =
                                    [phase |-> "admitted", rec |-> e, decision |-> d, got |-> "none"]]
    BY <1>4
  <2>2. [phase |-> "admitted", rec |-> e, decision |-> d, got |-> "none"] \in CommandRecords
    BY DEF CommandRecords
  <2>3. /\ command' \in [Commands -> CommandRecords]
        /\ command'[c] = [phase |-> "admitted", rec |-> e, decision |-> d, got |-> "none"]
        /\ \A b \in Commands \ {c} : command'[b] = command[b]
    BY <1>2, <2>1, <2>2, TypeParts
  <2> QED
    BY <1>1, <1>3, <1>4, <2>1, <2>3, CommandKeeps
<1>5. CASE CommandStep(c, "unheard", "admitted")
  <2>1. command[c].phase = "unheard" /\ command' = [command EXCEPT ![c].phase = "admitted", ![c].got = "none"]
    BY <1>5 DEF CommandStep
  <2>2. /\ command' \in [Commands -> CommandRecords]
        /\ \A d \in Commands \ {c} : command'[d] = command[d]
        /\ command'[c].phase = "admitted" /\ command'[c].got = "none"
        /\ command'[c].rec = command[c].rec /\ command'[c].decision = command[c].decision
    BY <1>2, <2>1, CommandMoves
  <2>3. command[c].rec \in Asks /\ row[command[c].rec] # "none"
    BY <1>2, <2>1 DEF Deciding
  <2> QED
    BY <1>1, <1>3, <2>1, <2>2, <2>3, CommandKeeps
<1> QED
  BY <1>4, <1>5 DEF BeginDecision

LEMMA RememberFailsKeeps ==
    ASSUME IndInv, NEW c \in Commands, RememberFails(c)
    PROVE  IndInv'
<1>1. UNCHANGED <<phase, entryOf, waiters, ready, result, row, lapsed, requestCount, waiterCount, decidedBy,
                  clear, stale, capture, closing, shutdown, owed, orphaned, refused, restarts>>
  BY DEF RememberFails, askVars, registryVars, rowVars, endVars, historyVars
<1>2. TypeOK /\ Deciding
  BY DEF IndInv
<1>3. /\ command[c].phase = "decided" /\ command' = [command EXCEPT ![c].phase = "unheard", ![c].got = "none"]
      /\ command[c].rec \notin ToolIntents
  BY DEF CommandStep, RememberFails
<1>4. /\ command' \in [Commands -> CommandRecords]
      /\ \A d \in Commands \ {c} : command'[d] = command[d]
      /\ command'[c].phase = "unheard" /\ command'[c].got = "none"
      /\ command'[c].rec = command[c].rec /\ command'[c].decision = command[c].decision
  BY <1>2, <1>3, CommandMoves
<1>5. command[c].rec \in Asks /\ row[command[c].rec] # "none" /\ decidedBy[command[c].rec] = c
  BY <1>2, <1>3 DEF Deciding
<1> QED
  BY <1>1, <1>3, <1>4, <1>5, CommandKeeps

\* The answer is written, or the row canceled because its owner is gone.
LEMMA AnswerKeeps ==
    ASSUME IndInv, NEW c \in Commands, command[c].phase = "admitted", MayDecide(command[c].rec),
           row' = [row EXCEPT ![command[c].rec] =
                       IF OwnerActive(command[c].rec) THEN command[c].decision ELSE "canceled"],
           Returned(c, row'[command[c].rec]),
           decidedBy' = IF OwnerActive(command[c].rec) THEN [decidedBy EXCEPT ![command[c].rec] = c]
                        ELSE decidedBy,
           UNCHANGED <<phase, entryOf, waiters, ready, result, lapsed, requestCount, waiterCount,
                       clear, stale, capture, closing, shutdown, owed, orphaned, refused, restarts>>
    PROVE  IndInv'
<1> DEFINE e == command[c].rec
<1>1. /\ TypeOK /\ Registry /\ Progressing /\ Decided /\ Deciding /\ Told /\ Refusals /\ Gate /\ Owing
      /\ PendingHasAudience /\ NobodyStranded /\ CountsReadable
  BY DEF IndInv
<1>2. e \in Asks /\ row[e] = "pending"
  BY <1>1 DEF Deciding, MayDecide
<1>3. command[c].decision \in {"allowed", "denied"}
  BY <1>1, TypeParts DEF CommandRecords
<1> DEFINE s == IF OwnerActive(e) THEN command[c].decision ELSE "canceled"
<1>4. s \in Terminal /\ s # "pending" /\ s # "none" /\ s # "deleted"
  BY <1>3 DEF Terminal
<1>5. row' \in [Asks -> RowStates] /\ row'[e] = s /\ \A f \in Asks \ {e} : row'[f] = row[f]
  <2>1. s \in RowStates
    BY <1>3 DEF RowStates
  <2> QED
    BY <1>1, <1>2, <2>1, TypeParts
<1>6. /\ command' \in [Commands -> CommandRecords]
      /\ \A d \in Commands \ {c} : command'[d] = command[d]
      /\ command'[c].phase = "decided" /\ command'[c].got = s
      /\ command'[c].rec = e /\ command'[c].decision = command[c].decision
  <2>1. command' = [command EXCEPT ![c].phase = "decided", ![c].got = s]
    BY <1>5 DEF Returned
  <2>2. s \in {"none"} \union Terminal
    BY <1>4
  <2> HIDE DEF s
  <2> QED
    BY <1>1, <2>1, <2>2, CommandMoves
<1>7. decidedBy[e] = None
  BY <1>1, <1>2, TypeParts DEF Decided, CommandRecords
<1>8. /\ decidedBy' \in [Asks -> Commands \union {None}] /\ \A f \in Asks \ {e} : decidedBy'[f] = decidedBy[f]
      /\ (OwnerActive(e) => decidedBy'[e] = c) /\ (~OwnerActive(e) => decidedBy'[e] = None)
  BY <1>1, <1>2, <1>7, TypeParts
<1>9. TypeOK'
  BY <1>1, <1>5, <1>6, <1>8, TypeParts, TypesTogether
<1>10. (OwnerActive(e) => s = command[c].decision) /\ (~OwnerActive(e) => s = "canceled" /\ e \in ToolIntents)
  BY <1>1, Constants DEF OwnerActive, Owing
<1> HIDE DEF s
<1>11. Registry' /\ Progressing'
  <2>1. \A f \in Asks : row'[f] = "none" <=> row[f] = "none"
    BY <1>2, <1>4, <1>5
  <2>2. \A t \in Asks : phase[t] \in {"waiting", "leaving"} => entryOf[t] \in Asks
    BY <1>1, HasEntry DEF Early
  <2> QED
    BY <1>1, <2>1, <2>2 DEF Registry, Progressing
<1>12. Decided'
  <2>1. ASSUME NEW f \in Asks
        PROVE  /\ decidedBy'[f] # None =>
                      /\ command'[decidedBy'[f]].phase # "idle" /\ command'[decidedBy'[f]].rec = f
                      /\ row'[f] \in {command'[decidedBy'[f]].decision, "deleted"}
               /\ row'[f] \in {"allowed", "denied"} => decidedBy'[f] # None
    <3>1. CASE f = e
      BY <3>1, <1>5, <1>6, <1>8, <1>10, Constants
    <3>2. CASE f # e
      <4>1. decidedBy[f] # None => decidedBy[f] \in Commands \ {c}
        BY <1>1, <3>2, TypeParts DEF Decided
      <4> QED
        BY <1>1, <1>5, <1>6, <1>8, <3>2, <4>1 DEF Decided
    <3> QED
      BY <3>1, <3>2
  <2> QED
    BY <2>1 DEF Decided
<1>13. Deciding'
  <2>1. ASSUME NEW d \in Commands
        PROVE  /\ command'[d].phase # "idle" => command'[d].rec \in Asks /\ row'[command'[d].rec] # "none"
               /\ command'[d].phase = "decided" =>
                      /\ command'[d].got \in Terminal /\ row'[command'[d].rec] = command'[d].got
                      /\ command'[d].rec \notin ToolIntents => decidedBy'[command'[d].rec] = d
    <3>1. CASE d = c
      BY <3>1, <1>2, <1>4, <1>5, <1>6, <1>8, <1>10
    <3>2. CASE d # c
      <4>1. command'[d] = command[d]
        BY <3>2, <1>6
      <4>2. command[d].phase = "decided" => command[d].rec # e
        BY <1>1, <1>2 DEF Deciding, Terminal
      <4> QED
        BY <1>1, <1>4, <1>5, <1>8, <4>1, <4>2 DEF Deciding
    <3> QED
      BY <3>1, <3>2
  <2> QED
    BY <2>1 DEF Deciding
<1>14. Told'
  <2>1. ASSUME NEW t \in Asks
        PROVE  /\ result[t] # "none" => entryOf[t] \in Asks \ {e}
               /\ phase[t] = "allowed" \/ result[t] = "allowed" =>
                      entryOf[t] \in Asks \ {e} /\ decidedBy[entryOf[t]] \in Commands
    <3>1. result[t] # "pending" /\ (result[t] # "none" => entryOf[t] \in Asks)
      BY <1>1, TypeParts DEF Registry, Terminal
    <3> QED
      BY <1>1, <1>2, <1>7, <3>1, TypeParts DEF Told, AllowedBy
  <2>2. \A d \in Commands : command'[d].decision = command[d].decision
    BY <1>6
  <2> QED
    BY <1>1, <1>5, <1>8, <2>1, <2>2 DEF Told, AllowedBy
<1>15. Refusals'
  <2>1. \A t \in refused : entryOf[t] \in Asks \ {e}
    BY <1>1, <1>2 DEF Refusals
  <2> QED
    BY <1>1, <1>5, <2>1 DEF Refusals
<1>16. Gate'
  <2>1. clear \notin {"held", "committed"}
    BY <1>1 DEF Gate
  <2> QED
    BY <1>1, <1>4, <1>5, <2>1 DEF Gate
<1>17. Owing'
  <2>1. \A x \in Cancelers : \A f \in owed[x] : f \in Asks \ {e}
    BY <1>1, <1>2, TypeParts DEF Owing
  <2>2. \A f \in Asks : row[f] # "pending" => row'[f] # "pending"
    BY <1>4, <1>5
  <2> QED
    BY <1>1, <1>5, <2>1, <2>2, Constants DEF Owing
<1>18. NobodyStranded'
  <2>1. ASSUME NEW f \in Asks, f # e, waiters[f] # {}, row[f] \in Terminal \union {"deleted"}
        PROVE  \/ \E d \in Commands : /\ command'[d].rec = f
                                      /\ \/ command'[d].phase = "decided"
                                         \/ decidedBy'[f] = d /\ command'[d].phase # "done"
               \/ \E x \in Cancelers : f \in owed[x]
               \/ clear = "committed"
    BY <1>1, <1>6, <1>8, <2>1 DEF NobodyStranded
  <2>2. command'[c].rec = e /\ command'[c].phase = "decided"
    BY <1>6
  <2> QED
    BY <1>5, <2>1, <2>2 DEF NobodyStranded
<1>19. PendingHasAudience' /\ CountsReadable'
  BY <1>1, <1>4, <1>5 DEF PendingHasAudience, CountsReadable
<1> QED
  BY <1>9, <1>11, <1>12, <1>13, <1>14, <1>15, <1>16, <1>17, <1>18, <1>19 DEF IndInv

LEMMA DecideKeeps ==
    ASSUME IndInv, NEW c \in Commands, Decide(c)
    PROVE  IndInv'
<1> DEFINE e == command[c].rec
           replay == decidedBy[e] = c /\ row[e] # "deleted"
<1>1. UNCHANGED <<phase, entryOf, waiters, ready, result, lapsed, requestCount, waiterCount,
                  clear, stale, capture, closing, shutdown, owed, orphaned, refused, restarts>>
  BY DEF Decide, askVars, registryVars, endVars, historyVars
<1>2. TypeOK /\ Decided /\ Deciding /\ Gate
  BY DEF IndInv
<1>3. command[c].phase = "admitted"
  BY DEF Decide, DecideRow
<1>4. e \in Asks /\ row[e] # "none" /\ clear \notin {"held", "committed"}
  BY <1>2, <1>3 DEF Deciding, Gate
<1>5. CASE replay /\ Returned(c, row[e]) /\ UNCHANGED <<row, decidedBy>>
  <2>1. row[e] \in Terminal
    BY <1>2, <1>4, <1>5, TypeParts, Constants DEF Decided, CommandRecords, Terminal
  <2>2. command' = [command EXCEPT ![c].phase = "decided", ![c].got = row[e]]
    BY <1>5 DEF Returned
  <2>3. /\ command' \in [Commands -> CommandRecords]
        /\ \A d \in Commands \ {c} : command'[d] = command[d]
        /\ command'[c].phase = "decided" /\ command'[c].got = row[e]
        /\ command'[c].rec = e /\ command'[c].decision = command[c].decision
    BY <1>2, <2>1, <2>2, CommandMoves
  <2> QED
    BY <1>1, <1>3, <1>4, <1>5, <2>1, <2>3, CommandKeeps
<1>6. CASE /\ MayDecide(e)
           /\ row' = [row EXCEPT ![e] = IF OwnerActive(e) THEN command[c].decision ELSE "canceled"]
           /\ Returned(c, row'[e])
           /\ decidedBy' = IF OwnerActive(e) THEN [decidedBy EXCEPT ![e] = c] ELSE decidedBy
  BY <1>1, <1>3, <1>6, AnswerKeeps
<1>7. CASE ~replay /\ CommandStep(c, "admitted", "done") /\ UNCHANGED <<row, decidedBy>>
  <2>1. command' = [command EXCEPT ![c].phase = "done", ![c].got = "none"]
    BY <1>7 DEF CommandStep
  <2>2. /\ command' \in [Commands -> CommandRecords]
        /\ \A d \in Commands \ {c} : command'[d] = command[d]
        /\ command'[c].phase = "done" /\ command'[c].got = "none"
        /\ command'[c].rec = e /\ command'[c].decision = command[c].decision
    BY <1>2, <2>1, CommandMoves
  <2>3. decidedBy[e] = c => waiters[e] = {}
    BY <1>2, <1>4, <1>7 DEF Gate
  <2> QED
    BY <1>1, <1>3, <1>4, <1>7, <2>2, <2>3, CommandKeeps
<1>8. CASE CommandStep(c, "admitted", "unheard") /\ UNCHANGED <<row, decidedBy>>
  <2>1. command' = [command EXCEPT ![c].phase = "unheard", ![c].got = "none"]
    BY <1>8 DEF CommandStep
  <2>2. /\ command' \in [Commands -> CommandRecords]
        /\ \A d \in Commands \ {c} : command'[d] = command[d]
        /\ command'[c].phase = "unheard" /\ command'[c].got = "none"
        /\ command'[c].rec = e /\ command'[c].decision = command[c].decision
    BY <1>2, <2>1, CommandMoves
  <2> QED
    BY <1>1, <1>3, <1>4, <1>8, <2>2, CommandKeeps
<1> QED
  BY <1>5, <1>6, <1>7, <1>8 DEF Decide, DecideRow

-----------------------------------------------------------------------------
(* The news reaches the list                                               *)

\* Telling a list what its row records.
LEMMA ResolveKeeps ==
    ASSUME IndInv, NEW e \in Asks, NEW state \in Terminal, Resolve(e, state),
           row[e] \in {state, "deleted"}, state = "allowed" => row[e] = "allowed" /\ AllowedBy(e),
           UNCHANGED <<phase, entryOf, ready, row, lapsed, requestCount, waiterCount, decidedBy,
                       clear, stale, capture, closing, shutdown, orphaned, refused, restarts>>,
           command' \in [Commands -> CommandRecords],
           \A c \in Commands : /\ command'[c].decision = command[c].decision /\ command'[c].rec = command[c].rec
                               /\ command'[c] # command[c] =>
                                      command[c].rec = e /\ command[c].phase = "decided" /\ command'[c].phase = "done",
           owed' \in [Cancelers -> SUBSET Asks],
           \A x \in Cancelers : owed'[x] \subseteq owed[x] /\ owed[x] \subseteq owed'[x] \union {e}
    PROVE  IndInv'
<1>1. /\ TypeOK /\ Registry /\ Progressing /\ Decided /\ Deciding /\ Told /\ Refusals /\ Gate /\ Owing
      /\ PendingHasAudience /\ NobodyStranded /\ CountsReadable
  BY DEF IndInv
<1>2. /\ waiters' \in [Asks -> SUBSET Asks] /\ waiters'[e] = {}
      /\ \A f \in Asks \ {e} : waiters'[f] = waiters[f]
  BY <1>1, TypeParts DEF Resolve
<1>3. /\ result' \in [Asks -> {"none"} \union Terminal]
      /\ \A t \in Asks : (t \in waiters[e] => result'[t] = state) /\ (t \notin waiters[e] => result'[t] = result[t])
  BY <1>1, TypeParts DEF Resolve
<1>4. \A t \in Asks : t \in waiters[e] => entryOf[t] = e
  BY <1>1 DEF Registry
<1>5. row[e] # "none" /\ row[e] # "pending"
  BY DEF Terminal
<1>6. TypeOK'
  BY <1>1, <1>2, <1>3, TypeParts, TypesTogether
<1>7. Registry'
  <2>1. \A f \in Asks : waiters'[f] \subseteq waiters[f]
    BY <1>2
  <2>2. \A t \in Asks : entryOf[t] = None => result'[t] = result[t]
    BY <1>3, <1>4, Constants
  <2> QED
    BY <1>1, <2>1, <2>2 DEF Registry
<1>8. Progressing'
  BY <1>1, <1>2, <1>5 DEF Progressing
<1>9. Decided'
  <2>1. ASSUME NEW f \in Asks, decidedBy[f] # None
        PROVE  /\ command'[decidedBy[f]].phase # "idle" /\ command'[decidedBy[f]].rec = f
               /\ row[f] \in {command'[decidedBy[f]].decision, "deleted"}
    <3>1. decidedBy[f] \in Commands
      BY <1>1, <2>1, TypeParts
    <3> QED
      BY <1>1, <2>1, <3>1 DEF Decided
  <2> QED
    BY <1>1, <2>1 DEF Decided
<1>10. Deciding'
  BY <1>1 DEF Deciding
<1>11. Told'
  <2>1. ASSUME NEW t \in Asks, t \in waiters[e]
        PROVE  result'[t] = state /\ entryOf[t] = e /\ phase[t] # "allowed"
    BY <1>1, <1>3, <1>4, <2>1 DEF Registry, Inside
  <2>2. \A f \in Asks : AllowedBy(f) => decidedBy[f] # None /\ command'[decidedBy[f]].decision = "allowed"
    BY <1>1, TypeParts DEF AllowedBy
  <2>3. ASSUME NEW t \in Asks
        PROVE  /\ result'[t] # "none" => row[entryOf[t]] \in {result'[t], "deleted"}
               /\ phase[t] = "allowed" \/ result'[t] = "allowed" => entryOf[t] \in Asks /\ AllowedBy(entryOf[t])
    <3>1. CASE t \in waiters[e]
      BY <2>1, <3>1
    <3>2. CASE t \notin waiters[e]
      BY <1>1, <1>3, <3>2 DEF Told
    <3> QED
      BY <3>1, <3>2
  <2> QED
    BY <2>2, <2>3 DEF Told, AllowedBy
<1>12. Refusals'
  <2>1. ASSUME NEW t \in refused PROVE result'[t] # "allowed"
    <3>1. t \in Asks /\ result[t] # "allowed" /\ row[entryOf[t]] = "deleted"
      BY <1>1, TypeParts DEF Refusals
    <3> QED
      BY <1>3, <1>4, <3>1
  <2> QED
    BY <1>1, <2>1 DEF Refusals
<1>13. Gate'
  <2>1. \A f \in Asks : waiters'[f] # {} => waiters[f] # {}
    BY <1>2
  <2>2. \A c \in Commands : command'[c].phase \in {"admitted", "decided"} => command[c].phase \in {"admitted", "decided"}
    OBVIOUS
  <2> QED
    BY <1>1, <2>1, <2>2 DEF Gate
<1>14. Owing'
  <2>1. owed["capture"] = {} => owed'["capture"] = {}
    BY <1>1, TypeParts DEF Cancelers
  <2>2. owed["shutdown"] = {} => owed'["shutdown"] = {}
    BY <1>1, TypeParts DEF Cancelers
  <2> QED
    BY <1>1, <2>1, <2>2 DEF Owing
<1>15. NobodyStranded'
  <2>1. ASSUME NEW f \in Asks, waiters'[f] # {}, row[f] \in Terminal \union {"deleted"}
        PROVE  \/ \E c \in Commands : command'[c].rec = f /\
                      (command'[c].phase = "decided" \/ (decidedBy[f] = c /\ command'[c].phase # "done"))
               \/ \E x \in Cancelers : f \in owed'[x]
               \/ clear = "committed"
    <3>1. f # e /\ waiters[f] # {}
      BY <1>2, <2>1
    <3> QED
      BY <1>1, <2>1, <3>1 DEF NobodyStranded
  <2> QED
    BY <2>1 DEF NobodyStranded
<1>16. PendingHasAudience' /\ CountsReadable'
  BY <1>1, <1>2, <1>5 DEF PendingHasAudience, CountsReadable
<1> QED
  BY <1>6, <1>7, <1>8, <1>9, <1>10, <1>11, <1>12, <1>13, <1>14, <1>15, <1>16 DEF IndInv

LEMMA PublishDecisionKeeps ==
    ASSUME IndInv, NEW c \in Commands, PublishDecision(c)
    PROVE  IndInv'
<1> DEFINE e == command[c].rec
<1>1. UNCHANGED <<phase, entryOf, ready, row, lapsed, requestCount, waiterCount, decidedBy,
                  clear, stale, capture, closing, shutdown, owed, orphaned, refused, restarts>>
  BY DEF PublishDecision, askVars, rowVars, endVars, historyVars
<1>2. TypeOK /\ Decided /\ Deciding
  BY DEF IndInv
<1>3. /\ command[c].phase = "decided" /\ command' = [command EXCEPT ![c].phase = "done", ![c].got = "none"]
      /\ Resolve(e, command[c].got)
  BY DEF PublishDecision, CommandStep, Heard
<1>4. /\ command' \in [Commands -> CommandRecords]
      /\ \A d \in Commands \ {c} : command'[d] = command[d]
      /\ command'[c].phase = "done" /\ command'[c].got = "none"
      /\ command'[c].rec = command[c].rec /\ command'[c].decision = command[c].decision
  BY <1>2, <1>3, CommandMoves
<1>5. e \in Asks /\ command[c].got \in Terminal /\ row[e] = command[c].got
  BY <1>2, <1>3 DEF Deciding
<1>6. row[e] = "allowed" => AllowedBy(e)
  BY <1>2, <1>5 DEF Decided, AllowedBy
<1>7. owed' \in [Cancelers -> SUBSET Asks]
  BY <1>1, <1>2, TypeParts
<1> QED
  BY <1>1, <1>3, <1>4, <1>5, <1>6, <1>7, ResolveKeeps

LEMMA ResolveCanceledKeeps ==
    ASSUME IndInv, NEW x \in Cancelers, NEW e \in Asks, ResolveCanceled(x, e)
    PROVE  IndInv'
<1>1. UNCHANGED <<phase, entryOf, ready, row, lapsed, requestCount, waiterCount, decidedBy, command,
                  clear, stale, capture, closing, shutdown, orphaned, refused, restarts>>
  BY DEF ResolveCanceled, askVars, rowVars, historyVars
<1>2. TypeOK /\ Owing
  BY DEF IndInv
<1>3. e \in owed[x] /\ owed' = [owed EXCEPT ![x] = @ \ {e}] /\ Resolve(e, "canceled")
  BY DEF ResolveCanceled
<1>4. row[e] \in {"canceled", "deleted"}
  BY <1>2, <1>3 DEF Owing
<1>5. command' \in [Commands -> CommandRecords]
  BY <1>1, <1>2, TypeParts
<1>6. /\ owed' \in [Cancelers -> SUBSET Asks]
      /\ \A y \in Cancelers : owed'[y] \subseteq owed[y] /\ owed[y] \subseteq owed'[y] \union {e}
  BY <1>2, <1>3, TypeParts
<1>7. "canceled" \in Terminal
  BY DEF Terminal
<1> QED
  BY <1>1, <1>3, <1>4, <1>5, <1>6, <1>7, ResolveKeeps

-----------------------------------------------------------------------------
(* Cancelers, clearing and restarts                                        *)

LEMMA CancelRowsKeep ==
    ASSUME IndInv, NEW x \in Cancelers, NEW S \in SUBSET Asks, CancelRows(x, S), owed[x] = {},
           UNCHANGED <<phase, entryOf, waiters, ready, result, lapsed, requestCount, waiterCount, decidedBy,
                       command, clear, stale, closing, orphaned, refused, restarts>>,
           \/ /\ x = "capture" /\ S = Owned
              /\ capture' = "canceling" /\ shutdown' = shutdown
           \/ /\ x = "shutdown" /\ capture' = capture
              /\ shutdown = "closing" /\ shutdown' = "canceling"
    PROVE  IndInv'
<1>1. /\ TypeOK /\ Registry /\ Progressing /\ Decided /\ Deciding /\ Told /\ Refusals /\ Gate /\ Owing
      /\ PendingHasAudience /\ NobodyStranded /\ CountsReadable
  BY DEF IndInv
<1> DEFINE P == {e \in S : row[e] = "pending"}
<1>2. /\ row' \in [Asks -> RowStates]
      /\ \A e \in Asks : (e \in P => row'[e] = "canceled") /\ (e \notin P => row'[e] = row[e])
  <2>1. row' = [e \in Asks |-> IF e \in P THEN "canceled" ELSE row[e]]
    BY DEF CancelRows
  <2> HIDE DEF P
  <2> QED
    BY <1>1, <2>1, TypeParts DEF RowStates
<1>3. Settling
  BY <1>2 DEF Settling
<1>4. owed' \in [Cancelers -> SUBSET Asks] /\ owed'[x] = P /\ \A y \in Cancelers \ {x} : owed'[y] = owed[y]
  <2>1. owed' = [owed EXCEPT ![x] = P] /\ P \in SUBSET Asks
    BY DEF CancelRows
  <2> HIDE DEF P
  <2> QED
    BY <1>1, <2>1, TypeParts
<1>5. TypeOK'
  <2>1. /\ capture' \in {"active", "revoked", "canceling", "canceled"}
        /\ shutdown' \in {"idle", "closing", "canceling", "returned", "gaveUp"}
    BY <1>1, TypeParts
  <2> QED
    BY <1>1, <1>2, <1>4, <2>1, TypeParts, TypesTogether
<1>6. Registry' /\ Progressing' /\ Decided' /\ Deciding'
  BY <1>1, <1>3, RegistryStays, ProgressingStays, DecidedStays, DecidingStays
<1>7. Told' /\ Refusals'
  <2>1. \A w \in refused : result'[w] # "allowed" /\ phase'[w] \in {"waiting", "leaving", "rejected", "lost"}
    BY <1>1 DEF Refusals
  <2>2. Refusals'
    BY <1>1, <1>3, <2>1, RefusalsStay
  <2>3. Told'
    BY <1>1, <1>3, ToldStays
  <2> QED
    BY <2>2, <2>3
<1>8. Gate'
  BY <1>1, <1>3, GateStays
<1>9. Owing'
  <2>1. ASSUME NEW y \in Cancelers, NEW e \in owed'[y] PROVE row'[e] \in {"canceled", "deleted"}
    <3>1. e \in Asks
      BY <1>4
    <3>2. CASE y = x
      BY <3>1, <3>2, <1>2, <1>4
    <3>3. CASE y # x
      <4>1. e \in owed[y] /\ row[e] \in {"canceled", "deleted"}
        BY <3>3, <1>1, <1>4 DEF Owing
      <4> QED
        BY <3>1, <4>1, <1>3 DEF Settling
    <3> QED
      BY <3>2, <3>3
  <2>2. capture' # "canceling" => owed'["capture"] = {}
    BY <1>1, <1>4 DEF Owing, Cancelers
  <2>3. shutdown' \in {"idle", "closing"} => owed'["shutdown"] = {}
    BY <1>1, <1>4 DEF Owing, Cancelers
  <2>4. capture' \in {"canceling", "canceled"} => \A e \in Owned : row'[e] # "pending"
    BY <1>1, <1>2, Constants DEF Owing
  <2>5. ~closing' => shutdown' = "idle"
    BY <1>1 DEF Owing
  <2>6. stale' \subseteq ToolIntents
    BY <1>1 DEF Owing
  <2> QED
    BY <2>1, <2>2, <2>3, <2>4, <2>5, <2>6 DEF Owing
<1>10. NobodyStranded'
  <2>1. ASSUME NEW f \in Asks, waiters[f] # {}, row'[f] \in Terminal \union {"deleted"}
        PROVE  \/ \E c \in Commands : command[c].rec = f /\
                      (command[c].phase = "decided" \/ (decidedBy[f] = c /\ command[c].phase # "done"))
               \/ \E y \in Cancelers : f \in owed'[y]
               \/ clear = "committed"
    <3>1. CASE f \in P
      BY <3>1, <1>4
    <3>2. CASE f \notin P
      <4>1. row'[f] = row[f]
        BY <3>2, <1>2
      <4>2. \A y \in Cancelers : f \in owed[y] => f \in owed'[y]
        BY <1>4
      <4> QED
        BY <1>1, <2>1, <4>1, <4>2 DEF NobodyStranded
    <3> QED
      BY <3>1, <3>2
  <2> QED
    BY <2>1 DEF NobodyStranded
<1>11. PendingHasAudience' /\ CountsReadable'
  <2>1. \A f \in Asks : row'[f] = "pending" => row[f] = "pending"
    BY <1>3 DEF Settling
  <2> QED
    BY <1>1, <2>1 DEF PendingHasAudience, CountsReadable
<1> QED
  BY <1>5, <1>6, <1>7, <1>8, <1>9, <1>10, <1>11 DEF IndInv

LEMMA CancelCaptureApprovalsKeeps ==
    ASSUME IndInv, CancelCaptureApprovals
    PROVE  IndInv'
<1>1. UNCHANGED <<phase, entryOf, waiters, ready, result, lapsed, requestCount, waiterCount, decidedBy,
                  command, clear, stale, closing, shutdown, orphaned, refused, restarts>>
  BY DEF CancelCaptureApprovals, askVars, registryVars, historyVars
<1>2. capture = "revoked" /\ capture' = "canceling" /\ CancelRows("capture", Owned)
  BY DEF CancelCaptureApprovals
<1>3. owed["capture"] = {}
  BY <1>2 DEF IndInv, Owing
<1>4. "capture" \in Cancelers /\ Owned \in SUBSET Asks
  BY Constants DEF Cancelers
<1> QED
  BY <1>1, <1>2, <1>3, <1>4, CancelRowsKeep

LEMMA CancelPendingKeeps ==
    ASSUME IndInv, CancelPending
    PROVE  IndInv'
<1>1. CASE UNCHANGED <<row, owed>>
  BY <1>1, ShutdownKeeps
<1>2. CASE CancelRows("shutdown", Asks)
  <2>1. UNCHANGED <<phase, entryOf, waiters, ready, result, lapsed, requestCount, waiterCount, decidedBy,
                    command, clear, stale, capture, closing, orphaned, refused, restarts>>
    BY DEF CancelPending, askVars, registryVars, historyVars
  <2>2. shutdown = "closing" /\ shutdown' = "canceling"
    BY DEF CancelPending
  <2>3. owed["shutdown"] = {}
    BY <2>2 DEF IndInv, Owing
  <2>4. "shutdown" \in Cancelers /\ Asks \in SUBSET Asks
    BY DEF Cancelers
  <2> QED
    BY <1>2, <2>1, <2>2, <2>3, <2>4, CancelRowsKeep
<1> QED
  BY <1>1, <1>2 DEF CancelPending

LEMMA CommitClearKeeps ==
    ASSUME IndInv, CommitClear
    PROVE  IndInv'
<1>1. UNCHANGED <<phase, entryOf, waiters, ready, result, lapsed, requestCount, waiterCount, decidedBy, command,
                  capture, closing, shutdown, owed, orphaned, restarts>>
  BY DEF CommitClear, askVars, registryVars
<1>2. /\ clear = "held" /\ clear' = "committed"
      /\ row' = [e \in Asks |-> IF row[e] = "none" THEN "none" ELSE "deleted"]
      /\ stale' = {w \in ToolIntents : phase[w] # "idle"}
      /\ refused' = {w \in Asks : phase[w] \notin Outcomes \union {"idle", "begun"} /\ result[w] = "none"}
  BY DEF CommitClear
<1>3. /\ TypeOK /\ Registry /\ Progressing /\ Decided /\ Deciding /\ Told /\ Refusals /\ Gate /\ Owing
      /\ PendingHasAudience /\ NobodyStranded /\ CountsReadable
  BY DEF IndInv
<1>4. /\ row' \in [Asks -> RowStates]
      /\ \A e \in Asks : (row[e] = "none" => row'[e] = "none") /\ (row[e] # "none" => row'[e] = "deleted")
  BY <1>2 DEF RowStates
<1>5. /\ \A w \in Asks : phase[w] \notin Holding
      /\ \A c \in Commands : command[c].phase \notin {"admitted", "decided"}
  BY <1>2, <1>3 DEF Gate
<1>6. TypeOK'
  <2>1. stale' \subseteq Asks /\ refused' \subseteq Asks
    BY <1>2, Constants
  <2>2. clear' \in {"idle", "waiting", "held", "committed", "done"}
    BY <1>2
  <2> QED
    BY <1>1, <1>3, <1>4, <2>1, <2>2, TypeParts, TypesTogether
<1>7. \A t \in Asks : phase[t] \in {"waiting", "leaving"} => entryOf[t] \in Asks /\ row[entryOf[t]] # "none"
  BY <1>3, HasEntry DEF Early, Progressing
<1>8. Registry' /\ Progressing'
  BY <1>1, <1>3, <1>4, <1>7 DEF Registry, Progressing
<1>9. Decided' /\ Deciding'
  <2>1. \A e \in Asks : decidedBy[e] # None => row[e] # "none"
    BY <1>3, TypeParts DEF Decided, CommandRecords
  <2>2. Decided'
    BY <1>1, <1>3, <1>4, <2>1 DEF Decided
  <2>3. Deciding'
    BY <1>1, <1>3, <1>4, <1>5 DEF Deciding
  <2> QED
    BY <2>2, <2>3
<1>10. Told'
  <2>1. \A t \in Asks : result[t] # "none" => entryOf[t] \in Asks /\ row[entryOf[t]] # "none"
    BY <1>3, TypeParts DEF Told, Registry
  <2> QED
    BY <1>1, <1>3, <1>4, <2>1 DEF Told, AllowedBy
<1>11. Refusals'
  <2>1. ASSUME NEW t \in refused' PROVE t \in Asks /\ phase[t] \in {"waiting", "leaving"} /\ result[t] = "none"
    <3>1. t \in Asks /\ phase[t] \notin Outcomes \union {"idle", "begun"} /\ result[t] = "none"
      BY <1>2
    <3>2. phase[t] \in AskPhases /\ phase[t] \notin Holding
      BY <1>3, <1>5, <3>1, TypeParts
    <3> QED
      BY <3>1, <3>2 DEF AskPhases, Outcomes, Holding
  <2> QED
    BY <1>1, <1>4, <1>7, <2>1 DEF Refusals
<1>12. Gate'
  BY <1>1, <1>2, <1>4, <1>5 DEF Gate
<1>13. Owing'
  <2>1. \A x \in Cancelers : \A e \in owed[x] : e \in Asks /\ row[e] # "none"
    BY <1>3, TypeParts DEF Owing
  <2>2. \A e \in Asks : row'[e] # "pending"
    BY <1>4
  <2>3. stale' \subseteq ToolIntents
    BY <1>2
  <2> QED
    BY <1>1, <1>3, <1>4, <2>1, <2>2, <2>3, Constants DEF Owing
<1>14. NobodyStranded' /\ PendingHasAudience' /\ CountsReadable'
  BY <1>1, <1>2, <1>3, <1>4 DEF NobodyStranded, PendingHasAudience, CountsReadable
<1> QED
  BY <1>6, <1>8, <1>9, <1>10, <1>11, <1>12, <1>13, <1>14 DEF IndInv

LEMMA CompleteClearKeeps ==
    ASSUME IndInv, CompleteClear
    PROVE  IndInv'
<1>1. UNCHANGED <<phase, entryOf, ready, row, lapsed, requestCount, waiterCount, decidedBy, command,
                  stale, capture, closing, shutdown, owed, orphaned, refused, restarts>>
  BY DEF CompleteClear, askVars, rowVars, historyVars
<1>2. /\ clear = "committed" /\ clear' = "done" /\ waiters' = [e \in Asks |-> {}]
      /\ result' = [w \in Asks |-> IF \E e \in Asks : w \in waiters[e] THEN "canceled" ELSE result[w]]
  BY DEF CompleteClear, Cleared
<1>3. /\ TypeOK /\ Registry /\ Progressing /\ Decided /\ Deciding /\ Told /\ Refusals /\ Gate /\ Owing
      /\ PendingHasAudience /\ NobodyStranded /\ CountsReadable
  BY DEF IndInv
<1>4. /\ \A w \in Asks : phase[w] \notin Holding
      /\ \A e \in Asks : row[e] \in {"none", "deleted"}
  BY <1>2, <1>3 DEF Gate
<1>5. waiters' \in [Asks -> SUBSET Asks] /\ \A e \in Asks : waiters'[e] = {}
  BY <1>2
<1>6. /\ result' \in [Asks -> {"none"} \union Terminal]
      /\ \A t \in Asks : result'[t] = result[t] \/ (result'[t] = "canceled" /\ \E e \in Asks : t \in waiters[e])
  BY <1>2, <1>3, TypeParts DEF Terminal
<1>7. TypeOK'
  <2>1. clear' \in {"idle", "waiting", "held", "committed", "done"}
    BY <1>2
  <2> QED
    BY <1>1, <1>3, <1>5, <1>6, <2>1, TypeParts, TypesTogether
<1>8. Registry'
  <2>1. \A t \in Asks : entryOf[t] = None => result'[t] = result[t]
    BY <1>3, <1>6, Constants DEF Registry
  <2> QED
    BY <1>1, <1>3, <1>5, <2>1 DEF Registry
<1>9. Progressing'
  BY <1>1, <1>3, <1>4 DEF Progressing, Holding
<1>10. Decided' /\ Deciding'
  BY <1>1, <1>3 DEF Decided, Deciding
<1>11. Told'
  <2>1. ASSUME NEW t \in Asks, NEW e \in Asks, t \in waiters[e]
        PROVE  row[entryOf[t]] = "deleted" /\ entryOf[t] \in Asks
    <3>1. entryOf[t] = e /\ phase[t] \in Inside
      BY <1>3, <2>1 DEF Registry
    <3>2. phase[t] = "waiting"
      BY <1>4, <3>1 DEF Inside, Holding
    <3> QED
      BY <1>3, <1>4, <3>1, <3>2 DEF Progressing
  <2> QED
    BY <1>1, <1>3, <1>6, <2>1 DEF Told, AllowedBy
<1>12. Refusals'
  <2>1. \A t \in refused : t \in Asks
    BY <1>3, TypeParts
  <2> QED
    BY <1>1, <1>3, <1>6, <2>1 DEF Refusals
<1>13. Gate'
  BY <1>2, <1>5 DEF Gate
<1>14. Owing' /\ CountsReadable'
  BY <1>1, <1>3, OwingStill, CountsStill
<1>15. NobodyStranded' /\ PendingHasAudience'
  BY <1>1, <1>4, <1>5 DEF NobodyStranded, PendingHasAudience
<1> QED
  BY <1>7, <1>8, <1>9, <1>10, <1>11, <1>12, <1>13, <1>14, <1>15 DEF IndInv

LEMMA RestartKeeps ==
    ASSUME IndInv, Restart
    PROVE  IndInv'
<1>1. UNCHANGED <<entryOf, lapsed, requestCount, waiterCount, decidedBy, stale, refused>>
  BY DEF Restart
<1>2. /\ TypeOK /\ Registry /\ Progressing /\ Decided /\ Deciding /\ Told /\ Refusals /\ Gate /\ Owing
      /\ PendingHasAudience /\ NobodyStranded /\ CountsReadable
  BY DEF IndInv
<1>3. /\ phase' \in [Asks -> AskPhases]
      /\ \A w \in Asks : (phase'[w] = phase[w] /\ phase[w] \in Outcomes \union {"idle"}) \/ phase'[w] = "lost"
  <2>1. phase' = [w \in Asks |-> IF phase[w] \in Outcomes \union {"idle"} THEN phase[w] ELSE "lost"]
    BY DEF Restart
  <2> QED
    BY <1>2, <2>1, TypeParts DEF AskPhases, Outcomes
<1>4. /\ waiters' \in [Asks -> SUBSET Asks] /\ ready' \in [Asks -> {"no", "created", "failed"}]
      /\ result' \in [Asks -> {"none"} \union Terminal]
      /\ \A e \in Asks : waiters'[e] = {} /\ ready'[e] = "no" /\ result'[e] = "none"
  BY DEF Restart
<1>5. /\ row' \in [Asks -> RowStates] /\ Settling /\ \A e \in Asks : row'[e] # "pending"
  <2>1. row' = [e \in Asks |-> IF row[e] = "pending" THEN "canceled" ELSE row[e]]
    BY DEF Restart
  <2> QED
    BY <1>2, <2>1, TypeParts DEF RowStates, Settling
<1>6. /\ command' \in [Commands -> CommandRecords]
      /\ \A c \in Commands : /\ command'[c].rec = command[c].rec /\ command'[c].decision = command[c].decision
                             /\ command'[c].phase \notin {"admitted", "decided"}
                             /\ command'[c].phase # "idle" <=> command[c].phase # "idle"
  <2>1. command' = [c \in Commands |-> IF command[c].phase \in {"admitted", "decided"}
                                       THEN [command[c] EXCEPT !.phase = "unheard", !.got = "none"]
                                       ELSE command[c]]
    BY DEF Restart
  <2>2. ASSUME NEW c \in Commands
        PROVE  /\ command'[c] \in CommandRecords
               /\ command'[c].rec = command[c].rec /\ command'[c].decision = command[c].decision
               /\ command'[c].phase \notin {"admitted", "decided"}
               /\ command'[c].phase # "idle" <=> command[c].phase # "idle"
    <3>1. command[c] \in CommandRecords
      BY <1>2, TypeParts
    <3>2. CASE command[c].phase \in {"admitted", "decided"}
      <4>1. command'[c] = [phase |-> "unheard", rec |-> command[c].rec, decision |-> command[c].decision, got |-> "none"]
        BY <2>1, <3>1, <3>2 DEF CommandRecords
      <4> QED
        BY <3>1, <3>2, <4>1 DEF CommandRecords
    <3>3. CASE command[c].phase \notin {"admitted", "decided"}
      BY <2>1, <3>1, <3>3
    <3> QED
      BY <3>2, <3>3
  <2>3. command' \in [Commands -> CommandRecords]
    BY <2>1, <2>2
  <2> QED
    BY <2>2, <2>3
<1>7. /\ clear' \in {"idle", "done"} /\ orphaned' = {} /\ closing' = FALSE /\ shutdown' = "idle"
      /\ restarts' = restarts + 1 /\ restarts < MaxRestarts
  BY DEF Restart
<1>8. owed' \in [Cancelers -> SUBSET Asks] /\ \A x \in Cancelers : owed'[x] = {}
  BY DEF Restart
<1>9. capture' \in {"active", "revoked", "canceled"} /\ (capture' = "canceled" => capture = "canceled")
  BY <1>2, TypeParts DEF Restart
<1>10. TypeOK'
  <2>1. restarts' \in 0..MaxRestarts
    <3>1. restarts \in 0..MaxRestarts
      BY <1>2, TypeParts
    <3> QED
      BY <3>1, <1>7, Constants
  <2>2. /\ clear' \in {"idle", "waiting", "held", "committed", "done"} /\ orphaned' \subseteq Asks
        /\ closing' \in BOOLEAN /\ shutdown' \in {"idle", "closing", "canceling", "returned", "gaveUp"}
        /\ capture' \in {"active", "revoked", "canceling", "canceled"}
    BY <1>7, <1>9
  <2> QED
    BY <1>1, <1>2, <1>3, <1>4, <1>5, <1>6, <1>8, <2>1, <2>2, TypeParts, TypesTogether
<1>11. Registry'
  <2>1. \A t \in Asks : row[t] = "none" => row'[t] = "none"
    BY <1>5 DEF Settling
  <2> QED
    BY <1>1, <1>2, <1>3, <1>4, <2>1 DEF Registry, Early, Outcomes
<1>12. Progressing'
  BY <1>3, <1>4 DEF Progressing, Outcomes
<1>13. Decided' /\ Deciding'
  <2>1. ASSUME NEW e \in Asks
        PROVE  /\ decidedBy[e] # None => /\ command'[decidedBy[e]].phase # "idle" /\ command'[decidedBy[e]].rec = e
                                         /\ row'[e] \in {command'[decidedBy[e]].decision, "deleted"}
               /\ row'[e] \in {"allowed", "denied"} => decidedBy[e] # None
    <3>1. decidedBy[e] # None => decidedBy[e] \in Commands /\ row[e] # "pending"
      BY <1>2, TypeParts DEF Decided, CommandRecords
    <3> QED
      BY <1>2, <1>5, <1>6, <3>1 DEF Decided, Settling
  <2>2. \A e \in Asks : row[e] # "none" => row'[e] # "none"
    BY <1>5 DEF Settling
  <2>3. Deciding'
    BY <1>2, <1>6, <2>2 DEF Deciding
  <2>4. Decided'
    BY <1>1, <2>1 DEF Decided
  <2> QED
    BY <2>3, <2>4
<1>14. Told'
  <2>1. \A e \in Asks : AllowedBy(e) => decidedBy[e] # None /\ command'[decidedBy[e]].decision = "allowed"
    BY <1>2, <1>6, TypeParts DEF AllowedBy
  <2>2. \A t \in Asks : result'[t] = "none" /\ (phase'[t] = "allowed" => phase[t] = "allowed")
    BY <1>3, <1>4
  <2> QED
    BY <1>1, <1>2, <2>1, <2>2 DEF Told, AllowedBy
<1>15. Refusals'
  <2>1. ASSUME NEW t \in refused
        PROVE  result'[t] # "allowed" /\ phase'[t] \in {"waiting", "leaving", "rejected", "lost"}
    BY <1>2, <1>3, <1>4, TypeParts DEF Refusals
  <2> QED
    BY <1>1, <1>2, <1>5, <2>1, RefusalsStay
<1>16. Gate'
  BY <1>4, <1>7 DEF Gate
<1>17. Owing'
  BY <1>1, <1>2, <1>5, <1>7, <1>8, <1>9, Constants DEF Owing, Cancelers
<1>18. NobodyStranded' /\ PendingHasAudience' /\ CountsReadable'
  BY <1>1, <1>2, <1>4, <1>5 DEF NobodyStranded, PendingHasAudience, CountsReadable
<1> QED
  BY <1>10, <1>11, <1>12, <1>13, <1>14, <1>15, <1>16, <1>17, <1>18 DEF IndInv

-----------------------------------------------------------------------------
(* The invariant and what it means                                         *)

LEMMA InitInv == Init => IndInv
<1> SUFFICES ASSUME Init PROVE IndInv
  OBVIOUS
<1>1. TypeOK
  <2>1. NoCommand \in CommandRecords
    BY DEF NoCommand, CommandRecords
  <2>2. /\ phase \in [Asks -> AskPhases] /\ entryOf \in [Asks -> Asks \union {None}]
        /\ waiters \in [Asks -> SUBSET Asks] /\ ready \in [Asks -> {"no", "created", "failed"}]
        /\ result \in [Asks -> {"none"} \union Terminal] /\ row \in [Asks -> RowStates]
    BY DEF Init, AskPhases, RowStates
  <2>3. /\ lapsed \subseteq Asks /\ stale \subseteq Asks
        /\ requestCount \in [Asks -> Int] /\ waiterCount \in [Asks -> Int]
        /\ decidedBy \in [Asks -> Commands \union {None}] /\ owed \in [Cancelers -> SUBSET Asks]
        /\ orphaned \subseteq Asks /\ refused \subseteq Asks /\ restarts \in 0..MaxRestarts
    BY Constants DEF Init
  <2>4. command \in [Commands -> CommandRecords]
    BY <2>1 DEF Init
  <2>5. /\ clear \in {"idle", "waiting", "held", "committed", "done"}
        /\ capture \in {"active", "revoked", "canceling", "canceled"}
        /\ closing \in BOOLEAN
        /\ shutdown \in {"idle", "closing", "canceling", "returned", "gaveUp"}
    BY DEF Init
  <2> QED
    BY <2>2, <2>3, <2>4, <2>5, Zenon DEF TypeOK, CommandRecords
<1>2. Registry /\ Progressing
  BY DEF Init, Registry, Progressing, Early
<1>3. Decided /\ Deciding
  BY DEF Init, Decided, Deciding, NoCommand
<1>4. Told /\ Refusals /\ Gate
  BY DEF Init, Told, Refusals, Gate
<1>5. Owing
  BY DEF Init, Owing, Cancelers
<1>6. PendingHasAudience /\ NobodyStranded /\ CountsReadable
  BY DEF Init, PendingHasAudience, NobodyStranded, CountsReadable
<1> QED
  BY <1>1, <1>2, <1>3, <1>4, <1>5, <1>6 DEF IndInv

LEMMA NextKeeps ==
    ASSUME IndInv, [Next]_vars
    PROVE  IndInv'
<1>1. CASE UNCHANGED vars
  BY <1>1, SMTT(30) DEF vars, askVars, registryVars, rowVars, endVars, historyVars, IndInv, TypeOK, Registry, Progressing,
              Decided, Deciding, Told, AllowedBy, Refusals, Gate, Owing, PendingHasAudience, NobodyStranded,
              CountsReadable
<1>2. ASSUME NEW w \in Asks,
             \/ Begin(w) \/ AcquirePublication(w) \/ GiveUp(w) \/ Register(w) \/ Create(w)
             \/ Publish(w) \/ PublishFailure(w) \/ JoinerRejected(w) \/ JoinerWaits(w)
             \/ Receive(w) \/ Depart(w) \/ Withdraw(w) \/ Lapse(w)
      PROVE  IndInv'
  BY <1>2, ArrivalKeeps, RegisterKeeps, CreateKeeps, PublishKeeps, DepartureKeeps, JoinerWaitsKeeps, WithdrawKeeps,
     LapseKeeps
<1>3. ASSUME NEW c \in Commands, BeginDecision(c) \/ Decide(c) \/ PublishDecision(c) \/ RememberFails(c)
      PROVE  IndInv'
  BY <1>3, BeginDecisionKeeps, DecideKeeps, PublishDecisionKeeps, RememberFailsKeeps
<1>4. CASE RevokeCapture \/ CancelCaptureApprovals \/ CaptureCanceled
  BY <1>4, CaptureKeeps, CancelCaptureApprovalsKeeps
<1>5. ASSUME NEW x \in Cancelers, NEW e \in Asks, ResolveCanceled(x, e) PROVE IndInv'
  BY <1>5, ResolveCanceledKeeps
<1>6. CASE WantClear \/ AcquireClear \/ ClearGivesUp \/ CommitClear \/ ClearFails \/ CompleteClear
  BY <1>6, ClearMovesKeep, CommitClearKeeps, CompleteClearKeeps
<1>7. CASE CloseAuthority \/ CancelPending \/ ShutdownReturns \/ ShutdownGivesUp \/ Restart
  BY <1>7, ShutdownKeeps, CancelPendingKeeps, RestartKeeps
<1> QED
  BY <1>1, <1>2, <1>3, <1>4, <1>5, <1>6, <1>7 DEF Next

\* Every state of the approval authority satisfies the inductive invariant,
\* however many asks, commands and restarts there are.
THEOREM ToolApprovalInvariant == Spec => []IndInv
<1>1. Init => IndInv
  BY InitInv
<1>2. IndInv /\ [Next]_vars => IndInv'
  BY NextKeeps
<1> QED
  BY <1>1, <1>2, PTL DEF Spec

\* The columns keep their types and a row's counts stay readable, whoever joins,
\* leaves or is never counted in (RowsReadable).
THEOREM ToolApprovalRowsReadable == Spec => []RowsReadable
<1>1. IndInv => RowsReadable
  BY DEF IndInv, RowsReadable
<1> QED
  BY <1>1, ToolApprovalInvariant, PTL

\* No caller proceeds without a person's recorded Allow, nobody is told an answer
\* its row does not record, and nobody who waited at a clear is allowed after it.
THEOREM ToolApprovalAnswers == Spec => []AnswersAreDecisions
<1>1. IndInv => AnswersAreDecisions
  <2> SUFFICES ASSUME IndInv PROVE AnswersAreDecisions
    OBVIOUS
  <2>1. TypeOK /\ Told /\ Refusals
    BY DEF IndInv
  <2>2. NobodyWithoutAnAllow
    <3>1. ASSUME NEW w \in Asks, phase[w] = "allowed" \/ result[w] = "allowed"
          PROVE  decidedBy[entryOf[w]] \in Commands /\ command[decidedBy[entryOf[w]]].decision = "allowed"
      BY <2>1, <3>1, TypeParts DEF Told, AllowedBy
    <3> QED
      BY <3>1 DEF NobodyWithoutAnAllow
  <2>3. AnswersAreRecorded
    BY <2>1 DEF Told, AnswersAreRecorded
  <2>4. ClearedAreRefused
    BY <2>1 DEF Refusals, ClearedAreRefused
  <2> QED
    BY <2>2, <2>3, <2>4 DEF AnswersAreDecisions
<1> QED
  BY <1>1, ToolApprovalInvariant, PTL

\* Behind every pending row somebody waits or is on the way to cancel it, unless
\* that cancellation failed (departFrom).
THEOREM ToolApprovalAudience == Spec => []PendingHasAudience
<1>1. IndInv => PendingHasAudience
  BY DEF IndInv
<1> QED
  BY <1>1, ToolApprovalInvariant, PTL

\* A list on a settled row is owed the news by a command, a canceler or the clear.
THEOREM ToolApprovalNobodyStranded == Spec => []NobodyStranded
<1>1. IndInv => NobodyStranded
  BY DEF IndInv
<1> QED
  BY <1>1, ToolApprovalInvariant, PTL

\* When CancelCaptureApprovals has returned, no question of the Capture is pending.
THEOREM ToolApprovalRevokedIsQuiet == Spec => []RevokedCaptureIsQuiet
<1>1. IndInv => RevokedCaptureIsQuiet
  BY DEF IndInv, Owing, RevokedCaptureIsQuiet
<1> QED
  BY <1>1, ToolApprovalInvariant, PTL

-----------------------------------------------------------------------------
(* Whoever holds a slot and waits for a row waits for its creator.         *)

\* The entry was published, or its creator is on the way to publish it.
Served(e) == ready[e] # "no" \/ phase[e] \in {"creating", "created", "failed"}

\* A caller that joins, with a publication slot in hand, is never left alone with
\* an entry that nobody will publish: join, publish and departFrom.
JoinersServed ==
    \A w \in Asks : phase[w] = "joining" => entryOf[w] \in Asks /\ Served(entryOf[w])

Serving == JoinersServed /\ \A e \in Asks : waiters[e] # {} => Served(e)

\* Steps that take no caller out of the creation of its row, and put none in a list.
LEMMA ServingStays ==
    ASSUME Serving, UNCHANGED <<entryOf, ready>>,
           \A e \in Asks : waiters'[e] # {} => waiters[e] # {},
           \A t \in Asks : /\ phase'[t] = "joining" => phase[t] = "joining"
                           /\ phase[t] \in {"creating", "created", "failed"} =>
                                  phase'[t] \in {"creating", "created", "failed"}
    PROVE  Serving'
  BY DEF Serving, JoinersServed, Served

\* A caller makes an entry, or joins one that has waiters.
LEMMA RegisterServes ==
    ASSUME IndInv, Serving, NEW w \in Asks, Register(w)
    PROVE  Serving'
<1>1. TypeOK
  BY DEF IndInv
<1>2. PICK e \in Asks : /\ e = w \/ waiters[e] # {}
                        /\ phase[w] = "admitted"
                        /\ phase' = [phase EXCEPT ![w] = IF e = w THEN "creating" ELSE "joining"]
                        /\ entryOf' = [entryOf EXCEPT ![w] = e]
                        /\ waiters' = [waiters EXCEPT ![e] = @ \union {w}]
                        /\ ready' = ready
  BY DEF Register, Step, OpenEntries
<1>3. Served(e)'
  BY <1>1, <1>2, TypeParts DEF Serving, Served
<1>4. \A t \in Asks \ {w} : Served(t) => Served(t)'
  BY <1>1, <1>2, TypeParts DEF Served
<1>5. \A t \in Asks : t # w => phase'[t] = phase[t] /\ entryOf'[t] = entryOf[t]
  BY <1>1, <1>2, TypeParts
<1>6. /\ entryOf'[w] = e /\ (phase'[w] = "creating" => Served(w)')
      /\ ~Served(w) \/ ready[w] # "no"
      /\ \A t \in Asks : t # e => waiters'[t] = waiters[t]
  BY <1>1, <1>2, TypeParts DEF Served
<1>7. Served(w) => Served(w)'
  BY <1>2, <1>6 DEF Served
<1> QED
  BY <1>3, <1>4, <1>5, <1>6, <1>7 DEF Serving, JoinersServed

\* The creator publishes its row, or its failure.
LEMMA PublishServes ==
    ASSUME IndInv, Serving, NEW w \in Asks, Publish(w) \/ PublishFailure(w)
    PROVE  Serving'
<1>1. TypeOK
  BY DEF IndInv
<1>2. /\ phase' \in {[phase EXCEPT ![w] = "waiting"], [phase EXCEPT ![w] = "rejected"]}
      /\ ready' \in {[ready EXCEPT ![w] = "created"], [ready EXCEPT ![w] = "failed"]}
      /\ waiters' \in {waiters, Without(w)} /\ entryOf' = entryOf
  BY DEF Publish, PublishFailure, Step
<1>3. \A e \in Asks : waiters'[e] # {} => waiters[e] # {}
  BY <1>1, <1>2, TypeParts DEF Without
<1>4. \A e \in Asks : Served(e) => Served(e)'
  BY <1>1, <1>2, TypeParts DEF Served
<1>5. \A t \in Asks : phase'[t] = "joining" => phase[t] = "joining"
  BY <1>1, <1>2, TypeParts
<1> QED
  BY <1>2, <1>3, <1>4, <1>5 DEF Serving, JoinersServed

\* The other steps of a caller.
LEMMA CallerServes ==
    ASSUME IndInv, Serving, NEW w \in Asks,
           \/ Begin(w) \/ AcquirePublication(w) \/ GiveUp(w) \/ Create(w)
           \/ JoinerRejected(w) \/ JoinerWaits(w)
           \/ Receive(w) \/ Depart(w) \/ Withdraw(w) \/ Lapse(w)
    PROVE  Serving'
<1>1. TypeOK
  BY DEF IndInv
<1>2. /\ UNCHANGED <<entryOf, ready>> /\ waiters' \in {waiters, Without(w)}
      /\ \/ phase' = phase
         \/ \E to \in AskPhases :
                /\ phase' = [phase EXCEPT ![w] = to] /\ to # "joining"
                /\ phase[w] \in {"creating", "created", "failed"} => to \in {"created", "failed"}
  <2>1. CASE Begin(w) \/ AcquirePublication(w) \/ GiveUp(w)
    BY <2>1 DEF Begin, AcquirePublication, GiveUp, Step, registryVars, AskPhases, Outcomes
  <2>2. CASE Create(w)
    BY <2>2 DEF Create, Step, registryVars, AskPhases
  <2>3. CASE JoinerRejected(w) \/ JoinerWaits(w)
    BY <2>3 DEF JoinerRejected, JoinerWaits, Step, registryVars, AskPhases, Outcomes
  <2>4. CASE Receive(w)
    BY <2>4 DEF Receive, Step, OutcomeOf, AskPhases, Outcomes
  <2>5. CASE Depart(w) \/ Withdraw(w)
    BY <2>5 DEF Depart, Withdraw, Step, registryVars, AskPhases, Outcomes
  <2>6. CASE Lapse(w)
    BY <2>6 DEF Lapse, askVars, registryVars
  <2> QED
    BY <2>1, <2>2, <2>3, <2>4, <2>5, <2>6
<1>3. \A e \in Asks : waiters'[e] # {} => waiters[e] # {}
  BY <1>1, <1>2, TypeParts DEF Without
<1>4. \A t \in Asks : /\ phase'[t] = "joining" => phase[t] = "joining"
                      /\ phase[t] \in {"creating", "created", "failed"} =>
                            phase'[t] \in {"creating", "created", "failed"}
  <2>1. CASE phase' = phase
    BY <2>1
  <2>2. ASSUME NEW to \in AskPhases, phase' = [phase EXCEPT ![w] = to], to # "joining",
               phase[w] \in {"creating", "created", "failed"} => to \in {"created", "failed"}
        PROVE  \A t \in Asks : /\ phase'[t] = "joining" => phase[t] = "joining"
                               /\ phase[t] \in {"creating", "created", "failed"} =>
                                     phase'[t] \in {"creating", "created", "failed"}
    BY <1>1, <2>2, PhaseMoves
  <2> QED
    BY <1>2, <2>1, <2>2
<1>5. UNCHANGED <<entryOf, ready>>
  BY <1>2
<1> QED
  BY <1>3, <1>4, <1>5, ServingStays

\* Every step.
LEMMA NextServes ==
    ASSUME IndInv, Serving, [Next]_vars
    PROVE  Serving'
<1> USE DEF askVars, registryVars
<1>1. TypeOK
  BY DEF IndInv
<1>2. CASE UNCHANGED vars
  BY <1>2, ServingStays DEF vars
<1>3. ASSUME NEW w \in Asks,
             \/ Begin(w) \/ AcquirePublication(w) \/ GiveUp(w) \/ Register(w) \/ Create(w)
             \/ Publish(w) \/ PublishFailure(w) \/ JoinerRejected(w) \/ JoinerWaits(w)
             \/ Receive(w) \/ Depart(w) \/ Withdraw(w) \/ Lapse(w)
      PROVE  Serving'
  BY <1>3, RegisterServes, PublishServes, CallerServes
<1>4. ASSUME NEW c \in Commands, BeginDecision(c) \/ Decide(c) \/ RememberFails(c)
      PROVE  Serving'
  BY <1>4, ServingStays DEF BeginDecision, Decide, RememberFails
<1>5. ASSUME NEW c \in Commands, PublishDecision(c) PROVE Serving'
  <2>1. waiters' = [waiters EXCEPT ![command[c].rec] = {}] /\ UNCHANGED <<phase, entryOf, ready>>
    BY <1>5 DEF PublishDecision, Resolve
  <2>2. \A e \in Asks : waiters'[e] # {} => waiters[e] # {}
    BY <1>1, <2>1, TypeParts
  <2> QED
    BY <2>1, <2>2, ServingStays
<1>6. ASSUME NEW x \in Cancelers, NEW e \in Asks, ResolveCanceled(x, e) PROVE Serving'
  <2>1. waiters' = [waiters EXCEPT ![e] = {}] /\ UNCHANGED <<phase, entryOf, ready>>
    BY <1>6 DEF ResolveCanceled, Resolve
  <2>2. \A t \in Asks : waiters'[t] # {} => waiters[t] # {}
    BY <1>1, <2>1, TypeParts
  <2> QED
    BY <2>1, <2>2, ServingStays
<1>7. CASE RevokeCapture \/ CancelCaptureApprovals \/ CaptureCanceled
  BY <1>7, ServingStays DEF RevokeCapture, CancelCaptureApprovals, CaptureCanceled
<1>8. CASE WantClear \/ AcquireClear \/ ClearGivesUp \/ CommitClear \/ ClearFails
  BY <1>8, ServingStays DEF WantClear, AcquireClear, ClearGivesUp, CommitClear, ClearFails
<1>9. CASE CompleteClear
  <2>1. waiters' = [e \in Asks |-> {}] /\ UNCHANGED <<phase, entryOf, ready>>
    BY <1>9 DEF CompleteClear, Cleared
  <2> QED
    BY <2>1, ServingStays
<1>10. CASE CloseAuthority \/ CancelPending \/ ShutdownReturns \/ ShutdownGivesUp
  BY <1>10, ServingStays DEF CloseAuthority, CancelPending, ShutdownReturns, ShutdownGivesUp
<1>11. CASE Restart
  <2>1. /\ waiters' = [e \in Asks |-> {}]
        /\ phase' = [w \in Asks |-> IF phase[w] \in Outcomes \union {"idle"} THEN phase[w] ELSE "lost"]
    BY <1>11, Zenon DEF Restart
  <2>2. \A t \in Asks : phase'[t] # "joining"
    BY <2>1 DEF Outcomes
  <2> QED
    BY <2>1, <2>2 DEF Serving, JoinersServed
<1> QED
  BY <1>2, <1>3, <1>4, <1>5, <1>6, <1>7, <1>8, <1>9, <1>10, <1>11 DEF Next

\* No slot of the publication gate is kept by a caller that waits for nobody: who
\* joins an entry finds it published, or its creator about to publish it, however
\* decisions, cancellations, clears and restarts empty the lists in between. The
\* other holders of a slot wait for no other caller at all.
THEOREM ToolApprovalJoinersServed == Spec => []JoinersServed
<1>1. Init => Serving
  BY DEF Init, Serving, JoinersServed
<1>2. IndInv /\ Serving /\ [Next]_vars => Serving'
  BY NextServes
<1>3. Serving => JoinersServed
  BY DEF Serving
<1> QED
  BY <1>1, <1>2, <1>3, ToolApprovalInvariant, PTL DEF Spec

-----------------------------------------------------------------------------
\* A settled row is never written again: the person, the leaving waiters, the
\* Capture, shutdown and recovery all find it settled, and only clearing the
\* archive deletes it (TerminalIsFinal).
THEOREM ToolApprovalTerminalIsFinal == Spec => TerminalIsFinal
<1> DEFINE Final == \A e \in Asks : row[e] \in Terminal => row'[e] \in {row[e], "deleted"}
<1>1. ASSUME IndInv, [Next]_vars PROVE Final
  <2>1. row \in [Asks -> RowStates] /\ \A e \in Asks : row[e] \in Terminal => row[e] # "pending" /\ row[e] # "none"
    BY <1>1, TypeParts DEF IndInv, Terminal
  <2>2. CASE row' = row
    BY <2>2
  <2>3. ASSUME NEW w \in Asks, Create(w) PROVE Final
    <3>1. row[w] = "none"
      BY <1>1, <2>3 DEF IndInv, Progressing, Create, Step
    <3>2. row' = row \/ row' = [row EXCEPT ![w] = "pending"]
      BY <2>3 DEF Create
    <3> QED
      BY <2>1, <3>1, <3>2
  <2>4. ASSUME NEW w \in Asks, Withdraw(w) PROVE Final
    <3>1. row' = row \/ row' = [row EXCEPT ![entryOf[w]] = IF @ = "pending" THEN "canceled" ELSE @]
      BY <2>4 DEF Withdraw
    <3> QED
      BY <2>1, <3>1
  <2>5. ASSUME NEW c \in Commands, Decide(c) PROVE Final
    <3>1. CASE row' = row
      BY <3>1
    <3>2. CASE /\ MayDecide(command[c].rec)
               /\ row' = [row EXCEPT ![command[c].rec] =
                              IF OwnerActive(command[c].rec) THEN command[c].decision ELSE "canceled"]
      <4>1. row[command[c].rec] = "pending"
        BY <3>2 DEF MayDecide
      <4>2. \A e \in Asks : e # command[c].rec => row'[e] = row[e]
        BY <2>1, <3>2
      <4> QED
        BY <2>1, <4>1, <4>2
    <3> QED
      BY <2>5, <3>1, <3>2 DEF Decide, DecideRow
  <2>6. CASE CancelCaptureApprovals \/ CancelPending
    <3>1. \A e \in Asks : row'[e] = row[e] \/ row[e] = "pending"
      BY <2>6 DEF CancelCaptureApprovals, CancelPending, CancelRows
    <3> QED
      BY <2>1, <3>1
  <2>7. CASE CommitClear \/ Restart
    <3>1. \A e \in Asks : row'[e] \in {row[e], "deleted"} \/ row[e] = "pending"
      BY <2>7 DEF CommitClear, Restart
    <3> QED
      BY <2>1, <3>1
  <2>8. ASSUME NEW w \in Asks,
               \/ Begin(w) \/ AcquirePublication(w) \/ GiveUp(w) \/ Register(w)
               \/ Publish(w) \/ PublishFailure(w) \/ JoinerRejected(w) \/ JoinerWaits(w)
               \/ Receive(w) \/ Depart(w) \/ Lapse(w)
        PROVE  row' = row
    BY <2>8 DEF Begin, AcquirePublication, GiveUp, Register, Publish, PublishFailure, JoinerRejected, JoinerWaits,
                Receive, Depart, Lapse, rowVars
  <2>9. ASSUME NEW c \in Commands, BeginDecision(c) \/ PublishDecision(c) \/ RememberFails(c) PROVE row' = row
    BY <2>9 DEF BeginDecision, PublishDecision, RememberFails, rowVars
  <2>10. ASSUME \/ RevokeCapture \/ CaptureCanceled \/ WantClear \/ AcquireClear \/ ClearGivesUp \/ ClearFails
                \/ CompleteClear \/ CloseAuthority \/ ShutdownReturns \/ ShutdownGivesUp
                \/ (\E x \in Cancelers, e \in Asks : ResolveCanceled(x, e))
         PROVE  row' = row
    BY <2>10 DEF RevokeCapture, CaptureCanceled, WantClear, AcquireClear, ClearGivesUp, ClearFails, CompleteClear,
                 CloseAuthority, ShutdownReturns, ShutdownGivesUp, ResolveCanceled, rowVars
  <2>11. CASE UNCHANGED vars
    BY <2>11 DEF vars, rowVars
  <2> QED
    BY <1>1, <2>2, <2>3, <2>4, <2>5, <2>6, <2>7, <2>8, <2>9, <2>10, <2>11 DEF Next
<1>2. IndInv /\ [Next]_vars => [Final]_vars
  BY <1>1
<1> QED
  BY <1>2, ToolApprovalInvariant, PTL DEF Spec, TerminalIsFinal
=============================================================================
