------------------------ MODULE IngestPipelineProofs ------------------------
(***************************************************************************)
(* Theorems about IngestPipeline, for every set of workers, messages,      *)
(* threads and accounts.                                                   *)
(***************************************************************************)
EXTENDS IngestPipeline, FiniteSetTheorems, TLAPS

\* Thread id t is seeded by a message of owner o.
SeededBy(t, o) == \E x \in Event : HomeOf[x] = t /\ OwnerOf[x] = o

\* What the step a request is at says of its local state, and that the thread
\* it refers to is one its account seeds.
RequestOK(r) ==
    /\ r \in Request
    /\ r.pc \in {"similar", "insert", "group", "attach"} => r.event \in Event
    /\ r.pc \in {"attach", "read", "decide", "save", "record"} =>
         r.thread \in Thread
    /\ r.thread # NoThread /\ r.event # NoEvent =>
         SeededBy(r.thread, OwnerOf[r.event])
    /\ r.pc \in {"similar", "insert", "group"} => r.seen = {}
    /\ r.pc = "record" => r.decision \in Surfacing
    /\ \A e \in r.seen : SeededBy(r.thread, OwnerOf[e])

RequestInv == \A w \in Worker : RequestOK(req[w])

\* So does every reference to a thread in the tables.
OwnerInv ==
    /\ \A t \in Thread : opener[t] # NoEvent =>
          SeededBy(t, OwnerOf[opener[t]])
    /\ \A e \in Event : attached[e] # NoThread =>
          SeededBy(attached[e], OwnerOf[e])
    /\ \A t \in Thread : \A e \in card[t].covers : SeededBy(t, OwnerOf[e])

IInv == TypeOK /\ RequestInv /\ OwnerInv /\ NoDanglingRow

-----------------------------------------------------------------------------
(* A thread id belongs to one owner.                                       *)

LEMMA SeedUnique ==
    ASSUME NEW t, NEW o, NEW p, SeededBy(t, o), SeededBy(t, p)
    PROVE  o = p
  BY HomeAssumption DEF SeededBy

\* Grouping chooses a thread id of the account of the message.
LEMMA GroupTargetOwner ==
    ASSUME TypeOK, OwnerInv, NEW e \in Event, NEW t \in GroupTargets(e)
    PROVE  t \in Thread /\ SeededBy(t, OwnerOf[e])
  <1>1. CASE t \in CandidateThread(e)
    <2>1. t \in ConversationThreads(e) \/ t \in BurstThreads(e)
      BY <1>1 DEF CandidateThread, Newest
    <2>2. t \in Thread /\ opener[t] # NoEvent /\ opener[t] \in Event
      BY <2>1 DEF ConversationThreads, BurstThreads, ThreadExists, TypeOK
    <2>3. OwnerOf[opener[t]] = OwnerOf[e]
      BY <2>1, <2>2, HomeAssumption DEF ConversationThreads, BurstThreads
    <2>4. QED BY <2>2, <2>3 DEF OwnerInv
  <1>2. CASE t = HomeOf[e]
    BY <1>2, AttributeAssumption DEF SeededBy
  <1>3. QED BY <1>1, <1>2 DEF GroupTargets

\* The thread of an attached message was opened by its account.
LEMMA OpenerOwner ==
    ASSUME TypeOK, OwnerInv, NEW e \in Event, attached[e] # NoThread,
           ThreadExists(attached[e])
    PROVE  OwnerOf[opener[attached[e]]] = OwnerOf[e]
  <1>1. attached[e] \in Thread
    BY DEF TypeOK
  <1>2. SeededBy(attached[e], OwnerOf[opener[attached[e]]])
    BY <1>1 DEF OwnerInv, ThreadExists
  <1>3. SeededBy(attached[e], OwnerOf[e])
    BY DEF OwnerInv
  <1>4. QED BY <1>2, <1>3, SeedUnique

-----------------------------------------------------------------------------
(* Requests: every step leaves the request it runs in order.               *)

LEMMA IdleOK == RequestOK(Idle)
  BY EventAssumption DEF RequestOK, Idle, Request, Decision

LEMMA RequestStep ==
    ASSUME TypeOK, RequestInv, NEW w \in Worker, NEW r, RequestOK(r),
           req' = [req EXCEPT ![w] = r]
    PROVE  req' \in [Worker -> Request] /\ RequestInv'
  <1>1. req' \in [Worker -> Request]
    BY DEF TypeOK, RequestOK
  <1>2. ASSUME NEW v \in Worker PROVE RequestOK(req'[v])
    BY DEF TypeOK, RequestInv
  <1>3. QED BY <1>1, <1>2 DEF RequestInv

LEMMA FinishOK ==
    ASSUME TypeOK, RequestInv, NEW w \in Worker, Finish(w)
    PROVE  req' \in [Worker -> Request] /\ RequestInv'
  BY IdleOK, RequestStep DEF Finish

LEMMA RequestsInductive ==
    ASSUME IInv, [Next]_vars
    PROVE  req' \in [Worker -> Request] /\ RequestInv'
  <1> DEFINE Goal == req' \in [Worker -> Request] /\ RequestInv'
  <1> USE EventAssumption
  <1> TypeOK /\ RequestInv /\ OwnerInv
    BY DEF IInv
  <1> HIDE DEF Goal
  <1>1. ASSUME NEW w \in Worker, NEW e \in Event, Deliver(w, e) PROVE Goal
    <2> DEFINE r(b) == [Idle EXCEPT !.pc = "similar", !.event = e,
                                    !.archive = b]
    <2>1. (e \in Archived) \in BOOLEAN
      OBVIOUS
    <2>2. PICK b \in BOOLEAN : b = (e \in Archived)
      BY <2>1, Zenon
    <2>3. RequestOK(r(b))
      BY DEF RequestOK, Request, Decision, Step, Idle
    <2>4. req' = [req EXCEPT ![w] = r(b)]
      BY <1>1, <2>2, Zenon DEF Deliver
    <2>5. QED BY <2>3, <2>4, RequestStep DEF Goal
  <1>2. ASSUME NEW w \in Worker, NEW t \in Thread, AnalyzeArchive(w, t)
        PROVE Goal
    <2> DEFINE r == [Idle EXCEPT !.pc = "read", !.thread = t, !.archive = TRUE]
    <2>1. RequestOK(r)
      BY DEF RequestOK, Request, Decision, Step, Idle
    <2>2. req' = [req EXCEPT ![w] = r]
      BY <1>2 DEF AnalyzeArchive
    <2>3. QED BY <2>1, <2>2, RequestStep DEF Goal
  <1>3. ASSUME NEW w \in Worker, ReconcileSimilar(w) PROVE Goal
    <2> DEFINE r == [req[w] EXCEPT !.pc = "insert"]
    <2>1. RequestOK(r)
      BY <1>3 DEF ReconcileSimilar, RequestInv, RequestOK, Request, Step
    <2>2. Finish(w) \/ req' = [req EXCEPT ![w] = r]
      BY <1>3 DEF ReconcileSimilar
    <2>3. QED BY <2>1, <2>2, RequestStep, FinishOK DEF Goal
  <1>4. ASSUME NEW w \in Worker, InsertEvent(w) PROVE Goal
    <2> DEFINE r == [req[w] EXCEPT !.pc = "group"]
    <2>1. RequestOK(r)
      BY <1>4 DEF InsertEvent, RequestInv, RequestOK, Request, Step
    <2>2. Finish(w) \/ req' = [req EXCEPT ![w] = r]
      BY <1>4 DEF InsertEvent
    <2>3. QED BY <2>1, <2>2, RequestStep, FinishOK DEF Goal
  <1>5. ASSUME NEW w \in Worker, GroupEvent(w) PROVE Goal
    <2>1. req[w].event \in Event /\ req[w].pc = "group"
      BY <1>5 DEF GroupEvent, RequestInv, RequestOK
    <2>2. PICK t \in GroupTargets(req[w].event) :
            req' = [req EXCEPT ![w].pc = "attach", ![w].thread = t]
      BY <1>5 DEF GroupEvent
    <2>3. t \in Thread /\ SeededBy(t, OwnerOf[req[w].event])
      BY <2>1, <2>2, GroupTargetOwner
    <2> DEFINE r == [req[w] EXCEPT !.pc = "attach", !.thread = t]
    <2>4. req[w].seen = {}
      BY <2>1 DEF RequestInv, RequestOK
    <2>5. RequestOK(r)
      BY <2>1, <2>3, <2>4 DEF RequestInv, RequestOK, Request, Step
    <2>6. req' = [req EXCEPT ![w] = r]
      BY <2>2 DEF TypeOK
    <2>7. QED BY <2>5, <2>6, RequestStep DEF Goal
  <1>6. ASSUME NEW w \in Worker, AttachEvent(w) PROVE Goal
    <2> DEFINE r == [req[w] EXCEPT !.pc = "read"]
    <2>1. RequestOK(r)
      BY <1>6 DEF AttachEvent, RequestInv, RequestOK, Request, Step
    <2>2. Finish(w) \/ req' = [req EXCEPT ![w] = r]
      BY <1>6 DEF AttachEvent
    <2>3. QED BY <2>1, <2>2, RequestStep, FinishOK DEF Goal
  <1>7. ASSUME NEW w \in Worker, ReadThread(w) PROVE Goal
    <2> DEFINE r == [req[w] EXCEPT !.pc = "decide",
                                   !.seen = Snapshot(req[w].thread)]
    <2>1. req[w].thread \in Thread /\ req[w].pc = "read"
      BY <1>7 DEF ReadThread, RequestInv, RequestOK
    <2>2. \A e \in Snapshot(req[w].thread) :
            e \in Event /\ SeededBy(req[w].thread, OwnerOf[e])
      BY <2>1 DEF Snapshot, Attached, OwnerInv
    <2>3. RequestOK(r)
      BY <2>1, <2>2 DEF RequestInv, RequestOK, Request, Step
    <2>4. Finish(w) \/ req' = [req EXCEPT ![w] = r]
      BY <1>7 DEF ReadThread, TypeOK
    <2>5. QED BY <2>3, <2>4, RequestStep, FinishOK DEF Goal
  <1>8. ASSUME NEW w \in Worker, DecideRouting(w) PROVE Goal
    <2>1. PICK verdict \in Verdicts :
            req' = [req EXCEPT ![w].pc = "save",
                     ![w].decision = Decide(verdict, req[w].archive)]
      BY <1>8 DEF DecideRouting
    <2> DEFINE r == [req[w] EXCEPT !.pc = "save",
                       !.decision = Decide(verdict, req[w].archive)]
    <2>2. Decide(verdict, req[w].archive) \in Decision
      BY VerdictAssumption DEF Decide, Decision
    <2>3. RequestOK(r)
      BY <1>8, <2>2 DEF DecideRouting, RequestInv, RequestOK, Request, Step
    <2>4. req' = [req EXCEPT ![w] = r]
      BY <2>1 DEF TypeOK
    <2>5. QED BY <2>3, <2>4, RequestStep DEF Goal
  <1>9. ASSUME NEW w \in Worker, SaveAnalysis(w) PROVE Goal
    <2> DEFINE r == [req[w] EXCEPT !.pc = "record"]
    <2>1. CASE Finish(w)
      BY <2>1, FinishOK DEF Goal
    <2>2. CASE req[w].decision \in Surfacing /\ req' = [req EXCEPT ![w] = r]
      <3>1. RequestOK(r)
        BY <1>9, <2>2 DEF SaveAnalysis, RequestInv, RequestOK, Request, Step
      <3>2. QED BY <2>2, <3>1, RequestStep DEF Goal
    <2>3. QED BY <1>9, <2>1, <2>2 DEF SaveAnalysis
  <1>10. ASSUME NEW w \in Worker, RecordInterruption(w) \/ Raise(w) PROVE Goal
    BY <1>10, FinishOK DEF RecordInterruption, Raise, Goal
  <1>11. CASE Crash
    BY <1>11, IdleOK DEF Crash, Goal, RequestInv, RequestOK
  <1>12. CASE UNCHANGED req
    BY <1>12 DEF Goal, RequestInv, TypeOK
  <1>13. QED
    BY <1>1, <1>2, <1>3, <1>4, <1>5, <1>6, <1>7, <1>8, <1>9, <1>10, <1>11,
       <1>12
       DEF Next, IngestNext, Progress, UpdateCardStatus, DeleteAccountData,
           DeleteAllData, HourPasses, vars, Goal

-----------------------------------------------------------------------------
(* Tables: every row stays in its type, with its account, and refers to    *)
(* rows that exist.                                                        *)

\* The five tables after a step.
TablesOK ==
    /\ stored \subseteq Event
    /\ opener \in [Thread -> Event \cup {NoEvent}]
    /\ attached \in [Event -> Thread \cup {NoThread}]
    /\ card \in [Thread -> Card \cup {NoCard}]
    /\ interruption \in [Thread -> Interruption]

TableInv == TablesOK /\ OwnerInv /\ NoDanglingRow

LEMMA InsertTables ==
    ASSUME IInv, NEW w \in Worker, InsertEvent(w)
    PROVE  TableInv'
  <1> USE EventAssumption DEF IInv
  <1>1. /\ req[w].event \in Event
        /\ stored \subseteq stored' /\ stored' \subseteq Event
        /\ UNCHANGED <<opener, attached, card, interruption>>
    BY DEF InsertEvent, RequestInv, RequestOK, TypeOK
  <1>2. TablesOK'
    BY <1>1 DEF TablesOK, TypeOK
  <1>3. OwnerInv'
    BY <1>1 DEF OwnerInv
  <1>4. NoDanglingRow'
    BY <1>1 DEF NoDanglingRow, ThreadExists, CardExists, Attached
  <1>5. QED BY <1>2, <1>3, <1>4 DEF TableInv

LEMMA AttachTables ==
    ASSUME IInv, NEW w \in Worker, AttachEvent(w)
    PROVE  TableInv'
  <1> DEFINE e == req[w].event
             t == req[w].thread
  <1> USE EventAssumption DEF IInv
  <1>1. e \in Event /\ t \in Thread /\ SeededBy(t, OwnerOf[e])
    BY DEF AttachEvent, RequestInv, RequestOK
  <1>2. CASE UNCHANGED <<stored, opener, attached, card, interruption>>
    BY <1>2 DEF TableInv, TablesOK, TypeOK, OwnerInv, NoDanglingRow,
                ThreadExists, CardExists, Attached
  <1>3. CASE /\ e \in stored
             /\ attached' = [attached EXCEPT ![e] = t]
             /\ opener' = IF ThreadExists(t) THEN opener
                          ELSE [opener EXCEPT ![t] = e]
             /\ UNCHANGED <<stored, card, interruption>>
    <2> USE <1>1, <1>3
    <2>1. /\ \A f \in Event : attached'[f] = IF f = e THEN t ELSE attached[f]
          /\ attached' \in [Event -> Thread \cup {NoThread}]
      BY DEF TypeOK
    <2>2. /\ opener' \in [Thread -> Event \cup {NoEvent}]
          /\ opener'[t] # NoEvent
          /\ \A u \in Thread : \/ opener'[u] = opener[u]
                               \/ u = t /\ opener'[u] = e
          /\ \A u \in Thread : opener[u] # NoEvent => opener'[u] # NoEvent
      BY DEF TypeOK, ThreadExists
    <2>3. TablesOK'
      BY <2>1, <2>2 DEF TablesOK, TypeOK
    <2>4. OwnerInv'
      BY <2>1, <2>2 DEF OwnerInv
    <2>5. \A u \in Thread : ThreadExists(u)' => Attached(u)' # {}
      <3> TAKE u \in Thread
      <3>1. CASE u = t
        BY <3>1, <2>1 DEF Attached
      <3>2. CASE u # t
        <4> HAVE ThreadExists(u)'
        <4>1. ThreadExists(u)
          BY <3>2, <2>2 DEF ThreadExists
        <4>2. CASE \E f \in Attached(u) : f # e
          BY <4>2, <2>1 DEF Attached
        <4>3. CASE Attached(u) \subseteq {e}
          BY <4>1, <4>3, <3>2 DEF NoDanglingRow, Attached, AttachEvent
        <4>4. QED BY <4>2, <4>3
      <3>3. QED BY <3>1, <3>2
    <2>6. NoDanglingRow'
      BY <2>1, <2>2, <2>5
         DEF NoDanglingRow, ThreadExists, CardExists, TypeOK
    <2>7. QED BY <2>3, <2>4, <2>6 DEF TableInv
  <1>4. QED BY <1>2, <1>3 DEF AttachEvent

LEMMA SaveTables ==
    ASSUME IInv, NEW w \in Worker, SaveAnalysis(w)
    PROVE  TableInv'
  <1> DEFINE t == req[w].thread
  <1> USE EventAssumption DEF IInv
  <1>1. /\ t \in Thread
        /\ req[w].seen \subseteq Event
        /\ ModeOf(req[w].decision) \in Mode
        /\ \A e \in req[w].seen : SeededBy(t, OwnerOf[e])
    BY DEF SaveAnalysis, RequestInv, RequestOK, Request, ModeOf, Mode,
           Decision, Surfacing
  <1>2. CASE UNCHANGED <<stored, opener, attached, card, interruption>>
    BY <1>2 DEF TableInv, TablesOK, TypeOK, OwnerInv, NoDanglingRow,
                ThreadExists, CardExists, Attached
  <1>3. CASE ThreadExists(t) /\ ~ UNCHANGED card
    <2> DEFINE c == [status |-> KeptStatus(t),
                     mode   |-> ModeOf(req[w].decision),
                     covers |-> req[w].seen]
    <2>1. /\ card' = [card EXCEPT ![t] = c]
          /\ UNCHANGED <<stored, opener, attached, interruption>>
      BY <1>3 DEF SaveAnalysis
    <2>2. c \in Card
      <3>1. CASE CardExists(t)
        <4>1. card[t] \in Card
          BY <1>1, <3>1 DEF CardExists, TypeOK
        <4>2. card[t].status \in Status
          BY <4>1 DEF Card
        <4>3. QED BY <1>1, <3>1, <4>2 DEF Card, KeptStatus
      <3>2. CASE ~ CardExists(t)
        BY <1>1, <3>2 DEF Card, Status, KeptStatus
      <3>3. QED BY <3>1, <3>2
    <2>3. c.covers = req[w].seen
      OBVIOUS
    <2> HIDE DEF c
    <2>4. /\ card' \in [Thread -> Card \cup {NoCard}]
          /\ \A u \in Thread : card'[u] = IF u = t THEN c ELSE card[u]
      BY <1>1, <2>1, <2>2 DEF TypeOK
    <2>5. TablesOK'
      BY <2>1, <2>4 DEF TablesOK, TypeOK
    <2>6. OwnerInv'
      BY <1>1, <2>1, <2>3, <2>4 DEF OwnerInv
    <2>7. NoDanglingRow'
      BY <1>3, <2>1, <2>4
         DEF NoDanglingRow, ThreadExists, CardExists, Attached
    <2>8. QED BY <2>5, <2>6, <2>7 DEF TableInv
  <1>4. QED BY <1>2, <1>3 DEF SaveAnalysis

LEMMA StatusTables ==
    ASSUME IInv, NEW t \in Thread, NEW s \in UserStatuses,
           UpdateCardStatus(t, s)
    PROVE  TableInv'
  <1> DEFINE c == [card[t] EXCEPT !.status = s]
  <1> USE EventAssumption DEF IInv
  <1>1. /\ card' = [card EXCEPT ![t] = c]
        /\ UNCHANGED <<stored, opener, attached, interruption>>
    BY DEF UpdateCardStatus
  <1>2. card[t] \in Card
    BY DEF UpdateCardStatus, CardExists, TypeOK
  <1>3. c \in Card /\ c.covers = card[t].covers
    BY <1>2, VerdictAssumption DEF Card, Status
  <1> HIDE DEF c
  <1>4. /\ card' \in [Thread -> Card \cup {NoCard}]
        /\ \A u \in Thread : card'[u] = IF u = t THEN c ELSE card[u]
    BY <1>1, <1>3 DEF TypeOK
  <1>5. TablesOK'
    BY <1>1, <1>4 DEF TablesOK, TypeOK
  <1>6. OwnerInv'
    BY <1>1, <1>3, <1>4 DEF OwnerInv
  <1>7. NoDanglingRow'
    BY <1>1, <1>4
       DEF NoDanglingRow, ThreadExists, CardExists, Attached,
           UpdateCardStatus
  <1>8. QED BY <1>5, <1>6, <1>7 DEF TableInv

\* Only the interruptions table changes.
LEMMA InterruptionTables ==
    ASSUME IInv, interruption' \in [Thread -> Interruption],
           UNCHANGED <<stored, opener, attached, card>>
    PROVE  TableInv'
  BY DEF IInv, TableInv, TablesOK, TypeOK, OwnerInv, NoDanglingRow,
         ThreadExists, CardExists, Attached

\* What remains after an account is deleted refers to nothing deleted: a
\* message that stays is in a thread of its own account, which stays too.
LEMMA DeleteAccountTables ==
    ASSUME IInv, NEW o \in GmailOwner, DeleteAccountData(o)
    PROVE  TableInv'
  <1> DEFINE gone == OwnedThreads(o)
  <1> USE EventAssumption DEF IInv
  <1>1. /\ stored' = {e \in stored : OwnerOf[e] # o}
        /\ \A t \in Thread : opener'[t] = IF t \in gone THEN NoEvent
                                          ELSE opener[t]
        /\ \A e \in Event :
             attached'[e] = IF OwnerOf[e] = o \/ attached[e] \in gone
                            THEN NoThread ELSE attached[e]
        /\ \A t \in Thread : card'[t] = IF t \in gone THEN NoCard ELSE card[t]
        /\ \A t \in Thread :
             interruption'[t] = IF t \in gone /\ CardExists(t)
                                THEN "none" ELSE interruption[t]
    BY DEF DeleteAccountData
  <1>2. TablesOK'
    <2>1. opener' \in [Thread -> Event \cup {NoEvent}]
      BY DEF DeleteAccountData, TypeOK
    <2>2. attached' \in [Event -> Thread \cup {NoThread}]
      BY DEF DeleteAccountData, TypeOK
    <2>3. card' \in [Thread -> Card \cup {NoCard}]
      BY DEF DeleteAccountData, TypeOK
    <2>4. interruption' \in [Thread -> Interruption]
      BY DEF DeleteAccountData, TypeOK, Interruption
    <2>5. stored' \subseteq Event
      BY <1>1 DEF TypeOK
    <2>6. QED BY <2>1, <2>2, <2>3, <2>4, <2>5 DEF TablesOK
  <1>3. OwnerInv'
    <2>1. NoCard.covers = {}
      BY DEF NoCard
    <2>2. QED BY <1>1, <2>1 DEF OwnerInv
  <1>4. \A e \in Event : attached[e] # NoThread =>
           e \in stored /\ attached[e] \in Thread /\ ThreadExists(attached[e])
              /\ OwnerOf[opener[attached[e]]] = OwnerOf[e]
    BY OpenerOwner DEF NoDanglingRow, TypeOK
  <1>5. ASSUME NEW e \in Event, attached'[e] # NoThread
        PROVE  e \in stored' /\ ThreadExists(attached[e])'
    BY <1>1, <1>4, <1>5 DEF ThreadExists
  <1>6. ASSUME NEW t \in Thread, ThreadExists(t)'
        PROVE  Attached(t)' # {}
    <2>1. ThreadExists(t) /\ t \notin gone
      BY <1>1, <1>6 DEF ThreadExists
    <2>2. PICK e \in Event : attached[e] = t
      BY <2>1 DEF NoDanglingRow, Attached
    <2>3. OwnerOf[e] # o
      BY <1>4, <2>1, <2>2 DEF OwnedThreads
    <2>4. attached'[e] = t
      BY <1>1, <2>1, <2>2, <2>3
    <2>5. QED BY <2>4 DEF Attached
  <1>7. ASSUME NEW t \in Thread, CardExists(t)'
        PROVE  ThreadExists(t)'
    BY <1>1, <1>7 DEF ThreadExists, CardExists, NoDanglingRow
  <1>8. NoDanglingRow'
    <2>1. \A e \in Event : attached'[e] # NoThread =>
             attached'[e] = attached[e]
      BY <1>1
    <2>2. QED BY <1>5, <1>6, <1>7, <2>1
             DEF NoDanglingRow, ThreadExists
  <1>9. QED BY <1>2, <1>3, <1>8 DEF TableInv

LEMMA DeleteAllTables ==
    ASSUME DeleteAllData
    PROVE  TableInv'
  <1>1. NoCard.covers = {}
    BY DEF NoCard
  <1>2. TablesOK'
    BY DEF DeleteAllData, TablesOK, Interruption
  <1>3. OwnerInv'
    BY <1>1 DEF DeleteAllData, OwnerInv
  <1>4. NoDanglingRow'
    BY DEF DeleteAllData, NoDanglingRow, ThreadExists, CardExists
  <1>5. QED BY <1>2, <1>3, <1>4 DEF TableInv

LEMMA TablesInductive ==
    ASSUME IInv, [Next]_vars
    PROVE  TableInv'
  <1>1. ASSUME UNCHANGED <<stored, opener, attached, card, interruption>>
        PROVE  TableInv'
    BY <1>1 DEF IInv, TableInv, TablesOK, TypeOK, OwnerInv, NoDanglingRow,
                ThreadExists, CardExists, Attached
  <1>2. ASSUME NEW w \in Worker, RecordInterruption(w)
        PROVE  TableInv'
    <2>1. interruption' \in [Thread -> Interruption]
      BY <1>2 DEF RecordInterruption, IInv, TypeOK, Interruption
    <2>2. QED BY <1>2, <2>1, InterruptionTables DEF RecordInterruption
  <1>3. CASE HourPasses
    <2>1. interruption' \in [Thread -> Interruption]
      BY <1>3 DEF HourPasses, IInv, TypeOK, Interruption
    <2>2. QED BY <1>3, <2>1, InterruptionTables DEF HourPasses
  <1>4. ASSUME NEW w \in Worker, Progress(w) \/ Raise(w)
        PROVE  TableInv'
    <2>1. CASE \/ ReconcileSimilar(w) \/ GroupEvent(w) \/ ReadThread(w)
               \/ DecideRouting(w) \/ Raise(w)
      BY <1>1, <2>1 DEF ReconcileSimilar, GroupEvent, ReadThread,
                        DecideRouting, Raise
    <2>2. QED BY <1>2, <1>4, <2>1, InsertTables, AttachTables, SaveTables
             DEF Progress
  <1>5. CASE \/ \E w \in Worker, e \in Event : Deliver(w, e)
             \/ \E w \in Worker, t \in Thread : AnalyzeArchive(w, t)
             \/ Crash
             \/ UNCHANGED vars
    BY <1>1, <1>5 DEF Deliver, AnalyzeArchive, Crash, vars
  <1>6. QED
    BY <1>3, <1>4, <1>5, StatusTables, DeleteAccountTables, DeleteAllTables
       DEF Next, IngestNext

-----------------------------------------------------------------------------
(* Theorems.                                                               *)

LEMMA InitInv == Init => IInv
  <1> SUFFICES ASSUME Init PROVE IInv
    OBVIOUS
  <1>1. NoCard.covers = {}
    BY DEF NoCard
  <1>2. RequestInv /\ req \in [Worker -> Request]
    BY IdleOK DEF Init, RequestInv, RequestOK
  <1>3. TypeOK
    BY <1>2 DEF Init, TypeOK, Interruption
  <1>4. OwnerInv
    BY <1>1 DEF Init, OwnerInv
  <1>5. NoDanglingRow
    BY DEF Init, NoDanglingRow, ThreadExists, CardExists
  <1>6. QED BY <1>2, <1>3, <1>4, <1>5 DEF IInv

LEMMA StepInv == IInv /\ [Next]_vars => IInv'
  BY RequestsInductive, TablesInductive DEF IInv, TypeOK, TableInv, TablesOK

LEMMA Invariance == Spec => []IInv
  BY InitInv, StepInv, PTL DEF Spec

\* The tables and the requests keep their types.
THEOREM TypeCorrect == Spec => []TypeOK
  <1>1. IInv => TypeOK
    BY DEF IInv
  <1>2. QED BY <1>1, Invariance, PTL

\* The foreign keys, the delete cascades and the steps of the requests in
\* flight leave no row that refers to a missing one, and no empty thread.
THEOREM RowsComplete == Spec => []NoDanglingRow
  <1>1. IInv => NoDanglingRow
    BY DEF IInv
  <1>2. QED BY <1>1, Invariance, PTL

\* Messages of two accounts never meet in a thread or in what its card was
\* made from, whatever thread a request had chosen when rows were deleted.
THEOREM AccountsApart == Spec => []AccountIsolation
  <1>1. ASSUME IInv PROVE AccountIsolation
    <2> USE DEF IInv
    <2> SUFFICES ASSUME NEW t \in Thread
                 PROVE  /\ \A e, f \in Attached(t) : OwnerOf[e] = OwnerOf[f]
                        /\ \A e \in Attached(t) \cup card[t].covers :
                              ThreadExists(t) =>
                                OwnerOf[e] = OwnerOf[opener[t]]
      BY DEF AccountIsolation
    <2>1. \A e \in Attached(t) \cup card[t].covers : SeededBy(t, OwnerOf[e])
      BY <1>1, EventAssumption DEF Attached, OwnerInv
    <2>2. ThreadExists(t) => SeededBy(t, OwnerOf[opener[t]])
      BY <1>1 DEF ThreadExists, OwnerInv
    <2>3. QED BY <2>1, <2>2, SeedUnique
  <1>2. QED BY <1>1, Invariance, PTL

\* insert_event looks a key up and inserts it in one transaction.
THEOREM NoDuplicates == Spec => []AtMostOnce
  <1>1. Init => AtMostOnce
    BY DEF Init, AtMostOnce
  <1>2. ASSUME AtMostOnce, [Next]_vars PROVE AtMostOnce'
    <2>1. CASE UNCHANGED stored
      BY <1>2, <2>1 DEF AtMostOnce
    <2>2. ASSUME NEW w \in Worker, InsertEvent(w) PROVE AtMostOnce'
      BY <1>2, <2>2 DEF InsertEvent, Known, AtMostOnce
    <2>3. ASSUME NEW o \in GmailOwner, DeleteAccountData(o)
          PROVE  AtMostOnce'
      BY <1>2, <2>3 DEF DeleteAccountData, AtMostOnce
    <2>4. CASE DeleteAllData
      BY <2>4 DEF DeleteAllData, AtMostOnce
    <2>5. QED
      BY <1>2, <2>1, <2>2, <2>3, <2>4
         DEF Next, IngestNext, Progress, Deliver, AnalyzeArchive,
             ReconcileSimilar, GroupEvent, AttachEvent, ReadThread,
             DecideRouting, SaveAnalysis, RecordInterruption, Raise, Crash,
             UpdateCardStatus, HourPasses, vars
  <1>3. QED BY <1>1, <1>2, PTL DEF Spec

-----------------------------------------------------------------------------
(* The interruptions rows of an hour.  A request that has decided to       *)
(* surface a card holds a claim until it has recorded the interruption or  *)
(* ended; rows of the last hour and claims together stay below the bound.  *)

InFlight == {w \in Worker : /\ req[w].pc \in {"save", "record"}
                            /\ req[w].decision = "surface_now"}

Within(B, I) ==
    \/ B = {} /\ I = {}
    \/ Cardinality(B) + Cardinality(I) =< MaxPerHour - 1 + Cardinality(Worker)

BudgetInv == Within(Budgeted, InFlight)

LEMMA FiniteClaims ==
    ASSUME NEW B \in SUBSET Thread, NEW I \in SUBSET Worker
    PROVE  /\ IsFiniteSet(B) /\ IsFiniteSet(I)
           /\ Cardinality(B) \in Nat /\ Cardinality(I) \in Nat
           /\ Cardinality(Worker) \in Nat
           /\ Cardinality(I) =< Cardinality(Worker)
  BY LimitAssumption, FS_Subset, FS_CardinalityType

LEMMA WithinShrinks ==
    ASSUME NEW B \in SUBSET Thread, NEW I \in SUBSET Worker,
           NEW C \in SUBSET B, NEW J \in SUBSET I, Within(B, I)
    PROVE  Within(C, J)
  <1>1. CASE B = {} /\ I = {}
    BY <1>1 DEF Within
  <1>2. CASE Cardinality(B) + Cardinality(I)
               =< MaxPerHour - 1 + Cardinality(Worker)
    <2>1. Cardinality(C) =< Cardinality(B) /\ Cardinality(J) =< Cardinality(I)
      BY FiniteClaims, FS_Subset
    <2>2. Cardinality(C) \in Nat /\ Cardinality(J) \in Nat
      BY FiniteClaims
    <2>3. QED BY <1>2, <2>1, <2>2, FiniteClaims, LimitAssumption DEF Within
  <1>3. QED BY <1>1, <1>2 DEF Within

\* Whoever decides while the budget is not spent may claim it.
LEMMA WithinClaims ==
    ASSUME NEW B \in SUBSET Thread, NEW I \in SUBSET Worker,
           Cardinality(B) < MaxPerHour
    PROVE  Within(B, I)
  BY FiniteClaims, LimitAssumption DEF Within

\* A claim that becomes a row.
LEMMA WithinRecords ==
    ASSUME NEW B \in SUBSET Thread, NEW I \in SUBSET Worker,
           NEW w \in I, NEW t \in Thread, Within(B, I)
    PROVE  Within(B \cup {t}, I \ {w})
  <1>1. Cardinality(I \ {w}) = Cardinality(I) - 1
    BY FiniteClaims, FS_RemoveElement
  <1>2. Cardinality(B \cup {t}) \in {Cardinality(B), Cardinality(B) + 1}
    BY FiniteClaims, FS_AddElement
  <1>3. QED
    BY <1>1, <1>2, FiniteClaims, LimitAssumption DEF Within

LEMMA BudgetInductive ==
    ASSUME IInv, BudgetInv, [Next]_vars
    PROVE  BudgetInv'
  <1> USE DEF BudgetInv
  <1>0. /\ req \in [Worker -> Request]
        /\ interruption \in [Thread -> Interruption]
        /\ Budgeted \in SUBSET Thread /\ InFlight \in SUBSET Worker
        /\ Budgeted' \in SUBSET Thread /\ InFlight' \in SUBSET Worker
    BY DEF IInv, TypeOK, Budgeted, InFlight
  <1>1. ASSUME Budgeted' \subseteq Budgeted, InFlight' \subseteq InFlight
        PROVE  BudgetInv'
    BY <1>0, <1>1, WithinShrinks
  <1>2. ASSUME NEW w \in Worker, Finish(w), UNCHANGED interruption
        PROVE  BudgetInv'
    <2>1. InFlight' \subseteq InFlight
      BY <1>0, <1>2 DEF Finish, InFlight, Idle
    <2>2. QED BY <1>1, <1>2, <2>1 DEF Budgeted
  <1>3. ASSUME NEW w \in Worker, UNCHANGED interruption,
               \A v \in Worker : v # w => req'[v] = req[v],
               req'[w].pc \notin {"save", "record"}
        PROVE  BudgetInv'
    <2>1. InFlight' \subseteq InFlight
      BY <1>3 DEF InFlight
    <2>2. QED BY <1>1, <1>3, <2>1 DEF Budgeted
  <1>4. ASSUME NEW w \in Worker, DecideRouting(w)
        PROVE  BudgetInv'
    <2>1. UNCHANGED Budgeted
      BY <1>4 DEF DecideRouting, Budgeted
    <2>2. PICK verdict \in Verdicts :
            req' = [req EXCEPT ![w].pc = "save",
                      ![w].decision = Decide(verdict, req[w].archive)]
      BY <1>4 DEF DecideRouting
    <2> DEFINE d == Decide(verdict, req[w].archive)
    <2>3. /\ \A v \in Worker : v # w => req'[v] = req[v]
          /\ req'[w].pc = "save" /\ req'[w].decision = d
      BY <1>0, <2>2 DEF Request
    <2>4. CASE d = "surface_now"
      <3>1. ~ BudgetSpent
        BY <2>4, VerdictAssumption DEF Decide
      <3>2. Budgeted \subseteq {t \in Thread : Recent(t)}
        BY DEF Budgeted, Recent
      <3>3. Cardinality(Budgeted) =< Cardinality({t \in Thread : Recent(t)})
        BY <3>2, LimitAssumption, FS_Subset
      <3>4. /\ Cardinality({t \in Thread : Recent(t)}) \in Nat
            /\ Cardinality(Budgeted) \in Nat
        BY <1>0, FiniteClaims
      <3>5. Cardinality(Budgeted) < MaxPerHour
        BY <3>1, <3>3, <3>4, LimitAssumption DEF BudgetSpent
      <3>6. QED BY <1>0, <2>1, <3>5, WithinClaims
    <2>5. CASE d # "surface_now"
      <3>1. InFlight' \subseteq InFlight
        BY <2>3, <2>5 DEF InFlight
      <3>2. QED BY <1>1, <2>1, <3>1
    <2>6. QED BY <2>4, <2>5
  <1>5. ASSUME NEW w \in Worker, SaveAnalysis(w)
        PROVE  BudgetInv'
    <2>1. CASE Finish(w)
      BY <1>2, <1>5, <2>1 DEF SaveAnalysis
    <2>2. CASE req' = [req EXCEPT ![w].pc = "record"]
      <3>1. InFlight' \subseteq InFlight
        BY <1>0, <1>5, <2>2 DEF SaveAnalysis, InFlight, Request
      <3>2. QED BY <1>1, <1>5, <3>1 DEF SaveAnalysis, Budgeted
    <2>3. QED BY <1>5, <2>1, <2>2 DEF SaveAnalysis
  <1>6. ASSUME NEW w \in Worker, RecordInterruption(w)
        PROVE  BudgetInv'
    <2> DEFINE t == req[w].thread
    <2>1. t \in Thread
      BY <1>6 DEF RecordInterruption, IInv, RequestInv, RequestOK
    <2>2. InFlight' = InFlight \ {w}
      BY <1>0, <1>6 DEF RecordInterruption, Finish, InFlight, Idle
    <2>3. CASE req[w].decision = "surface_now"
      <3>1. w \in InFlight
        BY <1>6, <2>3 DEF RecordInterruption, InFlight
      <3>2. Budgeted' \subseteq Budgeted \cup {t}
        BY <1>0, <1>6 DEF RecordInterruption, Budgeted
      <3>3. Within(Budgeted \cup {t}, InFlight \ {w})
        BY <1>0, <2>1, <3>1, WithinRecords
      <3>4. Budgeted \cup {t} \in SUBSET Thread
        BY <1>0, <2>1
      <3>5. QED BY <1>0, <2>2, <3>2, <3>3, <3>4, WithinShrinks
    <2>4. CASE req[w].decision # "surface_now"
      <3>1. req[w].decision = "override"
        BY <1>6, <2>4
           DEF RecordInterruption, IInv, RequestInv, RequestOK, Surfacing
      <3>2. Budgeted' \subseteq Budgeted
        BY <1>0, <1>6, <2>1, <3>1 DEF RecordInterruption, Budgeted
      <3>3. QED BY <1>1, <2>2, <3>2
    <2>5. QED BY <2>3, <2>4
  <1>7. ASSUME NEW w \in Worker, Progress(w) \/ Raise(w)
        PROVE  BudgetInv'
    <2> USE <1>0 DEF Request, Finish, Idle
    <2>1. CASE ReconcileSimilar(w)
      <3>1. /\ UNCHANGED interruption
            /\ \A v \in Worker : v # w => req'[v] = req[v]
        BY <2>1 DEF ReconcileSimilar
      <3>2. req'[w].pc \notin {"save", "record"}
        BY <2>1 DEF ReconcileSimilar
      <3>3. QED BY <1>3, <3>1, <3>2
    <2>2. CASE InsertEvent(w)
      <3>1. /\ UNCHANGED interruption
            /\ \A v \in Worker : v # w => req'[v] = req[v]
        BY <2>2 DEF InsertEvent
      <3>2. req'[w].pc \notin {"save", "record"}
        BY <2>2 DEF InsertEvent
      <3>3. QED BY <1>3, <3>1, <3>2
    <2>3. CASE GroupEvent(w)
      <3>1. /\ UNCHANGED interruption
            /\ \A v \in Worker : v # w => req'[v] = req[v]
        BY <2>3 DEF GroupEvent
      <3>2. req'[w].pc \notin {"save", "record"}
        BY <2>3 DEF GroupEvent
      <3>3. QED BY <1>3, <3>1, <3>2
    <2>4. CASE AttachEvent(w)
      <3>1. /\ UNCHANGED interruption
            /\ \A v \in Worker : v # w => req'[v] = req[v]
        BY <2>4 DEF AttachEvent
      <3>2. req'[w].pc \notin {"save", "record"}
        BY <2>4 DEF AttachEvent
      <3>3. QED BY <1>3, <3>1, <3>2
    <2>5. CASE ReadThread(w)
      <3>1. /\ UNCHANGED interruption
            /\ \A v \in Worker : v # w => req'[v] = req[v]
        BY <2>5 DEF ReadThread
      <3>2. req'[w].pc \notin {"save", "record"}
        BY <2>5 DEF ReadThread
      <3>3. QED BY <1>3, <3>1, <3>2
    <2>6. CASE Raise(w)
      BY <1>2, <2>6 DEF Raise
    <2>7. QED
      BY <1>4, <1>5, <1>6, <1>7, <2>1, <2>2, <2>3, <2>4, <2>5, <2>6
         DEF Progress
  <1>8. CASE \/ \E w \in Worker, e \in Event : Deliver(w, e)
             \/ \E w \in Worker, t \in Thread : AnalyzeArchive(w, t)
    <2>1. PICK w \in Worker : /\ UNCHANGED interruption
                              /\ \A v \in Worker : v # w => req'[v] = req[v]
                              /\ req'[w].pc \notin {"save", "record"}
      BY <1>0, <1>8 DEF Deliver, AnalyzeArchive, Idle
    <2>2. QED BY <1>3, <2>1
  <1>9. CASE HourPasses
    BY <1>0, <1>1, <1>9 DEF HourPasses, Budgeted, InFlight, Recent
  <1>10. CASE Crash
    BY <1>0, <1>1, <1>10 DEF Crash, Budgeted, InFlight, Idle
  <1>11. CASE \/ \E t \in Thread, s \in UserStatuses : UpdateCardStatus(t, s)
              \/ UNCHANGED vars
    BY <1>0, <1>1, <1>11
       DEF UpdateCardStatus, vars, Budgeted, InFlight
  <1>12. ASSUME NEW o \in GmailOwner, DeleteAccountData(o)
         PROVE  BudgetInv'
    BY <1>0, <1>1, <1>12 DEF DeleteAccountData, Budgeted, InFlight
  <1>13. CASE DeleteAllData
    BY <1>0, <1>1, <1>13 DEF DeleteAllData, Budgeted, InFlight
  <1>14. QED
    BY <1>7, <1>8, <1>9, <1>10, <1>11, <1>12, <1>13 DEF Next, IngestNext

\* However many requests decide at the same time, the interruptions rows of
\* one hour exceed the budget by less than the number of requests.  (Cards
\* that have an older row surface again without a new one.)
THEOREM InterruptionRowsBound == Spec => []InterruptionRowsBounded
  <1>1. Init => BudgetInv
    BY DEF Init, Idle, BudgetInv, Within, Budgeted, InFlight
  <1>2. IInv /\ BudgetInv /\ [Next]_vars => BudgetInv'
    BY BudgetInductive
  <1>3. IInv /\ BudgetInv => InterruptionRowsBounded
    <2> SUFFICES ASSUME IInv, BudgetInv, Budgeted # {}
                 PROVE  Cardinality(Budgeted)
                          =< MaxPerHour + Cardinality(Worker) - 1
      BY DEF InterruptionRowsBounded
    <2>1. Budgeted \in SUBSET Thread /\ InFlight \in SUBSET Worker
      BY DEF Budgeted, InFlight
    <2>2. Cardinality(Budgeted) + Cardinality(InFlight)
            =< MaxPerHour - 1 + Cardinality(Worker)
      BY DEF BudgetInv, Within
    <2>3. QED BY <2>1, <2>2, FiniteClaims, LimitAssumption
  <1>4. QED BY <1>1, <1>2, <1>3, Invariance, PTL DEF Spec

-----------------------------------------------------------------------------
(* Action properties.                                                      *)

\* An analysis keeps the status of a card that exists; no step of a request
\* changes it.
THEOREM StatusKept == Spec => StatusIsTheUsers
  <1> DEFINE Kept == \A t \in Thread :
                CardExists(t) /\ CardExists(t)'
                  /\ card[t].status # card'[t].status => UNCHANGED req
  <1>1. ASSUME IInv, Next PROVE Kept
    <2>1. CASE UNCHANGED req \/ UNCHANGED card
      BY <2>1
    <2>2. ASSUME NEW w \in Worker, SaveAnalysis(w) PROVE Kept
      <3>1. \A t \in Thread : CardExists(t) => card'[t].status = card[t].status
        BY <1>1, <2>2 DEF SaveAnalysis, KeptStatus, IInv, TypeOK
      <3>2. QED BY <3>1
    <2>3. QED
      BY <1>1, <2>1, <2>2
         DEF Next, IngestNext, Progress, Deliver, AnalyzeArchive,
             ReconcileSimilar, InsertEvent, GroupEvent, AttachEvent,
             ReadThread, DecideRouting, RecordInterruption, Raise, Crash,
             UpdateCardStatus, HourPasses, DeleteAccountData, DeleteAllData
  <1>2. IInv /\ [Next]_vars => [Kept]_vars
    BY <1>1
  <1>3. QED BY <1>2, Invariance, PTL DEF Spec, StatusIsTheUsers

\* A message leaves its thread only when it is deleted: UNIQUE(event_id)
\* refuses a second attachment, and the deletion of an account takes no
\* thread that holds a message of another one.
THEOREM AttachedOnce == Spec => AttachmentStable
  <1> DEFINE Stable == \A e \in Event : attached[e] # NoThread =>
                attached'[e] = attached[e] \/ e \notin stored'
  <1>1. ASSUME IInv, Next PROVE Stable
    <2>1. CASE UNCHANGED attached
      BY <2>1
    <2>2. ASSUME NEW w \in Worker, AttachEvent(w) PROVE Stable
      BY <1>1, <2>2 DEF AttachEvent, IInv, TypeOK
    <2>3. ASSUME NEW o \in GmailOwner, DeleteAccountData(o) PROVE Stable
      <3>1. \A e \in Event : attached[e] # NoThread =>
              OwnerOf[opener[attached[e]]] = OwnerOf[e]
        BY <1>1, OpenerOwner DEF IInv, NoDanglingRow
      <3>2. QED BY <2>3, <3>1 DEF DeleteAccountData, OwnedThreads
    <2>4. CASE DeleteAllData
      BY <2>4 DEF DeleteAllData
    <2>5. QED
      BY <1>1, <2>1, <2>2, <2>3, <2>4
         DEF Next, IngestNext, Progress, Deliver, AnalyzeArchive,
             ReconcileSimilar, InsertEvent, GroupEvent, ReadThread,
             DecideRouting, SaveAnalysis, RecordInterruption, Raise, Crash,
             UpdateCardStatus, HourPasses
  <1>2. IInv /\ [Next]_vars => [Stable]_vars
    BY <1>1
  <1>3. QED BY <1>2, Invariance, PTL DEF Spec, AttachmentStable

-----------------------------------------------------------------------------
(* The pipeline implements the ledger.                                     *)

\* A message that is attached is beside messages of its account.
LEMMA AttachFiles ==
    ASSUME IInv, NEW w \in Worker, AttachEvent(w)
    PROVE  \/ UNCHANGED <<stored, attached>>
           \/ \E e \in Event, t \in Thread : Ledger!File(e, t)
  <1> DEFINE e == req[w].event
             t == req[w].thread
  <1> USE DEF IInv
  <1>1. e \in Event /\ t \in Thread /\ SeededBy(t, OwnerOf[e])
    BY EventAssumption DEF AttachEvent, RequestInv, RequestOK
  <1>2. ASSUME NEW f \in Event, attached[f] = t
        PROVE  OwnerOf[f] = OwnerOf[e]
    BY <1>1, <1>2, SeedUnique, EventAssumption DEF OwnerInv
  <1>3. CASE /\ e \in stored /\ attached[e] = NoThread
             /\ attached' = [attached EXCEPT ![e] = t]
             /\ UNCHANGED stored
    <2>1. Ledger!File(e, t)
      BY <1>2, <1>3 DEF Ledger!File
    <2>2. QED BY <1>1, <2>1
  <1>4. QED BY <1>3 DEF AttachEvent

\* Every run of the pipeline is a run of the ledger.
THEOREM Implements == Spec => ImplementsLedger
  <1>1. Init => Ledger!Init
    BY DEF Init, Ledger!Init
  <1>2. ASSUME IInv, [Next]_vars PROVE [Ledger!Next]_<<stored, attached>>
    <2>1. CASE UNCHANGED <<stored, attached>>
      BY <2>1
    <2>2. ASSUME NEW w \in Worker, InsertEvent(w)
          PROVE  [Ledger!Next]_<<stored, attached>>
      <3>1. req[w].event \in Event
        BY <1>2, <2>2 DEF InsertEvent, IInv, RequestInv, RequestOK
      <3>2. UNCHANGED <<stored, attached>> \/ Ledger!Accept(req[w].event)
        BY <2>2 DEF InsertEvent, Known, Ledger!Accept
      <3>3. QED BY <3>1, <3>2 DEF Ledger!Next
    <2>3. ASSUME NEW w \in Worker, AttachEvent(w)
          PROVE  [Ledger!Next]_<<stored, attached>>
      BY <1>2, <2>3, AttachFiles DEF Ledger!Next
    <2>4. ASSUME NEW o \in GmailOwner, DeleteAccountData(o)
          PROVE  [Ledger!Next]_<<stored, attached>>
      <3>1. \A e \in Event : attached[e] \in OwnedThreads(o) =>
              OwnerOf[e] = o
        BY <1>2, OpenerOwner, EventAssumption
           DEF IInv, OwnedThreads
      <3>2. Ledger!Forget(o)
        BY <2>4, <3>1 DEF DeleteAccountData, Ledger!Forget
      <3>3. QED BY <3>2, EventAssumption DEF Ledger!Next
    <2>5. CASE DeleteAllData
      BY <2>5 DEF DeleteAllData, Ledger!Next, Ledger!ForgetAll
    <2>6. QED
      BY <1>2, <2>1, <2>2, <2>3, <2>4, <2>5
         DEF Next, IngestNext, Progress, Deliver, AnalyzeArchive,
             ReconcileSimilar, GroupEvent, ReadThread, DecideRouting,
             SaveAnalysis, RecordInterruption, Raise, Crash,
             UpdateCardStatus, HourPasses, vars
  <1>3. QED
    BY <1>1, <1>2, Invariance, PTL
       DEF Spec, ImplementsLedger, Ledger!Spec, Ledger!ledger
=============================================================================
