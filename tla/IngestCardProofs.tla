-------------------------- MODULE IngestCardProofs ---------------------------
(***************************************************************************)
(* What IngestPipeline promises of its cards and of twins, for any         *)
(* messages, threads and accounts.  One theorem holds for any requests in  *)
(* flight.  The others need requests that run one at a time, with          *)
(* deletions between any two of their steps: nothing in the code           *)
(* serialises requests, and the run IngestLostUpdate shows what two of     *)
(* them at once do to CardCurrent.                                         *)
(***************************************************************************)
EXTENDS IngestPipelineProofs

OneAtATime == \A v, w \in Worker : v = w

-----------------------------------------------------------------------------
(* Snapshots and what they miss.                                           *)

Later(S, e) == Cardinality({f \in S : At[f] > At[e]})
Latest(S) == {e \in S : Later(S, e) < SnapshotLimit}

\* Every live message of S is covered or out of the reach of a snapshot.
UpToDate(S, covers) ==
    \A e \in S \ Archived : e \in covers \/ Later(S, e) >= SnapshotLimit

LEMMA LaterIsCounted ==
    ASSUME NEW S, IsFiniteSet(S), NEW e
    PROVE  Later(S, e) \in Nat
  <1>1. {f \in S : At[f] > At[e]} \in SUBSET S
    OBVIOUS
  <1>2. IsFiniteSet({f \in S : At[f] > At[e]})
    BY <1>1, FS_Subset
  <1>3. QED BY <1>2, FS_CardinalityType DEF Later

\* An analysis of the latest messages is up to date.
LEMMA SnapshotUpToDate ==
    ASSUME NEW S, IsFiniteSet(S)
    PROVE  UpToDate(S, Latest(S))
  <1> SUFFICES ASSUME NEW e \in S, e \notin Latest(S)
               PROVE  Later(S, e) >= SnapshotLimit
    BY DEF UpToDate
  <1>1. Later(S, e) \in Nat /\ SnapshotLimit \in Nat
    BY LaterIsCounted, LimitAssumption
  <1>2. ~ Later(S, e) < SnapshotLimit
    BY DEF Latest
  <1>3. QED BY <1>1, <1>2

\* One more exported message leaves it so.
LEMMA ArchiveUpToDate ==
    ASSUME NEW S, IsFiniteSet(S), NEW covers, NEW a \in Archived,
           UpToDate(S, covers)
    PROVE  UpToDate(S \cup {a}, covers)
  <1> SUFFICES ASSUME NEW e \in (S \cup {a}) \ Archived, e \notin covers
               PROVE  Later(S \cup {a}, e) >= SnapshotLimit
    BY DEF UpToDate
  <1>1. Later(S, e) >= SnapshotLimit
    BY DEF UpToDate
  <1> DEFINE P == {f \in S : At[f] > At[e]}
             Q == {f \in S \cup {a} : At[f] > At[e]}
  <1>2. IsFiniteSet(S \cup {a})
    BY FS_AddElement
  <1>3. IsFiniteSet(Q)
    <2>1. Q \in SUBSET (S \cup {a})
      OBVIOUS
    <2>2. QED BY <1>2, <2>1, FS_Subset
  <1>4. P \in SUBSET Q
    OBVIOUS
  <1>5. Cardinality(P) =< Cardinality(Q)
    <2> HIDE DEF P, Q
    <2>1. QED BY <1>3, <1>4, FS_Subset
  <1>6. Later(S, e) = Cardinality(P) /\ Later(S \cup {a}, e) = Cardinality(Q)
    BY DEF Later
  <1>7. Later(S, e) \in Nat /\ Later(S \cup {a}, e) \in Nat
    BY <1>2, LaterIsCounted
  <1>8. SnapshotLimit \in Nat
    BY LimitAssumption
  <1>9. QED
    <2> HIDE DEF P, Q
    <2>1. QED BY <1>1, <1>5, <1>6, <1>7, <1>8

-----------------------------------------------------------------------------
(* The invariants of requests that run one at a time.                      *)

\* A message on its way to its thread has no twin in one, an analysis on its
\* way to its card has read what is in the thread now.
OwnStepInv ==
    \A w \in Worker :
        /\ req[w].pc \in {"similar", "insert", "group", "attach"} /\ req[w].archive
             => req[w].event \in Archived
        /\ req[w].pc \in {"insert", "group", "attach"} =>
             \A f \in Event : <<req[w].event, f>> \in Twin =>
                attached[f] = NoThread
        /\ req[w].pc \in {"decide", "save"} =>
             \A t \in Thread : req[w].thread = t /\ ThreadExists(t) =>
                req[w].seen = Latest(Attached(t))

SerialInv ==
    /\ IInv
    /\ IsFiniteSet(stored)
    /\ OwnStepInv
    /\ TwinFiledOnce
    /\ CardCoversThread

\* Without faults a card that is behind has an analysis under way.
UnderWay(t) ==
    \E w \in Worker : /\ req[w].pc \in {"read", "decide", "save"}
                      /\ req[w].thread = t
FreshInv == \A t \in Thread : UpToDate(Attached(t), card[t].covers) \/ UnderWay(t)

LEMMA SnapshotIsLatest == ASSUME NEW t PROVE Snapshot(t) = Latest(Attached(t))
  BY Zenon DEF Snapshot, Latest, Later

\* The messages of a thread are stored, so there are finitely many.
LEMMA AttachedFinite ==
    ASSUME IInv, IsFiniteSet(stored), NEW t \in Thread
    PROVE  IsFiniteSet(Attached(t))
  <1>1. Attached(t) \in SUBSET stored
    BY EventAssumption DEF IInv, NoDanglingRow, Attached
  <1>2. QED BY <1>1, FS_Subset

\* A deletion takes a thread with all its messages or leaves it alone.
LEMMA DeletionIsWhole ==
    ASSUME IInv, NEW o \in GmailOwner, DeleteAccountData(o), NEW t \in Thread
    PROVE  ThreadExists(t)' => /\ ThreadExists(t)
                               /\ Attached(t)' = Attached(t)
                               /\ card'[t] = card[t]
  <1> USE EventAssumption
  <1> SUFFICES ASSUME ThreadExists(t)'
               PROVE  /\ ThreadExists(t)
                      /\ Attached(t)' = Attached(t)
                      /\ card'[t] = card[t]
    OBVIOUS
  <1>1. t \notin OwnedThreads(o) /\ opener'[t] = opener[t] /\ card'[t] = card[t]
    BY DEF DeleteAccountData, ThreadExists
  <1>2. ThreadExists(t) /\ OwnerOf[opener[t]] # o
    BY <1>1 DEF OwnedThreads, ThreadExists
  <1>3. ASSUME NEW e \in Event PROVE attached'[e] = t <=> attached[e] = t
    <2>1. attached'[e] = IF OwnerOf[e] = o \/ attached[e] \in OwnedThreads(o)
                         THEN NoThread ELSE attached[e]
      BY DEF DeleteAccountData
    <2>2. CASE attached[e] = t
      <3>1. OwnerOf[opener[t]] = OwnerOf[e]
        BY <1>2, <2>2, OpenerOwner DEF IInv
      <3>2. QED BY <1>1, <1>2, <2>1, <2>2, <3>1
    <2>3. CASE attached[e] # t
      BY <2>1, <2>3
    <2>4. QED BY <2>2, <2>3
  <1>4. Attached(t)' = Attached(t)
    BY <1>3 DEF Attached
  <1>5. QED BY <1>1, <1>2, <1>4
-----------------------------------------------------------------------------
(* Every step keeps them.                                                  *)

\* Which of the three tables an analysis depends on a step may change.
LEMMA TableSteps ==
    ASSUME SerialInv, Next
    PROVE  \/ UNCHANGED <<stored, opener, attached, card>>
           \/ \E w \in Worker :
                InsertEvent(w) \/ AttachEvent(w) \/ SaveAnalysis(w)
           \/ \E t \in Thread, s \in UserStatuses : UpdateCardStatus(t, s)
           \/ \E o \in GmailOwner : DeleteAccountData(o)
           \/ DeleteAllData
  BY DEF Next, IngestNext, Progress, Deliver, AnalyzeArchive, ReconcileSimilar,
         GroupEvent, ReadThread, DecideRouting, RecordInterruption, Raise,
         HourPasses, Crash

LEMMA StoredFinite ==
    ASSUME SerialInv, Next
    PROVE  IsFiniteSet(stored')
  <1> USE DEF SerialInv
  <1>1. ASSUME NEW w \in Worker, InsertEvent(w) PROVE IsFiniteSet(stored')
    <2>1. stored' = stored \/ stored' = stored \cup {req[w].event}
      BY <1>1 DEF InsertEvent
    <2>2. IsFiniteSet(stored \cup {req[w].event})
      BY FS_AddElement
    <2>3. QED BY <2>1, <2>2
  <1>2. CASE stored' \subseteq stored
    BY <1>2, FS_Subset
  <1>3. ASSUME NEW o \in GmailOwner, DeleteAccountData(o)
        PROVE  stored' \subseteq stored
    BY <1>3 DEF DeleteAccountData
  <1>4. DeleteAllData => stored' \subseteq stored
    BY DEF DeleteAllData
  <1>5. ASSUME NEW w \in Worker, AttachEvent(w) \/ SaveAnalysis(w)
        PROVE  stored' \subseteq stored
    BY <1>5 DEF AttachEvent, SaveAnalysis
  <1>6. ASSUME NEW t \in Thread, NEW s \in UserStatuses, UpdateCardStatus(t, s)
        PROVE  stored' \subseteq stored
    BY <1>6 DEF UpdateCardStatus
  <1>7. QED BY TableSteps, <1>1, <1>2, <1>3, <1>4, <1>5, <1>6

\* Only an attach files a message, the one of its request.
LEMMA OnlyAttachFiles ==
    ASSUME SerialInv, Next, NEW e \in Event,
           attached'[e] # NoThread, attached[e] = NoThread
    PROVE  \E w \in Worker : AttachEvent(w) /\ req[w].event = e
                             /\ attached' = [attached EXCEPT ![e] = req[w].thread]
  <1> USE DEF SerialInv, IInv, TypeOK
  <1>1. ASSUME UNCHANGED attached PROVE FALSE
    BY <1>1
  <1>2. ASSUME NEW w \in Worker, InsertEvent(w) \/ SaveAnalysis(w) PROVE FALSE
    BY <1>1, <1>2 DEF InsertEvent, SaveAnalysis
  <1>3. ASSUME NEW t \in Thread, NEW s \in UserStatuses, UpdateCardStatus(t, s)
        PROVE  FALSE
    BY <1>1, <1>3 DEF UpdateCardStatus
  <1>4. ASSUME NEW o \in GmailOwner, DeleteAccountData(o) PROVE FALSE
    BY <1>4 DEF DeleteAccountData
  <1>5. ASSUME DeleteAllData PROVE FALSE
    BY <1>5 DEF DeleteAllData
  <1>6. PICK w \in Worker : AttachEvent(w)
    BY TableSteps, <1>1, <1>2, <1>3, <1>4, <1>5
  <1>7. attached' = [attached EXCEPT ![req[w].event] = req[w].thread]
    BY <1>1, <1>6 DEF AttachEvent
  <1>8. req[w].event = e
    BY <1>7
  <1>9. QED BY <1>6, <1>7, <1>8

\* The rows of a thread that exists after a step, unless the step is the
\* attach or the save of a request.
LEMMA ThreadRowsStay ==
    ASSUME SerialInv, Next, NEW t \in Thread, ThreadExists(t)',
           \A w \in Worker : ~ AttachEvent(w)
    PROVE  ThreadExists(t) /\ Attached(t)' = Attached(t)
  <1> USE DEF SerialInv
  <1>1. CASE UNCHANGED <<opener, attached>>
    BY <1>1 DEF ThreadExists, Attached
  <1>2. ASSUME NEW w \in Worker, InsertEvent(w) \/ SaveAnalysis(w)
        PROVE  UNCHANGED <<opener, attached>>
    BY <1>2 DEF InsertEvent, SaveAnalysis
  <1>3. ASSUME NEW u \in Thread, NEW s \in UserStatuses, UpdateCardStatus(u, s)
        PROVE  UNCHANGED <<opener, attached>>
    BY <1>3 DEF UpdateCardStatus
  <1>4. ASSUME NEW o \in GmailOwner, DeleteAccountData(o)
        PROVE  ThreadExists(t) /\ Attached(t)' = Attached(t)
    BY <1>4, DeletionIsWhole
  <1>5. ~ DeleteAllData
    BY DEF DeleteAllData, ThreadExists
  <1>6. QED BY TableSteps, <1>1, <1>2, <1>3, <1>4, <1>5

\* What a card covers changes when a request saves and when it goes.
LEMMA CoversStay ==
    ASSUME SerialInv, Next, NEW t \in Thread, ThreadExists(t)',
           \A w \in Worker : ~ (SaveAnalysis(w) /\ req[w].thread = t)
    PROVE  card'[t].covers = card[t].covers
  <1> USE DEF SerialInv, IInv
  <1>1. CASE card'[t] = card[t]
    BY <1>1
  <1>2. ASSUME NEW w \in Worker, InsertEvent(w) \/ AttachEvent(w)
        PROVE  card'[t] = card[t]
    BY <1>2 DEF InsertEvent, AttachEvent
  <1>3. ASSUME NEW w \in Worker, SaveAnalysis(w) PROVE card'[t] = card[t]
    BY <1>3 DEF SaveAnalysis, TypeOK
  <1>4. ASSUME NEW u \in Thread, NEW s \in UserStatuses, UpdateCardStatus(u, s)
        PROVE  card'[t].covers = card[t].covers
    <2>1. card[u] \in Card /\ card' = [card EXCEPT ![u] = [card[u] EXCEPT !.status = s]]
      BY <1>4 DEF UpdateCardStatus, CardExists, TypeOK
    <2>2. [card[u] EXCEPT !.status = s].covers = card[u].covers
      BY <2>1 DEF Card
    <2>3. QED BY <2>1, <2>2 DEF TypeOK
  <1>5. ASSUME NEW o \in GmailOwner, DeleteAccountData(o)
        PROVE  card'[t] = card[t]
    BY <1>5, DeletionIsWhole
  <1>6. ~ DeleteAllData
    BY DEF DeleteAllData, ThreadExists
  <1>7. QED BY TableSteps, <1>1, <1>2, <1>3, <1>4, <1>5, <1>6
\* The request at a step, when there is one: what a step of the system makes
\* of its local state.
LEMMA OwnSteps ==
    ASSUME SerialInv, OneAtATime, Next, NEW w \in Worker
    PROVE  \/ req'[w] = req[w] /\ \A v \in Worker : ~ AttachEvent(v)
           \/ Faulty /\ req'[w] = Idle
           \/ \E e \in Event : Deliver(w, e)
           \/ \E t \in Thread : AnalyzeArchive(w, t)
           \/ Progress(w)
  <1> USE DEF SerialInv, IInv, TypeOK
  <1>1. ASSUME NEW v \in Worker, NEW e \in Event, Deliver(v, e)
        PROVE  v = w
    BY DEF OneAtATime
  <1>2. ASSUME NEW v \in Worker, NEW t \in Thread, AnalyzeArchive(v, t)
        PROVE  v = w
    BY DEF OneAtATime
  <1>3. ASSUME NEW v \in Worker, Progress(v) PROVE v = w
    BY DEF OneAtATime
  <1>4. ASSUME NEW v \in Worker, Raise(v)
        PROVE  Faulty /\ req'[w] = Idle
    BY <1>4 DEF Raise, Finish, OneAtATime
  <1>5. CASE Crash
    BY <1>5 DEF Crash
  <1>6. CASE UNCHANGED req
    <2>1. \A v \in Worker : ~ AttachEvent(v)
      <3> SUFFICES ASSUME NEW v \in Worker, AttachEvent(v) PROVE FALSE
        OBVIOUS
      <3>1. req'[v].pc \in {"read", "idle"}
        BY DEF AttachEvent, Finish, Idle, Request
      <3>2. req[v].pc = "attach"
        BY DEF AttachEvent
      <3>3. QED BY <1>6, <3>1, <3>2
    <2>2. QED BY <1>6, <2>1
  <1>7. ASSUME NEW t \in Thread, NEW s \in UserStatuses, UpdateCardStatus(t, s)
        PROVE  UNCHANGED req
    BY <1>7 DEF UpdateCardStatus
  <1>8. ASSUME NEW o \in GmailOwner, DeleteAccountData(o) PROVE UNCHANGED req
    BY <1>8 DEF DeleteAccountData
  <1>9. HourPasses \/ DeleteAllData => UNCHANGED req
    BY DEF HourPasses, DeleteAllData
  <1>10. QED
    BY <1>1, <1>2, <1>3, <1>4, <1>5, <1>6, <1>7, <1>8, <1>9
       DEF Next, IngestNext

LEMMA OwnStepInductive ==
    ASSUME SerialInv, OneAtATime, Next
    PROVE  OwnStepInv'
  <1>0. /\ req \in [Worker -> Request] /\ RequestInv /\ OwnStepInv
    BY DEF SerialInv, IInv, TypeOK
  <1> SUFFICES ASSUME NEW w \in Worker, NEW r, r = req'[w]
               PROVE  /\ r.pc \in {"similar", "insert", "group", "attach"}
                           /\ r.archive
                           => r.event \in Archived
                      /\ r.pc \in {"insert", "group", "attach"} =>
                           \A f \in Event : <<r.event, f>> \in Twin =>
                              attached'[f] = NoThread
                      /\ r.pc \in {"decide", "save"} =>
                           \A t \in Thread : r.thread = t /\ ThreadExists(t)' =>
                              r.seen = Latest(Attached(t)')
    BY DEF OwnStepInv, ThreadExists, Attached, Latest, Later
  <1>1. \/ r = req[w] /\ \A v \in Worker : ~ AttachEvent(v)
        \/ r = Idle
        \/ \E e \in Event : Deliver(w, e)
        \/ \E t \in Thread : AnalyzeArchive(w, t)
        \/ Progress(w)
    BY OwnSteps
  <1>2. CASE r = Idle
    BY <1>2 DEF Idle
  <1>3. ASSUME NEW e \in Event, Deliver(w, e)
        PROVE  r.pc = "similar" /\ r.event = e /\ (r.archive => e \in Archived)
    <2>1. r = [Idle EXCEPT !.pc = "similar", !.event = e,
                           !.archive = e \in Archived]
      BY <1>0, <1>3 DEF Deliver
    <2>2. QED BY <2>1, Zenon DEF Idle
  <1>4. ASSUME NEW t \in Thread, AnalyzeArchive(w, t) PROVE r.pc = "read"
    BY <1>0, <1>4 DEF AnalyzeArchive, Idle
  <1>5. CASE r = req[w] /\ \A v \in Worker : ~ AttachEvent(v)
    <2>1. \A f \in Event : attached[f] = NoThread => attached'[f] = NoThread
      BY <1>5, OnlyAttachFiles
    <2>2. \A t \in Thread : ThreadExists(t)' =>
             ThreadExists(t) /\ Attached(t)' = Attached(t)
      BY <1>5, ThreadRowsStay
    <2>3. QED BY <1>0, <1>5, <2>1, <2>2 DEF OwnStepInv
  <1>6. CASE ReconcileSimilar(w)
    <2>1. UNCHANGED attached /\ req[w].pc = "similar"
      BY <1>6 DEF ReconcileSimilar
    <2>2. CASE Similar(req[w].event)
      BY <1>0, <1>2, <1>6, <2>2 DEF ReconcileSimilar, Finish
    <2>3. CASE ~ Similar(req[w].event)
      <3>1. r = [req[w] EXCEPT !.pc = "insert"]
        BY <1>0, <1>6, <2>3 DEF ReconcileSimilar
      <3>2. r.pc = "insert" /\ r.event = req[w].event /\ r.archive = req[w].archive
        BY <1>0, <3>1 DEF Request
      <3>3. QED BY <1>0, <2>1, <2>3, <3>2 DEF OwnStepInv, Similar
    <2>4. QED BY <2>2, <2>3
  <1>7. CASE InsertEvent(w)
    <2>1. UNCHANGED attached /\ req[w].pc = "insert"
      BY <1>7 DEF InsertEvent
    <2>2. r = Idle \/ r = [req[w] EXCEPT !.pc = "group"]
      BY <1>0, <1>7 DEF InsertEvent, Finish
    <2>3. CASE r = [req[w] EXCEPT !.pc = "group"]
      <3>1. r.pc = "group" /\ r.event = req[w].event /\ r.archive = req[w].archive
        BY <1>0, <2>3 DEF Request
      <3>2. QED BY <1>0, <2>1, <3>1 DEF OwnStepInv
    <2>4. QED BY <1>2, <2>2, <2>3
  <1>8. CASE GroupEvent(w)
    <2>1. UNCHANGED attached /\ req[w].pc = "group"
      BY <1>8 DEF GroupEvent
    <2>2. PICK t : r = [req[w] EXCEPT !.pc = "attach", !.thread = t]
      BY <1>0, <1>8 DEF GroupEvent
    <2>3. /\ r.pc = "attach" /\ r.event = req[w].event
          /\ r.archive = req[w].archive
      BY <1>0, <2>2 DEF Request
    <2>4. QED BY <1>0, <2>1, <2>3 DEF OwnStepInv
  <1>9. CASE AttachEvent(w)
    <2>1. r = Idle \/ r = [req[w] EXCEPT !.pc = "read"]
      BY <1>0, <1>9 DEF AttachEvent, Finish
    <2>2. r = Idle \/ r.pc = "read"
      BY <1>0, <2>1 DEF Request
    <2>3. QED BY <1>2, <2>2
  <1>10. CASE ReadThread(w)
    <2>1. UNCHANGED <<opener, attached>>
      BY <1>10 DEF ReadThread
    <2>2. r = Idle \/ r = [req[w] EXCEPT !.pc = "decide",
                                         !.seen = Snapshot(req[w].thread)]
      BY <1>0, <1>10 DEF ReadThread, Finish
    <2>3. CASE r = [req[w] EXCEPT !.pc = "decide",
                                  !.seen = Snapshot(req[w].thread)]
      <3>1. /\ r.pc = "decide" /\ r.thread = req[w].thread
            /\ r.seen = Latest(Attached(req[w].thread))
        BY <1>0, <2>3, SnapshotIsLatest DEF Request
      <3>2. \A t \in Thread : Attached(t)' = Attached(t)
        BY <2>1 DEF Attached
      <3>3. QED BY <3>1, <3>2
    <2>4. QED BY <1>2, <2>2, <2>3
  <1>11. CASE DecideRouting(w)
    <2>1. UNCHANGED <<opener, attached>> /\ req[w].pc = "decide"
      BY <1>11 DEF DecideRouting
    <2>2. PICK d : r = [req[w] EXCEPT !.pc = "save", !.decision = d]
      BY <1>0, <1>11 DEF DecideRouting
    <2>3. /\ r.pc = "save" /\ r.thread = req[w].thread
          /\ r.seen = req[w].seen
      BY <1>0, <2>2 DEF Request
    <2>4. \A t \in Thread : Attached(t)' = Attached(t)
                             /\ (ThreadExists(t)' => ThreadExists(t))
      BY <2>1 DEF Attached, ThreadExists
    <2>5. QED BY <1>0, <2>1, <2>3, <2>4 DEF OwnStepInv
  <1>12. CASE SaveAnalysis(w)
    <2>1. r = Idle \/ r = [req[w] EXCEPT !.pc = "record"]
      BY <1>0, <1>12 DEF SaveAnalysis, Finish
    <2>2. r = Idle \/ r.pc = "record"
      BY <1>0, <2>1 DEF Request
    <2>3. QED BY <1>2, <2>2
  <1>13. CASE RecordInterruption(w)
    BY <1>0, <1>2, <1>13 DEF RecordInterruption, Finish
  <1>14. QED
    BY <1>1, <1>2, <1>3, <1>4, <1>5, <1>6, <1>7, <1>8, <1>9, <1>10, <1>11,
       <1>12, <1>13 DEF Progress

LEMMA TwinsInductive ==
    ASSUME SerialInv, OneAtATime, Next
    PROVE  TwinFiledOnce'
  <1> USE DEF SerialInv
  <1> SUFFICES ASSUME NEW e \in Event, NEW f \in Event, e # f,
                      <<e, f>> \in Twin, <<f, e>> \in Twin,
                      attached'[e] # NoThread, attached'[f] # NoThread
               PROVE  FALSE
    BY DEF TwinFiledOnce
  <1>1. ASSUME NEW x \in Event, NEW y \in Event, x # y, <<x, y>> \in Twin,
               attached[x] = NoThread,
               attached'[x] # NoThread, attached'[y] # NoThread
        PROVE  FALSE
    <2>1. PICK w \in Worker : /\ AttachEvent(w) /\ req[w].event = x
                              /\ attached' = [attached EXCEPT ![x] = req[w].thread]
      BY <1>1, OnlyAttachFiles
    <2>2. attached[y] = NoThread
      BY <1>1, <2>1 DEF AttachEvent, OwnStepInv
    <2>3. attached'[y] = attached[y]
      BY <1>1, <2>1 DEF IInv, TypeOK
    <2>4. QED BY <1>1, <2>2, <2>3
  <1>2. attached[e] = NoThread \/ attached[f] = NoThread
    BY DEF TwinFiledOnce
  <1>3. QED BY <1>1, <1>2

LEMMA CoversInductive ==
    ASSUME SerialInv, OneAtATime, Next
    PROVE  CardCoversThread'
  <1> USE DEF SerialInv
  <1> SUFFICES ASSUME NEW t \in Thread
               PROVE  card'[t].covers \subseteq Attached(t)'
    BY DEF CardCoversThread
  <1>1. card[t].covers \subseteq Attached(t)
    BY DEF CardCoversThread
  <1>2. IInv'
    BY StepInv
  <1>3. CASE ~ ThreadExists(t)'
    <2>1. card'[t] = NoCard
      BY <1>2, <1>3 DEF IInv, NoDanglingRow, CardExists
    <2>2. QED BY <2>1 DEF NoCard
  <1>4. ASSUME ThreadExists(t)', NEW w \in Worker, AttachEvent(w)
        PROVE  card'[t].covers \subseteq Attached(t)'
    <2>1. card'[t] = card[t]
      BY <1>4 DEF AttachEvent
    <2>2. \A e \in Event : attached[e] = t => attached'[e] = t
      BY <1>4, EventAssumption DEF AttachEvent, IInv, TypeOK
    <2>3. QED BY <1>1, <2>1, <2>2 DEF Attached
  <1>5. ASSUME ThreadExists(t)', NEW w \in Worker, SaveAnalysis(w),
               req[w].thread = t
        PROVE  card'[t].covers \subseteq Attached(t)'
    <2>1. Attached(t)' = Attached(t) /\ ThreadExists(t)
      BY <1>5 DEF SaveAnalysis, Attached, ThreadExists
    <2>2. req[w].seen = Latest(Attached(t))
      BY <1>5, <2>1 DEF SaveAnalysis, OwnStepInv
    <2>3. card'[t].covers = req[w].seen
      BY <1>5, <2>1 DEF SaveAnalysis, IInv, TypeOK
    <2>4. QED BY <2>1, <2>2, <2>3 DEF Latest
  <1>6. CASE /\ ThreadExists(t)'
             /\ \A w \in Worker :
                  ~ AttachEvent(w) /\ ~ (SaveAnalysis(w) /\ req[w].thread = t)
    BY <1>1, <1>6, ThreadRowsStay, CoversStay
  <1>7. QED BY <1>3, <1>4, <1>5, <1>6
LEMMA SerialInductive == OneAtATime /\ SerialInv /\ [Next]_vars => SerialInv'
  <1>1. ASSUME OneAtATime, SerialInv, Next PROVE SerialInv'
    <2>1. IInv'
      BY <1>1, StepInv DEF SerialInv
    <2>2. IsFiniteSet(stored)' /\ OwnStepInv' /\ TwinFiledOnce' /\ CardCoversThread'
      BY <1>1, StoredFinite, OwnStepInductive, TwinsInductive, CoversInductive
    <2>3. QED BY <2>1, <2>2 DEF SerialInv
  <1>2. ASSUME SerialInv, UNCHANGED vars PROVE SerialInv'
    <2>1. IInv'
      BY <1>2, StepInv DEF SerialInv
    <2>2. UNCHANGED <<stored, opener, attached, card, req>>
      BY <1>2 DEF vars
    <2>3. OwnStepInv' /\ TwinFiledOnce' /\ CardCoversThread' /\ IsFiniteSet(stored)'
      BY <1>2, <2>2 DEF SerialInv, OwnStepInv, TwinFiledOnce, CardCoversThread,
                        ThreadExists, Attached
    <2>4. QED BY <2>1, <2>3 DEF SerialInv
  <1>3. QED BY <1>1, <1>2

LEMMA SerialInit == Init => SerialInv
  <1> SUFFICES ASSUME Init PROVE SerialInv
    OBVIOUS
  <1>1. IInv
    BY InitInv
  <1>2. IsFiniteSet(stored)
    BY FS_EmptySet DEF Init
  <1>3. OwnStepInv
    BY DEF Init, OwnStepInv, Idle
  <1>4. TwinFiledOnce
    BY DEF Init, TwinFiledOnce
  <1>5. CardCoversThread
    BY DEF Init, CardCoversThread, NoCard
  <1>6. QED BY <1>1, <1>2, <1>3, <1>4, <1>5 DEF SerialInv

LEMMA Serial == ASSUME OneAtATime PROVE Spec => []SerialInv
  BY SerialInit, SerialInductive, PTL DEF Spec

-----------------------------------------------------------------------------
(* Cards catch up.                                                         *)

\* At most one analysis is under way, that of the request in flight.
LEMMA NothingUnderWay ==
    ASSUME OneAtATime, NEW w \in Worker,
           req[w].pc \notin {"read", "decide", "save"}, NEW t
    PROVE  ~ UnderWay(t)
  BY DEF UnderWay, OneAtATime

LEMMA FreshInductive ==
    ASSUME OneAtATime, ~ Faulty, SerialInv, FreshInv, Next
    PROVE  FreshInv'
  <1>0. /\ req \in [Worker -> Request] /\ IInv /\ OwnStepInv /\ IsFiniteSet(stored)
        /\ attached \in [Event -> Thread \cup {NoThread}]
        /\ RequestInv
    BY DEF SerialInv, IInv, TypeOK
  <1> SUFFICES ASSUME NEW t \in Thread, ~ UnderWay(t)'
               PROVE  UpToDate(Attached(t)', card'[t].covers)
    BY DEF FreshInv, UpToDate, Later
  <1>1. SerialInv'
    BY SerialInductive
  <1>2. UpToDate(Attached(t), card[t].covers) \/ UnderWay(t)
    BY DEF FreshInv
  <1>3. IsFiniteSet(Attached(t))
    BY <1>0, AttachedFinite
  <1>4. CASE ~ ThreadExists(t)'
    <2>1. Attached(t)' = {}
      BY <1>1, <1>4, EventAssumption
         DEF SerialInv, IInv, NoDanglingRow, Attached
    <2>2. QED BY <2>1 DEF UpToDate
  <1>5. ASSUME ThreadExists(t)', NEW w \in Worker, AttachEvent(w)
        PROVE  UpToDate(Attached(t)', card'[t].covers)
    <2> DEFINE e == req[w].event
    <2>1. req[w].pc = "attach" /\ UNCHANGED card /\ e \in Event
      BY <1>0, <1>5 DEF AttachEvent, RequestInv, RequestOK
    <2>2. UpToDate(Attached(t), card[t].covers)
      BY <1>2, <2>1, NothingUnderWay
    <2>3. CASE UNCHANGED attached
      <3>1. Attached(t)' = Attached(t)
        BY <2>3 DEF Attached
      <3>2. QED BY <2>1, <2>2, <3>1
    <2>4. CASE ~ UNCHANGED attached
      <3>1. /\ attached[e] = NoThread
            /\ attached' = [attached EXCEPT ![e] = req[w].thread]
            /\ IF req[w].archive THEN Finish(w)
               ELSE req' = [req EXCEPT ![w].pc = "read"]
        BY <1>5, <2>4 DEF AttachEvent
      <3>2. CASE req[w].thread # t
        <4>1. Attached(t)' = Attached(t)
          BY <1>0, <2>1, <3>1, <3>2, EventAssumption DEF Attached
        <4>2. QED BY <2>1, <2>2, <4>1
      <3>3. CASE req[w].thread = t /\ ~ req[w].archive
        <4>1. req'[w].pc = "read" /\ req'[w].thread = t
          BY <1>0, <3>1, <3>3 DEF Request
        <4>2. QED BY <4>1 DEF UnderWay
      <3>4. CASE req[w].thread = t /\ req[w].archive
        <4>1. e \in Archived
          BY <1>0, <2>1, <3>4 DEF OwnStepInv
        <4>2. Attached(t)' = Attached(t) \cup {e}
          BY <1>0, <2>1, <3>1, <3>4 DEF Attached
        <4>3. QED BY <1>3, <2>1, <2>2, <4>1, <4>2, ArchiveUpToDate
      <3>5. QED BY <3>2, <3>3, <3>4
    <2>5. QED BY <2>3, <2>4
  <1>6. ASSUME ThreadExists(t)', NEW w \in Worker, SaveAnalysis(w),
               req[w].thread = t
        PROVE  UpToDate(Attached(t)', card'[t].covers)
    <2>1. Attached(t)' = Attached(t) /\ ThreadExists(t)
      BY <1>6 DEF SaveAnalysis, Attached, ThreadExists
    <2>2. req[w].seen = Latest(Attached(t))
      BY <1>0, <1>6, <2>1 DEF SaveAnalysis, OwnStepInv
    <2>3. card'[t].covers = req[w].seen
      BY <1>0, <1>6, <2>1 DEF SaveAnalysis, IInv, TypeOK
    <2>4. QED BY <1>3, <2>1, <2>2, <2>3, SnapshotUpToDate
  <1>7. CASE /\ ThreadExists(t)'
             /\ \A w \in Worker :
                  ~ AttachEvent(w) /\ ~ (SaveAnalysis(w) /\ req[w].thread = t)
    <2>1. /\ ThreadExists(t) /\ Attached(t)' = Attached(t)
          /\ card'[t].covers = card[t].covers
      BY <1>7, ThreadRowsStay, CoversStay
    <2>2. ~ UnderWay(t)
      <3> SUFFICES ASSUME NEW w \in Worker, req[w].thread = t,
                          req[w].pc \in {"read", "decide", "save"}
                   PROVE  FALSE
        BY DEF UnderWay
      <3>1. PICK r : r = req'[w]
        OBVIOUS
      <3>2. ~ (r.pc \in {"read", "decide", "save"} /\ r.thread = t)
        BY <3>1 DEF UnderWay
      <3>3. \/ r = req[w]
            \/ \E e \in Event : Deliver(w, e)
            \/ \E u \in Thread : AnalyzeArchive(w, u)
            \/ Progress(w)
        BY <3>1, OwnSteps
      <3>4. r # req[w]
        BY <3>2
      <3>5. ~ \E e \in Event : Deliver(w, e)
        BY DEF Deliver
      <3>6. ~ \E u \in Thread : AnalyzeArchive(w, u)
        BY DEF AnalyzeArchive
      <3>7. ASSUME Progress(w) PROVE FALSE
        <4>1. ReadThread(w) \/ DecideRouting(w) \/ SaveAnalysis(w)
          BY <3>7 DEF Progress, ReconcileSimilar, InsertEvent, GroupEvent,
                      AttachEvent, RecordInterruption
        <4>2. CASE ReadThread(w)
          <5>1. Attached(t) # {}
            BY <1>0, <2>1 DEF IInv, NoDanglingRow
          <5>2. req' = [req EXCEPT ![w].pc = "decide", ![w].seen = Snapshot(t)]
            BY <2>1, <4>2, <5>1 DEF ReadThread
          <5>3. r.pc = "decide" /\ r.thread = t
            BY <1>0, <3>1, <5>2 DEF Request
          <5>4. QED BY <3>2, <5>3
        <4>3. CASE DecideRouting(w)
          <5>1. r.pc = "save" /\ r.thread = t
            BY <1>0, <3>1, <4>3 DEF DecideRouting, Request
          <5>2. QED BY <3>2, <5>1
        <4>4. CASE SaveAnalysis(w)
          BY <1>7, <4>4
        <4>5. QED BY <4>1, <4>2, <4>3, <4>4
      <3>8. QED BY <3>3, <3>4, <3>5, <3>6, <3>7
    <2>3. QED BY <1>2, <2>1, <2>2
  <1>8. QED BY <1>4, <1>5, <1>6, <1>7
-----------------------------------------------------------------------------
(* Theorems.                                                               *)

\* With requests one at a time, and whatever fails or is deleted between two
\* of their steps, a card names messages of its own thread only.
THEOREM CardsNameTheirThread ==
    ASSUME OneAtATime
    PROVE  Spec => []CardCoversThread
  <1>1. SerialInv => CardCoversThread
    BY DEF SerialInv
  <1>2. QED BY <1>1, Serial, PTL

\* So the text of a deleted message is on no card.
THEOREM DeletedIsGone ==
    ASSUME OneAtATime
    PROVE  Spec => []DeletedContentGone
  <1>1. SerialInv => DeletedContentGone
    BY EventAssumption
       DEF SerialInv, IInv, CardCoversThread, NoDanglingRow, DeletedContentGone,
           Attached
  <1>2. QED BY <1>1, Serial, PTL

\* Of two messages similar_chat_event takes for the same item one is filed,
\* also after a request that failed between insert_event and attach_event.
THEOREM TwinsFiledOnce ==
    ASSUME OneAtATime
    PROVE  Spec => []TwinFiledOnce
  <1>1. SerialInv => TwinFiledOnce
    BY DEF SerialInv
  <1>2. QED BY <1>1, Serial, PTL

\* If nothing raises either, no card is left behind by its thread: between
\* two requests every recent live message of a thread is on its card.
THEOREM CardsCatchUp ==
    ASSUME OneAtATime, ~ Faulty
    PROVE  Spec => []CardCurrent
  <1>1. Init => FreshInv
    <2> SUFFICES ASSUME Init, NEW t \in Thread
                 PROVE  UpToDate(Attached(t), card[t].covers)
      BY DEF FreshInv
    <2>1. Attached(t) = {}
      BY EventAssumption DEF Init, Attached
    <2>2. QED BY <2>1 DEF UpToDate
  <1>2. SerialInv /\ FreshInv /\ [Next]_vars => FreshInv'
    <2>1. ASSUME FreshInv, UNCHANGED vars PROVE FreshInv'
      BY <2>1 DEF vars, FreshInv, UpToDate, Later, Attached, UnderWay
    <2>2. QED BY <2>1, FreshInductive
  <1>3. FreshInv => CardCurrent
    BY DEF FreshInv, CardCurrent, UpToDate, UnderWay, Later
  <1>4. QED BY <1>1, <1>2, <1>3, Serial, PTL DEF Spec
-----------------------------------------------------------------------------
(* Requests at once, nothing deleted.                                      *)

\* What an analysis has read stays in its thread.
SeenInv ==
    \A w \in Worker : req[w].pc \in {"decide", "save"} =>
        \A t \in Thread : req[w].thread = t => req[w].seen \subseteq Attached(t)

LEMMA FiledStays ==
    ASSUME IInv, [IngestNext]_vars, NEW e \in Event, attached[e] # NoThread
    PROVE  attached'[e] = attached[e]
  <1>1. ASSUME NEW w \in Worker, Progress(w) PROVE attached'[e] = attached[e]
    <2>1. CASE AttachEvent(w)
      BY <2>1 DEF AttachEvent, IInv, TypeOK
    <2>2. CASE UNCHANGED attached
      BY <2>2
    <2>3. QED
      BY <1>1, <2>1, <2>2 DEF Progress, ReconcileSimilar, InsertEvent,
         GroupEvent, ReadThread, DecideRouting, SaveAnalysis,
         RecordInterruption
  <1>2. CASE UNCHANGED attached
    BY <1>2
  <1>3. QED
    BY <1>1, <1>2 DEF IngestNext, Deliver, AnalyzeArchive, Raise,
       UpdateCardStatus, HourPasses, Crash, vars

\* A step of a request that reads, decides or saves, and what others leave of
\* a request that is at one of these steps.
LEMMA ReadingSteps ==
    ASSUME IInv, [IngestNext]_vars, NEW w \in Worker,
           req'[w].pc \in {"decide", "save"}
    PROVE  \/ /\ req[w].pc \in {"decide", "save"}
              /\ req'[w].thread = req[w].thread /\ req'[w].seen = req[w].seen
           \/ /\ req'[w].thread = req[w].thread
              /\ req'[w].seen = Snapshot(req[w].thread)
              /\ UNCHANGED attached
  <1>0. req \in [Worker -> Request]
    BY DEF IInv, TypeOK
  <1>1. CASE req'[w] = req[w]
    BY <1>1
  <1>3. ASSUME NEW v \in Worker, Raise(v) \/ RecordInterruption(v)
        PROVE  req'[w] = Idle \/ req'[w] = req[w]
    BY <1>0, <1>3 DEF Raise, RecordInterruption, Finish
  <1>4. CASE req'[w] = Idle
    BY <1>4 DEF Idle
  <1>5. ASSUME NEW v \in Worker, v # w,
               \/ \E e \in Event : Deliver(v, e)
               \/ \E t \in Thread : AnalyzeArchive(v, t)
               \/ Progress(v)
        PROVE  req'[w] = req[w]
    BY <1>0, <1>5 DEF Deliver, AnalyzeArchive, Progress, ReconcileSimilar,
       InsertEvent, GroupEvent, AttachEvent, ReadThread, DecideRouting,
       SaveAnalysis, RecordInterruption, Finish
  <1>6. ASSUME NEW e \in Event, Deliver(w, e) PROVE FALSE
    BY <1>0, <1>6 DEF Deliver, Idle
  <1>7. ASSUME NEW t \in Thread, AnalyzeArchive(w, t) PROVE FALSE
    BY <1>0, <1>7 DEF AnalyzeArchive, Idle
  <1>8. CASE ReconcileSimilar(w)
    <2>1. req'[w] = Idle \/ req'[w] = [req[w] EXCEPT !.pc = "insert"]
      BY <1>0, <1>8 DEF ReconcileSimilar, Finish
    <2>2. QED BY <1>0, <1>4, <2>1 DEF Request
  <1>9. CASE InsertEvent(w)
    <2>1. req'[w] = Idle \/ req'[w] = [req[w] EXCEPT !.pc = "group"]
      BY <1>0, <1>9 DEF InsertEvent, Finish
    <2>2. QED BY <1>0, <1>4, <2>1 DEF Request
  <1>10. CASE GroupEvent(w)
    <2>1. PICK t : req'[w] = [req[w] EXCEPT !.pc = "attach", !.thread = t]
      BY <1>0, <1>10 DEF GroupEvent
    <2>2. QED BY <1>0, <2>1 DEF Request
  <1>11. CASE AttachEvent(w)
    <2>1. req'[w] = Idle \/ req'[w] = [req[w] EXCEPT !.pc = "read"]
      BY <1>0, <1>11 DEF AttachEvent, Finish
    <2>2. QED BY <1>0, <1>4, <2>1 DEF Request
  <1>12. CASE ReadThread(w)
    <2>1. UNCHANGED attached
      BY <1>12 DEF ReadThread
    <2>2. req'[w] = Idle \/ req'[w] = [req[w] EXCEPT !.pc = "decide",
                                         !.seen = Snapshot(req[w].thread)]
      BY <1>0, <1>12 DEF ReadThread, Finish
    <2>3. QED BY <1>0, <1>4, <2>1, <2>2 DEF Request
  <1>13. CASE DecideRouting(w)
    <2>1. req[w].pc = "decide"
      BY <1>13 DEF DecideRouting
    <2>2. PICK d : req'[w] = [req[w] EXCEPT !.pc = "save", !.decision = d]
      BY <1>0, <1>13 DEF DecideRouting
    <2>3. QED BY <1>0, <2>1, <2>2 DEF Request
  <1>14. CASE SaveAnalysis(w)
    <2>1. req'[w] = Idle \/ req'[w] = [req[w] EXCEPT !.pc = "record"]
      BY <1>0, <1>14 DEF SaveAnalysis, Finish
    <2>2. QED BY <1>0, <1>4, <2>1 DEF Request
  <1>15. CASE Crash
    BY <1>4, <1>15 DEF Crash
  <1>16. CASE UNCHANGED req
    BY <1>1, <1>16
  <1>17. CASE RecordInterruption(w)
    BY <1>1, <1>3, <1>4, <1>17
  <1>18. CASE HourPasses \/ UNCHANGED vars
    BY <1>16, <1>18 DEF HourPasses, vars
  <1>19. ASSUME NEW t \in Thread, NEW s \in UserStatuses, UpdateCardStatus(t, s)
         PROVE  UNCHANGED req
    BY <1>19 DEF UpdateCardStatus
  <1>20. ASSUME Progress(w) PROVE
            \/ ReconcileSimilar(w) \/ InsertEvent(w) \/ GroupEvent(w)
            \/ AttachEvent(w) \/ ReadThread(w) \/ DecideRouting(w)
            \/ SaveAnalysis(w) \/ RecordInterruption(w)
    BY <1>20 DEF Progress
  <1>21. QED
    BY <1>1, <1>3, <1>4, <1>5, <1>6, <1>7, <1>8, <1>9, <1>10, <1>11, <1>12,
       <1>13, <1>14, <1>15, <1>16, <1>17, <1>18, <1>19, <1>20 DEF IngestNext

\* As long as nothing is deleted a card names messages of its own thread only,
\* however many requests are in flight and whatever fails.
THEOREM CardsNameTheirThreadInFlight == IngestSpec => []CardCoversThread
  <1> DEFINE J == IInv /\ SeenInv /\ CardCoversThread
  <1>1. Init => J
    <2> SUFFICES ASSUME Init PROVE J
      OBVIOUS
    <2>1. IInv
      BY InitInv
    <2>2. SeenInv /\ CardCoversThread
      BY DEF Init, SeenInv, Idle, CardCoversThread, NoCard
    <2>3. QED BY <2>1, <2>2
  <1>2. J /\ [IngestNext]_vars => J'
    <2> SUFFICES ASSUME J, [IngestNext]_vars PROVE J'
      OBVIOUS
    <2>1. IInv'
      BY StepInv DEF Next
    <2>2. \A t \in Thread : Attached(t) \subseteq Attached(t)'
      BY FiledStays, EventAssumption DEF Attached
    <2>3. SeenInv'
      <3> SUFFICES ASSUME NEW w \in Worker, NEW t \in Thread,
                          req'[w].pc \in {"decide", "save"},
                          req'[w].thread = t
                   PROVE  req'[w].seen \subseteq Attached(t)'
        BY DEF SeenInv
      <3>1. CASE /\ req[w].pc \in {"decide", "save"}
                 /\ req'[w].thread = req[w].thread
                 /\ req'[w].seen = req[w].seen
        BY <2>2, <3>1 DEF SeenInv
      <3>2. CASE /\ req'[w].thread = req[w].thread
                 /\ req'[w].seen = Snapshot(req[w].thread)
        <4>1. Snapshot(t) \subseteq Attached(t)
          BY DEF Snapshot
        <4>2. QED BY <2>2, <3>2, <4>1
      <3>3. QED BY <3>1, <3>2, ReadingSteps
    <2>4. CardCoversThread'
      <3> SUFFICES ASSUME NEW t \in Thread
                   PROVE  card'[t].covers \subseteq Attached(t)'
        BY DEF CardCoversThread
      <3>1. CASE card'[t].covers = card[t].covers
        BY <2>2, <3>1 DEF CardCoversThread
      <3>2. ASSUME NEW w \in Worker, SaveAnalysis(w), req[w].thread = t
            PROVE  card'[t].covers \subseteq Attached(t)'
        <4>1. \/ card'[t] = card[t]
              \/ card'[t].covers = req[w].seen
          BY <3>2 DEF SaveAnalysis, IInv, TypeOK
        <4>2. req[w].seen \subseteq Attached(t)
          BY <3>2 DEF SaveAnalysis, SeenInv
        <4>3. QED BY <2>2, <3>1, <4>1, <4>2
      <3>3. ASSUME NEW w \in Worker, Progress(w),
                   ~ (SaveAnalysis(w) /\ req[w].thread = t)
            PROVE  card'[t] = card[t]
        BY <3>3 DEF Progress, ReconcileSimilar, InsertEvent, GroupEvent,
           AttachEvent, ReadThread, DecideRouting, SaveAnalysis,
           RecordInterruption, IInv, TypeOK
      <3>4. ASSUME NEW u \in Thread, NEW s \in UserStatuses,
                   UpdateCardStatus(u, s)
            PROVE  card'[t].covers = card[t].covers
        <4>1. /\ card[u] \in Card
              /\ card' = [card EXCEPT ![u] = [card[u] EXCEPT !.status = s]]
          BY <3>4 DEF UpdateCardStatus, CardExists, IInv, TypeOK
        <4>2. [card[u] EXCEPT !.status = s].covers = card[u].covers
          BY <4>1 DEF Card
        <4>3. QED BY <4>1, <4>2 DEF IInv, TypeOK
      <3>5. CASE UNCHANGED card
        BY <3>1, <3>5
      <3>6. QED
        BY <3>1, <3>2, <3>3, <3>4, <3>5 DEF IngestNext, Deliver,
           AnalyzeArchive, Raise, HourPasses, Crash, vars
    <2>5. QED BY <2>1, <2>3, <2>4
  <1>3. QED BY <1>1, <1>2, PTL DEF IngestSpec
=============================================================================
