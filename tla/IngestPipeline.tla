--------------------------- MODULE IngestPipeline ---------------------------
(***************************************************************************)
(* Pipeline.process and Pipeline.analyze_thread run by several request     *)
(* threads at once over one SQLite database.  FastAPI runs the synchronous *)
(* handlers in a thread pool, the webhooks and the Gmail sync run process  *)
(* on the event loop, and nothing in the code serialises them: the unit of *)
(* atomicity is one Database call, which is one transaction.  A request is *)
(* therefore a worker that takes one step per Database call.               *)
(*                                                                         *)
(* Message content is abstracted to what the code compares: the            *)
(* idempotency key, the owner (source and account), the conversation, the  *)
(* sender, the time of receipt and the pairs similar_chat_event takes for  *)
(* the same chat message.                                                  *)
(*                                                                         *)
(* A definition X_Defect is X with a defect a change of the code could     *)
(* bring in.  No action uses it: the project substitutes it for X to see   *)
(* that a property notices.                                                *)
(***************************************************************************)
EXTENDS Integers, FiniteSets

CONSTANTS
    Worker,        \* requests that may be in flight at the same time
    Event,         \* event ids the sources may deliver, any number of times
    Thread,        \* thread ids
    Owner,         \* (source, account_id) pairs
    GmailOwner,    \* those of Gmail accounts, the ones reset-data takes
    NoEvent,       \* the null event id
    NoThread,      \* the null thread id
    Kind,          \* [Event -> {"gmail", "chat", "plain"}], see CandidateThread
    OwnerOf,       \* [Event -> Owner]
    KeyOf,         \* event |-> its idempotency_key
    SenderOf,      \* event |-> its sender
    HomeOf,        \* [Event -> Thread], the thread id the event itself seeds
    At,            \* [Event -> Int], received_at (event_id breaks ties)
    Twin,          \* <<e, f>> \in Twin: similar_chat_event(e) accepts row f
    Archived,      \* events of an imported chat export
    Verdicts,      \* what rules, model, validator and score may conclude
    UserStatuses,  \* what the user may set a card to
    Window,        \* notification_window_seconds
    ThreadCap,     \* 12 events close a burst
    SnapshotLimit, \* the 50 latest messages an analysis reads
    MaxPerHour,    \* max_interruptions_per_hour
    Faulty         \* TRUE: Database calls, bus and gateway may raise

ASSUME EventAssumption ==
    /\ NoEvent \notin Event
    /\ NoThread \notin Thread
    /\ Archived \subseteq Event
    /\ GmailOwner \subseteq Owner
    /\ Twin \subseteq Event \X Event

ASSUME AttributeAssumption ==
    /\ Kind \in [Event -> {"gmail", "chat", "plain"}]
    /\ OwnerOf \in [Event -> Owner]
    /\ HomeOf \in [Event -> Thread]
    /\ At \in [Event -> Int]
    /\ \A e, f \in Event : At[e] = At[f] => e = f

\* The seed of a thread id names source and account (grouping.py:19-29), so
\* events of two owners never seed the same thread.
ASSUME HomeAssumption ==
    \A e, f \in Event : HomeOf[e] = HomeOf[f] => OwnerOf[e] = OwnerOf[f]

\* Twins have the same source, account and conversation (database.py:444-446).
ASSUME TwinAssumption ==
    \A p \in Twin : OwnerOf[p[1]] = OwnerOf[p[2]]

ASSUME LimitAssumption ==
    /\ Window \in Nat /\ ThreadCap \in Nat
    /\ SnapshotLimit \in Nat \ {0}
    /\ MaxPerHour \in Nat
    /\ IsFiniteSet(Worker)
    /\ IsFiniteSet(Thread)
    /\ Faulty \in BOOLEAN

\* "surface": the score passes surface_threshold; "override": it does and
\* allowed_quiet_override holds; "inbox" also stands for shadow mode.
ASSUME VerdictAssumption ==
    /\ Verdicts \subseteq {"surface", "override", "inbox", "digest", "hidden"}
    /\ UserStatuses \subseteq {"snoozed", "done", "dismissed"}

VARIABLES
    stored,        \* event ids with a raw_events and a normalized_events row
    opener,        \* thread |-> event whose attach created the threads row
    attached,      \* event |-> thread of its thread_events row
    card,          \* thread |-> its notification_cards and triage_results row
    interruption,  \* thread |-> the interruptions row of its card
    req            \* worker |-> local state of the request it runs

vars == <<stored, opener, attached, card, interruption, req>>

-----------------------------------------------------------------------------
(* Types.                                                                  *)

Status == {"open", "snoozed", "done", "dismissed"}
Mode == {"surface_now", "inbox", "digest", "hidden"}
Card == [status : Status, mode : Mode, covers : SUBSET Event]
NoCard == [status |-> "none", mode |-> "none", covers |-> {}]

\* "budgeted" and "override" rows are younger than an hour.  The table does
\* not hold which decision wrote a row: the tag is kept for the properties.
Interruption == {"none", "budgeted", "override", "old"}

Decision == {"surface_now", "override", "inbox", "digest", "hidden"}
Surfacing == {"surface_now", "override"}

Step == {"similar", "insert", "group", "attach",
         "read", "decide", "save", "record"}
Idle == [pc |-> "idle", event |-> NoEvent, thread |-> NoThread,
         archive |-> FALSE, seen |-> {}, decision |-> "inbox"]

Request == [pc : Step \cup {"idle"},
            event : Event \cup {NoEvent},
            thread : Thread \cup {NoThread},
            archive : BOOLEAN,
            seen : SUBSET Event,
            decision : Decision]

TypeOK ==
    /\ stored \subseteq Event
    /\ opener \in [Thread -> Event \cup {NoEvent}]
    /\ attached \in [Event -> Thread \cup {NoThread}]
    /\ card \in [Thread -> Card \cup {NoCard}]
    /\ interruption \in [Thread -> Interruption]
    /\ req \in [Worker -> Request]

-----------------------------------------------------------------------------
(* What the queries read.                                                  *)

ThreadExists(t) == opener[t] # NoEvent
CardExists(t) == card[t] # NoCard

Attached(t) == {e \in Event : attached[e] = t}

\* The row insert_event looks up before it inserts.
Known_ById(e) == e \in stored
Known(e) == \E f \in stored : KeyOf[f] = KeyOf[e] \/ f = e

\* similar_chat_event joins thread_events: a stored event whose attach is
\* still to come is not seen.
Similar_ToArchive(e) ==
    \E f \in Archived : <<e, f>> \in Twin /\ attached[f] # NoThread
Similar(e) == \E f \in Event : <<e, f>> \in Twin /\ attached[f] # NoThread

\* interruption_count_since(now - 1 hour)
Recent(t) == interruption[t] \in {"budgeted", "override"}

\* threads.updated_at is the latest receipt attached: t is at least as new.
NotOlder(t, u) ==
    \A f \in Attached(u) : \E e \in Attached(t) : At[e] >= At[f]

\* threads.updated_at lies within the grouping window around event e.
UpdatedNear(t, e) ==
    /\ \E f \in Attached(t) : At[f] >= At[e] - Window
    /\ \A f \in Attached(t) : At[f] =< At[e] + Window

\* ORDER BY updated_at DESC LIMIT 1
Newest(S) == {t \in S : \A u \in S : NotOlder(t, u)}

\* The conversation id; COALESCE(conversation_id, title, ''), with which a
\* message without one finds the thread of its title, is left out.
ConversationThreads(e) ==
    {t \in Thread : /\ ThreadExists(t)
                    /\ Kind[opener[t]] = "chat"
                    /\ HomeOf[opener[t]] = HomeOf[e]}

BurstThreads_AnyAccount(e) ==
    {t \in Thread : /\ ThreadExists(t)
                    /\ SenderOf[opener[t]] = SenderOf[e]
                    /\ UpdatedNear(t, e)
                    /\ Cardinality(Attached(t)) < ThreadCap}
BurstThreads(e) ==
    {t \in Thread : /\ ThreadExists(t)
                    /\ OwnerOf[opener[t]] = OwnerOf[e]
                    /\ SenderOf[opener[t]] = SenderOf[e]
                    /\ UpdatedNear(t, e)
                    /\ Cardinality(Attached(t)) < ThreadCap}

\* Gmail goes by its own thread id.  A chat message joins its conversation;
\* without one, and for every plain notification, the newest thread of the
\* same sender inside the window.
CandidateThread(e) ==
    IF Kind[e] = "gmail" THEN {}
    ELSE IF Kind[e] = "chat" /\ ConversationThreads(e) # {}
         THEN Newest(ConversationThreads(e))
         ELSE Newest(BurstThreads(e))

\* ThreadGrouper.group: the candidate or else the thread id e seeds.
GroupTargets_Unseeded(e) == CandidateThread(e)
GroupTargets(e) ==
    IF CandidateThread(e) # {} THEN CandidateThread(e) ELSE {HomeOf[e]}

\* grouped_thread(limit=50): the latest messages of the thread.
Snapshot_Oldest(t) ==
    {e \in Attached(t) :
        Cardinality({f \in Attached(t) : At[f] < At[e]}) < SnapshotLimit}
Snapshot_Sender(t) ==
    {e \in stored : /\ OwnerOf[e] = OwnerOf[opener[t]]
                    /\ SenderOf[e] = SenderOf[opener[t]]}
Snapshot(t) ==
    {e \in Attached(t) :
        Cardinality({f \in Attached(t) : At[f] > At[e]}) < SnapshotLimit}

BudgetSpent_Late == Cardinality({t \in Thread : Recent(t)}) > MaxPerHour
BudgetSpent == Cardinality({t \in Thread : Recent(t)}) >= MaxPerHour

\* The routing part of InterruptionPolicy.decide and the archive override.
Decide(verdict, archive) ==
    IF archive THEN "inbox"
    ELSE CASE verdict = "surface" -> IF BudgetSpent THEN "digest"
                                                    ELSE "surface_now"
           [] OTHER -> verdict

\* The upsert of save_analysis leaves status and snoozed_until of a card alone.
KeptStatus_Reopened(t) == "open"
KeptStatus(t) == IF CardExists(t) THEN card[t].status ELSE "open"

ModeOf(decision) == IF decision \in Surfacing THEN "surface_now" ELSE decision

-----------------------------------------------------------------------------
(* Steps of a request.                                                     *)

Init ==
    /\ stored = {}
    /\ opener = [t \in Thread |-> NoEvent]
    /\ attached = [e \in Event |-> NoThread]
    /\ card = [t \in Thread |-> NoCard]
    /\ interruption = [t \in Thread |-> "none"]
    /\ req = [w \in Worker |-> Idle]

Finish(w) == req' = [req EXCEPT ![w] = Idle]

\* A source delivers e, for the first time or again.
Deliver(w, e) ==
    /\ req[w].pc = "idle"
    /\ req' = [req EXCEPT ![w] = [Idle EXCEPT !.pc = "similar",
                                              !.event = e,
                                              !.archive = e \in Archived]]
    /\ UNCHANGED <<stored, opener, attached, card, interruption>>

\* analyze_thread, called for every thread an archive import touched.
AnalyzeArchive(w, t) ==
    /\ req[w].pc = "idle"
    /\ Attached(t) \cap Archived # {}
    /\ req' = [req EXCEPT ![w] = [Idle EXCEPT !.pc = "read",
                                              !.thread = t,
                                              !.archive = TRUE]]
    /\ UNCHANGED <<stored, opener, attached, card, interruption>>

ReconcileSimilar(w) ==
    /\ req[w].pc = "similar"
    /\ IF Similar(req[w].event)
       THEN Finish(w)
       ELSE req' = [req EXCEPT ![w].pc = "insert"]
    /\ UNCHANGED <<stored, opener, attached, card, interruption>>

\* insert_event: the look-up and both inserts are one transaction.
InsertEvent(w) ==
    LET e == req[w].event IN
    /\ req[w].pc = "insert"
    /\ IF Known(e)
       THEN Finish(w) /\ UNCHANGED stored
       ELSE /\ stored' = stored \cup {e}
            /\ req' = [req EXCEPT ![w].pc = "group"]
    /\ UNCHANGED <<opener, attached, card, interruption>>

\* candidate_thread reads; the thread is written by the next transaction.
GroupEvent(w) ==
    /\ req[w].pc = "group"
    /\ \E t \in GroupTargets(req[w].event) :
         req' = [req EXCEPT ![w].pc = "attach", ![w].thread = t]
    /\ UNCHANGED <<stored, opener, attached, card, interruption>>

\* attach_event creates the threads row if it is missing.  A foreign key
\* refuses an event that is gone, UNIQUE(event_id) a second attachment: the
\* transaction is rolled back and the request ends in the except branch.
AttachEvent(w) ==
    LET e == req[w].event
        t == req[w].thread IN
    /\ req[w].pc = "attach"
    /\ IF e \in stored /\ attached[e] = NoThread
       THEN /\ attached' = [attached EXCEPT ![e] = t]
            /\ opener' = IF ThreadExists(t) THEN opener
                         ELSE [opener EXCEPT ![t] = e]
            /\ IF req[w].archive THEN Finish(w)
               ELSE req' = [req EXCEPT ![w].pc = "read"]
       ELSE Finish(w) /\ UNCHANGED <<attached, opener>>
    /\ UNCHANGED <<stored, card, interruption>>

\* _analyze_thread raises if the thread is gone.
ReadThread(w) ==
    LET t == req[w].thread IN
    /\ req[w].pc = "read"
    /\ IF ThreadExists(t) /\ Attached(t) # {}
       THEN req' = [req EXCEPT ![w].pc = "decide", ![w].seen = Snapshot(t)]
       ELSE Finish(w)
    /\ UNCHANGED <<stored, opener, attached, card, interruption>>

\* Rules, model, validator, preference score and policy; the number of
\* recent interruptions is read here, and written by RecordInterruption.
DecideRouting(w) ==
    /\ req[w].pc = "decide"
    /\ \E verdict \in Verdicts :
         req' = [req EXCEPT ![w].pc = "save",
                            ![w].decision = Decide(verdict, req[w].archive)]
    /\ UNCHANGED <<stored, opener, attached, card, interruption>>

SaveAnalysis_NoForeignKey(w) ==
    LET r == req[w] IN
    /\ r.pc = "save"
    /\ card' = [card EXCEPT ![r.thread] =
         [status |-> KeptStatus(r.thread),
          mode   |-> ModeOf(r.decision),
          covers |-> r.seen]]
    /\ Finish(w)
    /\ UNCHANGED <<stored, opener, attached, interruption>>

\* save_analysis: the foreign key refuses a thread that is gone.
SaveAnalysis(w) ==
    LET r == req[w] IN
    /\ r.pc = "save"
    /\ IF ThreadExists(r.thread)
       THEN /\ card' = [card EXCEPT ![r.thread] =
                 [status |-> KeptStatus(r.thread),
                  mode   |-> ModeOf(r.decision),
                  covers |-> r.seen]]
            /\ IF r.decision \in Surfacing
               THEN req' = [req EXCEPT ![w].pc = "record"]
               ELSE Finish(w)
       ELSE Finish(w) /\ UNCHANGED card
    /\ UNCHANGED <<stored, opener, attached, interruption>>

\* record_interruption: INSERT OR IGNORE, one row per card for ever.
RecordInterruption(w) ==
    LET r == req[w] IN
    /\ r.pc = "record"
    /\ interruption' =
         IF interruption[r.thread] # "none" THEN interruption
         ELSE [interruption EXCEPT ![r.thread] =
                 IF r.decision = "override" THEN "override" ELSE "budgeted"]
    /\ Finish(w)
    /\ UNCHANGED <<stored, opener, attached, card>>

\* Any call may raise: a lock held past busy_timeout, a subscriber set that
\* changed while publish iterates it, a gateway error analyze does not catch.
Raise(w) ==
    /\ Faulty
    /\ req[w].pc # "idle"
    /\ Finish(w)
    /\ UNCHANGED <<stored, opener, attached, card, interruption>>

Progress(w) ==
    \/ ReconcileSimilar(w)
    \/ InsertEvent(w)
    \/ GroupEvent(w)
    \/ AttachEvent(w)
    \/ ReadThread(w)
    \/ DecideRouting(w)
    \/ SaveAnalysis(w)
    \/ RecordInterruption(w)

-----------------------------------------------------------------------------
(* The user, the clock and the process.                                    *)

UpdateCardStatus_Upsert(t, s) ==
    /\ card' = [card EXCEPT ![t].status = s]
    /\ UNCHANGED <<stored, opener, attached, interruption, req>>

\* update_card_status, from snooze, mark_done and dismiss.
UpdateCardStatus(t, s) ==
    /\ CardExists(t)
    /\ card' = [card EXCEPT ![t].status = s]
    /\ UNCHANGED <<stored, opener, attached, interruption, req>>

\* The rows of the last hour leave interruption_count_since.
HourPasses ==
    /\ \E t \in Thread : Recent(t)
    /\ interruption' = [t \in Thread |-> IF Recent(t) THEN "old"
                                         ELSE interruption[t]]
    /\ UNCHANGED <<stored, opener, attached, card, req>>

OwnedThreads_WithCard(o) ==
    {t \in Thread : CardExists(t) /\ OwnerOf[opener[t]] = o}
OwnedThreads(o) == {t \in Thread : ThreadExists(t) /\ OwnerOf[opener[t]] = o}

\* delete_source_account_data: interruptions are found through the cards,
\* the rest goes with the threads and raw_events rows (ON DELETE CASCADE).
DeleteAccountData(o) ==
    LET gone == OwnedThreads(o) IN
    /\ stored' = {e \in stored : OwnerOf[e] # o}
    /\ opener' = [t \in Thread |-> IF t \in gone THEN NoEvent ELSE opener[t]]
    /\ attached' = [e \in Event |-> IF OwnerOf[e] = o \/ attached[e] \in gone
                                    THEN NoThread ELSE attached[e]]
    /\ card' = [t \in Thread |-> IF t \in gone THEN NoCard ELSE card[t]]
    /\ interruption' = [t \in Thread |-> IF t \in gone /\ CardExists(t)
                                         THEN "none" ELSE interruption[t]]
    /\ UNCHANGED req

\* delete_all_personal_data
DeleteAllData ==
    /\ stored' = {}
    /\ opener' = [t \in Thread |-> NoEvent]
    /\ attached' = [e \in Event |-> NoThread]
    /\ card' = [t \in Thread |-> NoCard]
    /\ interruption' = [t \in Thread |-> "none"]
    /\ UNCHANGED req

\* The service process dies: every request in flight is lost, SQLite is not.
Crash ==
    /\ Faulty
    /\ \E w \in Worker : req[w].pc # "idle"
    /\ req' = [w \in Worker |-> Idle]
    /\ UNCHANGED <<stored, opener, attached, card, interruption>>

\* Everything but deletion.
IngestNext ==
    \/ \E w \in Worker, e \in Event : Deliver(w, e)
    \/ \E w \in Worker, t \in Thread : AnalyzeArchive(w, t)
    \/ \E w \in Worker : Progress(w) \/ Raise(w)
    \/ \E t \in Thread, s \in UserStatuses : UpdateCardStatus(t, s)
    \/ HourPasses
    \/ Crash

Next ==
    \/ IngestNext
    \/ \E o \in GmailOwner : DeleteAccountData(o)
    \/ DeleteAllData

Spec == Init /\ [][Next]_vars
IngestSpec == Init /\ [][IngestNext]_vars

\* A request thread the scheduler runs takes its next step; nothing obliges
\* a source to deliver, a user to act or a fault to happen.
Fairness == \A w \in Worker : WF_vars(Progress(w))
FairSpec == Spec /\ Fairness

\* Besides, every source redelivers each of its messages again and again, and
\* from some time on nothing fails and nobody interferes.
Undisturbed == \E w \in Worker : Progress(w) \/ \E e \in Event : Deliver(w, e)
RetrySpec ==
    /\ FairSpec
    /\ \A e \in Event : SF_vars(\E w \in Worker : Deliver(w, e))
    /\ <>[][Undisturbed]_vars

-----------------------------------------------------------------------------
(* Properties.                                                             *)

\* Two stored events never share an idempotency key, whatever the requests
\* in flight (insert_event looks up and inserts in one transaction).
AtMostOnce ==
    \A e, f \in stored : KeyOf[e] = KeyOf[f] => e = f

\* A thread, and the analysis shown for it, holds messages of one account
\* only (grouping.py and candidate_thread), also when a thread disappears
\* under a request that had chosen it.
AccountIsolation ==
    \A t \in Thread :
        /\ \A e, f \in Attached(t) : OwnerOf[e] = OwnerOf[f]
        /\ \A e \in Attached(t) \cup card[t].covers :
              ThreadExists(t) => OwnerOf[e] = OwnerOf[opener[t]]

\* No row dangles: an attached event and its thread are stored, a thread
\* has a message (actions.py:43 takes events[-1]) and a card a thread.
NoDanglingRow ==
    /\ \A e \in Event : attached[e] # NoThread =>
          e \in stored /\ ThreadExists(attached[e])
    /\ \A t \in Thread : ThreadExists(t) => Attached(t) # {}
    /\ \A t \in Thread : CardExists(t) => ThreadExists(t)

Budgeted == {t \in Thread : interruption[t] = "budgeted"}

\* decide counts the interruptions rows of the last hour, record_interruption
\* adds one later, and only for a card that has none: with n requests at once
\* the rows one hour adds without an override exceed MaxPerHour by at most
\* n - 1, and not at all when requests run one at a time.  This bounds the
\* cards that interrupt for the first time.  It does not bound interruptions:
\* cards with a row surface again uncounted, also one request at a time.
InterruptionRowsBounded ==
    Budgeted # {} =>
        Cardinality(Budgeted) =< MaxPerHour + Cardinality(Worker) - 1

\* A card summarises messages of its own thread only.
CardCoversThread ==
    \A t \in Thread : card[t].covers \subseteq Attached(t)

\* Once no request is in flight, the card of a thread takes into account
\* every recent live message attached to it (save_analysis writes what an
\* earlier transaction read).
CardCurrent ==
    (\A w \in Worker : req[w].pc = "idle") =>
        \A t \in Thread : \A e \in Attached(t) \ Archived :
            \/ e \in card[t].covers
            \/ Cardinality({f \in Attached(t) : At[f] > At[e]})
                 >= SnapshotLimit

\* Of two messages similar_chat_event takes for the same item, one is filed.
TwinFiledOnce ==
    \A e, f \in Event :
        /\ e # f
        /\ <<e, f>> \in Twin
        /\ <<f, e>> \in Twin
        => attached[e] = NoThread \/ attached[f] = NoThread

\* What a card shows of a message goes when the message is deleted.  An
\* analysis whose thread was deleted under it must not bring it back.
DeletedContentGone ==
    \A t \in Thread : card[t].covers \subseteq stored

\* Only the user changes the status of a card: an analysis that arrives
\* after done, dismiss or snooze does not reopen it.
StatusIsTheUsers ==
    [][\A t \in Thread :
         CardExists(t) /\ CardExists(t)' /\ card[t].status # card'[t].status
         => UNCHANGED req]_vars

\* Messages are not moved: an attached event stays in its thread until the
\* data of its account is deleted.  EventLedger promises the same, so the runs
\* have it from ImplementsLedger; it is proved on its own as AttachedOnce.
AttachmentStable ==
    [][\A e \in Event : attached[e] # NoThread =>
         attached'[e] = attached[e] \/ e \notin stored']_vars

\* What has been accepted ends on a card, or is deleted.
EventuallyCarded ==
    \A e \in Event \ Archived :
        e \in stored ~> \/ e \notin stored
                        \/ /\ attached[e] # NoThread
                           /\ CardExists(attached[e])

\* Seen from its two tables of messages, the pipeline is an EventLedger:
\* interleaving, failing and deleting never show there.
Ledger == INSTANCE EventLedger WITH accepted <- stored, filedIn <- attached
ImplementsLedger == Ledger!Spec
=============================================================================
