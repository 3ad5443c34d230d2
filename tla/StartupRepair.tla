--------------------------- MODULE StartupRepair ---------------------------
(***************************************************************************)
(* create_app repairs what earlier versions stored, before it serves: four *)
(* Database methods and the analyses they call for, one transaction each.  *)
(* The process may die between any two; the next start begins again.       *)
(* Between two starts messages are received and the user works on cards.   *)
(*                                                                         *)
(* One account and one native application per source.  A label stands for  *)
(* a notification title, a text for a message content; both are compared   *)
(* and nothing else.  The first state is a store an older version left.    *)
(* hide_browser_background_cards, which only sets display_mode, and the    *)
(* interruptions rows are left out.  X_Defect is X with a defect a change  *)
(* could bring in; no action uses it.                                      *)
(***************************************************************************)
EXTENDS Integers, FiniteSets

CONSTANTS
    Event,         \* messages, of an older version or received later
    Thread,        \* thread ids; the card of a thread has its id
    Item,          \* reminders, reply drafts and feedback of the user
    NoThread,      \* the null thread
    Label,         \* notification titles, and what is taken out of them
    Kind,          \* [Event -> {"line", "messenger", "browser"}]
    LabelOf,       \* event |-> its title, or the sender its preview names
    TextOf,        \* event |-> its content
    At,            \* event |-> received_at, in minutes
    Archived,      \* events of an imported chat export
    Identity,      \* label |-> [sender, conv, title], see LineRow
    HomeOf,        \* <<source, conv>> |-> the thread id they seed
    OldThread,     \* event |-> its thread in the older store, or NoThread
    LineWindow,    \* 12 hours: replays of a LINE notification
    ChatWindow,    \* 4 hours: replays of a Messenger notification
    TwinWindow,    \* 300 s: an export and its toast
    Faulty         \* TRUE: the process may die between two transactions

Source == {"line", "messenger", "windows"}

ASSUME StoreAssumption ==
    /\ NoThread \notin Thread
    /\ IsFiniteSet(Event)
    /\ "Messenger" \in Label
    /\ Archived \subseteq Event
    /\ Kind \in [Event -> {"line", "messenger", "browser"}]
    /\ LabelOf \in [Event -> Label]
    /\ At \in [Event -> Int]
    /\ \A e, f \in Event : At[e] = At[f] => e = f
    /\ OldThread \in [Event -> Thread \cup {NoThread}]
    /\ LineWindow \in Nat /\ ChatWindow \in 0 .. LineWindow
    /\ TwinWindow \in Nat
    /\ Faulty \in BOOLEAN

\* line_identity_from_title("Ann [Home]") is ("Ann", "Ann [Home]", "Home");
\* the conversation it returns is a fixed point of it.
ASSUME IdentityAssumption ==
    /\ Identity \in [Label -> [sender : Label, conv : Label, title : Label]]
    /\ \A l \in Label : Identity[Identity[l].conv] = Identity[l]
    /\ HomeOf \in [Source \X Label -> Thread]

VARIABLES
    row,           \* event |-> its normalized_events row
    filed,         \* event |-> the thread of its thread_events row
    thread,        \* thread |-> source, sender and conversation of its row
    card,          \* thread |-> its card
    item,          \* item |-> the thread of the card it belongs to
    phase,         \* what create_app does next
    repaired,      \* repaired_line_threads still to be analysed
    merged,        \* merged_messenger_threads still to be analysed
    cut            \* cards a dead process left out of date (for a property)

store == <<row, filed, thread, card, item>>
start == <<phase, repaired, merged>>
vars == <<store, start, cut>>

-----------------------------------------------------------------------------
(* Rows and what the queries read.                                         *)

Row == [source : Source, sender : Label, conv : Label, title : Label]
NoRow == [source |-> "none"]

NoCard == [status |-> "none"]
Card == [status : {"open", "done"}, sender : Label, covers : SUBSET Event,
         fresh : BOOLEAN]

Phase == {"down", "reclassify", "collapse", "normalize", "merge",
          "analyze line", "analyze merged", "serving"}

TypeOK ==
    /\ row \in [Event -> Row \cup {NoRow}]
    /\ filed \in [Event -> Thread \cup {NoThread}]
    /\ thread \in [Thread -> Row \cup {NoRow}]
    /\ card \in [Thread -> Card \cup {NoCard}]
    /\ item \in [Item -> Thread \cup {NoThread}]
    /\ phase \in Phase
    /\ repaired \subseteq Thread /\ merged \subseteq Thread
    /\ cut \subseteq Thread

Stored == {e \in Event : row[e] # NoRow}
In(t) == {e \in Event : filed[e] = t}
ThreadExists(t) == thread[t] # NoRow
CardExists(t) == card[t] # NoCard

\* threads.updated_at is the receipt of the latest message in the thread.
Newer(t, u) == \E e \in In(t) : \A f \in In(u) : At[e] > At[f]

\* line_identity_from_title, Identity, applied to the label of a message.
LineRow(label) ==
    [source |-> "line", sender |-> Identity[label].sender,
     conv |-> Identity[label].conv, title |-> Identity[label].title]
ChatRow(label) ==
    [source |-> "messenger", sender |-> label, conv |-> label, title |-> label]

\* The row normalize_windows makes of a notification.  A browser toast with
\* the title of the site is filed under the sender its preview names.
NewRow(e) ==
    IF Kind[e] = "line" THEN LineRow(LabelOf[e]) ELSE ChatRow(LabelOf[e])

\* The rows of an older version, as the repairs expect them: a LINE title was
\* not taken apart, a browser toast was a Windows notification of the site.
OldRow(e) ==
    CASE Kind[e] = "line" ->
           [ChatRow(LabelOf[e]) EXCEPT !.source = "line"]
      [] Kind[e] = "messenger" -> ChatRow(LabelOf[e])
      [] Kind[e] = "browser" ->
           [source |-> "windows", sender |-> "Messenger",
            conv |-> "Messenger", title |-> "Messenger"]

Old == {e \in Event : OldThread[e] # NoThread}

\* The earliest message of a group heads a cluster, and so does the first one
\* more than the window after the last head.
Heads(group, window) ==
    CHOOSE heads \in SUBSET group :
        \A e \in group :
            e \in heads <=> ~ \E h \in heads : /\ At[h] < At[e]
                                               /\ At[e] - At[h] =< window

Init ==
    /\ row = [e \in Event |-> IF e \in Old THEN OldRow(e) ELSE NoRow]
    /\ filed = OldThread
    /\ thread = [t \in Thread |->
         IF In(t) = {} THEN NoRow
         ELSE OldRow(CHOOSE e \in In(t) : \A f \in In(t) : At[f] =< At[e])]
    /\ \E carded \in SUBSET {t \in Thread : In(t) # {}} :
         /\ card = [t \in Thread |->
              IF t \in carded
              THEN [status |-> "open", sender |-> thread[t].sender,
                    covers |-> In(t), fresh |-> TRUE]
              ELSE NoCard]
         /\ item \in [Item -> carded \cup {NoThread}]
    /\ phase = "down"
    /\ repaired = {} /\ merged = {}
    /\ cut = {}

-----------------------------------------------------------------------------
(* The repairs.                                                            *)

After_NormalizeFirst ==
    [reclassify |-> "normalize", normalize |-> "collapse",
     collapse |-> "merge", merge |-> "analyze line"]
After == [reclassify |-> "collapse", collapse |-> "normalize",
          normalize |-> "merge", merge |-> "analyze line"]

Start ==
    /\ phase = "down"
    /\ phase' = "reclassify"
    /\ UNCHANGED <<store, repaired, merged, cut>>

\* reclassify_messenger_browser_cards: a thread takes the identity of the
\* last of its repaired messages the query returns, in no stated order, and
\* only when none of its messages is of another source.
ReclassifyMessengerCards ==
    LET wrong == {e \in Stored : /\ filed[e] # NoThread
                                 /\ row[e].source = "windows"
                                 /\ row[e].title = "Messenger"}
        touched == {filed[e] : e \in wrong}
        whole == {t \in touched :
                    \A e \in In(t) : row'[e].source = "messenger"}
    IN
    /\ phase = "reclassify"
    /\ row' = [e \in Event |->
                 IF e \in wrong THEN ChatRow(LabelOf[e]) ELSE row[e]]
    /\ \E last \in [touched -> wrong] :
         /\ \A t \in touched : filed[last[t]] = t
         /\ thread' = [t \in Thread |->
              IF t \in whole THEN row'[last[t]] ELSE thread[t]]
         /\ card' = [t \in Thread |->
              IF t \in whole /\ CardExists(t)
              THEN [card[t] EXCEPT !.sender = row'[last[t]].sender]
              ELSE card[t]]
    /\ phase' = After[phase]
    /\ UNCHANGED <<filed, item, repaired, merged, cut>>

\* Two messages are replays of one another if they have the source, the title
\* and the content in common; an exported message never is.
Replays(e) ==
    {f \in Stored \ Archived :
        /\ filed[f] # NoThread
        /\ row[f].source = row[e].source
        /\ row[f].title = row[e].title
        /\ TextOf[f] = TextOf[e]}

\* The cluster of its replays a message falls in starts at the returned one.
ReplayWindow(e) == IF row[e].source = "line" THEN LineWindow ELSE ChatWindow
FirstReplay(e) ==
    CHOOSE h \in Heads(Replays(e), ReplayWindow(e)) :
        At[h] =< At[e] /\ At[e] - At[h] =< ReplayWindow(e)

\* collapse_duplicate_notification_replays removes all but the first message
\* of a cluster, a Messenger cluster from three messages on.
Collapsible ==
    {e \in Stored \ Archived : filed[e] # NoThread /\ row[e].source # "windows"}
Removed_WithFirst(head) ==
    {e \in DOMAIN head :
        \/ /\ row[e].source = "line"
           /\ \E f \in DOMAIN head \ {e} : head[f] = head[e]
        \/ Cardinality({f \in DOMAIN head : head[f] = head[e]}) >= 3}
Removed(head) ==
    {e \in DOMAIN head :
        /\ head[e] # e
        /\ \/ row[e].source = "line"
           \/ Cardinality({f \in DOMAIN head : head[f] = head[e]}) >= 3}

Emptied_None(affected, removed) == {}
Emptied(affected, removed) == {t \in affected : In(t) \subseteq removed}

\* The thread of a removed message, and the thread of the message that stays,
\* get the time of their latest message; an empty thread goes, its card and
\* what belongs to the card with it.
CollapseReplays ==
    /\ phase = "collapse"
    /\ \E head \in {[e \in Collapsible |-> FirstReplay(e)]} :
       \E removed \in {Removed(head)} :
         LET affected == {filed[e] : e \in removed}
                           \cup {filed[head[e]] : e \in removed}
             emptied == Emptied(affected, removed)
         IN
         /\ row' = [e \in Event |-> IF e \in removed THEN NoRow ELSE row[e]]
         /\ filed' = [e \in Event |->
                        IF e \in removed THEN NoThread ELSE filed[e]]
         /\ thread' = [t \in Thread |->
              IF t \in emptied THEN NoRow ELSE thread[t]]
         /\ card' = [t \in Thread |->
              CASE t \in emptied -> NoCard
                [] t \in affected \ emptied /\ CardExists(t) ->
                     [card[t] EXCEPT !.fresh = FALSE]
                [] OTHER -> card[t]]
         /\ item' = [i \in Item |->
              IF item[i] \in emptied THEN NoThread ELSE item[i]]
    /\ phase' = After[phase]
    /\ UNCHANGED <<repaired, merged, cut>>

\* normalize_line_notification_identities, by order of receipt: a thread takes
\* the identity of the last message the repair changed.
NormalizeLineIdentities ==
    LET changed == {e \in Stored \ Archived :
                      /\ filed[e] # NoThread
                      /\ row[e].source = "line"
                      /\ row[e] # LineRow(row[e].conv)}
        affected == {filed[e] : e \in changed}
        Last(t) == CHOOSE e \in changed \cap In(t) :
                     \A f \in changed \cap In(t) : At[f] =< At[e]
    IN
    /\ phase = "normalize"
    /\ row' = [e \in Event |->
                 IF e \in changed THEN LineRow(row[e].conv) ELSE row[e]]
    /\ thread' = [t \in Thread |->
                    IF t \in affected THEN row'[Last(t)] ELSE thread[t]]
    /\ repaired' = affected
    /\ phase' = After[phase]
    /\ UNCHANGED <<filed, card, item, merged, cut>>

-----------------------------------------------------------------------------
(* merge_duplicate_messenger_threads.                                      *)

SameChat(conv) ==
    {t \in Thread : /\ thread[t].source = "messenger"
                    /\ thread[t].conv = conv}
Canonical(conv) ==
    CHOOSE t \in SameChat(conv) :
        \A u \in SameChat(conv) \ {t} : ~ Newer(u, t)

\* A group whose newest thread has no card is left alone.
MergedChats ==
    {l \in Label : /\ Cardinality(SameChat(l)) > 1
                   /\ CardExists(Canonical(l))}

Into(t) ==
    IF \E l \in MergedChats : t \in SameChat(l)
    THEN Canonical(thread[t].conv) ELSE t

Moved(t) == IF t = NoThread THEN NoThread ELSE Into(t)

\* The rows that reference the card of a merged thread are updated first.
NewCard_Cascade(i) ==
    IF Moved(item[i]) = item[i] THEN item[i] ELSE NoThread
NewCard(i) == Moved(item[i])

\* Messages, reminders, drafts and feedback move to the newest thread and its
\* card, whose status stays; the other threads and cards are deleted.
MergeMessengerThreads ==
    LET canonical == {Canonical(l) : l \in MergedChats}
        gone == {t \in Thread : Into(t) # t}
    IN
    /\ phase = "merge"
    /\ filed' = [e \in Event |-> Moved(filed[e])]
    /\ item' = [i \in Item |-> NewCard(i)]
    /\ thread' = [t \in Thread |-> IF t \in gone THEN NoRow ELSE thread[t]]
    /\ card' = [t \in Thread |->
         CASE t \in gone -> NoCard
           [] t \in canonical -> [card[t] EXCEPT !.fresh = FALSE]
           [] OTHER -> card[t]]
    /\ merged' = canonical
    /\ phase' = After[phase]
    /\ UNCHANGED <<row, repaired, cut>>

-----------------------------------------------------------------------------
(* Analyses and the end of the start.                                      *)

\* analyze_thread on an idle store; the status of an existing card is kept.
Analyzed_KeepsSender(t, status) ==
    [status |-> status,
     sender |-> IF CardExists(t) THEN card[t].sender ELSE thread'[t].sender,
     covers |-> {e \in Event : filed'[e] = t}, fresh |-> TRUE]
Analyzed(t, status) ==
    [status |-> status, sender |-> thread'[t].sender,
     covers |-> {e \in Event : filed'[e] = t}, fresh |-> TRUE]
KeptStatus(t) == IF CardExists(t) THEN card[t].status ELSE "open"

AnalyzeRepairedLine(t) ==
    /\ phase = "analyze line"
    /\ t \in repaired
    /\ repaired' = repaired \ {t}
    /\ UNCHANGED <<row, filed, thread, item, phase, merged, cut>>
    /\ card' = [card EXCEPT ![t] = Analyzed(t, KeptStatus(t))]

\* sync_card_event_timestamps, of every LINE thread.
SyncTimestamps_Open ==
    /\ phase = "analyze line" /\ repaired = {}
    /\ card' = [t \in Thread |->
         IF card[t].status = "open" /\ thread[t].source = "line"
         THEN [card[t] EXCEPT !.fresh = FALSE] ELSE card[t]]
    /\ phase' = "analyze merged"
    /\ UNCHANGED <<row, filed, thread, item, repaired, merged, cut>>
SyncTimestamps ==
    /\ phase = "analyze line" /\ repaired = {}
    /\ card' = [t \in Thread |->
         IF CardExists(t) /\ thread[t].source = "line"
         THEN [card[t] EXCEPT !.fresh = FALSE] ELSE card[t]]
    /\ phase' = "analyze merged"
    /\ UNCHANGED <<row, filed, thread, item, repaired, merged, cut>>

AnalyzeMerged(t) ==
    /\ phase = "analyze merged"
    /\ t \in merged
    /\ merged' = merged \ {t}
    /\ UNCHANGED <<row, filed, thread, item, phase, repaired, cut>>
    /\ card' = [card EXCEPT ![t] = Analyzed(t, KeptStatus(t))]

Serve ==
    /\ phase = "analyze merged" /\ merged = {}
    /\ phase' = "serving"
    /\ UNCHANGED <<store, repaired, merged, cut>>

\* What a card shows is out of date: another sender, or messages missing.
OutOfDate(t) ==
    /\ CardExists(t)
    /\ \/ card[t].sender # thread[t].sender
       \/ ~ In(t) \subseteq card[t].covers

\* The process stops while it serves, or dies at any point of the start.
Stop ==
    /\ phase # "down"
    /\ phase = "serving" \/ Faulty
    /\ phase' = "down"
    /\ repaired' = {} /\ merged' = {}
    /\ cut' = cut \cup {t \in Thread : OutOfDate(t)}
    /\ UNCHANGED store

-----------------------------------------------------------------------------
(* Between two starts.                                                     *)

\* similar_chat_event for a notification captured live.
Similar(e) ==
    \E f \in Stored :
        /\ filed[f] # NoThread
        /\ row[f].source = NewRow(e).source
        /\ row[f].conv = NewRow(e).conv
        /\ TextOf[f] = TextOf[e]
        /\ LET line == NewRow(e).source = "line"
               apart == IF At[f] < At[e] THEN At[e] - At[f] ELSE At[f] - At[e]
           IN /\ apart =< IF line THEN LineWindow ELSE TwinWindow
              /\ \/ line
                 \/ (e \in Archived) # (f \in Archived)

\* candidate_thread: the newest thread of the conversation, or the one the
\* conversation seeds.
ThreadFor_Seeded(e) == HomeOf[<<NewRow(e).source, NewRow(e).conv>>]
ThreadFor(e) ==
    LET new == NewRow(e)
        same == {t \in Thread : /\ thread[t].source = new.source
                                /\ thread[t].conv = new.conv}
    IN IF same = {} THEN HomeOf[<<new.source, new.conv>>]
       ELSE CHOOSE t \in same : \A u \in same \ {t} : ~ Newer(u, t)

\* process and the analysis after it.  The process may die after insert_event
\* and after attach_event.
Receive(e) ==
    LET t == ThreadFor(e) IN
    /\ phase = "serving"
    /\ row[e] = NoRow
    /\ ~ Similar(e)
    /\ row' = [row EXCEPT ![e] = NewRow(e)]
    /\ \/ /\ filed' = [filed EXCEPT ![e] = t]
          /\ thread' = [thread EXCEPT ![t] = IF ThreadExists(t) THEN @
                                             ELSE NewRow(e)]
          /\ card' = [card EXCEPT ![t] = Analyzed(t, KeptStatus(t))]
          /\ UNCHANGED <<phase, cut>>
       \/ /\ Faulty
          /\ filed' = [filed EXCEPT ![e] = t]
          /\ thread' = [thread EXCEPT ![t] = IF ThreadExists(t) THEN @
                                             ELSE NewRow(e)]
          /\ cut' = cut \cup {t}
          /\ phase' = "down"
          /\ UNCHANGED card
       \/ /\ Faulty
          /\ phase' = "down"
          /\ UNCHANGED <<filed, thread, card, cut>>
    /\ UNCHANGED <<item, repaired, merged>>

\* The user closes a card, or puts a reminder, a draft or feedback on it.
CloseCard_Upsert(t) ==
    /\ phase = "serving"
    /\ card' = [card EXCEPT ![t].status = "done", ![t].fresh = TRUE]
    /\ UNCHANGED <<row, filed, thread, item, start, cut>>
CloseCard(t) ==
    /\ phase = "serving"
    /\ CardExists(t)
    /\ card' = [card EXCEPT ![t].status = "done", ![t].fresh = TRUE]
    /\ UNCHANGED <<row, filed, thread, item, start, cut>>

AddItem(i, t) ==
    /\ phase = "serving"
    /\ CardExists(t)
    /\ item[i] = NoThread
    /\ item' = [item EXCEPT ![i] = t]
    /\ UNCHANGED <<row, filed, thread, card, start, cut>>

Repair ==
    \/ ReclassifyMessengerCards \/ CollapseReplays
    \/ NormalizeLineIdentities \/ MergeMessengerThreads
    \/ \E t \in Thread : AnalyzeRepairedLine(t) \/ AnalyzeMerged(t)
    \/ SyncTimestamps \/ Serve

Next ==
    \/ Start \/ Repair \/ Stop
    \/ \E e \in Event : Receive(e)
    \/ \E t \in Thread : CloseCard(t) \/ \E i \in Item : AddItem(i, t)

Spec == Init /\ [][Next]_vars

-----------------------------------------------------------------------------
(* Properties.                                                             *)

\* A thread has messages, a card has a thread, an item has a card, and a
\* filed message is stored, whatever was removed or merged.
NoDanglingRow ==
    /\ \A t \in Thread : ThreadExists(t) <=> In(t) # {}
    /\ \A t \in Thread : CardExists(t) => ThreadExists(t)
    /\ \A i \in Item : item[i] # NoThread => CardExists(item[i])
    /\ \A e \in Event : filed[e] # NoThread => e \in Stored

\* analyze_thread raises for a thread without messages, and create_app does
\* not catch it: what the repairs hand over can always be analysed.
StartNeverRaises ==
    \A t \in repaired \cup merged : In(t) # {}

\* What the repairs changed is on the cards again when the service runs; a
\* card is out of date only if a process died before it was analysed.
OutOfDateByCrash ==
    phase = "serving" => \A t \in Thread : OutOfDate(t) => t \in cut

\* A Messenger conversation gets a second thread only when browser toasts are
\* reclassified, and the merge of the same start leaves it two only where the
\* newest has no card.
OneThreadPerChat ==
    [][\A l \in Label : Cardinality(SameChat(l)') > 1 =>
         \/ phase = "reclassify"
         \/ /\ Cardinality(SameChat(l)) > 1
            /\ phase = "merge" /\ phase' # "down"
                 => ~ CardExists(Canonical(l))]_vars

\* A message is removed only if one of the same source, title and content
\* is kept, received before it within the window of its source.
ReplayKept ==
    [][\A e \in Stored : row'[e] = NoRow =>
         \E f \in Stored :
             /\ row'[f] # NoRow
             /\ row[f].source = row[e].source /\ row[f].title = row[e].title
             /\ TextOf[f] = TextOf[e]
             /\ At[f] < At[e] /\ At[e] - At[f] =< LineWindow]_vars

\* What the user put on a card is lost only with every message of the thread.
ItemsFollow ==
    [][\A i \in Item : item[i] # NoThread /\ item'[i] = NoThread =>
         \A e \in In(item[i]) : row'[e] = NoRow]_vars

\* No start makes a LINE card look newly received
\* (sync_card_event_timestamps), not even one that follows a crash.
LineTimesKept ==
    [][phase # "serving" /\ phase' = "serving" =>
         \A t \in Thread : CardExists(t) /\ thread[t].source = "line"
                             => ~ card[t].fresh]_vars

\* Repeated notification-center snapshots are removed "while preserving live
\* repeats": a message nobody of that name sent before is not even a repeat.
OnlyRepeatsRemoved ==
    [][\A e \in Stored : row'[e] = NoRow =>
         \E f \in Stored \ {e} : /\ row[f].conv = row[e].conv
                                 /\ TextOf[f] = TextOf[e]]_vars
=============================================================================
