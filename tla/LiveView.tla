------------------------------ MODULE LiveView ------------------------------
(***************************************************************************)
(* How a change of the store reaches the screen: request handlers commit   *)
(* and then publish on the EventBus, the background worker fires the       *)
(* reminders that are due, the SSE generator forwards the queue of its     *)
(* subscription, the native shell reloads.  One shell; shells share        *)
(* nothing but the store, and every one has a queue of its own.            *)
(*                                                                         *)
(* The contents of the store are abstracted to the number of changes made  *)
(* so far, and what the shell shows to the number it had read.  The view   *)
(* and the filters of a load are left out, and so are preferences and      *)
(* connectors, which only a bootstrap response sets.  Messages the shell   *)
(* ignores (event_ingested, triage_started, ...) are left out: they make a *)
(* queue fill sooner, as a small Capacity does.  So is digest_ready, which *)
(* the tray shows like a reminder and no row stands behind.                *)
(*                                                                         *)
(* A definition X_Defect is X with a defect a change of the code could     *)
(* bring in.  No action uses it: the project substitutes it for X to see   *)
(* that a property notices.                                                *)
(***************************************************************************)
EXTENDS Integers, Sequences, FiniteSets

CONSTANTS
    Reminder,     \* reminders the user may create
    Load,         \* reloads of the shell that may run at the same time
    NoLoad,       \* nobody holds the refresh lock
    MaxChanges,   \* bound on the changes of the store
    Capacity,     \* maxsize=100 of a subscriber queue
    Faulty        \* TRUE: publish and HTTP calls may raise

ASSUME LiveAssumption ==
    /\ "change" \notin Reminder
    /\ NoLoad \notin Load
    /\ IsFiniteSet(Reminder)
    /\ MaxChanges \in Nat
    /\ Capacity \in Nat \ {0}
    /\ Faulty \in BOOLEAN

VARIABLES
    store,       \* changes committed so far
    due,         \* handlers between their commit and their publish
    reminder,    \* reminder |-> status of its row, "due" once its time is past
    firing,      \* rows fire_due_reminders returned, not yet published
    alive,       \* background_worker has not ended with an exception
    published,   \* messages published so far
    subscribed,  \* the queue of the shell is one of bus._subscribers
    queue,       \* that queue, drained by the SSE generator
    stream,      \* the shell has the stream open
    received,    \* number of the last message before the queue
    ui,          \* the shell runs
    load,        \* reload |-> local state
    lock,        \* the reload that holds _refreshLock
    cards,       \* change the card list shows
    counts,      \* change the badges show
    shown,       \* reminder |-> how often the tray showed it
    missed       \* history: a change was lost on the way and not shown since

service == <<store, due, reminder, firing, alive>>
line == <<published, subscribed, queue, stream, received>>
shell == <<ui, load, lock, cards, counts, shown>>
vars == <<store, due, reminder, firing, alive, published, subscribed, queue,
          stream, received, ui, load, lock, cards, counts, shown, missed>>

-----------------------------------------------------------------------------
Change == 0 .. MaxChanges
MaxPublished == MaxChanges + Cardinality(Reminder)
Message == [no : 1 .. MaxPublished, body : {"change"} \cup Reminder]

Idle == [pc |-> "idle", got |-> 0]
LoadState == [pc : {"idle", "asked", "answered", "waiting", "asking", "loaded"},
              got : Change]

TypeOK ==
    /\ store \in Change /\ due \in Change
    /\ reminder \in [Reminder -> {"none", "pending", "due", "fired"}]
    /\ firing \subseteq Reminder
    /\ published \in 0 .. MaxPublished
    /\ received \in 0 .. MaxPublished
    /\ queue \in Seq(Message) /\ Len(queue) =< Capacity
    /\ {alive, subscribed, stream, ui, missed} \subseteq BOOLEAN
    /\ load \in [Load -> LoadState]
    /\ lock \in Load \cup {NoLoad}
    /\ cards \in Change /\ counts \in Change
    /\ shown \in [Reminder -> 0 .. 2]

Carries(q, body) == \E i \in 1 .. Len(q) : q[i].body = body
Loading == \E l \in Load : load[l].pc # "idle"

Init ==
    /\ store = 0 /\ due = 0
    /\ reminder = [r \in Reminder |-> "none"]
    /\ firing = {}
    /\ alive = TRUE
    /\ published = 0 /\ received = 0
    /\ subscribed = FALSE /\ stream = FALSE
    /\ queue = <<>>
    /\ ui = FALSE
    /\ load = [l \in Load |-> Idle]
    /\ lock = NoLoad
    /\ cards = 0 /\ counts = 0
    /\ shown = [r \in Reminder |-> 0]
    /\ missed = TRUE

-----------------------------------------------------------------------------
(* The service.                                                            *)

\* A handler commits: an analysis, a card action, settings, a deletion.
Commit ==
    /\ store < MaxChanges
    /\ store' = store + 1
    /\ due' = due + 1
    /\ UNCHANGED <<reminder, firing, alive, line, shell, missed>>

Accepts_Unbounded == subscribed
Accepts == subscribed /\ Len(queue) < Capacity

\* A queue that is full is discarded from the subscribers.
KeepsSubscription_Skip == subscribed
KeepsSubscription == Accepts

\* EventBus.publish
Publish(body) ==
    /\ published' = published + 1
    /\ queue' = IF Accepts
                THEN Append(queue, [no |-> published + 1, body |-> body])
                ELSE queue
    /\ subscribed' = KeepsSubscription
    /\ missed' = (missed \/ (body = "change" /\ ~ Accepts))
    /\ UNCHANGED <<stream, received>>

PublishChange ==
    /\ due > 0
    /\ due' = due - 1
    /\ Publish("change")
    /\ UNCHANGED <<store, reminder, firing, alive, shell>>

\* _subscribers changed size while publish, in another thread, iterated it.
PublishFails ==
    /\ Faulty
    /\ due > 0
    /\ due' = due - 1
    /\ missed' = TRUE
    /\ UNCHANGED <<store, reminder, firing, alive, line, shell>>

CreateReminder(r) ==
    /\ reminder[r] = "none"
    /\ reminder' = [reminder EXCEPT ![r] = "pending"]
    /\ UNCHANGED <<store, due, firing, alive, line, shell, missed>>

RemindAt(r) ==
    /\ reminder[r] = "pending"
    /\ reminder' = [reminder EXCEPT ![r] = "due"]
    /\ UNCHANGED <<store, due, firing, alive, line, shell, missed>>

DueReminders == {r \in Reminder : reminder[r] = "due"}

\* fire_due_reminders: one transaction selects the rows and marks them.
FireDueReminders_Unmarked ==
    /\ alive /\ firing = {} /\ DueReminders # {}
    /\ firing' = DueReminders
    /\ UNCHANGED <<store, due, reminder, alive, line, shell, missed>>
FireDueReminders ==
    /\ alive /\ firing = {} /\ DueReminders # {}
    /\ firing' = DueReminders
    /\ reminder' = [r \in Reminder |-> IF r \in DueReminders THEN "fired"
                                       ELSE reminder[r]]
    /\ UNCHANGED <<store, due, alive, line, shell, missed>>

PublishReminder(r) ==
    /\ r \in firing
    /\ firing' = firing \ {r}
    /\ Publish(r)
    /\ UNCHANGED <<store, due, reminder, alive, shell>>

\* Nothing in background_worker catches it: the task is over.
WorkerDies ==
    /\ Faulty
    /\ firing # {}
    /\ firing' = {}
    /\ alive' = FALSE
    /\ UNCHANGED <<store, due, reminder, line, shell, missed>>

-----------------------------------------------------------------------------
(* The stream.                                                             *)

\* WatchEventsAsync opens the stream, generate() subscribes.
Connect ==
    /\ ui /\ ~ stream
    /\ stream' = TRUE
    /\ subscribed' = TRUE
    /\ queue' = <<>>
    /\ received' = published
    /\ UNCHANGED <<service, published, shell, missed>>

Drop ==
    /\ stream' = FALSE
    /\ subscribed' = FALSE
    /\ queue' = <<>>
    /\ UNCHANGED <<published, received>>

Disconnect ==
    /\ Faulty
    /\ stream
    /\ Drop
    /\ missed' = (missed \/ Carries(queue, "change"))
    /\ UNCHANGED <<service, shell>>

\* OnServerEventAsync starts a reload and does not wait for it.
StartsReload_Coalesced(l) ==
    IF Loading THEN UNCHANGED load
    ELSE load' = [load EXCEPT ![l].pc = "asked"]
StartsReload(l) == load' = [load EXCEPT ![l].pc = "asked"]

Receive ==
    /\ stream
    /\ queue # <<>>
    /\ queue' = Tail(queue)
    /\ received' = received + 1

ReceiveChange(l) ==
    /\ Receive
    /\ Head(queue).body = "change"
    /\ load[l].pc = "idle"
    /\ StartsReload(l)
    /\ UNCHANGED <<service, published, subscribed, stream, ui, lock, cards,
                   counts, shown, missed>>

ReceiveReminder ==
    /\ Receive
    /\ Head(queue).body # "change"
    /\ shown' = [shown EXCEPT ![Head(queue).body] = @ + 1]
    /\ UNCHANGED <<service, published, subscribed, stream, ui, load, lock,
                   cards, counts, missed>>

-----------------------------------------------------------------------------
(* Reloading: RefreshAsync, and LoadCardsAsync from "waiting" on.          *)

Goto(l, pc) == load' = [load EXCEPT ![l].pc = pc]

\* The service reads the store for /bootstrap.
ReadBootstrap(l) ==
    /\ load[l].pc = "asked"
    /\ load' = [load EXCEPT ![l] = [pc |-> "answered", got |-> store]]
    /\ UNCHANGED <<service, line, ui, lock, cards, counts, shown, missed>>

\* Its answer is applied without the lock.
ApplyBootstrap(l) ==
    /\ load[l].pc = "answered"
    /\ counts' = load[l].got
    /\ Goto(l, "waiting")
    /\ UNCHANGED <<service, line, ui, lock, cards, shown, missed>>

\* The user chooses a view or a filter.
ChooseView(l) ==
    /\ ui
    /\ load[l].pc = "idle"
    /\ Goto(l, "waiting")
    /\ UNCHANGED <<service, line, ui, lock, cards, counts, shown, missed>>

TakeLock_Unlocked(l) ==
    /\ load[l].pc = "waiting"
    /\ Goto(l, "asking")
    /\ UNCHANGED <<service, line, ui, lock, cards, counts, shown, missed>>
TakeLock(l) ==
    /\ load[l].pc = "waiting"
    /\ lock = NoLoad
    /\ lock' = l
    /\ Goto(l, "asking")
    /\ UNCHANGED <<service, line, ui, cards, counts, shown, missed>>

\* The service reads the store for /cards, cards and counts.
ReadCards(l) ==
    /\ load[l].pc = "asking"
    /\ load' = [load EXCEPT ![l] = [pc |-> "loaded", got |-> store]]
    /\ UNCHANGED <<service, line, ui, lock, cards, counts, shown, missed>>

Release(l) == lock' = IF lock = l THEN NoLoad ELSE lock

ApplyCards(l) ==
    /\ load[l].pc = "loaded"
    /\ cards' = load[l].got
    /\ counts' = load[l].got
    /\ load' = [load EXCEPT ![l] = Idle]
    /\ Release(l)
    /\ missed' = (missed /\ load[l].got # store)
    /\ UNCHANGED <<service, line, ui, shown>>

\* The call raises in a task nobody awaits; finally releases the lock.
LoadFails(l) ==
    /\ Faulty
    /\ load[l].pc \in {"asked", "answered", "asking", "loaded"}
    /\ load' = [load EXCEPT ![l] = Idle]
    /\ Release(l)
    /\ missed' = TRUE
    /\ UNCHANGED <<service, line, ui, cards, counts, shown>>

-----------------------------------------------------------------------------
(* Starting and stopping.                                                  *)

\* OnLaunched: InitializeAsync, StartWatcher and a first RefreshAsync.
Launch(l) ==
    /\ ~ ui
    /\ ui' = TRUE
    /\ cards' = store /\ counts' = store
    /\ missed' = FALSE
    /\ Goto(l, "asked")
    /\ UNCHANGED <<service, line, lock, shown>>

Exit ==
    /\ ui
    /\ ui' = FALSE
    /\ Drop
    /\ load' = [l \in Load |-> Idle]
    /\ lock' = NoLoad
    /\ missed' = TRUE
    /\ UNCHANGED <<service, cards, counts, shown>>

\* The service process dies and is started again: SQLite remains.
Restart ==
    /\ Faulty
    /\ due' = 0 /\ firing' = {}
    /\ alive' = TRUE
    /\ Drop
    /\ load' = [l \in Load |-> Idle]
    /\ lock' = NoLoad
    /\ missed' = (missed \/ due > 0 \/ Carries(queue, "change") \/ Loading)
    /\ UNCHANGED <<store, reminder, ui, cards, counts, shown>>

Reload(l) ==
    \/ ReadBootstrap(l) \/ ApplyBootstrap(l)
    \/ TakeLock(l) \/ ReadCards(l) \/ ApplyCards(l)

Next ==
    \/ Commit \/ PublishChange \/ PublishFails
    \/ \E r \in Reminder : CreateReminder(r) \/ RemindAt(r) \/ PublishReminder(r)
    \/ FireDueReminders \/ WorkerDies
    \/ Connect \/ Disconnect \/ ReceiveReminder
    \/ \E l \in Load : \/ ReceiveChange(l) \/ Reload(l) \/ LoadFails(l)
                       \/ ChooseView(l) \/ Launch(l)
    \/ Exit \/ Restart

Spec == Init /\ [][Next]_vars

\* Handlers and the worker go on, the shell reconnects, reads its stream and
\* finishes its reloads; the lock is passed on to every reload that waits.
\* The code starts reloads without limit: that Load is finite must not keep a
\* change from being received for ever.
FairSpec ==
    /\ Spec
    /\ WF_vars(PublishChange)
    /\ WF_vars(FireDueReminders)
    /\ WF_vars(\E r \in Reminder : PublishReminder(r))
    /\ WF_vars(Connect)
    /\ WF_vars(ReceiveReminder)
    /\ SF_vars(\E l \in Load : ReceiveChange(l))
    /\ \A l \in Load : SF_vars(TakeLock(l)) /\ WF_vars(Reload(l))

-----------------------------------------------------------------------------
(* Properties.                                                             *)

\* The tray shows a reminder once: fire_due_reminders marks it before it is
\* published, so no restart and no later tick publishes it again.
ReminderOnce == \A r \in Reminder : shown[r] =< 1

\* A subscription has no gap: what is queued follows what was received, and
\* while it counts as subscribed nothing is missing.  A full queue ends the
\* subscription instead of leaving a message out.
NoGap ==
    stream =>
        /\ \A i \in 1 .. Len(queue) : queue[i].no = received + i
        /\ subscribed => received + Len(queue) = published

\* The card list never goes back to an older state: reloads run in any number
\* but each reads and shows under _refreshLock.
CardsForward == [][cards' >= cards]_vars

\* What the reload will show is the present state of the store.
WillBeFresh(l) ==
    \/ load[l].pc \in {"asked", "answered", "waiting", "asking"}
    \/ load[l].pc = "loaded" /\ load[l].got = store

\* A change the list does not show is on its way to it, unless a message, a
\* reload or the service was lost: some handler has yet to publish, or the
\* queue carries a change message, or a reload has yet to read the store.
ChangeOnItsWay ==
    \/ missed \/ cards = store
    \/ due > 0
    \/ Carries(queue, "change")
    \/ \E l \in Load : WillBeFresh(l)

\* When the store stops changing, list and badges come to show its last
\* state, unless a change message, a reload or the service was lost.  The
\* badges are also set by answers that overtake each other.
EventuallyFresh == <>[](missed \/ (cards = store /\ counts = store))

\* A due reminder is shown if worker and subscription last long enough.
ReminderShown ==
    \A r \in Reminder :
        reminder[r] = "due" ~> shown[r] > 0 \/ ~ (alive /\ subscribed)
=============================================================================
