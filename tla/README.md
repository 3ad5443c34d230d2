# SignalDesk: TLA+ models and proofs

SignalDesk is a local service (`signaldesk/`, Python, FastAPI, SQLite) that takes
messages from Gmail, LINE, Messenger and the Windows notification centre, groups
them into threads, has rules and a model triage each thread, decides whether to
interrupt the user, and shows one card per thread in a native shell
(`native/SignalDesk.Shell`, C#) or a web page.  This directory holds TLA+ models
of it, TLC runs over small instances, and TLAPS proofs for every instance.  Run
everything inside this directory: `tlc -config X.cfg M`, `tlapm M.tla`.

## 1. Inventory

| Component | State | Operations | Hard part | What makes it correct |
|---|---|---|---|---|
| Pipeline (`pipeline.py`) | none of its own; local variables of a request | `process`, `analyze_thread` | requests interleave between any two Database calls; any call may raise | no message filed twice or lost, cards current |
| Event store (`database.py`) | SQLite tables; one transaction per call, `BEGIN IMMEDIATE` | some 60 queries and updates | foreign keys decide what a late writer may still write | no dangling rows, deletion is final |
| Grouping (`grouping.py`) | none | `group` = `candidate_thread` + `attach_event` | read and write are two transactions | one account per thread |
| Rules, validator, model gateway (`rules.py`, `validator.py`, `model_gateway.py`) | user rules | pure functions, one HTTP call | order of the cases; an untrusted answer | the model cannot raise what the rules find unimportant |
| Policy (`policy.py`) | settings | `decide`, `display_mode`, quiet hours | hourly budget counted before, recorded after; penalties and cuts in a fixed order | budget, quiet nights, mutes |
| Card actions, preferences (`actions.py`, `preference.py`) | cards, rules, feedback, observations, weights | `perform`, `observe`, retrain, reset, card views and badges | read-then-act; a status several queries interpret | nothing reopens what is put away, badges count what lists select |
| Gmail connector (`connectors/gmail.py`, jobs in `api.py`) | keyring token, `_service`, `_error`, cursor row, account row | authenticate (the browser may ask the user), initial and incremental sync, revoke, poll, connect, sync, disconnect, reset | threads of `asyncio.to_thread` overlap with the poller and with each other | cursor never ahead of the store; sign-out deletes the token |
| Event bus and stream (`events.py`, `event_stream`) | set of bounded queues | subscribe, unsubscribe, publish | called from the event loop and from request threads; full queues | no gaps |
| Background worker (`api.py`) | tick counter, last digest | reminders, Gmail poll, digests, retention | no `try` around most of it | reminders once |
| Startup repair (`create_app`, `database.py`) | tables | reclassify, collapse, normalise, merge, analyse, sync timestamps | separate transactions, work lists in memory, crash between any two | nothing dangles, nothing but repeats is removed, what the user added is kept |
| Notification bridge (`NotificationBridge.cs`, `windows_bridge.py`) | `_observed`, `_reconcileGate` | start, live handler, poll, sweep, post | three kinds of tasks, failing calls, text that arrives late | every notification forwarded until it is stored |
| Native shell (`AppState`, `LocalApiClient`, `App`) | lists, badges, `_refreshLock` | watch the stream, reload, filter | reloads nobody awaits | never shows an older state after a newer one |
| Web client (`static/app.js`) | as the shell | as the shell | no lock | as the shell |
| Chat archive import (`connectors/chat_archive.py`) | none | parse, import, analyse | long, not one transaction | no duplicates of live messages |
| Privacy, retention | tables | export, delete account, delete all, cleanup | concurrent with all of the above | deleted content does not come back |

Interaction: sources call `process` through HTTP handlers (thread pool), webhooks
and the Gmail jobs (event loop); the bridge of the shell is one of them, over HTTP;
every effect on shared state goes through the Database; `process`, `perform` and
the worker publish on the bus; the bus feeds one queue per open stream; a message
makes the shell reload over HTTP.

## 2. Modules

| Module | Models | Extends / uses |
|---|---|---|
| `EventLedger` | abstract specification: what ingestion promises of a message | |
| `IngestPipeline` | pipeline, grouping, the tables it writes, budget, deletion, crash | refines `EventLedger` |
| `GmailSync` | one Gmail account: token, service, cursor, poller and user jobs | |
| `LiveView` | commit, bus, stream, shell; reminders | |
| `StartupRepair` | the repairs of `create_app` with crashes, and the life between two starts | |
| `NotificationBridge` | the bridge of the shell and the handler it posts to | |
| `AttentionPolicy` | rules, validation, choice of the baseline, score, routing: operators | |
| `CardDesk` | cards, views, actions of the user, rules, settings, preferences, retention | extends `AttentionPolicy` |
| `IngestPipelineProofs`, `CardDeskProofs`, `GmailSyncProofs`, `LiveViewProofs`, `StartupRepairProofs`, `NotificationBridgeProofs` | theorems about the modules they name | `TLAPS`, theorems of the library on finite sets, sequences and well-foundedness |
| `IngestCardProofs` | theorems about the cards of `IngestPipeline` | extends `IngestPipelineProofs` |
| `MCIngestPipeline`, `MCGmailSync`, `MCLiveView`, `MCStartupRepair`, `MCNotificationBridge`, `MCCardDesk` | instances | |

Definitions named `X_Defect` are a definition `X` with a plausible defect.  No
action uses them.  Each property of a passing run was checked to fail when one of
them takes the place of its original (the pairs are in `PROJECT.json`).

Composition.  `CardDesk` composes the pure policy with the state it reads and
writes.  The other modules meet at transactions: what `IngestPipeline` does in ten
steps is one step `Analyze` of `CardDesk`, one step `Receive` of `StartupRepair`,
one set union in `GmailSync` and `NotificationBridge`, one increment in `LiveView`.
That reduction is justified where the caller awaits the answer and the property does
not depend on what is between; where it is not (budget, lost update, deletion under
an analysis) the property is one of `IngestPipeline`.

### IngestPipeline

A worker is a request in flight.  `req[w].pc` is the Database call it makes next,
and each call is one action, because each call is one SQLite transaction and
nothing else serialises requests:

| Action | Code |
|---|---|
| `Deliver` | a handler calls `process(event)`; redelivery is another `Deliver` |
| `ReconcileSimilar` | `similar_chat_event` and the early return |
| `InsertEvent` | `insert_event` and the early return for a duplicate |
| `GroupEvent` | `candidate_thread`, or the seeded thread id |
| `AttachEvent` | `attach_event`; foreign key and `UNIQUE(event_id)` |
| `ReadThread`, `AnalyzeArchive` | `grouped_thread(limit=50)`; `analyze_thread` of an import |
| `DecideRouting` | rules, model, validator, score, `interruption_count_since`, `decide` |
| `SaveAnalysis`, `RecordInterruption` | the two last writes |
| `Raise`, `Crash` | the `except` branch; the process dies |
| `UpdateCardStatus`, `HourPasses` | the user; the sliding hour of the budget |
| `DeleteAccountData`, `DeleteAllData` | reset of a Gmail account; delete everything |

Tables become functions: `stored` (raw and normalized rows, always written and
deleted together), `opener` (the threads row, by the event whose attach created
it, which fixes its source, account, sender and conversation), `attached`
(thread_events), `card` (card and triage row, also written together; `covers` is
the set of messages the analysis had read), `interruption`.  `updated_at` of a
thread is the latest receipt attached to it, so it is computed, not stored.

Left out or abstracted: message text (only equality, time, sender, conversation
and owner are compared), the traces table, bus messages (see `LiveView`), the
score (any verdict; `CardDesk` has it), the display mode `review` (folded into
`inbox`), shadow mode (a verdict `inbox`), and `COALESCE(conversation_id, title, '')`, with
which a message without a conversation id finds the thread of its title.  Title and completeness of a thread are
text on the card.  The tag `budgeted`/`override` of an interruption row is history
for `InterruptionRowsBounded`.  Archived messages are only delivered by an import, and an
import is a sequence of deliveries and analyses that may interleave with
everything, which is weaker than the order of the handler.

### GmailSync

The mailbox is external: messages arrive, change and go; `head` is its history id.
A job runs one coroutine of `api.py`; a step ends at an `await` or at a call to
Google.  `authenticate` is two steps, because the credential is read first and
written back after a network call.  Handlers modelled: the poller (`Tick`, `Due`,
`Restore`), `connect_gmail`, `sync_gmail`, `disconnect_gmail`,
`reset_gmail_account_data`; below them `SignIn` (`authenticate` with a credential in the
keyring), `Answer` (without one: `run_local_server` waits for the user in the browser, with
no timeout, and `Asking` is that state), `NeedService` (`_require_service`), `History`,
`Profile`, `ListInbox`, `GetMessages`, `ProcessBatch` (no `await` between the first `process`
and the cursor: one step), `ProcessFails`, `CallFails`, `Revoke`, `Close`.  `WorkerDies` is
an exception of `background_worker` outside its `try`; `Restart` is the death of the process
and the next `create_app`: no job, no service object, the tables and the keyring as they
were, with what the interrupted step had committed.  Cursor 0 is "no row".  Failing calls,
the death and the restart are at most `MaxFaults` together: a call that always fails
promises nothing.  Not modelled: adding, changing and removing accounts, the replacement account of
`privacy_delete`, the health rows, drafts, and the end-of-life of history ids is
a nondeterministic 404.  `process` of a known event is a no-op here, its own
interleavings are `IngestPipeline`'s.

### LiveView

`store` counts changes, `cards` and `counts` say up to which change the list and
the badges are current.  A handler commits (`Commit`), later publishes
(`PublishChange`) or fails to (`PublishFails`).  The worker marks due reminders
(`FireDueReminders`) and publishes them one by one; `WorkerDies` is an exception
nothing catches.  `Publish` is `EventBus.publish`: a full queue loses its
subscription, the stream stays open.  The shell connects, receives, starts a
reload per change message without waiting for it; a reload is a bootstrap request
applied without the lock, then a cards request under `_refreshLock`.  `missed`
is a history variable: a change message, a reload or the service was lost since
the list was last read.  One shell; a restart of the service is stop and start in
one step; digests, messages the shell ignores, views, filters, preferences and
connectors are left out.

### StartupRepair

The initial state is a store an earlier version left: LINE titles not taken apart,
browser toasts of Messenger filed as Windows notifications of the site, any subset of
the threads with a card, reminders, drafts or feedback on any of them.  `phase` is the
next call of `create_app`; each call is one transaction and one action:

| Action | Code |
|---|---|
| `Start`, `Serve`, `Stop` | `create_app` begins, returns; the process stops or dies |
| `ReclassifyMessengerCards` | `reclassify_messenger_browser_cards` |
| `CollapseReplays` | `collapse_duplicate_notification_replays` (`Heads` are its clusters) |
| `NormalizeLineIdentities` | `normalize_line_notification_identities` |
| `MergeMessengerThreads` | `merge_duplicate_messenger_threads` |
| `AnalyzeRepairedLine`, `AnalyzeMerged` | `pipeline.analyze_thread` for the two lists |
| `SyncTimestamps` | `sync_card_event_timestamps` |
| `Receive` | `process` of a live message: `similar_chat_event`, `candidate_thread`, attach, analysis; may die after the insert and after the attach |
| `CloseCard`, `AddItem` | the user between two starts |

The lists of threads to analyse (`repaired`, `merged`) are in memory: a crash loses
them.  A card holds what a later start could find wrong: its sender, the messages it
covers, and `fresh` (its `updated_at` is the time of an analysis or of the user, not the
receipt of a message).  `Identity` is `line_identity_from_title` and `HomeOf` the hash that
seeds a thread id, both constants.  `cut` is history: cards a dead process left out of
date.  Left out: `hide_browser_background_cards` (sets `display_mode` only), the rows
of `interruptions` and `traces`, analyses that raise for other reasons than an empty
thread, and requests that overlap (they are `IngestPipeline`'s).

### NotificationBridge

A task is `StartAsync`, the poll, or the handler of one toast; a step is what it does
between two awaits, so a step ends at the 350 ms delay, at the access request, at the
gate, at a post and at its answer.

| Action | Code |
|---|---|
| `Show`, `Fill`, `Dismiss` | Windows adds a toast, its application sets the text later, the toast goes |
| `Launch`, `RequestNotificationAccess`, `Access` | `OnLaunched`, the settings page, `StartAsync` up to the subscription |
| `Tick`, `LookUp` | `PollNotificationsAsync`, `OnNotificationChanged` |
| `TakeGate`, `Proceed` | `ReconcileAsync`: `_reconcileGate`, the snapshot by creation time, `ForwardAsync` up to its next post |
| `Post` | the request handled by the service: key known, taken for a replay (`similar_chat_event`), refused, or stored |
| `MarkObserved` | the answer: "Mark it only after forwarding succeeds" |
| `CallFails` | an exception that ends the sweep, also when the answer is lost after the capture was stored |
| `TimesOut` | a post without an answer in `HttpClient.Timeout` (20 min): a `TaskCanceledException`, which ends the sweep and, in the poll, the poll task |
| `Exit` | the shell ends |

`Blank` is a toast whose text is not there yet, `Refused` a text the service answers
with an error (a title of spaces).  `gate = k` at `Post` stands for
`captured_from_notification_center`: what a sweep posts is marked as polled.  Left out:
the allowlist and the browser filter (both accept without storing), overlapping
calls of `StartAsync`, and a service that stores a capture after its post timed out.

### AttentionPolicy and CardDesk

`AttentionPolicy` has no state.  A text is the set of `Features` the pattern lists of
`rules.py` find in it; `Signals` is `RuleEngine.signals`, `Baseline` is its offline triage,
`Validate` is `TriageValidator.validate`, `Verified` the choice between the proposal of
the model and the baseline (`pipeline.py`), `RawScore`, `Score`, `Route`, `Decide`,
`DisplayMode` and `InQuietHours` are `InterruptionPolicy`.  Scores are integers in
units of 1/10000, every constant of the code being a multiple of it; the preference is in
percent, so that 0.22 times a percent is one too.

`CardDesk` adds the rows decide reads: cards (`Row` is `save_analysis`), `interruption`,
rules, settings, the number of observations and whether weights exist (any score of
`Learned` may then be predicted).  Actions: `Analyze` (the whole of `_analyze_thread`),
`OpenSource`, `Snooze`, `Close`, `MarkSender` (`perform`), `CreateRule`, `DeleteRule`,
`UpdateSettings`, `ResetPreferences`, `Tick` (the clock), `Retire` (`cleanup_retention`),
`DeleteAllData`.  `Matching` is the `WHERE` of `list_cards`, `Listed` the number of cards its
`LIMIT` lets through (which ones is left out), `Badge` is `counts`.  The day has `Slots`
periods.  `announced` is the `triage_completed` event of the last step.  An analysis is
one step here, so the results are about what is decided, not about who overtakes whom.
Left out: drafts, the text of `open`, the weights, search and the today view.

## 3. Runs

| Run | Instance | Shows |
|---|---|---|
| `IngestSafety` | 2 requests, 2 captures of one notification under two ids and a message of the same sender in another account, every analysis wants to surface, budget 1, faults, deletions, the user | types, `AtMostOnce`, `AccountIsolation`, `NoDanglingRow`, `InterruptionRowsBounded`, `StatusIsTheUsers`, refinement of `EventLedger` |
| `IngestSerial` | 1 request, a conversation of 3 live and 1 archived message read 2 at a time, a LINE twin, a Gmail account, deletions, no faults | `CardCurrent`, `CardCoversThread`, `TwinFiledOnce`, `DeletedContentGone`, `EventuallyCarded` |
| `IngestLostUpdate` | 2 requests, 2 messages of a conversation | **violates** `CardCurrent` |
| `IngestNeverRecovered` | 1 request, 1 message, faults that end | **violates** `EventuallyCarded` |
| `Gmail` | poller and user (connect, disconnect, reset), 2 messages, removal, one failing call, death of the worker or restart | types, `CursorCovers`, `EventuallyStored` |
| `GmailPages` | a page of 1 record | **violates** `CursorCovers` |
| `GmailTokenBack` | connect and disconnect against the poller, one restart | **violates** `TokenForgotten` |
| `LiveView` | 2 changes, 1 reminder, queue of 2, 2 reloads, faults | types, `ReminderOnce`, `NoGap`, `CardsForward`, `EventuallyFresh`, `ReminderShown` |
| `RepairSafety` | an older store of 3 LINE notifications of two members (one repeated after 13 hours), an export and 2 browser toasts in 2 threads, 1 toast to come, 1 item of the user, a crash anywhere | types, `NoDanglingRow`, `StartNeverRaises`, `OutOfDateByCrash`, `OneThreadPerChat`, `ReplayKept`, `ItemsFollow`, `LineTimesKept` |
| `RepairStrangers` | 2 members of a LINE group send the same text, one restart | **violates** `OnlyRepeatsRemoved` |
| `Bridge` | 2 toasts of a Messenger chat, one with late text, one that may be refused, one call that fails or times out | types, `ObservedIsStored`, `SweepsExclude`, `EventuallyStored` |
| `Desk` | one thread under 6 kinds of messages, 3 answers of the model, 2 rules at a time, shadow, ordinary and focus mode, the highest learned score or none | types, `NightIsQuiet`, `SurfaceNeedsWeight`, `PreviewUrgencyProven`, `MuteOutlastsImportance`, `PutAwayStays` |

Distinct states: `IngestSafety` 350 814, `IngestSerial` 70 816, `Gmail` 769 120,
`RepairSafety` 757 061, `Bridge` 162 346, `Desk` 113 080.

Bounds and why they suffice.  Every race found needs two actors and at most three
messages, and the interesting limits are made small so that they are reached:
`SnapshotLimit` 2 below the three messages of `IngestSerial`, `MaxPerHour` 1
below the two threads that want to surface at a time, `Capacity` 2 below the three messages that
can be published, `MaxHistory` 3 with a starting id of 1 so that both messages arrive, or
one arrives and changes.  `ThreadCap` 12, `Window` 30, `PageSize` 100 and `ListLimit` 50
keep the values of the code where the instance is meant not to reach them, and so do
`LineWindow` 720 (a repeat after 799 minutes falls outside), `ChatWindow` 240 and the
thresholds of `Desk`.  In `Desk` no observation but the first is needed before training,
instead of 8, which only lets the ranker speak earlier, its score is the highest or the
neutral one, and one thread suffices because nothing but the
budget couples two.

What the bounds do not reach: the two captures of `IngestSafety` are 44 minutes apart, with a
`Window` of 30, so no burst of one sender forms inside one account there (a third message
inside the window takes the run past a million states; the theorems have it).  `Desk` has one
card and the `ListLimit` 500 of the shell, so no list is ever full: what badge and list have
to do with each other is only proved (`BadgesAgree`).  `ReplayKept` is stated with the twelve
hours of LINE for every source, so the four hours and three messages of the Messenger rule
are in the model, and would not be missed by it.  Symmetry is used for workers and rule ids, in runs without liveness.
In every run any number of deliveries is allowed: only the set of distinct
messages is finite.

Three properties, `CardCurrent`, `TwinFiledOnce` and `DeletedContentGone`, hold only
while requests do not overlap (`CardCoversThread` also when they do, if nothing is deleted); `IngestSerial` says so by having one worker, and its
value is the contrast: the sequential logic is right, the transaction boundaries are
not.  `EventuallyCarded` there assumes in addition that no call fails.

Fairness.  `FairSpec` of `IngestPipeline`: a request thread takes its next step (the
thread pool schedules it; SQLite waits are bounded by `busy_timeout`); nothing obliges
a source to deliver.  `RetrySpec` adds, for the violation only, everything one could
wish for: sources redeliver for ever and faults stop; the event is still
lost.  `GmailSync`: while it lives the worker comes round every 60 s, each call to Google
and the database returns; the mailbox and the user owe nothing, so `Answer` is under no
fairness and a browser may ask for ever.  `LiveView`: handlers and worker continue, the shell reconnects
(its 2 s loop), reads its stream, finishes its reloads, and a waiting reload gets the
lock in turn (`SemaphoreSlim` wakes waiters); strong fairness of `ReceiveChange` makes
up for the finite number of reload slots, which the code does not have.
`NotificationBridge`: the 15 s timer ticks, delays and awaited calls end, and a task that
waits for `_reconcileGate` gets it in turn; neither Windows nor the user owe anything, and
at most `MaxFaults` calls fail or time out; a timeout in the poll ends it, and nothing obliges
anybody to start it again.  `StartupRepair` and `CardDesk`
claim no liveness: nothing obliges a process to start or a user to act.

## 4. What the runs found

Five runs end in a counterexample that contradicts a document of the repository; the
quotations are in `PROJECT.json`.

1. *Lost update.* Two requests of one thread: A reads one message, B attaches and
   reads both and saves, A saves.  The card summarises one of two messages.
2. *Never recovered.* An exception between `insert_event` and `save_analysis` strands
   the event; redelivery is answered "duplicate" before anything is repaired.
3. *Unread pages.* `history.list` is read one page deep, the cursor jumps to the end.
4. *Token returns.* After a restart the poller's `authenticate(interactive=False)` has read the
   credential; the user disconnects and `revoke` deletes it; the refresh ends and
   `gmail.py:83` writes the new one to the keyring of the signed-out account.
5. *Strangers collapsed.* The same words of two members of a LINE group are one "replay"
   for the repair of the next start; the second member's thread, card and reminders go.

Disagreements the models or the reading for them show, without a run of their own:

- Pipeline.  The twelve-hour rule for LINE twins (`database.py:428-430`) does not hold
  for twins handled at once; an hourly limit of N (`configs/agent.yaml:21`) bounds no interruptions: a
  card has one interruptions row for ever (`INSERT OR IGNORE`, `database.py:1033`), so cards
  with an old row surface again uncounted, any number of times in one hour and also one
  request at a time; with n requests in flight even the new rows of an hour may be N + n - 1
  (`InterruptionRowsBounded`, proved as `InterruptionRowsBound`); a burst is split when its first two messages
  overlap (DESIGN.md 8.4); an analysis in flight brings deleted text back when its thread
  exists again (SECURITY_PRIVACY.md:94).
- Gmail.  A disconnect during a poll makes `_require_service` open a browser from the worker
  (`gmail.py:187`), which waits there without a timeout, and with it the polls of all accounts,
  reminders and digests; granting access signs the disconnected account in again.  A poll that holds a batch during reset-data stores it again; a connect that
  listed the inbox before a message came opens the account again after a reset deleted that
  message, and a poll that had stored it writes its later cursor: the message is not fetched
  again (found by the proof of `CursorCovers`, needs two requests of the user at once, which
  the run `Gmail` does not have); a message
  that was starred or read is stored a second time by a full sync, its history id being part
  of its key (DESIGN.md:473); a message removed before it is fetched makes each
  incremental sync raise until its history expires, which is why `EventuallyStored`
  excepts it.
- Startup.  Merged Messenger threads are analysed after the timestamps were synced and look
  newly received, which `database.py:1752` wants to avoid; the merge skips a conversation
  whose newest thread has no card; an open duplicate merged into a closed thread
  disappears with the status of that thread.
- Bridge.  When a post of the first sweep fails, `StartAsync` throws before `EnsurePolling`
  (`NotificationBridge.cs:36`) and `OnLaunched` before it starts the event watcher; a post of the poll
  that takes more than 20 minutes (`LocalApiClient.cs:21`) raises a `TaskCanceledException` that
  neither `catch` takes (`NotificationBridge.cs:89`, `:95`), so nothing polls until the bridge is
  started again, although "a temporary failure can be retried" (`:140`); a toast the
  service always refuses ends every sweep before the newer ones; a Messenger message a sweep
  captures is dropped as a replay when the same words are stored within seven days
  (`database.py:418`); `_observed`, a plain `Dictionary`, is changed by several threads
  without a lock.
- Desk.  A snoozed card never comes back: the view wants `status='open'` and a snooze that is
  over (`database.py:747`), snoozing sets `snoozed`, and nothing sets it back, against the text
  of `app.js:242` ("appears again at the given time") and UI_UX.md:9.  `PutAwayStays` does not assert this: it
  admits the return at the end of the snooze and nothing else.  Badges have no limit, lists
  show at most 100 or 500 cards (`database.py:776`).  The dialog that deletes everything says that settings
  and rules are kept (`app.js:354`); `delete_all_personal_data` deletes the rules.
- Policy.  A question or a VIP rule lowers a security alert from urgent to high
  (`rules.py:141-145`); `model_gateway.py:132` catches neither `IndexError` nor `TypeError` of a
  malformed answer, which then fails the request.
- Worker.  The daily digest is announced again after a restart; retention never deletes an
  attached message, and deletes reminders with the closed card they are on.

## 5. Proofs

No theorem uses fairness; faults, crashes and deletions are included except where a table
says otherwise.

`IngestPipelineProofs`, for every number of workers, events, threads and owners, from the
assumptions of `IngestPipeline` only:

| Theorem | States |
|---|---|
| `TypeCorrect` | `Spec => []TypeOK` |
| `RowsComplete` | `Spec => []NoDanglingRow` |
| `AccountsApart` | `Spec => []AccountIsolation` |
| `NoDuplicates` | `Spec => []AtMostOnce` |
| `InterruptionRowsBound` | `Spec => []InterruptionRowsBounded` |
| `StatusKept` | `Spec => StatusIsTheUsers` |
| `AttachedOnce` | `Spec => AttachmentStable` |
| `Implements` | `Spec => ImplementsLedger` |

Argument.  `NoDanglingRow` and `AccountIsolation` are not inductive: a worker holds a
thread and a snapshot that were true when it read them.  The inductive invariant is
`IInv == TypeOK /\ RequestInv /\ OwnerInv /\ NoDanglingRow`.  Its key is
`SeededBy(t, o)`: some message of owner `o` seeds the thread id `t`, a fact about
constants that no deletion undoes, and that holds of one owner only
(`HomeAssumption`, lemma `SeedUnique`).  `OwnerInv` says that every reference from a
table to a thread (its opener, its messages, the messages its card covers) comes
from an owner that seeds it; `RequestInv` says the same of the event, thread and snapshot
a worker carries, and what each of its steps may rely on.  So when the thread is deleted
under a worker and created again, it is created by a message of the same owner, and
`AccountsApart` follows by `SeedUnique`.  `NoDuplicates` needs no strengthening, since
`insert_event` looks up and inserts in one transaction.  `InterruptionRowsBound` counts claims:
the budgeted rows plus the requests that have decided to surface and not yet recorded
are none, or at most `MaxPerHour - 1 + n` (`BudgetInv`); deciding adds a claim while
there are fewer than `MaxPerHour` rows, recording turns a claim into a row, all
else only removes.  It rests on the cardinality theorems of the library.  The refinement
maps `stored` to `accepted` and `attached` to `filedIn`: `InsertEvent` is `Accept`,
`AttachEvent` is `File`, the two deletions are `Forget` and `ForgetAll`, everything
else stutters; `IInv` supplies the owner condition of `File`.  `AttachmentStable` follows
from the refinement and is therefore not a run's property, but proved on its own.

`CardDeskProofs`, for every set of cards, messages, rules, settings and answers of the
model:

| Theorem | States |
|---|---|
| `TypeCorrect` | `Spec => []TypeOK` |
| `BadgesAgree` | `Spec => []BadgesMatchViews`, for any number of cards and any limit of the lists |
| `NightsQuiet` | `SurfaceThreshold > 6500` and `Spec` imply `[]NightIsQuiet` |
| `WeightNeeded` | `SurfaceThreshold > 7500` and `Spec` imply `[]SurfaceNeedsWeight` |
| `PreviewsProven` | `Spec => []PreviewUrgencyProven` |
| `MuteOutlasts` | `Spec => []MuteOutlastsImportance` |
| `PutAwayKept` | `Spec => PutAwayStays` |
| `OverrideNeeded`, `OrdinaryIsQuiet`, `BareIsQuiet`, `SettingsOnlySilence`, `QuietHoursSplitTheDay` | the policy alone: what a decision to surface implies, by arithmetic over the score |

The inductive invariant `DeskInv` is `TypeOK` and `OpenIsAwake`: an open card never carries a
pending snooze.  That is why two queries of which one looks at `snoozed_until` select
the same cards, and a badge differs from its list by the `LIMIT` only.  The
hypotheses on the threshold are the weakest for which the arithmetic closes: a score is
cut to 1 before the quiet hours take 0.35 off, so above 0.65 nothing surfaces without the
override; an ordinary triage reaches at most 0.75 with every bonus but the VIP one.
Delivered is 0.82.  `Decide` is evaluated in integers; it was compared with the Python floats on
195 840 combinations of inputs and gives the same routing on all of them.

`NotificationBridgeProofs`, for every finite set of toasts, their texts and any number of
failing and timed-out calls:

| Theorem | States |
|---|---|
| `TypeCorrect` | `Spec => []TypeOK` |
| `MarkedAfterStored` | `Spec => []ObservedIsStored` |
| `OneSweep` | `Spec => []SweepsExclude` |

The inductive invariant adds what a task between two awaits relies on: a task that posts
has something left to post, and the capture whose answer it awaits is stored (`TaskInv`); no
task runs before the shell, no handler before its toast (`QuietInv`).  That the first of a
snapshot exists at all (`FirstExists`) rests on the well-foundedness of strict inclusion of
finite sets, because a direct induction is out of the prover's reach.

`IngestCardProofs`, for every set of messages, threads and accounts:

| Theorem | States |
|---|---|
| `CardsNameTheirThread` | `OneAtATime` and `Spec` imply `[]CardCoversThread` |
| `DeletedIsGone` | `OneAtATime` and `Spec` imply `[]DeletedContentGone` |
| `TwinsFiledOnce` | `OneAtATime` and `Spec` imply `[]TwinFiledOnce` |
| `CardsCatchUp` | `OneAtATime`, no fault and `Spec` imply `[]CardCurrent` |
| `CardsNameTheirThreadInFlight` | `IngestSpec => []CardCoversThread` |

`OneAtATime` says that `Worker` has one member; deletions, the user and a crash still come
between any two steps of it.  It cannot be dropped: two requests violate `CardCurrent`
(`IngestLostUpdate`), and the other three as section 3 says.  `SerialInv` adds to
`IInv` what the one request knows (`OwnStepInv`): the message it is about to file has no
filed twin, and the snapshot it is about to save is the latest of its thread as it is
now, if the thread still exists.  The second part survives a deletion because a deletion takes
a thread with all its messages or leaves it alone (`DeletionIsWhole`, from `IInv`: all messages
of a thread have one owner).  `CardsCatchUp` adds `FreshInv`: a thread that is ahead of its
card has an analysis under way, which an exception would break (`IngestNeverRecovered`).
An import files an older message without an analysis of its own; counting shows that it
pushes others out of the snapshot and brings none in (`ArchiveUpToDate`).  The last theorem
is about any number of requests and faults: while nothing is deleted, what a request has
seen of a thread stays in it (`SeenInv`), so a save that comes late is old but never wrong.

`GmailSyncProofs`, for every number of jobs, messages, history ids, failing calls and restarts:

| Theorem | States |
|---|---|
| `TypeCorrect` | `Spec => []TypeOK` |
| `CursorNeverAhead` | `PagesHoldMailbox`, `ResetAlone` and `Spec` imply `[]CursorCovers` |

`CoverInv` gives each job its promise: while it asks for the history since an id, all up to
that id is safe; while it fetches or processes, all up to the cursor it will write is safe
or in its hands.  A message is safe when it is stored, or when the account was reset and a
connect that will store it comes before it is connected again.  Both hypotheses
are needed.  `PagesHoldMailbox` (no more messages than a page of either listing holds) is
what `GmailPages` violates.  `ResetAlone` (if the user resets, requests of the user come
one at a time; the poller still overlaps all of them) excludes the reset of section 4.

`LiveViewProofs`, for every finite set of reminders, number of changes and reloads, and
capacity of the queue:

| Theorem | States |
|---|---|
| `TypeCorrect` | `Spec => []TypeOK` |
| `StreamGapless` | `Spec => []NoGap` |
| `RemindedOnce` | `Spec => []ReminderOnce` |
| `NeverBackwards` | `Spec => CardsForward` |
| `NothingForgotten` | `Spec => []ChangeOnItsWay` |

`IInv` joins five facts.  Every message is paid for by a change or a marked reminder
(`PublishInv`, a sum of cardinalities that bounds the message numbers); a queue goes on where
the shell stopped reading (`QueueInv`); a reminder is at one place only, still to be
published, in the queue, shown, or lost (`ReminderInv`, whence `ReminderOnce`); the reload
that reads and shows holds the lock and has read nothing older than what is shown
(`LockInv`, whence `CardsForward`).  `ChangeOnItsWay` is the safety half of
`EventuallyFresh`: a change the list does not show is due, queued, or about to be read, or
something was lost.  It holds in every state of the instance of `LiveView` too, where
`EventuallyFresh` takes its place among the properties.

`StartupRepairProofs`, for every finite set of messages, every store of an earlier version
made of them, and any number of starts, crashes and live messages:

| Theorem | States |
|---|---|
| `TypeCorrect` | `Spec => []TypeOK` |
| `RowsComplete` | `Spec => []NoDanglingRow` |
| `StartSafe` | `Spec => []StartNeverRaises` |
| `UpToDate` | `Spec => []OutOfDateByCrash` |
| `ReplaysKept` | `Spec => ReplayKept` |
| `ItemsKept` | `Spec => ItemsFollow` |
| `TimesKept` | `Spec => LineTimesKept` |
| `ChatsMerged` | `Spec => OneThreadPerChat` |

`IInv` adds to the types and `NoDanglingRow` what the lists of `create_app` are worth: they
are empty outside their phases and hold threads of one source each (`ListInv`); a card that is
out of date is on a list or was left by a process that died (`PendingInv`); after the
timestamps no LINE card is touched (`SyncedInv`).  Two arguments need that something exists
which the code finds with a sort: the latest message of a thread and the newest thread of a
chat (`LatestExists`, `NewestExists`), and the head of a cluster of replays
(`HeadsExist`).  Each follows from the well-foundedness of strict inclusion of finite sets,
which stands for the induction over time.  The assumptions are those of the code: finitely
many messages, the browser toasts of Messenger labelled as its, and a window for a chat
(4 h) not longer than that of a line (12 h); the last is what makes `ReplayKept` state one
bound.

Only model-checked is the liveness: `EventuallyCarded`, `EventuallyStored` of `GmailSync` and
of `NotificationBridge`, `EventuallyFresh`, `ReminderShown`.  Temporal proofs with fairness are
out of the prover's reach.  Every invariant and action property of a passing run has a
theorem.  What the theorems do not say: nothing about `CursorCovers` when a mailbox needs
several pages or a reset overlaps another request, nothing about `CardCurrent`, `TwinFiledOnce`
and `DeletedContentGone` when requests overlap; there the models have counterexamples.

## 6. Not modelled

- Text processing: the pattern lists of `rules.py`, `deadlines.py`, `normalizer.py`, the
  archive parsers, prompts and JSON extraction.  Their results are constants or sets of
  features; what they compute from characters is for unit tests.
- Wall-clock formats: `remind_at` with an offset, the two time formats of retention.
- Local and Gmail drafts: one external call and one update; nothing prevents a second
  draft, and a model would only say that.
- The retraining that overlaps a reset of the preferences; it can bring stale weights
  back, no document of the repository promises otherwise.
- Adding and removing Gmail accounts, health rows, quarantine, traces, text search, the
  today view, demo, benchmark, authentication and rate limit of the local API.
- The web client: `LiveView` without `TakeLock`; the mutant of `CardsForward` is that client.
- `hide_browser_background_cards` and the notification allowlist, which only hide or skip.

## 7. Plan

Done so far: the state machines and the desk, and a theorem for every safety property of a
passing run.  Next, in this order:

1. Proofs: the refinement of an abstract mailbox by `GmailSync` (a message that has arrived is
   stored, to come, or lost to a page or a reset), and of an abstract screen by `LiveView`.
2. An abstract start (one atomic repair) that `StartupRepair` without crashes implements.
3. Drafts and reminders of the desk, with the offset of `remind_at`.
4. Gmail account administration: add, remove and replace while the poller runs.
