------------------------- MODULE NotificationBridge -------------------------
(***************************************************************************)
(* The shell's NotificationBridge and the service handler it posts to.     *)
(* Three kinds of tasks forward the toasts of the action center: StartAsync*)
(* once, the poll every 15 seconds, and a handler for every toast that is  *)
(* added.  A sweep (ReconcileAsync) holds a semaphore, a live handler does *)
(* not; each post is awaited, and everything else runs meanwhile.          *)
(*                                                                         *)
(* The notification allowlist lets every application through.  At most one *)
(* StartAsync runs at a time.  X_Defect is X with a defect a change could  *)
(* bring in; no action uses it.                                            *)
(***************************************************************************)
EXTENDS Integers, FiniteSets

CONSTANTS
    Toast,         \* notification ids, never used twice
    Starter,       \* the task of StartAsync
    Poller,        \* the task of PollNotificationsAsync
    NoTask,        \* nobody holds the gate
    Text,          \* what toasts show
    Blank,         \* a toast whose text the application has still to set
    Shows,         \* [Toast -> SUBSET Text], what a toast may show
    Created,       \* [Toast -> Int], CreationTime
    Kind,          \* [Toast -> {"line", "messenger", "plain"}], one chat each
    Refused,       \* texts the service answers with an error: a title of spaces
    MaxFaults      \* calls that fail between a start and the next

Task == Toast \cup {Starter, Poller}

ASSUME BridgeAssumption ==
    /\ Starter \notin Toast \cup {Poller} /\ Poller \notin Toast
    /\ NoTask \notin Task
    /\ IsFiniteSet(Toast)
    /\ Blank \in Text
    /\ Text \cap {"unborn", "gone", "none"} = {}
    /\ Shows \in [Toast -> SUBSET Text]
    /\ Created \in [Toast -> Int]
    /\ \A m, n \in Toast : Created[m] = Created[n] => m = n
    /\ Kind \in [Toast -> {"line", "messenger", "plain"}]
    /\ Refused \subseteq Text \ {Blank}
    /\ MaxFaults \in Nat

VARIABLES
    shown,         \* toast |-> its text while it is in the action center
    filed,         \* <<toast, text>> the service has stored
    observed,      \* _observed: toast |-> text forwarded last
    task,          \* task |-> where it is and what it has still to forward
    gate,          \* the task that holds _reconcileGate
    shell,         \* the shell runs, is subscribed, is polling
    faults         \* calls that failed since the shell started

vars == <<shown, filed, observed, task, gate, shell, faults>>

-----------------------------------------------------------------------------

Capture == Toast \X Text
Point == {"idle", "delay", "access", "gate", "post", "answered"}
Idle == [pc |-> "idle", todo |-> {}]
Off == [running |-> FALSE, listening |-> FALSE, polling |-> FALSE]

TypeOK ==
    /\ shown \in [Toast -> Text \cup {"unborn", "gone"}]
    /\ filed \subseteq Capture
    /\ observed \in [Toast -> Text \cup {"none"}]
    /\ task \in [Task -> [pc : Point, todo : SUBSET Capture]]
    /\ gate \in Task \cup {NoTask}
    /\ shell \in [running : BOOLEAN, listening : BOOLEAN, polling : BOOLEAN]
    /\ faults \in 0 .. MaxFaults

Visible(n) == shown[n] \in Text

\* GetNotificationsAsync
ActionCenter == {<<n, shown[n]>> : n \in {m \in Toast : Visible(m)}}

\* foreach (... OrderBy(item => item.CreationTime))
First(todo) ==
    CHOOSE c \in todo : \A d \in todo : Created[c[1]] =< Created[d[1]]

\* A chat message is taken for one that is stored already: any LINE message,
\* and a Messenger message that was not captured live (similar_chat_event).
SameChat(n) == {m \in Toast : Kind[m] = Kind[n]}
StoredTwin(n, x) ==
    /\ Kind[n] # "plain" /\ x # Blank
    /\ \E m \in SameChat(n) : <<m, x>> \in filed
TakenForReplay(k, c) ==
    /\ Kind[c[1]] = "line" \/ gate = k
    /\ StoredTwin(c[1], c[2])

Init ==
    /\ shown = [n \in Toast |-> "unborn"]
    /\ filed = {}
    /\ observed = [n \in Toast |-> "none"]
    /\ task = [k \in Task |-> Idle]
    /\ gate = NoTask
    /\ shell = Off
    /\ faults = 0

-----------------------------------------------------------------------------
(* Windows and the user.                                                   *)

\* NotificationChanged reaches the bridge while it is subscribed.
Show(n) ==
    /\ shown[n] = "unborn"
    /\ \E x \in Shows[n] : shown' = [shown EXCEPT ![n] = x]
    /\ task' = IF shell.listening THEN [task EXCEPT ![n].pc = "delay"]
                                  ELSE task
    /\ UNCHANGED <<filed, observed, gate, shell, faults>>

\* The text arrives after the toast, without an event.
Fill(n) ==
    /\ shown[n] = Blank
    /\ \E x \in Shows[n] \ {Blank} : shown' = [shown EXCEPT ![n] = x]
    /\ UNCHANGED <<filed, observed, task, gate, shell, faults>>

Dismiss(n) ==
    /\ Visible(n)
    /\ shown' = [shown EXCEPT ![n] = "gone"]
    /\ observed' = IF shell.listening THEN [observed EXCEPT ![n] = "none"]
                                      ELSE observed
    /\ UNCHANGED <<filed, task, gate, shell, faults>>

\* OnLaunched ends with StartAsync; a later request for access repeats it.
Launch ==
    /\ ~ shell.running
    /\ shell' = [Off EXCEPT !.running = TRUE]
    /\ task' = [task EXCEPT ![Starter].pc = "access"]
    /\ UNCHANGED <<shown, filed, observed, gate, faults>>

RequestNotificationAccess ==
    /\ shell.running
    /\ task[Starter].pc = "idle"
    /\ task' = [task EXCEPT ![Starter].pc = "access"]
    /\ UNCHANGED <<shown, filed, observed, gate, shell, faults>>

\* The shell ends at any moment, with all it had in memory.
Exit ==
    /\ shell.running
    /\ shell' = Off
    /\ task' = [k \in Task |-> Idle]
    /\ gate' = NoTask
    /\ observed' = [n \in Toast |-> "none"]
    /\ faults' = 0
    /\ UNCHANGED <<shown, filed>>

-----------------------------------------------------------------------------
(* The tasks.  A step is what a task does between two awaits.              *)

Goto(k, pc) == task' = [task EXCEPT ![k].pc = pc]

\* finally { _reconcileGate.Release(); }
Released_OnSuccess(k) == gate
Released(k) == IF gate = k THEN NoTask ELSE gate

Forwarding(k) == task[k].pc \in {"post", "answered"}

\* An exception ends the whole sweep; OnNotificationChanged and the poll
\* catch it, StartAsync throws it on to OnLaunched.
Abort(k) ==
    /\ task' = [task EXCEPT ![k] = Idle]
    /\ gate' = Released(k)

\* The foreach of ReconcileAsync, up to the next post: ForwardAsync skips what
\* _observed (seen) has with the same text.  StartAsync ends with EnsurePolling.
Proceed(k, todo, seen, holder) ==
    LET fresh == {c \in todo : seen[c[1]] # c[2]} IN
    IF fresh = {}
    THEN /\ task' = [task EXCEPT ![k] = Idle]
         /\ gate' = IF holder = k THEN NoTask ELSE holder
         /\ shell' = IF k = Starter THEN [shell EXCEPT !.polling = TRUE]
                                    ELSE shell
    ELSE /\ task' = [task EXCEPT ![k] =
              [pc |-> "post",
               todo |-> {c \in todo : Created[c[1]] >= Created[First(fresh)[1]]}]]
         /\ gate' = holder
         /\ UNCHANGED shell

\* RequestAccessAsync and the status it posts, then the subscription.
Access ==
    /\ task[Starter].pc = "access"
    /\ \/ /\ Goto(Starter, "gate")
          /\ shell' = [shell EXCEPT !.listening = TRUE]
       \/ /\ Goto(Starter, "idle")         \* denied, or not decided
          /\ UNCHANGED shell
    /\ UNCHANGED <<shown, filed, observed, gate, faults>>

Tick ==
    /\ shell.polling
    /\ task[Poller].pc = "idle"
    /\ Goto(Poller, "gate")
    /\ UNCHANGED <<shown, filed, observed, gate, shell, faults>>

\* After 350 ms the handler looks for its toast; if it is not there, it sweeps.
LookUp(n) ==
    /\ task[n].pc = "delay"
    /\ IF Visible(n) THEN Proceed(n, {<<n, shown[n]>>}, observed, gate)
                     ELSE Goto(n, "gate") /\ UNCHANGED <<gate, shell>>
    /\ UNCHANGED <<shown, filed, observed, faults>>

\* ReconcileAsync up to its first post.
TakeGate_Busy(k) ==
    /\ task[k].pc = "gate"
    /\ Proceed(k, ActionCenter, observed, k)
    /\ UNCHANGED <<shown, filed, observed, faults>>
TakeGate(k) ==
    /\ task[k].pc = "gate"
    /\ gate = NoTask
    /\ Proceed(k, ActionCenter, observed, k)
    /\ UNCHANGED <<shown, filed, observed, faults>>

\* windows_notification: process files the capture unless it knows its key or
\* takes it for a replay; a toast without a name for its sender is an error.
Post_MarkEarly(k) ==
    LET c == First(task[k].todo) IN
    /\ task[k].pc = "post"
    /\ observed' = [observed EXCEPT ![c[1]] = c[2]]
    /\ IF c[2] \in Refused
       THEN Abort(k) /\ UNCHANGED filed
       ELSE /\ filed' = IF TakenForReplay(k, c) THEN filed
                                               ELSE filed \cup {c}
            /\ Goto(k, "answered")
            /\ UNCHANGED gate
    /\ UNCHANGED <<shown, shell, faults>>
Post(k) ==
    LET c == First(task[k].todo) IN
    /\ task[k].pc = "post"
    /\ IF c[2] \in Refused
       THEN Abort(k) /\ UNCHANGED filed
       ELSE /\ filed' = IF TakenForReplay(k, c) THEN filed
                                               ELSE filed \cup {c}
            /\ Goto(k, "answered")
            /\ UNCHANGED gate
    /\ UNCHANGED <<shown, observed, shell, faults>>

\* "Mark it only after forwarding succeeds", and go on.
MarkObserved_Latest(k) ==
    LET c == First(task[k].todo)
        seen == [observed EXCEPT ![c[1]] = shown[c[1]]] IN
    /\ task[k].pc = "answered"
    /\ observed' = seen
    /\ Proceed(k, task[k].todo \ {c}, seen, gate)
    /\ UNCHANGED <<shown, filed, faults>>
MarkObserved(k) ==
    LET c == First(task[k].todo)
        seen == [observed EXCEPT ![c[1]] = c[2]] IN
    /\ task[k].pc = "answered"
    /\ observed' = seen
    /\ Proceed(k, task[k].todo \ {c}, seen, gate)
    /\ UNCHANGED <<shown, filed, faults>>

Fault == faults < MaxFaults /\ faults' = faults + 1

\* A call raises: no service, an answer lost after the capture was stored, an
\* action center that does not answer the task at the gate.
CallFails(k) ==
    /\ Fault
    /\ task[k].pc \in {"access", "gate", "post", "answered"}
    /\ Abort(k)
    /\ UNCHANGED <<shown, filed, observed, shell>>

\* HttpClient.Timeout: a post not answered within 20 minutes, stored or not,
\* raises a TaskCanceledException.  The poll excludes it from the failures it
\* survives and takes it for its own end only once it is cancelled: the poll
\* task faults, and nothing polls until StartAsync is called again.
TimesOut(k) ==
    /\ Fault
    /\ Forwarding(k)
    /\ Abort(k)
    /\ shell' = IF k = Poller THEN [shell EXCEPT !.polling = FALSE] ELSE shell
    /\ UNCHANGED <<shown, filed, observed>>

Advance(k) ==
    \/ k = Starter /\ Access
    \/ k \in Toast /\ LookUp(k)
    \/ Post(k) \/ MarkObserved(k)

Next ==
    \/ \E n \in Toast : Show(n) \/ Fill(n) \/ Dismiss(n)
    \/ Launch \/ RequestNotificationAccess \/ Exit
    \/ Tick
    \/ \E k \in Task : TakeGate(k) \/ Advance(k) \/ CallFails(k)
                         \/ TimesOut(k)

Spec == Init /\ [][Next]_vars

\* Delays and awaited calls end; SemaphoreSlim serves its waiters in turn; the
\* timer ticks.  Nothing obliges Windows or the user, and only MaxFaults calls
\* fail or time out.
FairSpec ==
    /\ Spec
    /\ WF_vars(Tick)
    /\ \A k \in Task : WF_vars(Advance(k)) /\ SF_vars(TakeGate(k))

-----------------------------------------------------------------------------
(* Properties.                                                             *)

Stored(n, x) == <<n, x>> \in filed \/ StoredTwin(n, x)

\* What the bridge will not forward again is stored, or was taken for a
\* message that is: whatever failed, nothing is marked too early.
ObservedIsStored ==
    \A n \in Toast : observed[n] # "none" => Stored(n, observed[n])

\* One sweep at a time: what a task forwards without the gate is its own
\* toast, and a task that ended, in whatever way, does not hold the gate.
SweepsExclude ==
    \A k \in Task :
        /\ gate = k => Forwarding(k)
        /\ Forwarding(k) /\ gate # k => \A c \in task[k].todo : c[1] = k

\* An error answer ends every sweep before the newer toasts.
Blocked(n) ==
    \E m \in Toast : shown[m] \in Refused /\ Created[m] =< Created[n]

\* While the poll runs, a toast that stays is stored: a missing text, a missed
\* event or a post that failed at once only delays it.  The poll ends with the
\* shell, and with a post of its own that timed out.
EventuallyStored ==
    \A n \in Toast :
        shell.polling /\ Visible(n)
          ~> \/ Visible(n) => Stored(n, shown[n])
             \/ ~ shell.polling \/ Blocked(n)
=============================================================================
