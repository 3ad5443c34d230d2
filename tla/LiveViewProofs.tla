--------------------------- MODULE LiveViewProofs ---------------------------
(***************************************************************************)
(* Theorems about LiveView, for every finite set of reminders, every       *)
(* number of reloads and changes, every capacity of the queue.             *)
(***************************************************************************)
EXTENDS LiveView, FiniteSetTheorems, SequenceTheorems, TLAPS

-----------------------------------------------------------------------------
(* The inductive invariant.                                                *)

Fired == {r \in Reminder : reminder[r] = "fired"}

\* Every message is paid for by a change that was committed or a reminder
\* that was marked, and by one only: the sum bounds the messages.
PublishInv ==
    /\ due =< store
    /\ firing \subseteq Fired
    /\ published + due + Cardinality(firing) =< store + Cardinality(Fired)

\* The queue of the stream goes on where the shell stopped reading.
QueueInv ==
    /\ subscribed => stream
    /\ ~ stream => queue = <<>>
    /\ received + Len(queue) =< published
    /\ subscribed => received + Len(queue) = published
    /\ \A i \in 1 .. Len(queue) : queue[i].no = received + i

\* A reminder is in one place: still to be published, in the queue, shown, or
\* lost.  All of them come after the mark.
ReminderInv ==
    /\ \A i \in 1 .. Len(queue) : queue[i].body \in Reminder =>
         /\ queue[i].body \in Fired \ firing
         /\ shown[queue[i].body] = 0
         /\ \A k \in 1 .. Len(queue) : queue[k].body = queue[i].body => k = i
    /\ \A r \in firing : shown[r] = 0
    /\ \A r \in Reminder : shown[r] > 0 => r \in Fired

\* A reload that reads and shows holds the lock, and what it has read is not
\* older than what is shown.
LockInv ==
    /\ \A l \in Load :
         /\ load[l].pc \in {"asking", "loaded"} <=> lock = l
         /\ load[l].pc = "loaded" => cards =< load[l].got
         /\ load[l].got =< store
    /\ cards =< store
    /\ ~ ui => ~ stream /\ ~ Loading

IInv == TypeOK /\ PublishInv /\ QueueInv /\ ReminderInv /\ ReminderOnce /\ LockInv

-----------------------------------------------------------------------------
(* Messages are bounded.                                                   *)

\* A set of reminders is finite and no larger than Reminder.
LEMMA ReminderSet ==
    ASSUME NEW R \in SUBSET Reminder
    PROVE  /\ IsFiniteSet(R)
           /\ Cardinality(R) \in Nat
           /\ Cardinality(Reminder) \in Nat
           /\ Cardinality(R) =< Cardinality(Reminder)
  BY LiveAssumption, FS_Subset, FS_CardinalityType

LEMMA PublishNext ==
    ASSUME TypeOK, PublishInv, [Next]_vars
    PROVE  PublishInv'
<1> USE DEF PublishInv
<1>0. /\ store \in Nat /\ due \in Nat /\ published \in Nat
      /\ reminder \in [Reminder -> {"none", "pending", "due", "fired"}]
  BY LiveAssumption, ReminderSet DEF TypeOK, Change, MaxPublished
<1>1. /\ Cardinality(firing) \in Nat /\ IsFiniteSet(firing)
      /\ Cardinality(Fired) \in Nat /\ IsFiniteSet(Fired)
      /\ Cardinality({}) = 0
  BY ReminderSet, FS_EmptySet DEF TypeOK, Fired
<1>2. reminder' = reminder => Fired' = Fired
  BY DEF Fired
<1>3. CASE Commit
  BY <1>0, <1>1, <1>2, <1>3 DEF Commit, line
<1>4. CASE PublishChange
  BY <1>0, <1>1, <1>2, <1>4 DEF PublishChange, Publish
<1>5. CASE PublishFails
  BY <1>0, <1>1, <1>2, <1>5 DEF PublishFails, line
<1>6. ASSUME NEW r \in Reminder, CreateReminder(r) \/ RemindAt(r)
      PROVE  PublishInv'
  <2>1. Fired' = Fired
    BY <1>0, <1>6 DEF Fired, CreateReminder, RemindAt
  <2> QED
    BY <2>1, <1>6 DEF CreateReminder, RemindAt, line
<1>7. ASSUME NEW r \in Reminder, PublishReminder(r)
      PROVE  PublishInv'
  <2>1. Cardinality(firing \ {r}) = Cardinality(firing) - 1
    BY <1>1, <1>7, FS_RemoveElement DEF PublishReminder
  <2> QED
    BY <2>1, <1>0, <1>1, <1>2, <1>7 DEF PublishReminder, Publish
<1>8. CASE FireDueReminders
  <2>1. DueReminders \subseteq Reminder /\ DueReminders \cap Fired = {}
    BY DEF DueReminders, Fired
  <2>2. Fired' = Fired \cup DueReminders
    BY <1>0, <1>8 DEF FireDueReminders, Fired, DueReminders
  <2>3. IsFiniteSet(DueReminders) /\ Cardinality(DueReminders) \in Nat
    BY <2>1, ReminderSet
  <2>4. Cardinality(Fired \cup DueReminders) =
          Cardinality(Fired) + Cardinality(DueReminders) - Cardinality(Fired \cap DueReminders)
    BY <2>3, <1>1, FS_Union
  <2>5. Fired \cap DueReminders = {}
    BY <2>1
  <2>6. Cardinality(Fired') = Cardinality(Fired) + Cardinality(DueReminders)
    <3>1. Cardinality(Fired') = Cardinality(Fired \cup DueReminders)
      BY <2>2, Zenon
    <3>2. Cardinality(Fired \cap DueReminders) = 0
      BY <2>5, <1>1, Zenon
    <3> QED
      BY <3>1, <3>2, <2>3, <2>4, <1>1
  <2>7. /\ store' = store /\ due' = due /\ published' = published
        /\ firing = {} /\ firing' = DueReminders
    BY <1>8 DEF FireDueReminders, line
  <2>8. published + due =< store + Cardinality(Fired)
    BY <2>7, <1>0, <1>1
  <2> QED
    BY <2>2, <2>3, <2>6, <2>7, <2>8, <1>0, <1>1
<1>9. CASE WorkerDies
  BY <1>0, <1>1, <1>2, <1>9 DEF WorkerDies, line
<1>10. CASE Restart
  BY <1>0, <1>1, <1>2, <1>10 DEF Restart, Drop
<1>11. CASE UNCHANGED <<store, due, reminder, firing, published>>
  BY <1>2, <1>11
<1>12. CASE Connect \/ Disconnect \/ ReceiveReminder \/ Exit
  BY <1>11, <1>12 DEF Connect, Disconnect, ReceiveReminder, Receive, Exit,
                      Drop, service
<1>13. ASSUME NEW l \in Load,
              \/ ReceiveChange(l) \/ Reload(l) \/ LoadFails(l)
              \/ ChooseView(l) \/ Launch(l)
       PROVE  PublishInv'
  BY <1>11, <1>13 DEF ReceiveChange, Receive, Reload, ReadBootstrap,
                      ApplyBootstrap, TakeLock, ReadCards, ApplyCards,
                      LoadFails, ChooseView, Launch, service, line
<1>14. CASE UNCHANGED vars
  BY <1>11, <1>14 DEF vars
<1> QED
  BY <1>3, <1>4, <1>5, <1>6, <1>7, <1>8, <1>9, <1>10, <1>12, <1>13, <1>14
     DEF Next

\* So the number of a message stays in its range.
LEMMA PublishedBound ==
    PublishInv /\ store \in Change /\ due \in Nat /\ published \in Nat
      => published \in 0 .. MaxPublished
<1> SUFFICES ASSUME PublishInv, store \in Change, due \in Nat, published \in Nat
             PROVE  published \in 0 .. MaxPublished
  OBVIOUS
<1>1. Fired \subseteq Reminder /\ firing \subseteq Reminder
  BY DEF PublishInv, Fired
<1>2. /\ Cardinality(Fired) \in Nat /\ Cardinality(firing) \in Nat
      /\ Cardinality(Reminder) \in Nat
      /\ Cardinality(Fired) =< Cardinality(Reminder)
  BY <1>1, ReminderSet
<1>3. store \in Nat /\ store =< MaxChanges /\ MaxChanges \in Nat
  BY LiveAssumption DEF Change
<1> QED
  BY <1>2, <1>3 DEF PublishInv, MaxPublished

-----------------------------------------------------------------------------
(* The subscription.                                                       *)

\* What Publish does to the queue: one more message at its end, or none.
LEMMA PublishEffect ==
    ASSUME TypeOK, NEW body \in {"change"} \cup Reminder, Publish(body),
           published + 1 \in 1 .. MaxPublished
    PROVE  \/ /\ Accepts
              /\ queue' \in Seq(Message)
              /\ Len(queue') = Len(queue) + 1
              /\ Len(queue') =< Capacity
              /\ \A i \in 1 .. Len(queue) : queue'[i] = queue[i]
              /\ queue'[Len(queue')] = [no |-> published + 1, body |-> body]
           \/ /\ ~ Accepts
              /\ queue' = queue
<1> DEFINE m == [no |-> published + 1, body |-> body]
<1>1. m \in Message
  BY DEF Message
<1>2. queue \in Seq(Message)
  BY DEF TypeOK
<1>3. CASE Accepts
  <2>1. queue' = Append(queue, m)
    BY <1>3 DEF Publish
  <2>2. Len(queue) \in Nat /\ Capacity \in Nat /\ Len(queue) < Capacity
    BY <1>2, <1>3, LenProperties, LiveAssumption DEF Accepts
  <2> HIDE DEF m
  <2>3. /\ Append(queue, m) \in Seq(Message)
        /\ Len(Append(queue, m)) = Len(queue) + 1
        /\ \A i \in 1 .. Len(queue) : Append(queue, m)[i] = queue[i]
        /\ Append(queue, m)[Len(queue) + 1] = m
    BY <1>1, <1>2, AppendProperties
  <2> QED
    BY <2>1, <2>2, <2>3, <1>3 DEF m
<1>4. CASE ~ Accepts
  BY <1>4 DEF Publish
<1> QED
  BY <1>3, <1>4

\* What Receive does to it: the first message goes.
LEMMA ReceiveEffect ==
    ASSUME TypeOK, Receive
    PROVE  /\ queue' \in Seq(Message)
           /\ Len(queue) \in Nat \ {0}
           /\ Len(queue') = Len(queue) - 1
           /\ \A i \in 1 .. Len(queue') : queue'[i] = queue[i + 1]
           /\ Head(queue) = queue[1]
           /\ Head(queue) \in Message
<1>1. queue \in Seq(Message) /\ queue # <<>> /\ queue' = Tail(queue)
  BY DEF TypeOK, Receive
<1>2. Len(queue) \in Nat \ {0}
  BY <1>1, EmptySeq
<1> QED
  BY <1>1, <1>2, HeadTailProperties

\* Steps that neither publish nor touch the stream.
LEMMA LineFrame ==
    ASSUME \/ Commit \/ PublishFails
           \/ \E r \in Reminder : CreateReminder(r) \/ RemindAt(r)
           \/ FireDueReminders \/ WorkerDies
           \/ \E l \in Load : \/ Reload(l) \/ LoadFails(l)
                              \/ ChooseView(l) \/ Launch(l)
           \/ UNCHANGED vars
    PROVE  UNCHANGED line
  BY DEF Commit, PublishFails, CreateReminder, RemindAt, FireDueReminders,
         WorkerDies, Reload, ReadBootstrap, ApplyBootstrap, TakeLock,
         ReadCards, ApplyCards, LoadFails, ChooseView, Launch, vars, line

\* NoGap is inductive once a subscription is known to be a stream and the
\* shell to have received no more than was published.
LEMMA QueueNext ==
    ASSUME TypeOK, PublishInv, QueueInv, [Next]_vars,
           published' \in 0 .. MaxPublished
    PROVE  /\ QueueInv'
           /\ queue' \in Seq(Message) /\ Len(queue') =< Capacity
<1>0. /\ queue \in Seq(Message) /\ Len(queue) \in Nat /\ Len(queue) =< Capacity
      /\ Capacity \in Nat /\ published \in Nat /\ received \in Nat
      /\ MaxPublished \in Nat
  <2>1. MaxPublished \in Nat
    BY ReminderSet, LiveAssumption DEF MaxPublished
  <2> QED
    BY <2>1, LiveAssumption, LenProperties DEF TypeOK
<1>1. Len(<<>>) = 0 /\ <<>> \in Seq(Message)
  BY EmptySeq
<1>2. CASE UNCHANGED line
  BY <1>0, <1>2 DEF QueueInv, line
<1>3. ASSUME NEW body \in {"change"} \cup Reminder, Publish(body)
      PROVE  /\ QueueInv'
             /\ queue' \in Seq(Message) /\ Len(queue') =< Capacity
  <2>1. published' = published + 1 /\ received' = received /\ stream' = stream
    BY <1>3 DEF Publish
  <2>2. published + 1 \in 1 .. MaxPublished
    BY <2>1, <1>0
  <2>3. CASE Accepts
    <3>1. /\ queue' \in Seq(Message)
          /\ Len(queue') = Len(queue) + 1
          /\ Len(queue') =< Capacity
          /\ \A i \in 1 .. Len(queue) : queue'[i] = queue[i]
          /\ queue'[Len(queue')] = [no |-> published + 1, body |-> body]
      BY <2>2, <2>3, <1>3, PublishEffect
    <3>2. subscribed /\ stream /\ received + Len(queue) = published
      BY <2>3 DEF QueueInv, Accepts
    <3>3. \A i \in 1 .. Len(queue') : queue'[i].no = received' + i
      <4> SUFFICES ASSUME NEW i \in 1 .. Len(queue')
                   PROVE  queue'[i].no = received + i
        BY <2>1
      <4>1. CASE i =< Len(queue)
        BY <4>1, <3>1, <1>0 DEF QueueInv
      <4>2. CASE i = Len(queue')
        <5>1. queue'[Len(queue')].no = published + 1
          BY <3>1
        <5>2. received + Len(queue') = published + 1
          BY <3>1, <3>2, <1>0
        <5> QED
          BY <5>1, <5>2, <4>2
      <4> QED
        BY <4>1, <4>2, <3>1, <1>0
    <3>4. subscribed' /\ stream'
      BY <1>3, <2>1, <2>3, <3>2 DEF Publish, KeepsSubscription
    <3>5. received' + Len(queue') = published'
      BY <3>1, <3>2, <2>1, <1>0
    <3>6. received' + Len(queue') =< published'
      BY <3>5, <2>1, <3>1, <1>0
    <3>7. QueueInv'
      BY <3>3, <3>4, <3>5, <3>6 DEF QueueInv
    <3> QED
      BY <3>1, <3>7
  <2>4. CASE ~ Accepts
    BY <2>4, <2>1, <1>0, <1>3 DEF Publish, KeepsSubscription, QueueInv
  <2> QED
    BY <2>3, <2>4
<1>4. CASE Connect
  BY <1>0, <1>1, <1>4 DEF Connect, QueueInv
<1>5. CASE Drop
  BY <1>0, <1>1, <1>5 DEF Drop, QueueInv
<1>6. CASE Receive /\ UNCHANGED <<published, subscribed, stream>>
  <2>1. /\ queue' \in Seq(Message)
        /\ Len(queue) \in Nat \ {0}
        /\ Len(queue') = Len(queue) - 1
        /\ \A i \in 1 .. Len(queue') : queue'[i] = queue[i + 1]
        /\ received' = received + 1 /\ stream
    BY <1>6, ReceiveEffect DEF Receive
  <2>2. ASSUME NEW i \in 1 .. Len(queue')
        PROVE  queue'[i].no = received' + i
    <3>1. i + 1 \in 1 .. Len(queue) /\ queue'[i] = queue[i + 1]
      BY <2>1
    <3>2. queue[i + 1].no = received + (i + 1)
      BY <3>1 DEF QueueInv
    <3> QED
      BY <3>1, <3>2, <2>1, <1>0
  <2>3. received' + Len(queue') = received + Len(queue)
    BY <2>1, <1>0
  <2>4. received' + Len(queue') =< published' /\ Len(queue') =< Capacity
    BY <2>1, <2>3, <1>0, <1>6 DEF QueueInv
  <2>5. /\ subscribed' => stream'
        /\ stream'
        /\ subscribed' => received' + Len(queue') = published'
    BY <2>1, <2>3, <1>6 DEF QueueInv
  <2>6. QueueInv'
    BY <2>2, <2>4, <2>5 DEF QueueInv
  <2> QED
    BY <2>1, <2>4, <2>6
<1>7. CASE \/ PublishChange \/ \E r \in Reminder : PublishReminder(r)
  BY <1>3, <1>7 DEF PublishChange, PublishReminder
<1>8. CASE \/ Disconnect \/ Exit \/ Restart
  BY <1>5, <1>8 DEF Disconnect, Exit, Restart
<1>9. CASE \/ ReceiveReminder \/ \E l \in Load : ReceiveChange(l)
  BY <1>6, <1>9 DEF ReceiveReminder, ReceiveChange
<1> QED
  BY <1>2, <1>4, <1>7, <1>8, <1>9, LineFrame DEF Next

-----------------------------------------------------------------------------
(* Reminders.                                                              *)

\* Fewer messages of the queue, no reminder about to be published that was
\* not before, the same marks: nothing to prove.
LEMMA ReminderFrame ==
    ASSUME ReminderInv, Fired \subseteq Fired', firing' \subseteq firing,
           shown' = shown,
           \/ queue' = queue
           \/ queue' = <<>> /\ Len(queue') = 0
    PROVE  ReminderInv'
<1>1. CASE queue' = queue
  BY <1>1 DEF ReminderInv
<1>2. CASE queue' = <<>> /\ Len(queue') = 0
  BY <1>2 DEF ReminderInv
<1> QED
  BY <1>1, <1>2

\* fire_due_reminders marks a row before anybody publishes it, so that no
\* row is published, queued or shown twice.
LEMMA ReminderNext ==
    ASSUME TypeOK, PublishInv, QueueInv, ReminderInv, ReminderOnce, [Next]_vars,
           published' \in 0 .. MaxPublished
    PROVE  ReminderInv' /\ ReminderOnce' /\ shown' \in [Reminder -> 0 .. 2]
<1>0. /\ reminder \in [Reminder -> {"none", "pending", "due", "fired"}]
      /\ shown \in [Reminder -> 0 .. 2]
      /\ queue \in Seq(Message) /\ Len(queue) \in Nat
      /\ firing \subseteq Fired /\ Fired \subseteq Reminder
      /\ published \in Nat /\ MaxPublished \in Nat
      /\ Len(<<>>) = 0
      /\ "change" \notin Reminder
  <2>1. MaxPublished \in Nat
    BY ReminderSet, LiveAssumption DEF MaxPublished
  <2>2. Len(<<>>) = 0
    BY EmptySeq
  <2> QED
    BY <2>1, <2>2, LenProperties, LiveAssumption DEF TypeOK, PublishInv, Fired
<1>1. reminder' = reminder => Fired' = Fired
  BY DEF Fired
<1>2. \A i \in 1 .. Len(queue) : queue[i] \in Message
  BY <1>0, ElementOfSeq
<1>3. ASSUME UNCHANGED <<reminder, shown>>, firing' \subseteq firing,
             queue' = queue \/ queue' = <<>>
      PROVE  ReminderInv' /\ ReminderOnce' /\ shown' \in [Reminder -> 0 .. 2]
  BY <1>0, <1>1, <1>3, ReminderFrame DEF ReminderOnce
<1>4. ASSUME NEW r \in Reminder, CreateReminder(r) \/ RemindAt(r)
      PROVE  ReminderInv' /\ ReminderOnce' /\ shown' \in [Reminder -> 0 .. 2]
  <2>1. Fired' = Fired
    BY <1>0, <1>4 DEF Fired, CreateReminder, RemindAt
  <2>2. UNCHANGED <<firing, shown, queue>>
    BY <1>4 DEF CreateReminder, RemindAt, line, shell
  <2> QED
    BY <1>0, <2>1, <2>2, ReminderFrame DEF ReminderOnce
<1>5. CASE FireDueReminders
  <2>1. /\ firing' = DueReminders /\ UNCHANGED <<shown, queue>>
        /\ DueReminders \subseteq Reminder /\ DueReminders \cap Fired = {}
        /\ firing = {}
    BY <1>5 DEF FireDueReminders, DueReminders, Fired, line, shell
  <2>2. Fired' = Fired \cup DueReminders
    BY <1>0, <1>5 DEF FireDueReminders, Fired, DueReminders
  <2>3. \A r \in DueReminders : shown[r] = 0
    BY <1>0, <2>1 DEF ReminderInv
  <2> QED
    BY <1>0, <2>1, <2>2, <2>3 DEF ReminderInv, ReminderOnce
<1>6. ASSUME NEW body \in {"change"} \cup Reminder, Publish(body),
             UNCHANGED <<reminder, shown>>, firing' \subseteq firing,
             body # "change" => body \in firing \ firing'
      PROVE  ReminderInv' /\ ReminderOnce' /\ shown' \in [Reminder -> 0 .. 2]
  <2>1. published + 1 \in 1 .. MaxPublished
    BY <1>0, <1>6 DEF Publish
  <2>2. CASE ~ Accepts
    BY <2>2, <1>3, <1>6 DEF Publish
  <2>3. CASE Accepts
    <3>1. /\ Len(queue') = Len(queue) + 1
          /\ \A i \in 1 .. Len(queue) : queue'[i] = queue[i]
          /\ queue'[Len(queue')] = [no |-> published + 1, body |-> body]
      BY <2>1, <2>3, <1>6, PublishEffect
    <3>2. queue'[Len(queue')].body = body
      BY <3>1
    <3>3. \A i \in 1 .. Len(queue) : queue[i].body # body \/ body = "change"
      BY <1>6 DEF ReminderInv
    <3>4. ASSUME NEW i \in 1 .. Len(queue'), queue'[i].body \in Reminder
          PROVE  /\ queue'[i].body \in Fired' \ firing'
                 /\ shown'[queue'[i].body] = 0
                 /\ \A k \in 1 .. Len(queue') :
                      queue'[k].body = queue'[i].body => k = i
      <4>1. CASE i \in 1 .. Len(queue)
        <5>1. queue'[i] = queue[i] /\ queue[i].body # body
          BY <3>1, <3>3, <3>4, <4>1, <1>0
        <5>2. \A k \in 1 .. Len(queue') :
                queue'[k].body = queue'[i].body => k \in 1 .. Len(queue)
          BY <5>1, <3>1, <3>2, <1>0
        <5> QED
          BY <5>1, <5>2, <3>1, <3>4, <4>1, <1>0, <1>1, <1>6 DEF ReminderInv
      <4>2. CASE i = Len(queue')
        <5>1. body \in firing \ firing' /\ queue'[i].body = body
          BY <3>2, <3>4, <4>2, <1>0, <1>6
        <5>2. \A k \in 1 .. Len(queue') : queue'[k].body = body => k = i
          BY <5>1, <3>1, <3>3, <4>2, <1>0
        <5> QED
          BY <5>1, <5>2, <1>0, <1>1, <1>6 DEF ReminderInv
      <4> QED
        BY <4>1, <4>2, <3>1, <1>0
    <3> QED
      BY <3>4, <1>0, <1>1, <1>6 DEF ReminderInv, ReminderOnce
  <2> QED
    BY <2>2, <2>3
<1>7. ASSUME Receive, UNCHANGED <<reminder, firing>>
      PROVE  \A i \in 1 .. Len(queue') :
               /\ i + 1 \in 1 .. Len(queue)
               /\ queue'[i] = queue[i + 1]
               /\ Head(queue) = queue[1]
               /\ 1 \in 1 .. Len(queue)
  BY <1>7, ReceiveEffect
<1>8. CASE \E l \in Load : ReceiveChange(l)
  <2>1. Receive /\ UNCHANGED <<reminder, firing, shown>>
    BY <1>8 DEF ReceiveChange, service
  <2>2. ASSUME NEW i \in 1 .. Len(queue'), queue'[i].body \in Reminder
        PROVE  /\ queue'[i].body \in Fired \ firing
               /\ shown[queue'[i].body] = 0
               /\ \A k \in 1 .. Len(queue') :
                    queue'[k].body = queue'[i].body => k = i
    <3>1. i + 1 \in 1 .. Len(queue) /\ queue'[i] = queue[i + 1]
      BY <2>1, <1>7
    <3>2. \A k \in 1 .. Len(queue') :
            k + 1 \in 1 .. Len(queue) /\ queue'[k] = queue[k + 1]
      BY <2>1, <1>7
    <3>3. \A k \in 1 .. Len(queue') :
            queue'[k].body = queue'[i].body => k + 1 = i + 1
      BY <2>2, <3>1, <3>2 DEF ReminderInv
    <3> QED
      BY <2>2, <3>1, <3>3 DEF ReminderInv
  <2>3. UNCHANGED <<Fired, firing, shown>>
    BY <2>1, <1>1
  <2> QED
    BY <2>2, <2>3, <1>0 DEF ReminderInv, ReminderOnce
<1>9. CASE ReceiveReminder
  <2> DEFINE r == Head(queue).body
  <2>1. Receive /\ UNCHANGED <<reminder, firing>>
    BY <1>9 DEF ReceiveReminder, service
  <2>2. Head(queue) = queue[1] /\ 1 \in 1 .. Len(queue)
    BY <2>1, ReceiveEffect
  <2>3. r \in Reminder /\ r # "change"
    BY <2>2, <1>2, <1>9 DEF ReceiveReminder, Message
  <2>4. shown' = [shown EXCEPT ![r] = @ + 1] /\ shown[r] = 0
    BY <2>2, <2>3, <1>9 DEF ReceiveReminder, ReminderInv
  <2>5. \A i \in 1 .. Len(queue') : queue'[i].body # r
    BY <2>1, <2>2, <2>3, <1>0, <1>7 DEF ReminderInv
  <2>6. r \in Fired \ firing
    BY <2>2, <2>3 DEF ReminderInv
  <2> HIDE DEF r
  <2>7. UNCHANGED <<Fired, firing>>
    BY <2>1, <1>1
  <2>8. ASSUME NEW i \in 1 .. Len(queue'), queue'[i].body \in Reminder
        PROVE  /\ queue'[i].body \in Fired \ firing
               /\ shown'[queue'[i].body] = 0
               /\ \A k \in 1 .. Len(queue') :
                    queue'[k].body = queue'[i].body => k = i
    <3>1. i + 1 \in 1 .. Len(queue) /\ queue'[i] = queue[i + 1]
      BY <2>1, <1>7
    <3>2. \A k \in 1 .. Len(queue') :
            k + 1 \in 1 .. Len(queue) /\ queue'[k] = queue[k + 1]
      BY <2>1, <1>7
    <3>3. \A k \in 1 .. Len(queue') :
            queue'[k].body = queue'[i].body => k + 1 = i + 1
      BY <2>8, <3>1, <3>2 DEF ReminderInv
    <3>4. shown'[queue'[i].body] = shown[queue'[i].body]
      BY <2>4, <2>5, <2>8, <1>0
    <3> QED
      BY <2>8, <3>1, <3>3, <3>4 DEF ReminderInv
  <2>9. \A k \in firing : shown'[k] = 0
    BY <2>4, <2>6, <1>0 DEF ReminderInv
  <2>10. \A k \in Reminder : shown'[k] > 0 => k \in Fired
    BY <2>4, <2>6, <1>0 DEF ReminderInv
  <2>11. shown' \in [Reminder -> 0 .. 2] /\ ReminderOnce'
    BY <2>3, <2>4, <1>0 DEF ReminderOnce
  <2> QED
    BY <2>7, <2>8, <2>9, <2>10, <2>11 DEF ReminderInv
<1>10. CASE PublishChange
  BY <1>6, <1>10 DEF PublishChange, shell
<1>11. CASE \E r \in Reminder : PublishReminder(r)
  BY <1>6, <1>11 DEF PublishReminder, shell
<1>12. CASE Connect \/ Disconnect \/ Exit \/ Restart
  BY <1>3, <1>12 DEF Connect, Disconnect, Exit, Restart, Drop, service, shell
<1>13. CASE \/ Commit \/ PublishFails \/ WorkerDies
            \/ \E l \in Load : \/ Reload(l) \/ LoadFails(l)
                               \/ ChooseView(l) \/ Launch(l)
            \/ UNCHANGED vars
  BY <1>3, <1>13
     DEF Commit, PublishFails, WorkerDies, Reload, ReadBootstrap,
         ApplyBootstrap, TakeLock, ReadCards, ApplyCards, LoadFails,
         ChooseView, Launch, vars, line, service, shell
<1> QED
  BY <1>4, <1>5, <1>8, <1>9, <1>10, <1>11, <1>12, <1>13 DEF Next

-----------------------------------------------------------------------------
(* The lock.                                                               *)

\* The reload that holds the lock is the only one between its read and its
\* display, so nothing newer is shown meanwhile.
LEMMA LockNext ==
    ASSUME TypeOK, LockInv, [Next]_vars
    PROVE  /\ LockInv'
           /\ load' \in [Load -> LoadState]
           /\ lock' \in Load \cup {NoLoad}
           /\ cards' \in Change /\ counts' \in Change /\ store' \in Change
           /\ cards' >= cards
<1> DEFINE Goal ==
      /\ LockInv'
      /\ load' \in [Load -> LoadState]
      /\ lock' \in Load \cup {NoLoad}
      /\ cards' \in Change /\ counts' \in Change /\ store' \in Change
      /\ cards' >= cards
<1>0. /\ load \in [Load -> LoadState]
      /\ \A l \in Load : load[l].got \in Nat /\ load[l].got =< store
      /\ lock \in Load \cup {NoLoad}
      /\ cards \in Change /\ counts \in Change /\ store \in Change
      /\ MaxChanges \in Nat /\ Change \subseteq Nat
      /\ NoLoad \notin Load /\ Idle \in LoadState
  BY LiveAssumption DEF TypeOK, LoadState, Change, Idle, LockInv
<1>1. CASE UNCHANGED <<store, shell>> /\ (stream' => stream)
  BY <1>0, <1>1 DEF LockInv, Loading, shell
<1>2. CASE Commit
  BY <1>0, <1>2 DEF Commit, LockInv, Loading, line, shell, Change
<1>3. CASE Connect \/ ReceiveReminder
  BY <1>0, <1>3 DEF Connect, ReceiveReminder, Receive, LockInv, Loading,
                    service, shell
<1>4. ASSUME NEW l \in Load, ReceiveChange(l)
      PROVE  Goal
  BY <1>0, <1>4 DEF ReceiveChange, Receive, StartsReload, LockInv, Loading,
                    LoadState, service
<1>5. ASSUME NEW l \in Load, ReadBootstrap(l)
      PROVE  Goal
  BY <1>0, <1>5 DEF ReadBootstrap, LockInv, Loading, LoadState, service, line
<1>6. ASSUME NEW l \in Load, ApplyBootstrap(l)
      PROVE  Goal
  BY <1>0, <1>6 DEF ApplyBootstrap, Goto, LockInv, Loading, LoadState,
                    service, line
<1>7. ASSUME NEW l \in Load, TakeLock(l)
      PROVE  Goal
  BY <1>0, <1>7 DEF TakeLock, Goto, LockInv, Loading, LoadState, service, line
<1>8. ASSUME NEW l \in Load, ReadCards(l)
      PROVE  Goal
  BY <1>0, <1>8 DEF ReadCards, LockInv, Loading, LoadState, service, line
<1>9. ASSUME NEW l \in Load, ApplyCards(l)
      PROVE  Goal
  BY <1>0, <1>9 DEF ApplyCards, Release, LockInv, Loading, LoadState, Idle,
                    service, line
<1>10. ASSUME NEW l \in Load, LoadFails(l)
       PROVE  Goal
  BY <1>0, <1>10 DEF LoadFails, Release, LockInv, Loading, LoadState, Idle,
                     service, line
<1>11. ASSUME NEW l \in Load, ChooseView(l)
       PROVE  Goal
  BY <1>0, <1>11 DEF ChooseView, Goto, LockInv, Loading, LoadState,
                     service, line
<1>12. ASSUME NEW l \in Load, Launch(l)
       PROVE  Goal
  BY <1>0, <1>12 DEF Launch, Goto, LockInv, Loading, LoadState, service, line
<1>13. CASE Exit \/ Restart
  BY <1>0, <1>13 DEF Exit, Restart, Drop, LockInv, Loading, LoadState, Idle,
                     service
<1>14. CASE \/ PublishChange \/ PublishFails
            \/ \E r \in Reminder : \/ CreateReminder(r) \/ RemindAt(r)
                                   \/ PublishReminder(r)
            \/ FireDueReminders \/ WorkerDies
            \/ UNCHANGED vars
  <2>1. UNCHANGED <<store, shell, stream>>
    BY <1>14
       DEF PublishChange, PublishFails, Publish, CreateReminder, RemindAt,
           PublishReminder, FireDueReminders, WorkerDies, vars, line, service,
           shell
  <2> QED
    BY <1>1, <2>1
<1>15. CASE Disconnect
  BY <1>1, <1>15 DEF Disconnect, Drop, service
<1> QED
  BY <1>2, <1>3, <1>4, <1>5, <1>6, <1>7, <1>8, <1>9, <1>10, <1>11, <1>12,
     <1>13, <1>14, <1>15 DEF Next, Reload

-----------------------------------------------------------------------------
(* The invariant holds.                                                    *)

LEMMA InitInv == Init => IInv
<1> SUFFICES ASSUME Init PROVE IInv
  OBVIOUS
<1>0. /\ MaxPublished \in Nat /\ MaxChanges \in Nat /\ Capacity \in Nat
      /\ Len(<<>>) = 0 /\ <<>> \in Seq(Message)
      /\ NoLoad \notin Load
  BY ReminderSet, EmptySeq, LiveAssumption DEF MaxPublished
<1>1. Fired = {} /\ firing = {} /\ Cardinality({}) = 0
  BY FS_EmptySet DEF Fired, Init
<1>2. TypeOK
  <2>1. /\ store \in Change /\ due \in Change
        /\ cards \in Change /\ counts \in Change
        /\ published \in 0 .. MaxPublished /\ received \in 0 .. MaxPublished
    BY <1>0 DEF Init, Change
  <2>2. queue \in Seq(Message) /\ Len(queue) =< Capacity
    BY <1>0 DEF Init
  <2>3. load \in [Load -> LoadState]
    BY <1>0 DEF Init, Change, LoadState, Idle
  <2>4. {alive, subscribed, stream, ui, missed} \subseteq BOOLEAN
    BY DEF Init
  <2>5. /\ reminder \in [Reminder -> {"none", "pending", "due", "fired"}]
        /\ firing \subseteq Reminder
        /\ lock \in Load \cup {NoLoad}
        /\ shown \in [Reminder -> 0 .. 2]
    BY DEF Init
  <2> QED
    BY <2>1, <2>2, <2>3, <2>4, <2>5 DEF TypeOK
<1>3. PublishInv
  BY <1>0, <1>1 DEF Init, PublishInv
<1>4. QueueInv
  BY <1>0 DEF Init, QueueInv
<1>5. ReminderInv /\ ReminderOnce
  BY <1>0, <1>1 DEF Init, ReminderInv, ReminderOnce
<1>6. LockInv
  BY <1>0 DEF Init, LockInv, Loading, Idle
<1> QED
  BY <1>2, <1>3, <1>4, <1>5, <1>6 DEF IInv

\* The remaining types.
LEMMA TypeNext ==
    ASSUME TypeOK, [Next]_vars
    PROVE  /\ due' \in Nat
           /\ published' \in Nat
           /\ received' \in Nat
           /\ reminder' \in [Reminder -> {"none", "pending", "due", "fired"}]
           /\ alive' \in BOOLEAN /\ subscribed' \in BOOLEAN
           /\ stream' \in BOOLEAN /\ ui' \in BOOLEAN /\ missed' \in BOOLEAN
<1> USE DEF TypeOK
<1>0. due \in Nat /\ published \in Nat /\ received \in Nat
  BY DEF Change
<1>1. due' \in Nat
  <2>1. due' \in {due, due + 1, 0} \/ (due > 0 /\ due' = due - 1)
    BY DEF Next, Commit, PublishChange, PublishFails, CreateReminder,
         RemindAt, PublishReminder, FireDueReminders, WorkerDies, Connect,
         Disconnect, ReceiveReminder, ReceiveChange, Reload,
         ReadBootstrap, ApplyBootstrap, TakeLock, ReadCards, ApplyCards,
         LoadFails, ChooseView, Launch, Exit, Restart, vars, service
  <2> QED
    BY <2>1, <1>0
<1>2. reminder' \in [Reminder -> {"none", "pending", "due", "fired"}]
  BY DEF Next, Commit, PublishChange, PublishFails, CreateReminder, RemindAt,
         PublishReminder, FireDueReminders, DueReminders, WorkerDies, Connect,
         Disconnect, ReceiveReminder, ReceiveChange, Reload,
         ReadBootstrap, ApplyBootstrap, TakeLock, ReadCards, ApplyCards,
         LoadFails, ChooseView, Launch, Exit, Restart, vars, service
<1>3. alive' \in BOOLEAN /\ ui' \in BOOLEAN
  BY DEF Next, Commit, PublishChange, PublishFails, CreateReminder, RemindAt,
         PublishReminder, FireDueReminders, WorkerDies, Connect,
         Disconnect, ReceiveReminder, ReceiveChange, Reload,
         ReadBootstrap, ApplyBootstrap, TakeLock, ReadCards, ApplyCards,
         LoadFails, ChooseView, Launch, Exit, Restart, vars, service, shell
<1>4. subscribed' \in BOOLEAN /\ stream' \in BOOLEAN
  BY DEF Next, Commit, PublishChange, PublishFails, CreateReminder, RemindAt,
         PublishReminder, Publish, KeepsSubscription, Accepts,
         FireDueReminders, WorkerDies, Connect,
         Disconnect, Drop, ReceiveReminder, ReceiveChange, Receive, Reload,
         ReadBootstrap, ApplyBootstrap, TakeLock, ReadCards, ApplyCards,
         LoadFails, ChooseView, Launch, Exit, Restart, vars, line
<1>5. missed' \in BOOLEAN
  BY DEF Next, Commit, PublishChange, PublishFails, CreateReminder, RemindAt,
         PublishReminder, Publish, FireDueReminders, WorkerDies, Connect,
         Disconnect, ReceiveReminder, ReceiveChange, Reload,
         ReadBootstrap, ApplyBootstrap, TakeLock, ReadCards, ApplyCards,
         LoadFails, ChooseView, Launch, Exit, Restart, vars
<1>6. published' \in Nat /\ received' \in Nat
  <2>1. /\ published' \in {published, published + 1}
        /\ received' \in {received, received + 1, published}
    BY DEF Next, Commit, PublishChange, PublishFails, CreateReminder,
         RemindAt, PublishReminder, Publish, FireDueReminders, WorkerDies,
         Connect, Disconnect, Drop, ReceiveReminder, ReceiveChange, Receive,
         Reload, ReadBootstrap, ApplyBootstrap, TakeLock, ReadCards,
         ApplyCards, LoadFails, ChooseView, Launch, Exit, Restart, vars, line
  <2> QED
    BY <2>1, <1>0
<1> QED
  BY <1>1, <1>2, <1>3, <1>4, <1>5, <1>6

LEMMA NextInv == IInv /\ [Next]_vars => IInv' /\ cards' >= cards
<1> SUFFICES ASSUME IInv, [Next]_vars PROVE IInv' /\ cards' >= cards
  OBVIOUS
<1> USE DEF IInv
<1>1. PublishInv'
  BY PublishNext
<1>2. /\ LockInv' /\ cards' >= cards
      /\ load' \in [Load -> LoadState]
      /\ lock' \in Load \cup {NoLoad}
      /\ cards' \in Change /\ counts' \in Change /\ store' \in Change
  BY LockNext
<1>3. /\ due' \in Nat /\ published' \in Nat /\ received' \in Nat
      /\ reminder' \in [Reminder -> {"none", "pending", "due", "fired"}]
      /\ alive' \in BOOLEAN /\ subscribed' \in BOOLEAN
      /\ stream' \in BOOLEAN /\ ui' \in BOOLEAN /\ missed' \in BOOLEAN
  BY TypeNext
<1>4. published' \in 0 .. MaxPublished
  <2>1. (PublishInv /\ store \in Change /\ due \in Nat /\ published \in Nat
           => published \in 0 .. MaxPublished)'
    BY PublishedBound, PTL
  <2> QED
    BY <2>1, <1>1, <1>2, <1>3, ReminderSet DEF MaxPublished, Change
<1>5. QueueInv' /\ queue' \in Seq(Message) /\ Len(queue') =< Capacity
  BY <1>4, QueueNext
<1>6. ReminderInv' /\ ReminderOnce' /\ shown' \in [Reminder -> 0 .. 2]
  BY <1>4, ReminderNext
<1>7. due' \in Change /\ received' \in 0 .. MaxPublished
  <2>1. Len(queue') \in Nat /\ MaxPublished \in Nat /\ MaxChanges \in Nat
    BY <1>5, LenProperties, ReminderSet, LiveAssumption DEF MaxPublished
  <2> QED
    BY <2>1, <1>1, <1>2, <1>3, <1>4, <1>5 DEF PublishInv, QueueInv, Change
<1>8. firing' \subseteq Reminder
  BY <1>1 DEF PublishInv, Fired
<1> QED
  BY <1>1, <1>2, <1>3, <1>4, <1>5, <1>6, <1>7, <1>8 DEF TypeOK

LEMMA Invariance == Spec => []IInv
  BY InitInv, NextInv, PTL DEF Spec

-----------------------------------------------------------------------------
(* The theorems.                                                           *)

\* Every variable keeps its type; in particular the messages are no more than
\* the changes and the reminders together.
THEOREM TypeCorrect == Spec => []TypeOK
<1>1. IInv => TypeOK
  BY DEF IInv
<1> QED
  BY <1>1, Invariance, PTL

\* EventBus.publish and the generator of the stream leave no message out: what
\* a subscription missed it missed because it had ended.
THEOREM StreamGapless == Spec => []NoGap
<1>1. IInv => NoGap
  BY DEF IInv, QueueInv, NoGap
<1> QED
  BY <1>1, Invariance, PTL

\* fire_due_reminders, the bus and the tray show a reminder at most once,
\* whatever restarts, disconnects and failures happen.
THEOREM RemindedOnce == Spec => []ReminderOnce
<1>1. IInv => ReminderOnce
  BY DEF IInv
<1> QED
  BY <1>1, Invariance, PTL

\* LoadCardsAsync under _refreshLock never replaces a list by an older one.
THEOREM NeverBackwards == Spec => CardsForward
<1>1. IInv /\ [Next]_vars => [cards' >= cards]_vars
  BY NextInv
<1> QED
  BY <1>1, Invariance, PTL DEF Spec, CardsForward

-----------------------------------------------------------------------------
(* Nothing is forgotten.                                                   *)

\* What a step may do to the reloads that will show the present state.
LEMMA OnItsWayNext ==
    IInv /\ ChangeOnItsWay /\ [Next]_vars => ChangeOnItsWay'
<1> SUFFICES ASSUME IInv, ChangeOnItsWay, [Next]_vars
             PROVE  ChangeOnItsWay'
  OBVIOUS
<1>0. /\ load \in [Load -> LoadState] /\ store \in Nat /\ due \in Nat
      /\ queue \in Seq(Message) /\ Len(queue) \in Nat
      /\ published \in Nat /\ MaxPublished \in Nat
      /\ published' \in 0 .. MaxPublished
  <2>1. MaxPublished \in Nat /\ Change \subseteq Nat
    BY ReminderSet, LiveAssumption DEF MaxPublished, Change
  <2>2. published' \in 0 .. MaxPublished
    BY NextInv DEF IInv, TypeOK
  <2> QED
    BY <2>1, <2>2, LenProperties DEF IInv, TypeOK
<1>1. CASE Commit
  BY <1>0, <1>1 DEF Commit, ChangeOnItsWay
<1>2. CASE UNCHANGED <<store, cards, due, queue, load>> /\ (missed => missed')
  BY <1>2 DEF ChangeOnItsWay, WillBeFresh, Carries
<1>3. CASE missed' \/ cards' = store'
  BY <1>3 DEF ChangeOnItsWay
<1>4. ASSUME NEW body \in {"change"} \cup Reminder, Publish(body), Accepts
      PROVE  /\ Carries(queue, "change") => Carries(queue', "change")
             /\ body = "change" => Carries(queue', "change")
  <2>1. published + 1 \in 1 .. MaxPublished
    BY <1>0, <1>4 DEF Publish
  <2>2. /\ Len(queue') = Len(queue) + 1
        /\ \A i \in 1 .. Len(queue) : queue'[i] = queue[i]
        /\ queue'[Len(queue')] = [no |-> published + 1, body |-> body]
    BY <2>1, <1>4, PublishEffect DEF IInv
  <2>3. queue'[Len(queue')].body = body /\ Len(queue') \in 1 .. Len(queue')
    BY <2>2, <1>0
  <2>4. 1 .. Len(queue) \subseteq 1 .. Len(queue')
    BY <2>2, <1>0
  <2> QED
    BY <2>2, <2>3, <2>4 DEF Carries
<1>5. CASE PublishChange
  <2>1. CASE Accepts
    BY <2>1, <1>4, <1>5 DEF PublishChange, ChangeOnItsWay
  <2>2. CASE ~ Accepts
    BY <2>2, <1>3, <1>5 DEF PublishChange, Publish
  <2> QED
    BY <2>1, <2>2
<1>6. ASSUME NEW r \in Reminder, PublishReminder(r)
      PROVE  ChangeOnItsWay'
  <2>1. UNCHANGED <<store, cards, due, load>> /\ (missed => missed')
    BY <1>6 DEF PublishReminder, Publish, shell
  <2>2. Carries(queue, "change") => Carries(queue', "change")
    <3>1. CASE Accepts
      BY <3>1, <1>4, <1>6 DEF PublishReminder
    <3>2. CASE ~ Accepts
      BY <3>2, <1>6 DEF PublishReminder, Publish
    <3> QED
      BY <3>1, <3>2
  <2> QED
    BY <2>1, <2>2 DEF ChangeOnItsWay, WillBeFresh
<1>7. CASE Connect
  <2>1. queue = <<>> /\ queue' = <<>>
    BY <1>7 DEF Connect, IInv, QueueInv
  <2>2. UNCHANGED <<store, cards, due, load>> /\ missed' = missed
    BY <1>7 DEF Connect, service, shell
  <2> QED
    BY <2>1, <2>2, <1>2
<1>8. CASE Disconnect
  <2>1. UNCHANGED <<store, cards, due, load>>
    BY <1>8 DEF Disconnect, service, shell
  <2>2. missed' = (missed \/ Carries(queue, "change"))
    BY <1>8 DEF Disconnect
  <2> QED
    BY <2>1, <2>2 DEF ChangeOnItsWay, WillBeFresh
<1>9. CASE ReceiveReminder
  <2>1. /\ Len(queue) \in Nat \ {0} /\ Len(queue') = Len(queue) - 1
        /\ \A i \in 1 .. Len(queue') : queue'[i] = queue[i + 1]
        /\ Head(queue) = queue[1]
    BY <1>9, ReceiveEffect DEF ReceiveReminder, IInv
  <2>2. UNCHANGED <<store, cards, due, load>> /\ missed' = missed
    BY <1>9 DEF ReceiveReminder, service
  <2>3. ASSUME NEW i \in 1 .. Len(queue), queue[i].body = "change"
        PROVE  Carries(queue', "change")
    <3>1. queue[1].body # "change"
      BY <2>1, <1>9 DEF ReceiveReminder
    <3>2. i # 1
      BY <2>3, <3>1
    <3>3. i - 1 \in 1 .. Len(queue') /\ queue'[i - 1] = queue[(i - 1) + 1]
      BY <2>1, <3>2
    <3>4. queue'[i - 1] = queue[i]
      BY <3>3
    <3> QED
      BY <2>3, <3>3, <3>4 DEF Carries
  <2> QED
    BY <2>2, <2>3 DEF ChangeOnItsWay, WillBeFresh, Carries
<1>10. ASSUME NEW l \in Load, ReceiveChange(l)
       PROVE  ChangeOnItsWay'
  BY <1>0, <1>10 DEF ReceiveChange, StartsReload, ChangeOnItsWay, WillBeFresh
<1>11. ASSUME NEW l \in Load,
              \/ ReadBootstrap(l) \/ ApplyBootstrap(l) \/ TakeLock(l)
              \/ ReadCards(l) \/ ChooseView(l)
       PROVE  ChangeOnItsWay'
  <2>1. WillBeFresh(l)'
    BY <1>0, <1>11 DEF ReadBootstrap, ApplyBootstrap, TakeLock, ReadCards,
                       ChooseView, Goto, WillBeFresh, LoadState, service
  <2> QED
    BY <2>1 DEF ChangeOnItsWay
<1>12. ASSUME NEW l \in Load, ApplyCards(l)
       PROVE  ChangeOnItsWay'
  <2>1. CASE load[l].got = store
    BY <2>1, <1>3, <1>12 DEF ApplyCards, service
  <2>2. CASE load[l].got # store
    <3>1. ~ WillBeFresh(l)
      BY <2>2, <1>12 DEF ApplyCards, WillBeFresh
    <3>2. UNCHANGED <<store, due, queue>>
      BY <1>12 DEF ApplyCards, service, line
    <3>3. missed => missed'
      BY <2>2, <1>12 DEF ApplyCards
    <3>4. \A k \in Load \ {l} : load'[k] = load[k]
      BY <1>0, <1>12 DEF ApplyCards
    <3>5. cards # store
      <4>1. /\ cards =< load[l].got /\ load[l].got =< store
            /\ cards \in Nat /\ load[l].got \in Nat
        BY <1>0, <1>12 DEF ApplyCards, IInv, LockInv, TypeOK, Change, LoadState
      <4> QED
        BY <4>1, <2>2, <1>0
    <3> QED
      BY <3>1, <3>2, <3>3, <3>4, <3>5 DEF ChangeOnItsWay, WillBeFresh
  <2> QED
    BY <2>1, <2>2
<1>13. CASE \/ PublishFails \/ \E l \in Load : LoadFails(l) \/ Launch(l)
            \/ Exit
  BY <1>3, <1>13 DEF PublishFails, LoadFails, Launch, Exit, service
<1>14. CASE Restart
  <2>1. /\ missed' = (missed \/ due > 0 \/ Carries(queue, "change") \/ Loading)
        /\ UNCHANGED <<store, cards>>
    BY <1>14 DEF Restart
  <2>2. ASSUME NEW l \in Load, WillBeFresh(l)
        PROVE  Loading
    BY <2>2 DEF WillBeFresh, Loading
  <2> QED
    BY <2>1, <2>2 DEF ChangeOnItsWay
<1>15. CASE \/ \E r \in Reminder : CreateReminder(r) \/ RemindAt(r)
            \/ FireDueReminders \/ WorkerDies \/ UNCHANGED vars
  BY <1>2, <1>15 DEF CreateReminder, RemindAt, FireDueReminders, WorkerDies,
                     vars, line, shell
<1> QED
  BY <1>1, <1>5, <1>6, <1>7, <1>8, <1>9, <1>10, <1>11, <1>12, <1>13, <1>14,
     <1>15 DEF Next, Reload

\* The event path from a commit to the card list has no hole but the ones that
\* missed records: the safety half of EventuallyFresh.
THEOREM NothingForgotten == Spec => []ChangeOnItsWay
<1>1. Init => ChangeOnItsWay
  BY DEF Init, ChangeOnItsWay
<1> QED
  BY <1>1, Invariance, OnItsWayNext, PTL DEF Spec
=============================================================================
