---------------------- MODULE NotificationBridgeProofs ----------------------
(***************************************************************************)
(* Theorems about NotificationBridge, for every finite set of toasts,      *)
(* every text they may show and every number of failing calls.             *)
(***************************************************************************)
EXTENDS NotificationBridge, FiniteSetTheorems, WellFoundedInduction, TLAPS

-----------------------------------------------------------------------------
(* The first of a finite list.                                             *)

\* A finite set of captures has an oldest one.  The toasts before each
\* element are finite sets, and strict inclusion is well-founded on them.
LEMMA FirstExists ==
    ASSUME NEW todo \in SUBSET Capture, todo # {}
    PROVE  First(todo) \in todo
<1> DEFINE Before(c) == {n \in Toast : Created[n] < Created[c[1]]}
           T == {Before(c) : c \in todo}
<1>1. T \subseteq FiniteSubsetsOf(Toast)
  <2> SUFFICES ASSUME NEW c \in todo
               PROVE  Before(c) \in FiniteSubsetsOf(Toast)
    OBVIOUS
  <2>1. Before(c) \subseteq Toast
    OBVIOUS
  <2> QED
    BY <2>1, BridgeAssumption, FS_Subset DEF FiniteSubsetsOf
<1>2. T # {}
  OBVIOUS
<1>3. PICK B \in T : \A D \in T : <<D, B>> \notin StrictSubsetOrdering(Toast)
  <2> HIDE DEF T
  <2> QED
    BY <1>1, <1>2, FS_StrictSubsetOrderingWellFounded, WFMin
<1>4. PICK c \in todo : B = Before(c)
  BY <1>3
<1>5. \A d \in todo : Created[c[1]] =< Created[d[1]]
  <2> SUFFICES ASSUME NEW d \in todo, ~ Created[c[1]] =< Created[d[1]]
               PROVE  FALSE
    OBVIOUS
  <2>0. c[1] \in Toast /\ d[1] \in Toast
    BY DEF Capture
  <2>1. Created[c[1]] \in Int /\ Created[d[1]] \in Int
    BY <2>0, BridgeAssumption
  <2>2. Created[d[1]] < Created[c[1]]
    BY <2>1
  <2>3. d[1] \in Before(c) /\ d[1] \notin Before(d)
    BY <2>0, <2>1, <2>2
  <2>4. Before(d) \subseteq Before(c)
    <3> SUFFICES ASSUME NEW n \in Toast, Created[n] < Created[d[1]]
                 PROVE  Created[n] < Created[c[1]]
      OBVIOUS
    <3>1. Created[n] \in Int
      BY BridgeAssumption
    <3> QED
      BY <3>1, <2>1, <2>2
  <2>5. <<Before(d), Before(c)>> \in StrictSubsetOrdering(Toast)
    BY <2>3, <2>4 DEF StrictSubsetOrdering
  <2> QED
    BY <2>5, <1>3, <1>4
<1> QED
  BY <1>5 DEF First

-----------------------------------------------------------------------------
(* The inductive invariant.                                                *)

\* The capture that is next is stored, or taken for one that is.
FirstStored(todo) ==
    LET c == First(todo) IN Stored(c[1], c[2])

\* A task that posts has something to post, and what was answered is stored.
TaskInv ==
    \A k \in Task :
        /\ Forwarding(k) => task[k].todo # {}
        /\ task[k].pc = "answered" => FirstStored(task[k].todo)

\* Nothing runs before the shell does, and no handler before its toast.
QuietInv ==
    /\ ~ shell.running =>
         /\ ~ shell.listening /\ ~ shell.polling
         /\ \A k \in Task : task[k].pc = "idle"
    /\ \A n \in Toast : shown[n] = "unborn" => task[n].pc = "idle"

IInv == TypeOK /\ TaskInv /\ QuietInv /\ SweepsExclude /\ ObservedIsStored

LEMMA InitInv == Init => IInv
<1> SUFFICES ASSUME Init PROVE IInv
  OBVIOUS
<1> USE DEF Init, Idle, Off
<1>1. TypeOK
  BY BridgeAssumption DEF TypeOK, Point
<1>2. TaskInv
  BY DEF TaskInv, Forwarding
<1>3. QuietInv
  BY DEF QuietInv, Task
<1>4. SweepsExclude
  BY BridgeAssumption DEF SweepsExclude, Forwarding
<1>5. ObservedIsStored
  BY DEF ObservedIsStored
<1> QED
  BY <1>1, <1>2, <1>3, <1>4, <1>5 DEF IInv

\* What is stored stays stored.
LEMMA StoredStays ==
    ASSUME filed \subseteq filed', NEW n, NEW x, Stored(n, x)
    PROVE  Stored(n, x)'
  BY DEF Stored, StoredTwin

\* A sweep goes on with part of what it had, or ends and lets the gate go.
LEMMA ProceedEffect ==
    ASSUME TypeOK, NEW k \in Task, NEW todo \in SUBSET Capture,
           NEW seen, NEW holder \in Task \cup {NoTask},
           Proceed(k, todo, seen, holder)
    PROVE  /\ task' \in [Task -> [pc : Point, todo : SUBSET Capture]]
           /\ gate' \in Task \cup {NoTask}
           /\ shell' \in [running : BOOLEAN, listening : BOOLEAN,
                          polling : BOOLEAN]
           /\ shell'.running = shell.running
           /\ shell'.listening = shell.listening
           /\ shell.running => shell'.running
           /\ \A j \in Task \ {k} : task'[j] = task[j]
           /\ \/ /\ task'[k].pc = "idle"
                 /\ gate' = IF holder = k THEN NoTask ELSE holder
              \/ /\ task'[k].pc = "post"
                 /\ task'[k].todo # {}
                 /\ task'[k].todo \subseteq todo
                 /\ gate' = holder
<1> DEFINE fresh == {c \in todo : seen[c[1]] # c[2]}
           rest == {c \in todo : Created[c[1]] >= Created[First(fresh)[1]]}
<1>1. CASE fresh = {}
  <2>1. /\ task' = [task EXCEPT ![k] = Idle]
        /\ gate' = IF holder = k THEN NoTask ELSE holder
        /\ shell' = IF k = Starter THEN [shell EXCEPT !.polling = TRUE]
                                   ELSE shell
    BY <1>1 DEF Proceed
  <2> QED
    BY <2>1 DEF TypeOK, Idle, Point
<1>2. CASE fresh # {}
  <2>1. /\ task' = [task EXCEPT ![k] = [pc |-> "post", todo |-> rest]]
        /\ gate' = holder
        /\ shell' = shell
    BY <1>2 DEF Proceed
  <2>2. First(fresh) \in fresh
    BY <1>2, FirstExists
  <2>3. First(fresh) \in todo
    BY <2>2
  <2>4. First(fresh)[1] \in Toast
    BY <2>3 DEF Capture
  <2>5. Created[First(fresh)[1]] \in Int
    BY <2>4, BridgeAssumption
  <2>6. First(fresh) \in rest
    BY <2>3, <2>5
  <2>7. rest \in SUBSET Capture /\ rest # {} /\ rest \subseteq todo
    BY <2>6
  <2> HIDE DEF rest, fresh
  <2> QED
    BY <2>1, <2>7 DEF TypeOK, Point
<1> QED
  BY <1>1, <1>2

\* A task that was under way leaves the others as they are.
LEMMA TaskStep ==
    ASSUME IInv, NEW k \in Task, task[k].pc # "idle",
           \A j \in Task \ {k} : task'[j] = task[j],
           filed \subseteq filed', shown' = shown,
           shell'.running = shell.running,
           Forwarding(k)' => task'[k].todo # {},
           task'[k].pc = "answered" => FirstStored(task[k].todo)'
    PROVE  TaskInv' /\ QuietInv'
<1>1. \A n, x : Stored(n, x) => Stored(n, x)'
  BY StoredStays
<1>2. TaskInv'
  <2> SUFFICES ASSUME NEW j \in Task
               PROVE  /\ Forwarding(j)' => task'[j].todo # {}
                      /\ task'[j].pc = "answered" => FirstStored(task[j].todo)'
    BY DEF TaskInv
  <2>1. CASE j = k
    BY <2>1
  <2>2. CASE j # k
    <3>1. task'[j] = task[j]
      BY <2>2
    <3>2. /\ Forwarding(j) => task[j].todo # {}
          /\ task[j].pc = "answered" => FirstStored(task[j].todo)
      BY DEF IInv, TaskInv
    <3> QED
      BY <1>1, <3>1, <3>2 DEF Forwarding, FirstStored, First
  <2> QED
    BY <2>1, <2>2
<1>3. shell.running
  BY DEF IInv, QuietInv
<1>4. \A n \in Toast : shown[n] = "unborn" => n # k /\ task'[n] = task[n]
  BY DEF IInv, QuietInv, Task
<1>5. QuietInv'
  BY <1>3, <1>4 DEF IInv, QuietInv
<1> QED
  BY <1>2, <1>5

\* The gate is let go by the task that holds it, or stays where it is.
LEMMA GateStep ==
    ASSUME IInv, NEW k \in Task,
           \A j \in Task \ {k} : task'[j] = task[j],
           \/ /\ ~ Forwarding(k)'
              /\ gate' = IF gate = k THEN NoTask ELSE gate
           \/ /\ Forwarding(k)' /\ gate' = gate
              /\ gate # k => \A c \in task'[k].todo : c[1] = k
    PROVE  SweepsExclude'
<1> SUFFICES ASSUME NEW j \in Task
             PROVE  /\ gate' = j => Forwarding(j)'
                    /\ Forwarding(j)' /\ gate' # j =>
                         \A c \in task'[j].todo : c[1] = j
  BY DEF SweepsExclude
<1>0. NoTask # j
  BY BridgeAssumption
<1>1. CASE j = k
  BY <1>0, <1>1
<1>2. CASE j # k
  <2>1. task'[j] = task[j] /\ (Forwarding(j)' <=> Forwarding(j))
    BY <1>2 DEF Forwarding
  <2>2. /\ gate = j => Forwarding(j)
        /\ Forwarding(j) /\ gate # j => \A c \in task[j].todo : c[1] = j
    BY DEF IInv, SweepsExclude
  <2>3. gate' = j <=> gate = j
    BY <1>0, <1>2
  <2> QED
    BY <2>1, <2>2, <2>3
<1> QED
  BY <1>1, <1>2

LEMMA NextInv == IInv /\ [Next]_vars => IInv'
<1> SUFFICES ASSUME IInv, [Next]_vars PROVE IInv'
  OBVIOUS
<1> USE DEF IInv
<1>1. ASSUME NEW n \in Toast, Show(n) PROVE IInv'
  <2>0. shown[n] = "unborn" /\ task[n].pc = "idle" /\ n \in Task
    BY <1>1 DEF Show, QuietInv, Task
  <2>1. TypeOK'
    <3>1. PICK x \in Shows[n] : shown' = [shown EXCEPT ![n] = x]
      BY <1>1 DEF Show
    <3>2. x \in Text
      BY <3>1, BridgeAssumption
    <3>3. task' \in [Task -> [pc : Point, todo : SUBSET Capture]]
      BY <1>1, <2>0 DEF Show, TypeOK, Point
    <3> QED
      BY <1>1, <3>1, <3>2, <3>3 DEF Show, TypeOK
  <2>2. \A k \in Task : /\ task'[k].todo = task[k].todo
                        /\ Forwarding(k)' <=> Forwarding(k)
                        /\ task[k].pc # "idle" => task'[k] = task[k]
    BY <1>1, <2>0 DEF Show, TypeOK, Forwarding
  <2>3. \A m \in Toast : shown'[m] = "unborn" => m # n /\ task'[m] = task[m]
                                                 /\ shown[m] = "unborn"
    <3>1. PICK x \in Shows[n] : shown' = [shown EXCEPT ![n] = x]
      BY <1>1 DEF Show
    <3>2. x \in Text /\ x # "unborn"
      BY <3>1, BridgeAssumption
    <3> QED
      BY <1>1, <2>0, <3>1, <3>2 DEF Show, TypeOK, Task
  <2>4. TaskInv'
    BY <1>1, <2>0, <2>2 DEF TaskInv, Show, Forwarding, FirstStored, Stored, StoredTwin, TypeOK
  <2>5. QuietInv'
    BY <1>1, <2>3 DEF QuietInv, Show
  <2>6. SweepsExclude'
    BY <1>1, <2>2 DEF SweepsExclude, Show
  <2>7. ObservedIsStored'
    BY <1>1 DEF ObservedIsStored, Show, Stored, StoredTwin
  <2> QED
    BY <2>1, <2>4, <2>5, <2>6, <2>7
<1>2. ASSUME NEW n \in Toast, Fill(n) PROVE IInv'
  <2>1. PICK x \in Shows[n] : shown' = [shown EXCEPT ![n] = x]
    BY <1>2 DEF Fill
  <2>2. x \in Text /\ x # "unborn"
    BY <2>1, BridgeAssumption
  <2>3. TypeOK'
    BY <1>2, <2>1, <2>2 DEF Fill, TypeOK
  <2>4. TaskInv'
    BY <1>2 DEF TaskInv, Fill, Forwarding, FirstStored, Stored, StoredTwin
  <2>5. QuietInv'
    BY <1>2, <2>1, <2>2 DEF QuietInv, Fill, TypeOK
  <2>6. SweepsExclude' /\ ObservedIsStored'
    BY <1>2 DEF SweepsExclude, Forwarding, ObservedIsStored, Fill, Stored,
                StoredTwin
  <2> QED
    BY <2>3, <2>4, <2>5, <2>6
<1>3. ASSUME NEW n \in Toast, Dismiss(n) PROVE IInv'
  <2>1. TypeOK'
    BY <1>3 DEF Dismiss, TypeOK
  <2>2. TaskInv'
    BY <1>3 DEF TaskInv, Dismiss, Forwarding, FirstStored, Stored, StoredTwin
  <2>3. QuietInv'
    BY <1>3 DEF QuietInv, Dismiss, TypeOK
  <2>4. SweepsExclude'
    BY <1>3 DEF SweepsExclude, Forwarding, Dismiss
  <2>5. ObservedIsStored'
    BY <1>3 DEF ObservedIsStored, Dismiss, Stored, StoredTwin, TypeOK
  <2> QED
    BY <2>1, <2>2, <2>3, <2>4, <2>5
<1>4. CASE Launch
  <2>0. Starter \in Task /\ \A n \in Toast : n # Starter /\ n \in Task
    BY BridgeAssumption DEF Task
  <2>1. TypeOK'
    BY <1>4, <2>0 DEF Launch, TypeOK, Off, Point
  <2>2. \A k \in Task : /\ ~ Forwarding(k) /\ ~ Forwarding(k)'
                        /\ k # Starter => task'[k] = task[k]
    BY <1>4, <2>0 DEF Launch, QuietInv, Forwarding, TypeOK
  <2>3. TaskInv'
    BY <2>2, <1>4 DEF TaskInv, Forwarding
  <2>4. QuietInv'
    BY <1>4, <2>0, <2>2 DEF QuietInv, Launch, Off
  <2>5. SweepsExclude'
    BY <1>4, <2>2 DEF SweepsExclude, Launch
  <2>6. ObservedIsStored'
    BY <1>4 DEF ObservedIsStored, Launch, Stored, StoredTwin
  <2> QED
    BY <2>1, <2>3, <2>4, <2>5, <2>6
<1>5. CASE RequestNotificationAccess
  <2>0. Starter \in Task /\ \A n \in Toast : n # Starter /\ n \in Task
    BY BridgeAssumption DEF Task
  <2>1. TypeOK'
    BY <1>5, <2>0 DEF RequestNotificationAccess, TypeOK, Point
  <2>2. \A k \in Task : /\ task'[k].todo = task[k].todo
                        /\ Forwarding(k)' <=> Forwarding(k)
                        /\ k # Starter => task'[k] = task[k]
                        /\ Forwarding(k) => task'[k] = task[k]
    BY <1>5, <2>0 DEF RequestNotificationAccess, Forwarding, TypeOK
  <2>3. TaskInv'
    <3>1. \A n, x : Stored(n, x) => Stored(n, x)'
      BY <1>5, StoredStays DEF RequestNotificationAccess
    <3> HIDE DEF IInv
    <3>2. TaskInv
      BY DEF IInv
    <3> QED
      BY <2>2, <3>1, <3>2 DEF TaskInv, Forwarding, FirstStored
  <2>4. QuietInv'
    BY <1>5, <2>0, <2>2 DEF QuietInv, RequestNotificationAccess
  <2>5. SweepsExclude'
    BY <1>5, <2>2 DEF SweepsExclude, RequestNotificationAccess
  <2>6. ObservedIsStored'
    BY <1>5 DEF ObservedIsStored, RequestNotificationAccess, Stored, StoredTwin
  <2> QED
    BY <2>1, <2>3, <2>4, <2>5, <2>6
<1>6. CASE Exit
  <2>1. TypeOK'
    BY <1>6, BridgeAssumption DEF Exit, TypeOK, Off, Idle, Point
  <2>2. \A k \in Task : task'[k].pc = "idle" /\ ~ Forwarding(k)'
    BY <1>6 DEF Exit, Idle, Forwarding
  <2>3. TaskInv'
    BY <2>2 DEF TaskInv, Forwarding
  <2>4. QuietInv'
    BY <1>6, <2>2 DEF QuietInv, Exit, Off, Task
  <2>5. SweepsExclude'
    BY <1>6, <2>2, BridgeAssumption DEF SweepsExclude, Exit
  <2>6. ObservedIsStored'
    BY <1>6 DEF ObservedIsStored, Exit
  <2> QED
    BY <2>1, <2>3, <2>4, <2>5, <2>6
<1>7. CASE Tick
  <2>0. Poller \in Task /\ \A n \in Toast : n # Poller /\ n \in Task
    BY BridgeAssumption DEF Task
  <2>1. TypeOK'
    BY <1>7, <2>0 DEF Tick, Goto, TypeOK, Point
  <2>2. \A k \in Task : /\ task'[k].todo = task[k].todo
                        /\ Forwarding(k)' <=> Forwarding(k)
                        /\ k # Poller => task'[k] = task[k]
                        /\ Forwarding(k) => task'[k] = task[k]
    BY <1>7, <2>0 DEF Tick, Goto, Forwarding, TypeOK
  <2>3. TaskInv'
    BY <2>2, <1>7 DEF TaskInv, Forwarding, Tick, FirstStored, Stored, StoredTwin
  <2>4. QuietInv'
    BY <1>7, <2>0, <2>2 DEF QuietInv, Tick
  <2>5. SweepsExclude'
    BY <1>7, <2>2 DEF SweepsExclude, Tick
  <2>6. ObservedIsStored'
    BY <1>7 DEF ObservedIsStored, Tick, Stored, StoredTwin
  <2> QED
    BY <2>1, <2>3, <2>4, <2>5, <2>6
<1>8. CASE UNCHANGED vars
  BY <1>8 DEF vars, TypeOK, TaskInv, QuietInv, SweepsExclude,
              ObservedIsStored, Forwarding, FirstStored, Stored, StoredTwin
<1>9. ASSUME NEW k \in Task, TakeGate(k) PROVE IInv'
  <2>0. task[k].pc = "gate" /\ gate = NoTask /\ NoTask \notin Task
    BY <1>9, BridgeAssumption DEF TakeGate
  <2>1. ActionCenter \in SUBSET Capture
    BY DEF ActionCenter, Capture, Visible
  <2>2. Proceed(k, ActionCenter, observed, k)
    BY <1>9 DEF TakeGate
  <2>3. UNCHANGED <<shown, filed, observed, faults>>
    BY <1>9 DEF TakeGate
  <2>4. /\ TypeOK'
        /\ shell'.running = shell.running
        /\ \A j \in Task \ {k} : task'[j] = task[j]
        /\ \/ task'[k].pc = "idle" /\ gate' = NoTask
           \/ task'[k].pc = "post" /\ task'[k].todo # {} /\ gate' = k
    <3>1. k \in Task \cup {NoTask} /\ TypeOK
      OBVIOUS
    <3> HIDE DEF IInv
    <3>2. /\ task' \in [Task -> [pc : Point, todo : SUBSET Capture]]
          /\ gate' \in Task \cup {NoTask}
          /\ shell' \in [running : BOOLEAN, listening : BOOLEAN,
                         polling : BOOLEAN]
          /\ shell'.running = shell.running
          /\ \A j \in Task \ {k} : task'[j] = task[j]
          /\ \/ task'[k].pc = "idle" /\ gate' = NoTask
             \/ task'[k].pc = "post" /\ task'[k].todo # {} /\ gate' = k
      BY <2>1, <2>2, <3>1, ProceedEffect
    <3>3. TypeOK'
      BY <2>3, <3>1, <3>2 DEF TypeOK
    <3> QED
      BY <3>2, <3>3
  <2>5. TaskInv' /\ QuietInv'
    BY <2>0, <2>3, <2>4, TaskStep DEF Forwarding
  <2>6. SweepsExclude'
    BY <2>0, <2>4 DEF SweepsExclude, Forwarding
  <2>7. ObservedIsStored'
    BY <2>3 DEF ObservedIsStored, Stored, StoredTwin
  <2> QED
    BY <2>4, <2>5, <2>6, <2>7
<1>10. CASE Access
  <2>0. Starter \in Task /\ task[Starter].pc = "access"
    BY <1>10 DEF Access, Task
  <2>1. PICK pc \in {"gate", "idle"} : task' = [task EXCEPT ![Starter].pc = pc]
    BY <1>10 DEF Access, Goto
  <2>2. /\ shell' \in [running : BOOLEAN, listening : BOOLEAN,
                       polling : BOOLEAN]
        /\ shell'.running = shell.running
    BY <1>10 DEF Access, TypeOK
  <2>3. TypeOK'
    BY <1>10, <2>0, <2>1, <2>2 DEF Access, TypeOK, Point
  <2>4. /\ \A j \in Task \ {Starter} : task'[j] = task[j]
        /\ ~ Forwarding(Starter) /\ ~ Forwarding(Starter)'
        /\ task'[Starter].pc # "answered"
    BY <2>0, <2>1 DEF Forwarding, TypeOK
  <2>5. TaskInv' /\ QuietInv'
    BY <1>10, <2>0, <2>2, <2>4, TaskStep DEF Access
  <2>6. gate # Starter
    BY <2>0, <2>4 DEF SweepsExclude
  <2>7. SweepsExclude'
    BY <1>10, <2>0, <2>4, <2>6, GateStep DEF Access
  <2>8. ObservedIsStored'
    BY <1>10 DEF Access, ObservedIsStored, Stored, StoredTwin
  <2> QED
    BY <2>3, <2>5, <2>7, <2>8
<1>11. ASSUME NEW n \in Toast, LookUp(n) PROVE IInv'
  <2>0. n \in Task /\ task[n].pc = "delay" /\ gate # n
    BY <1>11 DEF LookUp, Task, SweepsExclude, Forwarding
  <2>1. UNCHANGED <<shown, filed, observed, faults>>
    BY <1>11 DEF LookUp
  <2>2. ObservedIsStored'
    BY <2>1 DEF ObservedIsStored, Stored, StoredTwin
  <2>3. CASE Visible(n)
    <3> DEFINE own == {<<n, shown[n]>>}
    <3>1. own \in SUBSET Capture /\ gate \in Task \cup {NoTask}
      BY <2>3 DEF Visible, Capture, TypeOK
    <3>2. Proceed(n, own, observed, gate)
      BY <1>11, <2>3 DEF LookUp
    <3>3. /\ TypeOK'
          /\ shell'.running = shell.running
          /\ \A j \in Task \ {n} : task'[j] = task[j]
          /\ gate' = gate
          /\ \/ task'[n].pc = "idle"
             \/ /\ task'[n].pc = "post" /\ task'[n].todo # {}
                /\ task'[n].todo \subseteq own
      <4> HIDE DEF own
      <4>1. /\ task' \in [Task -> [pc : Point, todo : SUBSET Capture]]
            /\ gate' \in Task \cup {NoTask}
            /\ shell' \in [running : BOOLEAN, listening : BOOLEAN,
                           polling : BOOLEAN]
            /\ shell'.running = shell.running
            /\ \A j \in Task \ {n} : task'[j] = task[j]
            /\ gate' = gate
            /\ \/ task'[n].pc = "idle"
               \/ /\ task'[n].pc = "post" /\ task'[n].todo # {}
                  /\ task'[n].todo \subseteq own
        BY <2>0, <3>1, <3>2, ProceedEffect
      <4>2. TypeOK'
        BY <2>1, <4>1 DEF TypeOK
      <4> QED
        BY <4>1, <4>2
    <3>4. TaskInv' /\ QuietInv'
      BY <2>0, <2>1, <3>3, TaskStep DEF Forwarding
    <3>5. SweepsExclude'
      BY <2>0, <3>3, GateStep DEF Forwarding
    <3> QED
      BY <2>2, <3>3, <3>4, <3>5
  <2>4. CASE ~ Visible(n)
    <3>1. task' = [task EXCEPT ![n].pc = "gate"] /\ UNCHANGED <<gate, shell>>
      BY <1>11, <2>4 DEF LookUp, Goto
    <3>2. TypeOK'
      BY <2>0, <2>1, <3>1 DEF TypeOK, Point
    <3>3. /\ \A j \in Task \ {n} : task'[j] = task[j]
          /\ task'[n].pc = "gate" /\ ~ Forwarding(n)'
      BY <2>0, <3>1 DEF TypeOK, Forwarding
    <3>4. TaskInv' /\ QuietInv'
      BY <2>0, <2>1, <3>1, <3>3, TaskStep
    <3>5. SweepsExclude'
      BY <2>0, <3>1, <3>3, GateStep
    <3> QED
      BY <2>2, <3>2, <3>4, <3>5
  <2> QED
    BY <2>3, <2>4
<1>12. ASSUME NEW k \in Task, Post(k) PROVE IInv'
  <2> PICK c : c = First(task[k].todo)
    OBVIOUS
  <2>0. task[k].pc = "post" /\ Forwarding(k)
    BY <1>12 DEF Post, Forwarding
  <2>1. c \in task[k].todo /\ c \in Capture
    <3>1. task[k].todo \in SUBSET Capture /\ task[k].todo # {}
      BY <2>0 DEF TypeOK, TaskInv
    <3> QED
      BY <3>1, FirstExists
  <2>2. UNCHANGED <<shown, observed, shell, faults>>
    BY <1>12 DEF Post
  <2>3. CASE c[2] \in Refused
    <3>1. /\ task' = [task EXCEPT ![k] = Idle]
          /\ gate' = IF gate = k THEN NoTask ELSE gate
          /\ filed' = filed
      BY <1>12, <2>3 DEF Post, Abort, Released
    <3>2. TypeOK'
      BY <2>2, <3>1 DEF TypeOK, Idle, Point
    <3>3. /\ \A j \in Task \ {k} : task'[j] = task[j]
          /\ task'[k].pc = "idle" /\ ~ Forwarding(k)'
      BY <3>1 DEF TypeOK, Idle, Forwarding
    <3>4. TaskInv' /\ QuietInv'
      BY <2>0, <2>2, <3>1, <3>3, TaskStep
    <3>5. SweepsExclude'
      BY <3>1, <3>3, GateStep
    <3>6. ObservedIsStored'
      BY <2>2, <3>1 DEF ObservedIsStored, Stored, StoredTwin
    <3> QED
      BY <3>2, <3>4, <3>5, <3>6
  <2>4. CASE c[2] \notin Refused
    <3>1. /\ filed' = IF TakenForReplay(k, c) THEN filed ELSE filed \cup {c}
          /\ task' = [task EXCEPT ![k].pc = "answered"]
          /\ gate' = gate
      BY <1>12, <2>4 DEF Post, Goto
    <3>2. TypeOK'
      BY <2>1, <2>2, <3>1 DEF TypeOK, Point
    <3>3. /\ \A j \in Task \ {k} : task'[j] = task[j]
          /\ task'[k].pc = "answered" /\ task'[k].todo = task[k].todo
          /\ Forwarding(k)'
      BY <3>1 DEF TypeOK, Forwarding
    <3>4. filed \subseteq filed'
      BY <3>1
    <3>5. Stored(c[1], c[2])'
      <4>1. CASE TakenForReplay(k, c)
        <5>1. Stored(c[1], c[2])
          BY <4>1 DEF TakenForReplay, Stored
        <5> QED
          BY <3>4, <5>1, StoredStays
      <4>2. CASE ~ TakenForReplay(k, c)
        <5>1. c = <<c[1], c[2]>> /\ c \in filed'
          BY <2>1, <3>1, <4>2 DEF Capture
        <5> QED
          BY <5>1 DEF Stored
      <4> QED
        BY <4>1, <4>2
    <3>6. TaskInv' /\ QuietInv'
      <4>1. Forwarding(k)' => task'[k].todo # {}
        BY <2>1, <3>3
      <4>2. FirstStored(task[k].todo)'
        BY <3>3, <3>5 DEF FirstStored, First
      <4> QED
        BY <2>0, <2>2, <3>3, <3>4, <4>1, <4>2, TaskStep
    <3>7. SweepsExclude'
      <4>1. gate # k => \A d \in task'[k].todo : d[1] = k
        BY <2>0, <3>3 DEF SweepsExclude
      <4> QED
        BY <3>1, <3>3, <4>1, GateStep
    <3>8. ObservedIsStored'
      <4>1. \A n, x : Stored(n, x) => Stored(n, x)'
        BY <3>4, StoredStays
      <4> QED
        BY <2>2, <4>1 DEF ObservedIsStored
    <3> QED
      BY <3>2, <3>6, <3>7, <3>8
  <2> QED
    BY <2>3, <2>4
<1>13. ASSUME NEW k \in Task, MarkObserved(k) PROVE IInv'
  <2> PICK c : c = First(task[k].todo)
    OBVIOUS
  <2> DEFINE seen == [observed EXCEPT ![c[1]] = c[2]]
             left == task[k].todo \ {c}
  <2>0. task[k].pc = "answered" /\ Forwarding(k)
    BY <1>13 DEF MarkObserved, Forwarding
  <2>1. c \in Capture /\ left \in SUBSET Capture /\ left \subseteq task[k].todo
    <3>1. task[k].todo \in SUBSET Capture /\ task[k].todo # {}
      BY <2>0 DEF TypeOK, TaskInv
    <3> QED
      BY <3>1, FirstExists
  <2>2. Stored(c[1], c[2])
    BY <2>0 DEF TaskInv, FirstStored
  <2>3. /\ observed' = seen
        /\ Proceed(k, left, seen, gate)
        /\ UNCHANGED <<shown, filed, faults>>
    BY <1>13 DEF MarkObserved
  <2>4. c[1] \in Toast /\ c[2] \in Text
    BY <2>1 DEF Capture
  <2>5. observed' \in [Toast -> Text \cup {"none"}]
    BY <2>3, <2>4 DEF TypeOK
  <2>6. ObservedIsStored'
    <3>1. \A n, x : Stored(n, x) => Stored(n, x)'
      BY <2>3, StoredStays
    <3>0. observed \in [Toast -> Text \cup {"none"}]
      BY DEF TypeOK
    <3>2. \A n \in Toast : \/ observed'[n] = observed[n]
                           \/ n = c[1] /\ observed'[n] = c[2]
      BY <2>3, <2>4, <3>0
    <3> HIDE DEF seen, left
    <3> QED
      BY <2>2, <3>1, <3>2 DEF ObservedIsStored
  <2> HIDE DEF seen, left
  <2>7. /\ TypeOK'
        /\ shell'.running = shell.running
        /\ \A j \in Task \ {k} : task'[j] = task[j]
        /\ \/ /\ task'[k].pc = "idle"
              /\ gate' = IF gate = k THEN NoTask ELSE gate
           \/ /\ task'[k].pc = "post" /\ task'[k].todo # {}
              /\ task'[k].todo \subseteq left
              /\ gate' = gate
    <3>1. TypeOK /\ gate \in Task \cup {NoTask}
      BY DEF TypeOK
    <3> HIDE DEF IInv
    <3>2. /\ task' \in [Task -> [pc : Point, todo : SUBSET Capture]]
          /\ gate' \in Task \cup {NoTask}
          /\ shell' \in [running : BOOLEAN, listening : BOOLEAN,
                         polling : BOOLEAN]
          /\ shell'.running = shell.running
          /\ \A j \in Task \ {k} : task'[j] = task[j]
          /\ \/ /\ task'[k].pc = "idle"
                /\ gate' = IF gate = k THEN NoTask ELSE gate
             \/ /\ task'[k].pc = "post" /\ task'[k].todo # {}
                /\ task'[k].todo \subseteq left
                /\ gate' = gate
      BY <2>1, <2>3, <3>1, ProceedEffect
    <3>3. TypeOK'
      BY <2>3, <2>5, <3>1, <3>2 DEF TypeOK
    <3> QED
      BY <3>2, <3>3
  <2>8. TaskInv' /\ QuietInv'
    BY <2>0, <2>3, <2>7, TaskStep DEF Forwarding
  <2>9. SweepsExclude'
    <3>1. gate # k => \A d \in left : d[1] = k
      BY <2>0, <2>1 DEF SweepsExclude
    <3> QED
      BY <2>7, <3>1, GateStep DEF Forwarding
  <2> QED
    BY <2>6, <2>7, <2>8, <2>9
<1>14. ASSUME NEW k \in Task, CallFails(k) \/ TimesOut(k) PROVE IInv'
  <2>1. /\ task[k].pc # "idle"
        /\ task' = [task EXCEPT ![k] = Idle]
        /\ gate' = IF gate = k THEN NoTask ELSE gate
        /\ faults < MaxFaults /\ faults' = faults + 1
        /\ shell' \in {shell, [shell EXCEPT !.polling = FALSE]}
        /\ UNCHANGED <<shown, filed, observed>>
    BY <1>14 DEF CallFails, TimesOut, Fault, Forwarding, Abort, Released
  <2>2. faults' \in 0 .. MaxFaults
    BY <2>1, BridgeAssumption DEF TypeOK
  <2>3. TypeOK' /\ shell'.running = shell.running
    BY <2>1, <2>2 DEF TypeOK, Idle, Point
  <2>4. /\ \A j \in Task \ {k} : task'[j] = task[j]
        /\ task'[k].pc = "idle" /\ ~ Forwarding(k)'
    BY <2>1 DEF TypeOK, Idle, Forwarding
  <2>5. TaskInv' /\ QuietInv'
    BY <2>1, <2>3, <2>4, TaskStep
  <2>6. SweepsExclude'
    BY <2>1, <2>4, GateStep
  <2>7. ObservedIsStored'
    BY <2>1 DEF ObservedIsStored, Stored, StoredTwin
  <2> QED
    BY <2>3, <2>5, <2>6, <2>7
<1> QED
  BY <1>1, <1>2, <1>3, <1>4, <1>5, <1>6, <1>7, <1>8, <1>9, <1>10, <1>11,
     <1>12, <1>13, <1>14 DEF Next, Advance

LEMMA Invariance == Spec => []IInv
  BY InitInv, NextInv, PTL DEF Spec

-----------------------------------------------------------------------------
(* Theorems.                                                               *)

\* The types hold in every reachable state: in particular a sweep never asks
\* for the first of no toasts.
THEOREM TypeCorrect == Spec => []TypeOK
<1>1. IInv => TypeOK
  BY DEF IInv
<1> QED
  BY Invariance, <1>1, PTL

\* ForwardAsync marks a toast only after the service has stored its text or
\* one it takes for the same: failing calls, lost answers, exits and any
\* interleaving of start, poll and live handlers included.
THEOREM MarkedAfterStored == Spec => []ObservedIsStored
<1>1. IInv => ObservedIsStored
  BY DEF IInv
<1> QED
  BY Invariance, <1>1, PTL

\* _reconcileGate admits one sweep at a time and is let go on every way out.
THEOREM OneSweep == Spec => []SweepsExclude
<1>1. IInv => SweepsExclude
  BY DEF IInv
<1> QED
  BY Invariance, <1>1, PTL
=============================================================================
