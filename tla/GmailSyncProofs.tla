-------------------------- MODULE GmailSyncProofs --------------------------
(***************************************************************************)
(* Theorems about GmailSync, for every number of jobs, messages, history   *)
(* ids and failing calls.                                                  *)
(***************************************************************************)
EXTENDS GmailSync, FiniteSetTheorems, TLAPS

-----------------------------------------------------------------------------
\* A step of a job under way.
Progress(j) == Advance(j) \/ Answer(j) \/ ProcessFails(j) \/ CallFails(j)

(* What a job carries from step to step.                                   *)

\* History ids a job has read are not ahead of the mailbox, the messages it
\* asks for have arrived; after signing in it goes back to where it needed
\* the service; connect never takes the incremental path.
Sound(r) ==
    /\ r.since =< head /\ r.next =< head
    /\ \A m \in r.ids : added[m] > 0
    /\ r.op \in Ops \cup {"poll"}
    /\ r.pc = "signin" => r.after \in {"history", "profile", "get"}
    /\ r.op = "connect" =>
         /\ r.pc \in {"idle", "signin", "profile", "inbox", "get", "process"}
         /\ r.after # "history"

LocalInv ==
    /\ cursor =< head
    /\ \A m \in Message : added[m] =< version[m] /\ version[m] =< head
    /\ \A j \in Job : Sound(job[j])
    /\ job[Poller].op = "poll"

Typed == TypeOK /\ LocalInv

LEMMA IdleSound ==
    ASSUME Typed
    PROVE  Idle \in LocalState /\ Sound(Idle)
  BY BoundAssumption DEF Typed, TypeOK, Idle, LocalState, Point, Sound

\* A step of a job replaces its local state by a sound one.
LEMMA ReplaceJob ==
    ASSUME Typed, NEW j \in Job, NEW r \in LocalState, Sound(r),
           j = Poller => r.op = "poll",
           job' = [job EXCEPT ![j] = r], UNCHANGED mailbox
    PROVE  /\ job' \in [Job -> LocalState]
           /\ \A i \in Job : Sound(job[i])'
           /\ job'[Poller].op = "poll"
           /\ \A m \in Message : added'[m] =< version'[m] /\ version'[m] =< head'
<1>1. job' \in [Job -> LocalState]
  BY DEF Typed, TypeOK
<1>2. \A i \in Job : job'[i] = IF i = j THEN r ELSE job[i]
  BY DEF Typed, TypeOK
<1>3. \A i \in Job : Sound(job[i])'
  BY <1>2 DEF Sound, mailbox, Typed, LocalInv
<1>4. job'[Poller].op = "poll"
  BY <1>2, JobAssumption DEF Typed, LocalInv
<1> QED
  BY <1>1, <1>3, <1>4 DEF mailbox, Typed, LocalInv

LEMMA JobType ==
    ASSUME Typed, NEW j \in Job
    PROVE  /\ job[j] \in LocalState
           /\ Sound(job[j])
           /\ j = Poller => job[j].op = "poll"
           /\ Ops \subseteq Requested
           /\ job \in [Job -> LocalState]
           /\ head \in Nat /\ head \in 0 .. MaxHistory
           /\ cursor \in 0 .. MaxHistory /\ cursor =< head
           /\ added \in [Message -> 0 .. MaxHistory]
           /\ MaxHistory \in Nat
  BY JobAssumption, BoundAssumption
     DEF Typed, TypeOK, LocalInv, Requested

\* The local state each operation leaves behind.
LEMMA AdvanceEffect ==
    ASSUME Typed, NEW j \in Job,
           Progress(j)
    PROVE  \E r \in LocalState :
             /\ Sound(r)
             /\ j = Poller => r.op = "poll"
             /\ job' = [job EXCEPT ![j] = r]
             /\ UNCHANGED mailbox
<1> DEFINE Goal(r) == /\ r \in LocalState
                      /\ Sound(r)
                      /\ j = Poller => r.op = "poll"
                      /\ job' = [job EXCEPT ![j] = r]
                      /\ UNCHANGED mailbox
           s == job[j]
<1> SUFFICES \E r : Goal(r)
  OBVIOUS
<1>0. /\ s \in LocalState /\ Sound(s) /\ (j = Poller => s.op = "poll")
      /\ job \in [Job -> LocalState]
      /\ head \in Nat /\ head \in 0 .. MaxHistory
      /\ cursor \in 0 .. MaxHistory /\ cursor =< head
      /\ added \in [Message -> 0 .. MaxHistory]
      /\ MaxHistory \in Nat
  BY JobType
<1>1. ASSUME Finish(j), UNCHANGED mailbox
      PROVE  \E r : Goal(r)
  <2>1. Goal(Idle)
    BY <1>1, IdleSound DEF Finish, Idle
  <2> QED
    BY <2>1
<1>2. CASE Due(j) \/ Begin(j)
  <2>1. CASE job' = [job EXCEPT ![j] = BeginFrom(s)]
    <3>1. Goal(BeginFrom(s))
      BY <1>0, <1>2, <2>1
         DEF Due, Begin, BeginFrom, LocalState, Point, Sound
    <3> QED
      BY <3>1
  <2>2. CASE job' = [job EXCEPT ![j] = [s EXCEPT !.pc = "restore", !.known = token]]
    <3>1. Goal([s EXCEPT !.pc = "restore", !.known = token])
      <4>1. token \in BOOLEAN
        BY DEF Typed, TypeOK
      <4>2. s.op # "connect"
        BY <1>0, <1>2 DEF Sound, Due, Begin
      <4> QED
        BY <4>1, <4>2, <1>0, <1>2, <2>2
           DEF Due, Begin, LocalState, Point, Sound
    <3> QED
      BY <3>1
  <2> QED
    BY <1>2, <2>1, <2>2 DEF Due, Begin
<1>3. ASSUME NEW pc \in {"begin", "history", "profile", "get"}, Resume(j, pc),
             UNCHANGED mailbox,
             s.op = "connect" => pc \in {"profile", "get"}
      PROVE  \E r : Goal(r)
  <2>1. Goal([s EXCEPT !.pc = pc, !.after = "idle", !.known = FALSE])
    BY <1>0, <1>3 DEF Resume, LocalState, Point, Sound
  <2> QED
    BY <2>1
<1>4. CASE Restore(j)
  <2>1. s.op # "connect"
    BY <1>0, <1>4 DEF Restore, Sound
  <2> QED
    BY <1>1, <1>3, <1>4, <2>1 DEF Restore, AuthenticationFails
<1>5. CASE SignIn(j) \/ Answer(j)
  <2>1. s.after \in {"history", "profile", "get"}
    BY <1>0, <1>5 DEF SignIn, Answer, Asking, Sound
  <2>2. s.op = "connect" => s.after \in {"profile", "get"}
    BY <2>1, <1>0 DEF Sound
  <2> QED
    BY <1>1, <1>3, <1>5, <2>1, <2>2 DEF SignIn, Answer, AuthenticationFails
<1>6. CASE NeedService(j)
  <2>1. token \in BOOLEAN
    BY DEF Typed, TypeOK
  <2>2. Goal([s EXCEPT !.pc = "signin", !.after = s.pc, !.known = token])
    BY <2>1, <1>0, <1>6 DEF NeedService, LocalState, Point, Sound
  <2> QED
    BY <2>2
<1>7. CASE History(j)
  <2>1. s.op # "connect"
    BY <1>0, <1>7 DEF History, Sound
  <2>2. NewSince(s.since) \subseteq Message
        /\ \A m \in NewSince(s.since) : added[m] > 0
    <3>1. s.since \in Nat
      BY <1>0 DEF LocalState
    <3> QED
      BY <3>1, <1>0 DEF NewSince
  <2>3. CASE job' = [job EXCEPT ![j].ids = NewSince(s.since), ![j].next = head,
                                ![j].since = 0, ![j].pc = "get"]
    <3> DEFINE r == [s EXCEPT !.ids = NewSince(s.since), !.next = head,
                              !.since = 0, !.pc = "get"]
    <3>1. r \in LocalState
      <4>1. "get" \in Point
        BY DEF Point
      <4>2. NewSince(s.since) \in SUBSET Message /\ 0 \in 0 .. MaxHistory
        BY <2>2, <1>0
      <4> QED
        BY <4>1, <4>2, <1>0 DEF LocalState
    <3>2. Sound(r)
      BY <2>1, <2>2, <1>0 DEF LocalState, Sound
    <3>3. Goal(r)
      BY <3>1, <3>2, <2>3, <1>0, <1>7 DEF History, LocalState
    <3> QED
      BY <3>3
  <2>4. CASE job' = [job EXCEPT ![j].since = 0, ![j].pc = "profile"]
    <3>1. Goal([s EXCEPT !.since = 0, !.pc = "profile"])
      BY <2>4, <2>1, <1>0, <1>7 DEF History, LocalState, Point, Sound
    <3> QED
      BY <3>1
  <2> QED
    BY <2>3, <2>4, <1>7 DEF History
<1>8. CASE Profile(j)
  <2>1. Goal([s EXCEPT !.next = head, !.pc = "inbox"])
    BY <1>0, <1>8 DEF Profile, LocalState, Point, Sound
  <2> QED
    BY <2>1
<1>9. CASE ListInbox(j)
  <2>1. Latest \subseteq Message /\ \A m \in Latest : added[m] > 0
    BY DEF Latest, InBox
  <2>2. Goal([s EXCEPT !.ids = Latest, !.pc = "get"])
    BY <2>1, <1>0, <1>9 DEF ListInbox, LocalState, Point, Sound
  <2> QED
    BY <2>2
<1>10. CASE GetMessages(j)
  <2>1. CASE job' = [job EXCEPT ![j].batch = Events(s.ids), ![j].ids = {},
                                ![j].pc = "process"]
    <3>1. Events(s.ids) \subseteq Event
      <4> SUFFICES ASSUME NEW m \in s.ids
                   PROVE  <<m, version[m]>> \in Event
        BY DEF Events
      <4>1. m \in Message /\ added[m] > 0
        BY <1>0 DEF LocalState, Sound
      <4>2. /\ version[m] \in 0 .. MaxHistory /\ added[m] =< version[m]
            /\ added[m] \in 0 .. MaxHistory
        BY <4>1 DEF Typed, TypeOK, LocalInv
      <4>3. version[m] \in 1 .. MaxHistory
        BY <4>1, <4>2, <1>0
      <4> QED
        BY <4>1, <4>3 DEF Event
    <3>2. Goal([s EXCEPT !.batch = Events(s.ids), !.ids = {}, !.pc = "process"])
      BY <2>1, <3>1, <1>0, <1>10 DEF GetMessages, LocalState, Point, Sound
    <3> QED
      BY <3>2
  <2> QED
    BY <1>1, <1>10, <2>1 DEF GetMessages
<1>11. CASE Revoke(j)
  <2>1. Goal([s EXCEPT !.pc = "close"])
    BY <1>0, <1>11 DEF Revoke, Goto, LocalState, Point, Sound
  <2> QED
    BY <2>1
<1>12. CASE ProcessBatch(j) \/ Close(j) \/ ProcessFails(j) \/ CallFails(j)
  BY <1>1, <1>12 DEF ProcessBatch, Close, ProcessFails, CallFails
<1> QED
  BY <1>2, <1>4, <1>5, <1>6, <1>7, <1>8, <1>9, <1>10, <1>11, <1>12
     DEF Progress, Advance

-----------------------------------------------------------------------------
(* Types.                                                                  *)

LEMMA InitTyped == Init => Typed
<1> SUFFICES ASSUME Init PROVE Typed
  OBVIOUS
<1>1. MaxHistory \in Nat \ {0} /\ MaxFaults \in Nat
  BY BoundAssumption
<1>2. Idle \in LocalState
  BY <1>1 DEF Idle, LocalState, Point
<1>3. TypeOK
  <2>1. {token, service, error, connected} \subseteq BOOLEAN
    BY DEF Init
  <2>2. /\ head \in 0 .. MaxHistory /\ cursor \in 0 .. MaxHistory
        /\ added \in [Message -> 0 .. MaxHistory]
        /\ version \in [Message -> 0 .. MaxHistory]
        /\ faults \in 0 .. MaxFaults
    BY <1>1 DEF Init
  <2> QED
    BY <2>1, <2>2, <1>2 DEF Init, TypeOK
<1>4. LocalInv
  BY JobAssumption DEF Init, LocalInv, Sound, Idle
<1> QED
  BY <1>3, <1>4 DEF Typed

\* The rows and flags around the jobs.
LEMMA AccountNext ==
    ASSUME Typed, NEW j \in Job,
           Progress(j)
    PROVE  /\ {token', service', error', connected'} \subseteq BOOLEAN
           /\ cursor' \in 0 .. MaxHistory /\ cursor' =< head
           /\ stored' \subseteq Event
           /\ faults' \in 0 .. MaxFaults
<1>0. /\ token \in BOOLEAN /\ service \in BOOLEAN /\ error \in BOOLEAN
      /\ connected \in BOOLEAN
      /\ stored \subseteq Event /\ faults \in 0 .. MaxFaults
      /\ MaxFaults \in Nat
  BY BoundAssumption DEF Typed, TypeOK
<1>1. /\ job[j] \in LocalState /\ Sound(job[j])
      /\ head \in Nat /\ cursor \in 0 .. MaxHistory /\ cursor =< head
      /\ MaxHistory \in Nat
  BY JobType
<1>2. /\ token' \in BOOLEAN /\ service' \in BOOLEAN /\ error' \in BOOLEAN
  BY <1>0 DEF Progress, Advance, Due, Begin, Restore, SignIn, Answer, AuthenticationFails,
              Authenticated, NeedService, History, Profile, ListInbox,
              GetMessages, ProcessBatch, Revoke, Close, ProcessFails,
              CallFails, account
<1>3. connected' \in BOOLEAN
  BY <1>0 DEF Progress, Advance, Due, Begin, Restore, SignIn, Answer, NeedService, History,
              Profile, ListInbox, GetMessages, ProcessBatch, Revoke, Close,
              ProcessFails, CallFails, account
<1>4. cursor' \in 0 .. MaxHistory /\ cursor' =< head
  <2>1. cursor' \in {cursor, 0, job[j].next}
    BY DEF Progress, Advance, Due, Begin, Restore, SignIn, Answer, NeedService, History,
           Profile, ListInbox, GetMessages, ProcessBatch, Revoke, Close,
           ProcessFails, CallFails, account
  <2> QED
    BY <2>1, <1>1 DEF LocalState, Sound
<1>5. stored' \subseteq Event
  <2>1. stored' \subseteq stored \cup job[j].batch
    BY DEF Progress, Advance, Due, Begin, Restore, SignIn, Answer, NeedService, History,
           Profile, ListInbox, GetMessages, ProcessBatch, Revoke, Close,
           ProcessFails, CallFails, account
  <2> QED
    BY <2>1, <1>0, <1>1 DEF LocalState
<1>6. faults' \in 0 .. MaxFaults
  <2>1. faults' = faults \/ Fault
    BY DEF Progress, Advance, Due, Begin, Restore, SignIn, Answer, NeedService, History,
           Profile, ListInbox, GetMessages, ProcessBatch, Revoke, Close,
           ProcessFails, CallFails, account
  <2> QED
    BY <2>1, <1>0 DEF Fault
<1> QED
  BY <1>2, <1>3, <1>4, <1>5, <1>6

LEMMA NextTyped == Typed /\ [Next]_vars => Typed'
<1> SUFFICES ASSUME Typed, [Next]_vars PROVE Typed'
  OBVIOUS
<1>0. /\ job \in [Job -> LocalState]
      /\ \A j \in Job : Sound(job[j])
      /\ head \in 0 .. MaxHistory /\ cursor =< head /\ cursor \in 0 .. MaxHistory
      /\ added \in [Message -> 0 .. MaxHistory]
      /\ version \in [Message -> 0 .. MaxHistory]
      /\ MaxHistory \in Nat
  BY BoundAssumption DEF Typed, TypeOK, LocalInv
<1>1. ASSUME NEW m \in Message, Arrive(m) \/ Relabel(m) \/ Remove(m)
      PROVE  Typed'
  <2>1. /\ head' \in 0 .. MaxHistory /\ head =< head'
        /\ added' \in [Message -> 0 .. MaxHistory]
        /\ version' \in [Message -> 0 .. MaxHistory]
        /\ gone' \subseteq Message
        /\ UNCHANGED <<account, job>>
    BY <1>0, <1>1 DEF Arrive, Relabel, Remove, Typed, TypeOK
  <2>2. \A n \in Message : added'[n] =< version'[n] /\ version'[n] =< head'
    BY <1>0, <1>1 DEF Arrive, Relabel, Remove, Typed, LocalInv
  <2>3. \A n \in Message : added[n] > 0 => added'[n] > 0
    BY <1>0, <1>1 DEF Arrive, Relabel, Remove
  <2>4. TypeOK'
    BY <2>1 DEF Typed, TypeOK, account
  <2>5. \A j \in Job : Sound(job[j])'
    BY <2>1, <2>3, <1>0 DEF Sound, LocalState
  <2> QED
    BY <2>1, <2>2, <2>4, <2>5, <1>0 DEF Typed, LocalInv, account
<1>2. ASSUME NEW j \in Job, NEW r \in LocalState, Sound(r),
             j = Poller => r.op = "poll",
             job' = [job EXCEPT ![j] = r], UNCHANGED mailbox,
             {token', service', error', connected'} \subseteq BOOLEAN,
             cursor' \in 0 .. MaxHistory, cursor' =< head,
             stored' \subseteq Event, faults' \in 0 .. MaxFaults
      PROVE  Typed'
  <2>1. /\ job' \in [Job -> LocalState]
        /\ \A i \in Job : Sound(job[i])'
        /\ job'[Poller].op = "poll"
        /\ \A m \in Message : added'[m] =< version'[m] /\ version'[m] =< head'
    BY <1>2, ReplaceJob
  <2> QED
    BY <2>1, <1>2 DEF Typed, TypeOK, LocalInv, mailbox
<1>3. ASSUME UNCHANGED account
      PROVE  /\ {token', service', error', connected'} \subseteq BOOLEAN
             /\ cursor' \in 0 .. MaxHistory /\ cursor' =< head
             /\ stored' \subseteq Event /\ faults' \in 0 .. MaxFaults
  BY <1>0, <1>3 DEF account, Typed, TypeOK
<1>4. CASE Tick
  <2>1. [Idle EXCEPT !.pc = "due"] \in LocalState
    BY IdleSound DEF LocalState, Point
  <2>2. Sound([Idle EXCEPT !.pc = "due"])
    BY IdleSound DEF Sound, Idle
  <2> QED
    BY <2>1, <2>2, <1>2, <1>3, <1>4, JobAssumption DEF Tick, Idle
<1>5. ASSUME NEW j \in Job, NEW op \in Ops, Request(j, op)
      PROVE  Typed'
  <2> DEFINE r == [Idle EXCEPT !.op = op,
                      !.pc = CASE op = "sync" -> "begin"
                               [] op = "connect" -> "signin"
                               [] OTHER -> "revoke",
                      !.after = IF op = "connect" THEN "profile" ELSE "idle",
                      !.known = op = "connect" /\ token]
  <2>1. op \in {"sync", "connect", "disconnect", "reset"} /\ token \in BOOLEAN
    BY JobAssumption DEF Typed, TypeOK
  <2>2. r \in LocalState
    <3>1. (op = "connect" /\ token) \in BOOLEAN
      OBVIOUS
    <3> QED
      BY <2>1, <3>1, IdleSound DEF LocalState, Point, Requested, Idle
  <2>3. Sound(r)
    BY <2>1, IdleSound DEF Sound, Idle
  <2>4. job' = [job EXCEPT ![j] = r] /\ UNCHANGED <<mailbox, account>> /\ j # Poller
    BY <1>5 DEF Request
  <2> HIDE DEF r
  <2> QED
    BY <2>2, <2>3, <2>4, <1>2, <1>3
<1>6. ASSUME NEW j \in Job, Progress(j)
      PROVE  Typed'
  <2>1. PICK r \in LocalState : /\ Sound(r)
                                /\ j = Poller => r.op = "poll"
                                /\ job' = [job EXCEPT ![j] = r]
                                /\ UNCHANGED mailbox
    BY <1>6, AdvanceEffect
  <2> QED
    BY <2>1, <1>2, <1>6, AccountNext
<1>7. CASE WorkerDies
  <2> DEFINE r == [job[Poller] EXCEPT !.pc = "dead"]
  <2>1. /\ job[Poller] \in LocalState /\ Sound(job[Poller])
        /\ job[Poller].op = "poll" /\ Poller \in Job
    BY <1>0, JobAssumption DEF Typed, LocalInv
  <2>2. r \in LocalState /\ Sound(r) /\ r.op = "poll"
    BY <2>1 DEF LocalState, Point, Sound
  <2>3. /\ job' = [job EXCEPT ![Poller] = r]
        /\ UNCHANGED <<mailbox, token, service, error, connected, cursor, stored>>
        /\ faults' \in 0 .. MaxFaults
    BY <1>7, <1>0, <2>1, BoundAssumption
       DEF WorkerDies, Goto, Fault, Typed, TypeOK
  <2>4. /\ {token', service', error', connected'} \subseteq BOOLEAN
        /\ cursor' \in 0 .. MaxHistory /\ cursor' =< head
        /\ stored' \subseteq Event
    BY <2>3, <1>0 DEF Typed, TypeOK
  <2> QED
    BY <2>1, <2>2, <2>3, <2>4, <1>2
<1>8. CASE Restart
  <2>1. /\ UNCHANGED <<mailbox, token, connected>>
        /\ {service', error'} \subseteq BOOLEAN
        /\ job' = [j \in Job |-> Idle]
    BY <1>8 DEF Restart
  <2>2. faults' \in 0 .. MaxFaults
    BY <1>8, BoundAssumption DEF Restart, Fault, Typed, TypeOK
  <2>3. /\ stored' \subseteq Event
        /\ cursor' \in 0 .. MaxHistory /\ cursor' =< head
    <3>1. \A j \in Job : /\ job[j].batch \subseteq Event
                         /\ job[j].next \in 0 .. MaxHistory
                         /\ job[j].next =< head
      BY <1>0 DEF LocalState, Sound
    <3>2. stored \subseteq Event
      BY DEF Typed, TypeOK
    <3> QED
      BY <3>1, <3>2, <1>0, <1>8 DEF Restart
  <2>4. Idle \in LocalState /\ Sound(Idle) /\ Idle.op = "poll"
    BY IdleSound DEF Idle
  <2>5. \A j \in Job : Sound(job[j])'
    BY <2>1, <2>4 DEF Sound, mailbox
  <2>6. job' \in [Job -> LocalState] /\ job'[Poller].op = "poll"
    BY <2>1, <2>4, JobAssumption
  <2> QED
    BY <2>1, <2>2, <2>3, <2>5, <2>6 DEF Typed, TypeOK, LocalInv, mailbox
<1>9. CASE UNCHANGED vars
  BY <1>9 DEF vars, Typed, TypeOK, LocalInv, Sound
<1> QED
  BY <1>1, <1>4, <1>5, <1>6, <1>7, <1>8, <1>9 DEF Next, Progress

\* Every variable keeps its type, in particular what a job holds between two
\* calls to Google.
THEOREM TypeCorrect == Spec => []TypeOK
<1>1. Typed => TypeOK
  BY DEF Typed
<1> QED
  BY <1>1, InitTyped, NextTyped, PTL DEF Spec

-----------------------------------------------------------------------------
(* The cursor.                                                             *)

\* Both listings hold the mailbox: history.list is read one page deep and
\* messages.list asks for no second page either.
PagesHoldMailbox ==
    Cardinality(Message) =< PageSize /\ Cardinality(Message) =< ListLimit

\* Where the user resets accounts, requests of the user come one at a time; a
\* reset still overlaps the poller.
ResetAlone ==
    "reset" \in Ops => \A i, j \in Job \ {Poller} : i = j

\* A connect that has listed the inbox will store m.
Lists(j, m) ==
    job[j].op = "connect" =>
        /\ \/ job[j].pc = "get"
           \/ job[j].pc = "signin" /\ job[j].after = "get"
           => m \in job[j].ids
        /\ job[j].pc = "process" => \E v \in 1 .. MaxHistory : <<m, v>> \in job[j].batch

\* m is stored, or the account was reset and is not connected again before a
\* connect has stored m.
Safe(m) ==
    \/ Stored(m)
    \/ "reset" \in Ops /\ ~ connected /\ \A j \in Job : Lists(j, m)

Covered(id) == \A m \in Message : InBox(m) /\ added[m] =< id => Safe(m)

\* What a job relies on when it will set the cursor to next.
Promise(r) ==
    /\ \/ r.pc = "history"
       \/ r.pc = "signin" /\ r.after = "history"
       => Covered(r.since)
    /\ \/ r.pc = "get"
       \/ r.pc = "signin" /\ r.after = "get"
       => \A m \in Message :
            InBox(m) /\ added[m] =< r.next => Safe(m) \/ m \in r.ids
    /\ r.pc = "process"
       => \A m \in Message :
            InBox(m) /\ added[m] =< r.next
              => Safe(m) \/ \E v \in 1 .. MaxHistory : <<m, v>> \in r.batch

CoverInv == Covered(cursor) /\ \A j \in Job : Promise(job[j])

\* A page that may hold the mailbox leaves nothing out.
LEMMA PageRoom ==
    ASSUME NEW m \in Message, NEW R \in SUBSET (Message \ {m})
    PROVE  Cardinality(R) < Cardinality(Message)
<1>1. /\ IsFiniteSet(Message \ {m})
      /\ Cardinality(Message \ {m}) = Cardinality(Message) - 1
      /\ Cardinality(Message) \in Nat
  BY BoundAssumption, FS_RemoveElement, FS_CardinalityType
<1>2. /\ Cardinality(R) =< Cardinality(Message \ {m})
      /\ Cardinality(R) \in Nat
  BY <1>1, FS_Subset, FS_CardinalityType
<1> QED
  BY <1>1, <1>2

LEMMA NewSinceAll ==
    ASSUME PagesHoldMailbox, NEW since \in Nat, NEW m \in Message,
           added[m] > since, added \in [Message -> 0 .. MaxHistory]
    PROVE  m \in NewSince(since)
<1> DEFINE new == {n \in Message : added[n] > since}
           R == {n \in new : added[n] < added[m]}
<1>1. R \in SUBSET (Message \ {m})
  <2>1. added[m] \in Nat
    BY BoundAssumption
  <2> QED
    BY <2>1
<1>2. Cardinality(R) < Cardinality(Message)
  <2> HIDE DEF R
  <2> QED
    BY <1>1, PageRoom
<1>3. /\ Cardinality(Message) \in Nat /\ Cardinality(R) \in Nat
      /\ PageSize \in Nat /\ Cardinality(Message) =< PageSize
  BY <1>1, BoundAssumption, FS_Subset, FS_CardinalityType DEF PagesHoldMailbox
<1>4. Cardinality(R) < PageSize
  BY <1>2, <1>3
<1> QED
  BY <1>4 DEF NewSince

LEMMA LatestAll ==
    ASSUME PagesHoldMailbox, NEW m \in Message, InBox(m),
           added \in [Message -> 0 .. MaxHistory]
    PROVE  m \in Latest
<1> DEFINE R == {n \in Message : InBox(n) /\ added[n] > added[m]}
<1>1. R \in SUBSET (Message \ {m})
  <2>1. added[m] \in Nat
    BY BoundAssumption
  <2> QED
    BY <2>1
<1>2. Cardinality(R) < Cardinality(Message)
  <2> HIDE DEF R
  <2> QED
    BY <1>1, PageRoom
<1>3. /\ Cardinality(Message) \in Nat /\ Cardinality(R) \in Nat
      /\ ListLimit \in Nat /\ Cardinality(Message) =< ListLimit
  BY <1>1, BoundAssumption, FS_Subset, FS_CardinalityType DEF PagesHoldMailbox
<1>4. Cardinality(R) < ListLimit
  BY <1>2, <1>3
<1> QED
  BY <1>4 DEF Latest

\* What was in the mailbox under a history id stays there under it; what
\* arrives has a new one.
LEMMA MailboxOld ==
    ASSUME Typed, [Next]_vars, NEW m \in Message, InBox(m)', added'[m] =< head
    PROVE  InBox(m) /\ added'[m] = added[m]
<1>0. /\ added \in [Message -> 0 .. MaxHistory] /\ head \in Nat
      /\ MaxHistory \in Nat
  BY BoundAssumption DEF Typed, TypeOK
<1>1. CASE \E n \in Message : Arrive(n) \/ Relabel(n) \/ Remove(n)
  BY <1>0, <1>1 DEF Arrive, Relabel, Remove, InBox, account
<1>2. CASE UNCHANGED mailbox
  BY <1>2 DEF mailbox, InBox
<1>3. CASE \E j \in Job : Progress(j)
  BY <1>2, <1>3, AdvanceEffect
<1>4. CASE \/ Tick \/ (\E j \in Job, op \in Ops : Request(j, op))
           \/ WorkerDies \/ Restart \/ UNCHANGED vars
  BY <1>2, <1>4 DEF Tick, Request, WorkerDies, Restart, vars, mailbox
<1> QED
  BY <1>1, <1>3, <1>4 DEF Next, Progress

\* An operation of a job is finished or goes on.
LEMMA OpKept ==
    ASSUME Typed, NEW j \in Job,
           Progress(j), ~ Finish(j)
    PROVE  job'[j].op = job[j].op
<1>0. job[j] \in LocalState /\ job \in [Job -> LocalState]
  BY JobType
<1>1. CASE Due(j) \/ Begin(j)
  <2>1. \/ job' = [job EXCEPT ![j] = BeginFrom(job[j])]
        \/ job' = [job EXCEPT ![j] = [job[j] EXCEPT !.pc = "restore",
                                                  !.known = token]]
    BY <1>1 DEF Due, Begin
  <2>2. BeginFrom(job[j]).op = job[j].op
    BY <1>0 DEF BeginFrom, LocalState
  <2>3. [job[j] EXCEPT !.pc = "restore", !.known = token].op = job[j].op
    BY <1>0 DEF LocalState
  <2> QED
    BY <1>0, <2>1, <2>2, <2>3
<1>2. CASE Restore(j) \/ SignIn(j) \/ Answer(j)
  <2>1. \E pc : Resume(j, pc)
    BY <1>2 DEF Restore, SignIn, Answer, AuthenticationFails
  <2> QED
    BY <2>1, <1>0 DEF Resume, LocalState
<1>3. CASE NeedService(j) \/ Profile(j) \/ ListInbox(j) \/ Revoke(j)
  BY <1>0, <1>3 DEF NeedService, Profile, ListInbox, Revoke, Goto, LocalState
<1>4. CASE History(j)
  <2>1. CASE job' = [job EXCEPT ![j].ids = NewSince(job[j].since),
                                ![j].next = head, ![j].since = 0,
                                ![j].pc = "get"]
    BY <2>1, <1>0 DEF LocalState
  <2>2. CASE job' = [job EXCEPT ![j].since = 0, ![j].pc = "profile"]
    BY <2>2, <1>0 DEF LocalState
  <2> QED
    BY <2>1, <2>2, <1>4 DEF History
<1>5. CASE GetMessages(j)
  <2>1. job' = [job EXCEPT ![j].batch = Events(job[j].ids), ![j].ids = {},
                           ![j].pc = "process"]
    BY <1>5 DEF GetMessages
  <2> QED
    BY <2>1, <1>0 DEF LocalState
<1> QED
  BY <1>1, <1>2, <1>3, <1>4, <1>5
     DEF Progress, Advance, ProcessBatch, Close, ProcessFails, CallFails

\* The operations that are not the last of a connect leave its list alone.
LEMMA ListsKept ==
    ASSUME Typed, PagesHoldMailbox, NEW m \in Message, InBox(m),
           NEW j \in Job, Lists(j, m),
           Progress(j)
    PROVE  \A i \in Job : Lists(i, m) => Lists(i, m)'
<1>0. /\ job[j] \in LocalState /\ Sound(job[j])
      /\ job \in [Job -> LocalState]
      /\ added \in [Message -> 0 .. MaxHistory]
      /\ version \in [Message -> 0 .. MaxHistory]
      /\ MaxHistory \in Nat
  BY JobType DEF Typed, TypeOK
<1>1. PICK r \in LocalState : job' = [job EXCEPT ![j] = r]
  BY AdvanceEffect
<1>2. /\ \A i \in Job \ {j} : job'[i] = job[i]
      /\ job'[j] = r
  BY <1>0, <1>1
<1>3. CASE r.op # "connect"
  BY <1>2, <1>3 DEF Lists
<1>4. CASE r.op = "connect"
  <2>1. ~ Finish(j)
    BY <1>0, <1>2, <1>4 DEF Finish, Idle
  <2>2. job[j].op = "connect"
    BY <2>1, <1>2, <1>4, OpKept
  <2>3. ~ Due(j) /\ ~ Begin(j) /\ ~ Restore(j) /\ ~ History(j) /\ ~ Revoke(j)
    BY <2>2, <1>0 DEF Sound, Due, Begin, Restore, History, Revoke
  <2>4. CASE SignIn(j) \/ Answer(j)
    <3>1. /\ Resume(j, job[j].after) /\ job[j].pc = "signin"
          /\ job[j].after \in {"profile", "get"}
      BY <2>1, <2>2, <2>4, <1>0
         DEF SignIn, Answer, Asking, AuthenticationFails, Sound
    <3>2. /\ r.pc = job[j].after /\ r.ids = job[j].ids /\ r.after = "idle"
      BY <3>1, <1>0, <1>2 DEF Resume, LocalState
    <3> QED
      BY <3>1, <3>2, <2>2, <1>2 DEF Lists
  <2>5. CASE NeedService(j)
    <3>1. /\ job[j].pc \in {"profile", "get"} /\ r.ids = job[j].ids
          /\ r.pc = "signin" /\ r.after = job[j].pc
      BY <2>2, <2>5, <1>0, <1>2 DEF NeedService, LocalState, Sound
    <3> QED
      BY <3>1, <2>2, <1>2 DEF Lists
  <2>6. CASE Profile(j)
    BY <2>6, <1>0, <1>2 DEF Profile, LocalState, Lists
  <2>7. CASE ListInbox(j)
    <3>1. r.pc = "get" /\ r.ids = Latest /\ m \in Latest
      BY <2>7, <1>0, <1>2, LatestAll DEF ListInbox, LocalState
    <3> QED
      BY <3>1, <1>2 DEF Lists
  <2>8. CASE GetMessages(j)
    <3>1. /\ r.pc = "process" /\ r.batch = Events(job[j].ids)
          /\ job[j].pc = "get"
      BY <2>1, <2>8, <1>0, <1>2 DEF GetMessages, LocalState
    <3>2. m \in job[j].ids
      BY <3>1, <2>2 DEF Lists
    <3>3. version[m] \in 1 .. MaxHistory
      BY <3>2, <1>0 DEF Typed, LocalInv, Sound
    <3>4. <<m, version[m]>> \in r.batch
      BY <3>1, <3>2 DEF Events
    <3> QED
      BY <3>1, <3>3, <3>4, <1>2 DEF Lists
  <2> QED
    BY <2>1, <2>3, <2>4, <2>5, <2>6, <2>7, <2>8
       DEF Progress, Advance, ProcessBatch, Close, ProcessFails, CallFails
<1> QED
  BY <1>3, <1>4

\* A message that is safe stays safe while it is in the mailbox: a connect
\* stores what it has listed, and only a reset deletes, which a connect of
\* the user does not overlap.  (A restart may, but takes the cursor along.)
LEMMA SafeKept ==
    ASSUME Typed, PagesHoldMailbox, ResetAlone, [Next]_vars, ~ Restart,
           NEW m \in Message, InBox(m), Safe(m)
    PROVE  Safe(m)'
<1>0. /\ job \in [Job -> LocalState] /\ \A i \in Job : Sound(job[i])
      /\ job[Poller].op = "poll"
  BY DEF Typed, TypeOK, LocalInv
<1>1. CASE UNCHANGED <<stored, connected, job>>
  BY <1>1 DEF Safe, Stored, Lists
<1>2. ASSUME stored \subseteq stored', connected' = connected,
             \A i \in Job : Lists(i, m) => Lists(i, m)'
      PROVE  Safe(m)'
  BY <1>2 DEF Safe, Stored
<1>3. CASE Tick \/ \E j \in Job, op \in Ops : Request(j, op)
  <2>1. PICK j, r :
          /\ j \in Job
          /\ job' = [job EXCEPT ![j] = r]
          /\ r.op = "connect" => r.pc = "signin" /\ r.after = "profile"
    <3>1. CASE Tick
      <4> DEFINE r == [Idle EXCEPT !.pc = "due"]
      <4>1. job' = [job EXCEPT ![Poller] = r] /\ r.op # "connect"
        BY <3>1 DEF Tick, Idle
      <4> QED
        BY <4>1, JobAssumption
    <3>2. ASSUME NEW j \in Job, NEW op \in Ops, Request(j, op)
          PROVE  \E r : /\ job' = [job EXCEPT ![j] = r]
                        /\ r.op = "connect" => r.pc = "signin" /\ r.after = "profile"
      <4> DEFINE r == [Idle EXCEPT !.op = op,
                      !.pc = CASE op = "sync" -> "begin"
                               [] op = "connect" -> "signin"
                               [] OTHER -> "revoke",
                      !.after = IF op = "connect" THEN "profile" ELSE "idle",
                      !.known = op = "connect" /\ token]
      <4>1. job' = [job EXCEPT ![j] = r]
        BY <3>2 DEF Request
      <4>2. r.op = "connect" => r.pc = "signin" /\ r.after = "profile"
        BY DEF Idle
      <4> QED
        BY <4>1, <4>2
    <3> QED
      BY <1>3, <3>1, <3>2
  <2>2. \A i \in Job : Lists(i, m) => Lists(i, m)'
    <3>1. \A i \in Job : job'[i] = IF i = j THEN r ELSE job[i]
      BY <2>1, <1>0
    <3> QED
      BY <2>1, <3>1 DEF Lists
  <2>3. stored' = stored /\ connected' = connected
    BY <1>3 DEF Tick, Request, account
  <2> QED
    BY <2>2, <2>3, <1>2
<1>4. ASSUME NEW j \in Job, Progress(j)
      PROVE  Safe(m)'
  <2>1. ASSUME Finish(j)
        PROVE  \A i \in Job : Lists(i, m) => Lists(i, m)'
    BY <2>1, <1>0 DEF Finish, Idle, Lists
  <2>2. CASE ProcessBatch(j)
    <3>1. /\ stored' = stored \cup job[j].batch /\ Finish(j)
          /\ connected' = (connected \/ job[j].op = "connect")
          /\ job[j].pc = "process"
      BY <2>2 DEF ProcessBatch
    <3>2. CASE job[j].op # "connect" \/ Stored(m)
      BY <3>1, <3>2, <2>1 DEF Safe, Stored
    <3>3. CASE job[j].op = "connect" /\ Lists(j, m)
      BY <3>1, <3>3 DEF Lists, Safe, Stored
    <3> QED
      BY <3>2, <3>3 DEF Safe
  <2>3. CASE Close(j)
    <3>1. Finish(j) /\ ~ connected' /\ job[j].pc = "close"
      BY <2>3 DEF Close
    <3>2. CASE job[j].op = "reset"
      <4>1. "reset" \in Ops /\ j # Poller
        BY <3>2, <1>0 DEF Sound
      <4>2. \A i \in Job : i = j \/ i = Poller
        BY <4>1, JobAssumption DEF ResetAlone
      <4>3. job'[j].op = "poll" /\ job'[Poller].op = "poll"
        BY <3>1, <4>1, <1>0, JobAssumption DEF Finish, Idle
      <4> QED
        BY <3>1, <4>1, <4>2, <4>3 DEF Safe, Lists
    <3>3. CASE job[j].op # "reset"
      <4>1. stored' = stored
        BY <2>3, <3>3 DEF Close
      <4> QED
        BY <3>1, <4>1, <2>1 DEF Safe, Stored
    <3> QED
      BY <3>2, <3>3
  <2>4. CASE ~ ProcessBatch(j) /\ ~ Close(j)
    <3>1. stored \subseteq stored' /\ connected' = connected
      BY <1>4, <2>4
         DEF Progress, Advance, Due, Begin, Restore, SignIn, Answer, NeedService, History,
             Profile, ListInbox, GetMessages, Revoke, ProcessFails, CallFails,
             account
    <3>2. CASE Lists(j, m)
      BY <3>1, <3>2, <1>2, <1>4, ListsKept
    <3>3. CASE ~ Lists(j, m)
      BY <3>1, <3>3 DEF Safe, Stored
    <3> QED
      BY <3>2, <3>3
  <2> QED
    BY <2>2, <2>3, <2>4
<1>5. CASE \E n \in Message : Arrive(n) \/ Relabel(n) \/ Remove(n)
  BY <1>1, <1>5 DEF Arrive, Relabel, Remove, account
<1>6. CASE UNCHANGED vars
  BY <1>1, <1>6 DEF vars
<1>7. CASE WorkerDies
  <2>1. /\ stored' = stored /\ connected' = connected
        /\ \A i \in Job : job'[i] = IF i = Poller
                                    THEN [job[i] EXCEPT !.pc = "dead"]
                                    ELSE job[i]
    BY <1>7, <1>0, JobAssumption DEF WorkerDies, Goto
  <2>2. \A i \in Job : Lists(i, m) => Lists(i, m)'
    <3>1. job'[Poller].op = "poll"
      BY <2>1, <1>0, JobAssumption DEF LocalState
    <3> QED
      BY <3>1, <2>1 DEF Lists
  <2> QED
    BY <2>1, <2>2, <1>2
<1> QED
  BY <1>3, <1>4, <1>5, <1>6, <1>7 DEF Next, Progress

\* So a promise that was right stays right.
LEMMA CoveredKept ==
    ASSUME Typed, PagesHoldMailbox, ResetAlone, [Next]_vars, ~ Restart,
           NEW id \in Nat, id =< head, Covered(id)
    PROVE  Covered(id)'
<1> SUFFICES ASSUME NEW m \in Message, InBox(m)', added'[m] =< id
             PROVE  Safe(m)'
  BY DEF Covered
<1>1. InBox(m) /\ added'[m] = added[m]
  <2>1. added'[m] \in Nat /\ head \in Nat
    BY NextTyped, BoundAssumption DEF Typed, TypeOK
  <2> QED
    BY <2>1, MailboxOld
<1> QED
  BY <1>1, SafeKept DEF Covered

LEMMA PromiseKept ==
    ASSUME Typed, PagesHoldMailbox, ResetAlone, [Next]_vars, ~ Restart,
           NEW r \in LocalState, Sound(r), Promise(r)
    PROVE  Promise(r)'
<1>0. /\ r.since \in Nat /\ r.since =< head
      /\ r.next \in Nat /\ r.next =< head
      /\ head \in Nat
      /\ \A m \in Message : added'[m] \in Nat
  BY NextTyped, BoundAssumption DEF Typed, TypeOK, Sound, LocalState
<1>1. ASSUME NEW m \in Message, InBox(m)', added'[m] =< r.next
      PROVE  InBox(m) /\ added[m] =< r.next /\ (Safe(m) => Safe(m)')
  <2>1. InBox(m) /\ added'[m] = added[m]
    BY <1>0, <1>1, MailboxOld
  <2> QED
    BY <2>1, <1>1, SafeKept
<1>2. Covered(r.since) => Covered(r.since)'
  BY <1>0, CoveredKept
<1> QED
  BY <1>1, <1>2 DEF Promise

\* What a job relies on when it goes on.
LEMMA NewPromise ==
    ASSUME Typed, PagesHoldMailbox, CoverInv, NEW j \in Job,
           Progress(j)
    PROVE  \E r \in LocalState :
             /\ job' = [job EXCEPT ![j] = r]
             /\ Sound(r) /\ Promise(r)
<1>0. /\ job[j] \in LocalState /\ Sound(job[j]) /\ Promise(job[j])
      /\ job \in [Job -> LocalState]
      /\ added \in [Message -> 0 .. MaxHistory]
      /\ version \in [Message -> 0 .. MaxHistory]
      /\ MaxHistory \in Nat /\ head \in Nat
      /\ Covered(cursor)
  BY JobType DEF Typed, TypeOK, CoverInv
<1>1. PICK r \in LocalState : Sound(r) /\ job' = [job EXCEPT ![j] = r]
  BY AdvanceEffect
<1>2. job'[j] = r
  BY <1>0, <1>1
<1> SUFFICES Promise(r)
  BY <1>1
<1>3. CASE r.pc \notin {"history", "signin", "get", "process"}
  BY <1>3 DEF Promise
<1>4. CASE Finish(j)
  BY <1>2, <1>3, <1>4, <1>0 DEF Finish, Idle
<1>5. CASE Due(j) \/ Begin(j)
  <2>1. CASE job' = [job EXCEPT ![j] = BeginFrom(job[j])]
    <3>1. r = BeginFrom(job[j])
      BY <2>1, <1>0, <1>2
    <3>2. r.since = cursor /\ r.pc \in {"profile", "history"}
      BY <3>1, <1>0 DEF BeginFrom, LocalState
    <3> QED
      BY <3>2, <1>0 DEF Promise
  <2>2. CASE job' = [job EXCEPT ![j] = [job[j] EXCEPT !.pc = "restore", !.known = token]]
    BY <2>2, <1>0, <1>2, <1>3 DEF LocalState
  <2> QED
    BY <2>1, <2>2, <1>5 DEF Due, Begin
<1>6. CASE Restore(j)
  <2>1. Finish(j) \/ Resume(j, "begin")
    BY <1>6 DEF Restore, AuthenticationFails
  <2>2. CASE Resume(j, "begin")
    <3>1. job'[j].pc = "begin"
      BY <2>2, <1>0 DEF Resume, LocalState
    <3> QED
      BY <3>1, <1>2, <1>3
  <2> QED
    BY <2>1, <2>2, <1>4
<1>7. CASE SignIn(j) \/ Answer(j)
  <2>1. CASE Resume(j, job[j].after)
    <3>1. /\ r.pc = job[j].after /\ r.since = job[j].since
          /\ r.ids = job[j].ids /\ r.next = job[j].next
          /\ job[j].pc = "signin"
          /\ job[j].after \in {"history", "profile", "get"}
      BY <2>1, <1>0, <1>2, <1>7
         DEF SignIn, Answer, Asking, Resume, LocalState, Sound
    <3> QED
      BY <3>1, <1>0 DEF Promise
  <2> QED
    BY <2>1, <1>4, <1>7 DEF SignIn, Answer, AuthenticationFails
<1>8. CASE NeedService(j)
  <2>1. /\ r.pc = "signin" /\ r.after = job[j].pc /\ r.since = job[j].since
        /\ r.ids = job[j].ids /\ r.next = job[j].next
        /\ job[j].pc \in {"history", "profile", "get"}
    BY <1>0, <1>2, <1>8 DEF NeedService, LocalState
  <2> QED
    BY <2>1, <1>0 DEF Promise
<1>9. CASE History(j)
  <2>1. CASE job' = [job EXCEPT ![j].ids = NewSince(job[j].since),
                                ![j].next = head, ![j].since = 0,
                                ![j].pc = "get"]
    <3>1. r.pc = "get" /\ r.ids = NewSince(job[j].since)
      BY <2>1, <1>0, <1>2 DEF LocalState
    <3>2. job[j].since \in Nat /\ job[j].pc = "history"
      BY <1>0, <1>9 DEF History, LocalState
    <3>3. ASSUME NEW m \in Message, InBox(m)
          PROVE  Safe(m) \/ m \in r.ids
      <4>1. added[m] \in Nat
        BY <1>0
      <4>2. CASE added[m] =< job[j].since
        BY <3>2, <3>3, <4>2, <1>0 DEF Promise, Covered
      <4>3. CASE added[m] > job[j].since
        BY <3>1, <3>2, <4>3, <1>0, NewSinceAll
      <4> QED
        BY <4>1, <4>2, <4>3, <3>2
    <3> QED
      BY <3>1, <3>3 DEF Promise
  <2>2. CASE job' = [job EXCEPT ![j].since = 0, ![j].pc = "profile"]
    BY <2>2, <1>0, <1>2, <1>3 DEF LocalState
  <2> QED
    BY <2>1, <2>2, <1>9 DEF History
<1>10. CASE Profile(j)
  BY <1>0, <1>2, <1>3, <1>10 DEF Profile, LocalState
<1>11. CASE ListInbox(j)
  <2>1. r.pc = "get" /\ r.ids = Latest
    BY <1>0, <1>2, <1>11 DEF ListInbox, LocalState
  <2> QED
    BY <2>1, <1>0, LatestAll DEF Promise
<1>12. CASE GetMessages(j) /\ ~ Finish(j)
  <2>1. job' = [job EXCEPT ![j].batch = Events(job[j].ids), ![j].ids = {},
                           ![j].pc = "process"]
    BY <1>12 DEF GetMessages
  <2>2. /\ r.pc = "process" /\ r.batch = Events(job[j].ids)
        /\ r.next = job[j].next /\ job[j].pc = "get"
    BY <2>1, <1>0, <1>2, <1>12 DEF GetMessages, LocalState
  <2>3. ASSUME NEW m \in job[j].ids
        PROVE  \E v \in 1 .. MaxHistory : <<m, v>> \in r.batch
    <3>1. m \in Message /\ added[m] > 0
      BY <1>0 DEF LocalState, Sound
    <3>2. version[m] \in 1 .. MaxHistory
      BY <3>1, <1>0 DEF Typed, LocalInv
    <3> QED
      BY <3>2, <2>2 DEF Events
  <2> QED
    BY <2>2, <2>3, <1>0 DEF Promise
<1>13. CASE Revoke(j)
  BY <1>0, <1>2, <1>3, <1>13 DEF Revoke, Goto, LocalState
<1> QED
  BY <1>4, <1>5, <1>6, <1>7, <1>8, <1>9, <1>10, <1>11, <1>12, <1>13
     DEF Progress, Advance, ProcessBatch, Close, ProcessFails, CallFails

LEMMA CursorNext ==
    ASSUME Typed, PagesHoldMailbox, ResetAlone, CoverInv, [Next]_vars, ~ Restart
    PROVE  Covered(cursor)'
<1>0. /\ cursor \in Nat /\ cursor =< head /\ head \in Nat
      /\ \A m \in Message : added'[m] \in Nat
      /\ Covered(cursor)
  BY NextTyped, BoundAssumption DEF Typed, TypeOK, LocalInv, CoverInv
<1>1. CASE cursor' = cursor
  BY <1>0, <1>1, CoveredKept
<1>2. CASE cursor' = 0
  BY <1>0, <1>2 DEF Covered, InBox
<1>3. ASSUME NEW j \in Job, ProcessBatch(j)
      PROVE  Covered(cursor)'
  <2> SUFFICES ASSUME NEW m \in Message, InBox(m)', added'[m] =< job[j].next
               PROVE  Safe(m)'
    BY <1>3 DEF ProcessBatch, Covered
  <2>1. /\ job[j].pc = "process" /\ stored' = stored \cup job[j].batch
        /\ UNCHANGED mailbox
    BY <1>3 DEF ProcessBatch
  <2>2. InBox(m) /\ added[m] =< job[j].next
    BY <2>1 DEF InBox, mailbox
  <2>3. Safe(m) \/ \E v \in 1 .. MaxHistory : <<m, v>> \in job[j].batch
    BY <2>1, <2>2 DEF CoverInv, Promise
  <2>4. CASE Safe(m)
    BY <2>2, <2>4, SafeKept
  <2>5. CASE \E v \in 1 .. MaxHistory : <<m, v>> \in job[j].batch
    BY <2>1, <2>5 DEF Safe, Stored
  <2> QED
    BY <2>3, <2>4, <2>5
<1>4. ASSUME NEW j \in Job,
             Progress(j), ~ ProcessBatch(j)
      PROVE  cursor' \in {cursor, 0}
  BY <1>4 DEF Progress, Advance, Due, Begin, Restore, SignIn, Answer, NeedService, History,
              Profile, ListInbox, GetMessages, Revoke, Close, ProcessFails,
              CallFails, account
<1>5. CASE \/ \E m \in Message : Arrive(m) \/ Relabel(m) \/ Remove(m)
           \/ Tick \/ \E j \in Job, op \in Ops : Request(j, op)
           \/ WorkerDies \/ UNCHANGED vars
  BY <1>1, <1>5
     DEF Arrive, Relabel, Remove, Tick, Request, WorkerDies, vars, account
<1> QED
  BY <1>1, <1>2, <1>3, <1>4, <1>5 DEF Next, Progress

\* A process that dies leaves the cursor behind what it has stored, or none.
LEMMA RestartCovers ==
    ASSUME Typed, CoverInv, Restart
    PROVE  CoverInv'
<1>0. /\ UNCHANGED <<mailbox, connected>>
      /\ job' = [j \in Job |-> Idle]
      /\ added \in [Message -> 0 .. MaxHistory]
      /\ Covered(cursor)
  BY DEF Restart, Typed, TypeOK, CoverInv
<1> SUFFICES Covered(cursor)'
  BY <1>0 DEF CoverInv, Promise, Idle
<1>1. ASSUME NEW m \in Message, stored \subseteq stored', Safe(m)
      PROVE  Safe(m)'
  BY <1>0, <1>1 DEF Safe, Stored, Lists, Idle
<1>2. CASE stored \subseteq stored' /\ cursor' = cursor
  BY <1>0, <1>1, <1>2 DEF Covered, InBox, mailbox, CoverInv
<1>3. ASSUME NEW j \in Job, job[j].pc = "process",
             stored' = stored \cup job[j].batch, cursor' = job[j].next
      PROVE  Covered(cursor)'
  <2> SUFFICES ASSUME NEW m \in Message, InBox(m)', added'[m] =< job[j].next
               PROVE  Safe(m)'
    BY <1>3 DEF Covered
  <2>1. InBox(m) /\ added[m] =< job[j].next
    BY <1>0 DEF InBox, mailbox
  <2>2. Safe(m) \/ \E v \in 1 .. MaxHistory : <<m, v>> \in job[j].batch
    BY <2>1, <1>3 DEF CoverInv, Promise
  <2> QED
    BY <2>2, <1>1, <1>3 DEF Safe, Stored
<1>4. CASE cursor' = 0
  <2>1. \A m \in Message : added'[m] \in Nat
    BY <1>0, BoundAssumption DEF mailbox
  <2> QED
    BY <2>1, <1>4 DEF Covered, InBox
<1> QED
  BY <1>2, <1>3, <1>4 DEF Restart

LEMMA CoverNext ==
    PagesHoldMailbox /\ ResetAlone /\ Typed /\ CoverInv /\ [Next]_vars
      => CoverInv'
<1> SUFFICES ASSUME PagesHoldMailbox, ResetAlone, Typed, CoverInv, [Next]_vars,
                    ~ Restart, NEW i \in Job
             PROVE  Promise(job[i])'
  BY CursorNext, RestartCovers DEF CoverInv
<1>0. job \in [Job -> LocalState] /\ \A k \in Job : Sound(job[k]) /\ Promise(job[k])
  BY DEF Typed, TypeOK, LocalInv, CoverInv
<1>1. ASSUME NEW r \in LocalState, Sound(r), Promise(r), job'[i] = r
      PROVE  Promise(job[i])'
  <2>1. Promise(r)'
    BY <1>1, PromiseKept
  <2> QED
    BY <2>1, <1>1 DEF Promise, Covered, Safe, Lists
<1>2. CASE job'[i] = job[i]
  <2>1. PICK r \in LocalState : r = job[i]
    BY <1>0
  <2> QED
    BY <2>1, <1>0, <1>1, <1>2
<1>3. ASSUME NEW j \in Job, Progress(j)
      PROVE  Promise(job[i])'
  <2>1. PICK r \in LocalState : /\ job' = [job EXCEPT ![j] = r]
                                /\ Sound(r) /\ Promise(r)
    BY <1>3, NewPromise
  <2> QED
    BY <2>1, <1>0, <1>1, <1>2
<1>4. CASE Tick \/ \E j \in Job, op \in Ops : Request(j, op)
  <2>1. \/ job'[i] = job[i]
        \/ /\ job'[i].pc \notin {"history", "get", "process"}
           /\ job'[i].pc = "signin" => job'[i].after = "profile"
    <3>1. CASE Tick
      <4>1. job' = [job EXCEPT ![Poller] = [Idle EXCEPT !.pc = "due"]]
        BY <3>1 DEF Tick
      <4>2. [Idle EXCEPT !.pc = "due"].pc = "due"
        BY DEF Idle
      <4> QED
        BY <4>1, <4>2, <1>0
    <3>2. ASSUME NEW j \in Job, NEW op \in Ops, Request(j, op)
          PROVE  <2>1!:
      <4> DEFINE r == [Idle EXCEPT !.op = op,
                      !.pc = CASE op = "sync" -> "begin"
                               [] op = "connect" -> "signin"
                               [] OTHER -> "revoke",
                      !.after = IF op = "connect" THEN "profile" ELSE "idle",
                      !.known = op = "connect" /\ token]
      <4>1. job' = [job EXCEPT ![j] = r]
        BY <3>2 DEF Request
      <4>2. /\ r.pc \notin {"history", "get", "process"}
            /\ r.pc = "signin" => r.after = "profile"
        BY DEF Idle
      <4> HIDE DEF r
      <4> QED
        BY <4>1, <4>2, <1>0
    <3> QED
      BY <3>1, <3>2, <1>4
  <2>2. ASSUME job'[i].pc \notin {"history", "get", "process"},
               job'[i].pc = "signin" => job'[i].after = "profile"
        PROVE  Promise(job[i])'
    BY <2>2 DEF Promise
  <2> QED
    BY <2>1, <2>2, <1>2
<1>5. CASE \/ \E m \in Message : Arrive(m) \/ Relabel(m) \/ Remove(m)
           \/ UNCHANGED vars
  BY <1>2, <1>5 DEF Arrive, Relabel, Remove, vars
<1>6. CASE WorkerDies
  <2>1. job' = [job EXCEPT ![Poller].pc = "dead"]
    BY <1>6 DEF WorkerDies, Goto
  <2>2. job'[i] = job[i] \/ job'[i].pc = "dead"
    BY <2>1, <1>0 DEF LocalState
  <2>3. job'[i].pc = "dead" => Promise(job[i])'
    BY DEF Promise
  <2> QED
    BY <2>2, <2>3, <1>2
<1> QED
  BY <1>3, <1>4, <1>5, <1>6 DEF Next, Progress

\* If the first page of either listing holds the mailbox, and the user makes
\* one request at a time or never resets, the cursor of a connected account is never ahead of
\* the store, whatever polls, syncs, connects and disconnects overlap or fail.
\* Without the second condition it may be: a connect lists the inbox, a poll
\* goes on from a later cursor, a reset deletes what lies between.
THEOREM CursorNeverAhead ==
    ASSUME PagesHoldMailbox, ResetAlone
    PROVE  Spec => []CursorCovers
<1>1. Init => CoverInv
  BY BoundAssumption DEF Init, CoverInv, Covered, InBox, Promise, Idle
<1>2. Typed /\ CoverInv /\ [Next]_vars => CoverInv'
  BY CoverNext
<1>3. Typed /\ CoverInv => CursorCovers
  BY DEF CoverInv, Covered, Safe, CursorCovers
<1> QED
  BY <1>1, <1>2, <1>3, InitTyped, NextTyped, PTL DEF Spec
=============================================================================
