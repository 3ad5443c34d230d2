----------------------------- MODULE GmailSync -----------------------------
(***************************************************************************)
(* One Gmail account of the service: its token in the keyring, its         *)
(* connector object, the rows connector_accounts and connector_cursors,    *)
(* and the jobs that work on them, the background worker and the requests  *)
(* of the user.  The handlers are coroutines: what lies between two awaits *)
(* is one step; authenticate, revoke and the two syncs run in a thread of  *)
(* their own.  authenticate takes two steps, reading the credential and    *)
(* the rest, revoke takes one, a sync one per kind of call to Google.      *)
(*                                                                         *)
(* The mailbox is external.  head is its current history id; a message has *)
(* the id at which it was added and, in version, the one of its last       *)
(* change, which is what messages.get reports and _message_event puts in   *)
(* the event id and the idempotency key.                                   *)
(*                                                                         *)
(* A definition X_Defect is X with a defect a change of the code could     *)
(* bring in.  No action uses it: the project substitutes it for X to see   *)
(* that a property notices.                                                *)
(***************************************************************************)
EXTENDS Integers, FiniteSets

CONSTANTS
    Job,          \* jobs that may run at the same time
    Poller,       \* the one of background_worker; the others are requests
    Message,      \* messages that may arrive
    Ops,          \* what the user may ask for
    MaxHistory,   \* bound on head
    PageSize,     \* records in the page of history.list, the only one read
    ListLimit,    \* maxResults=50 of messages.list
    Removable,    \* TRUE: messages may leave the mailbox
    MaxFaults     \* calls that may raise, deaths of the worker, restarts

ASSUME JobAssumption ==
    /\ Poller \in Job
    /\ Ops \subseteq {"sync", "connect", "disconnect", "reset"}
    /\ Removable \in BOOLEAN

ASSUME BoundAssumption ==
    /\ IsFiniteSet(Message)
    /\ MaxHistory \in Nat \ {0} /\ MaxFaults \in Nat
    /\ PageSize \in Nat \ {0} /\ ListLimit \in Nat \ {0}

VARIABLES
    head,        \* current history id of the mailbox
    added,       \* message |-> history id of its arrival, 0 before
    version,     \* message |-> history id of its last change
    gone,        \* messages removed from the mailbox
    token,       \* the keyring holds a credential for the account
    service,     \* the connector has a service object
    error,       \* the last authentication of the connector failed
    connected,   \* config.connected of the connector_accounts row
    cursor,      \* connector_cursors row, 0 when there is none
    stored,      \* <<message, version>> of the stored events
    job,         \* job |-> its local state
    faults       \* calls that have raised, deaths and restarts

mailbox == <<head, added, version, gone>>
account == <<token, service, error, connected, cursor, stored, faults>>
vars == <<head, added, version, gone, token, service, error, connected,
          cursor, stored, job, faults>>

-----------------------------------------------------------------------------
Requested == {"sync", "connect", "disconnect", "reset"}

Point == {"idle", "due", "restore", "begin", "signin", "history", "profile",
          "inbox", "get", "process", "revoke", "close", "dead"}

Event == Message \X (1 .. MaxHistory)

Idle == [pc |-> "idle", op |-> "poll", after |-> "idle", known |-> FALSE,
         since |-> 0, next |-> 0, ids |-> {}, batch |-> {}]

LocalState == [pc : Point, op : Requested \cup {"poll"}, after : Point,
               known : BOOLEAN, since : 0 .. MaxHistory,
               next : 0 .. MaxHistory, ids : SUBSET Message,
               batch : SUBSET Event]

TypeOK ==
    /\ head \in 0 .. MaxHistory
    /\ added \in [Message -> 0 .. MaxHistory]
    /\ version \in [Message -> 0 .. MaxHistory]
    /\ gone \subseteq Message
    /\ {token, service, error, connected} \subseteq BOOLEAN
    /\ cursor \in 0 .. MaxHistory
    /\ stored \subseteq Event
    /\ job \in [Job -> LocalState]
    /\ faults \in 0 .. MaxFaults

InBox(m) == added[m] > 0 /\ m \notin gone
Healthy == service /\ ~ error
Stored(m) == \E v \in 1 .. MaxHistory : <<m, v>> \in stored

-----------------------------------------------------------------------------
(* What Google answers.                                                    *)

\* history.list: the messages added after since, the oldest PageSize of them,
\* those removed meanwhile included.
NewSince_Exclusive(since) == {m \in Message : added[m] > since + 1}
NewSince(since) ==
    LET new == {m \in Message : added[m] > since} IN
    {m \in new : Cardinality({n \in new : added[n] < added[m]}) < PageSize}

\* messages.list of the INBOX: the newest ListLimit.
Latest ==
    {m \in Message : /\ InBox(m)
                     /\ Cardinality({n \in Message : InBox(n)
                                        /\ added[n] > added[m]}) < ListLimit}

\* _message_event for each id.
Events_NoHistoryId(ids) == {<<m, 0>> : m \in ids}
Events(ids) == {<<m, version[m]>> : m \in ids}

-----------------------------------------------------------------------------
Init ==
    /\ head = 1
    /\ added = [m \in Message |-> 0]
    /\ version = [m \in Message |-> 0]
    /\ gone = {}
    /\ token = FALSE /\ service = FALSE /\ error = FALSE
    /\ connected = FALSE
    /\ cursor = 0
    /\ stored = {}
    /\ job = [j \in Job |-> Idle]
    /\ faults = 0

(* The mailbox.                                                            *)

Arrive(m) ==
    /\ added[m] = 0
    /\ head < MaxHistory
    /\ head' = head + 1
    /\ added' = [added EXCEPT ![m] = head + 1]
    /\ version' = [version EXCEPT ![m] = head + 1]
    /\ UNCHANGED <<gone, account, job>>

\* Read, starred, labelled: the message gets a new history id.
Relabel(m) ==
    /\ InBox(m)
    /\ head < MaxHistory
    /\ head' = head + 1
    /\ version' = [version EXCEPT ![m] = head + 1]
    /\ UNCHANGED <<added, gone, account, job>>

Remove(m) ==
    /\ Removable
    /\ InBox(m)
    /\ gone' = gone \cup {m}
    /\ UNCHANGED <<head, added, version, account, job>>

(* Starting a job.                                                         *)

\* background_worker reads the rows, and comes to this account later.
Tick ==
    /\ job[Poller].pc = "idle"
    /\ connected
    /\ job' = [job EXCEPT ![Poller] = [Idle EXCEPT !.pc = "due"]]
    /\ UNCHANGED <<mailbox, account>>

Request(j, op) ==
    /\ j # Poller
    /\ job[j].pc = "idle"
    /\ job' = [job EXCEPT ![j] =
         [Idle EXCEPT !.op = op,
                      !.pc = CASE op = "sync" -> "begin"
                               [] op = "connect" -> "signin"
                               [] OTHER -> "revoke",
                      !.after = IF op = "connect" THEN "profile" ELSE "idle",
                      !.known = op = "connect" /\ token]]
    /\ UNCHANGED <<mailbox, account>>

(* Authentication, in a thread.                                            *)

Goto(j, pc) == job' = [job EXCEPT ![j].pc = pc]
Finish(j) == job' = [job EXCEPT ![j] = Idle]
Resume(j, pc) ==
    job' = [job EXCEPT ![j].pc = pc, ![j].after = "idle", ![j].known = FALSE]

\* sync_gmail_connector reads the cursor, incremental_sync looks at it.
BeginFrom(r) == [r EXCEPT !.since = cursor,
                          !.pc = IF cursor = 0 THEN "profile" ELSE "history"]

\* A connector that is not healthy is restored from the keyring first.
Due(j) ==
    /\ job[j].pc = "due"
    /\ job' = [job EXCEPT ![j] =
                 IF Healthy THEN BeginFrom(job[j])
                 ELSE [job[j] EXCEPT !.pc = "restore", !.known = token]]
    /\ UNCHANGED <<mailbox, account>>

Begin(j) ==
    /\ job[j].pc = "begin"
    /\ job' = [job EXCEPT ![j] = BeginFrom(job[j])]
    /\ UNCHANGED <<mailbox, account>>

Authenticated == service' = TRUE /\ error' = FALSE

\* One of the MaxFaults failures.
Fault == faults < MaxFaults /\ faults' = faults + 1

\* Refreshing, asking Google or asking the user has failed.
AuthenticationFails(j) ==
    /\ service' = FALSE
    /\ error' = TRUE
    /\ Finish(j)

\* authenticate(interactive=False) with the credential read before: one that
\* has expired is refreshed and written back.  Without one it returns early.
Restore(j) ==
    /\ job[j].pc = "restore"
    /\ \/ /\ job[j].known
          /\ Authenticated
          /\ token' \in {token, TRUE}
          /\ Resume(j, "begin")
          /\ UNCHANGED faults
       \/ /\ job[j].known
          /\ token' \in {token, TRUE}      \* perhaps it was written back
          /\ AuthenticationFails(j)
          /\ Fault
       \/ /\ ~ job[j].known
          /\ error' = TRUE
          /\ Finish(j)
          /\ UNCHANGED <<token, service, faults>>
    /\ UNCHANGED <<mailbox, connected, cursor, stored>>

\* authenticate() with its default, interactive, and a credential.
SignIn(j) ==
    /\ job[j].pc = "signin"
    /\ job[j].known
    /\ token' \in {token, TRUE}
    /\ \/ Authenticated /\ Resume(j, job[j].after) /\ UNCHANGED faults
       \/ AuthenticationFails(j) /\ Fault
    /\ UNCHANGED <<mailbox, connected, cursor, stored>>

\* Without one the browser asks the user, and run_local_server waits for the
\* answer without a timeout.
Asking(j) == job[j].pc = "signin" /\ ~ job[j].known

Answer(j) ==
    /\ Asking(j)
    /\ \/ /\ Authenticated
          /\ token' = TRUE
          /\ Resume(j, job[j].after)
          /\ UNCHANGED faults
       \/ /\ AuthenticationFails(j)              \* refused
          /\ UNCHANGED <<token, faults>>
       \/ /\ AuthenticationFails(j) /\ Fault
          /\ token' \in {token, TRUE}
    /\ UNCHANGED <<mailbox, connected, cursor, stored>>

\* _require_service found none, its credential is read again.
NeedService(j) ==
    /\ \/ job[j].pc \in {"history", "profile"}
       \/ job[j].pc = "get" /\ job[j].ids # {}
    /\ ~ service
    /\ job' = [job EXCEPT ![j].pc = "signin", ![j].after = job[j].pc,
                          ![j].known = token]
    /\ UNCHANGED <<mailbox, account>>

(* Synchronisation, in a thread.                                           *)

\* An expired history id is answered with 404: full sync.
History(j) ==
    /\ job[j].pc = "history"
    /\ service
    /\ \/ job' = [job EXCEPT ![j].ids = NewSince(job[j].since),
                             ![j].next = head, ![j].since = 0,
                             ![j].pc = "get"]
       \/ /\ job[j].since < head
          /\ job' = [job EXCEPT ![j].since = 0, ![j].pc = "profile"]
    /\ UNCHANGED <<mailbox, account>>

\* initial_sync reads the history id first and the messages after it.
Profile(j) ==
    /\ job[j].pc = "profile"
    /\ service
    /\ job' = [job EXCEPT ![j].next = head, ![j].pc = "inbox"]
    /\ UNCHANGED <<mailbox, account>>

ListInbox(j) ==
    /\ job[j].pc = "inbox"
    /\ job' = [job EXCEPT ![j].ids = Latest, ![j].pc = "get"]
    /\ UNCHANGED <<mailbox, account>>

\* messages.get raises for a message that is gone, and with it the sync.
GetMessages_LateCursor(j) ==
    /\ job[j].pc = "get"
    /\ service \/ job[j].ids = {}
    /\ IF job[j].ids \cap gone = {}
       THEN job' = [job EXCEPT ![j].batch = Events(job[j].ids), ![j].ids = {},
                               ![j].next = head, ![j].pc = "process"]
       ELSE Finish(j)
    /\ UNCHANGED <<mailbox, account>>
GetMessages(j) ==
    /\ job[j].pc = "get"
    /\ service \/ job[j].ids = {}
    /\ IF job[j].ids \cap gone = {}
       THEN job' = [job EXCEPT ![j].batch = Events(job[j].ids), ![j].ids = {},
                               ![j].pc = "process"]
       ELSE Finish(j)
    /\ UNCHANGED <<mailbox, account>>

\* Back on the event loop, without an await: process each event, which drops
\* a key it knows, then the cursor and, for connect, the connected flag.
ProcessBatch(j) ==
    /\ job[j].pc = "process"
    /\ stored' = stored \cup job[j].batch
    /\ cursor' = job[j].next
    /\ connected' = (connected \/ job[j].op = "connect")
    /\ Finish(j)
    /\ UNCHANGED <<mailbox, token, service, error, faults>>

\* process raises at one of the events.
ProcessFails(j) ==
    /\ Fault
    /\ job[j].pc = "process"
    /\ \E done \in SUBSET job[j].batch : stored' = stored \cup done
    /\ Finish(j)
    /\ UNCHANGED <<mailbox, token, service, error, connected, cursor>>

CallFails(j) ==
    /\ Fault
    /\ job[j].pc \in {"history", "profile", "inbox", "get"}
    /\ Finish(j)
    /\ UNCHANGED <<mailbox, token, service, error, connected, cursor, stored>>

(* Disconnecting.                                                          *)

Revoke(j) ==
    /\ job[j].pc = "revoke"
    /\ token' = FALSE
    /\ service' = FALSE
    /\ Goto(j, "close")
    /\ UNCHANGED <<mailbox, error, connected, cursor, stored, faults>>

\* reset-data deletes the data of the account and its cursor besides.
Close(j) ==
    /\ job[j].pc = "close"
    /\ connected' = FALSE
    /\ IF job[j].op = "reset" THEN stored' = {} /\ cursor' = 0
                              ELSE UNCHANGED <<stored, cursor>>
    /\ Finish(j)
    /\ UNCHANGED <<mailbox, token, service, error, faults>>

(* The worker and the process.                                             *)

\* Most of background_worker is outside its try: an exception there, between
\* two polls of the account, ends it.
WorkerDies ==
    /\ Fault
    /\ job[Poller].pc = "idle"
    /\ Goto(Poller, "dead")
    /\ UNCHANGED <<mailbox, token, service, error, connected, cursor, stored>>

\* The process dies and is started again.  Of the calls a job makes in one
\* step it may have made some: events processed, and the cursor after the
\* last; the data deleted, and the account not yet marked.
Restart ==
    /\ Fault
    /\ job' = [j \in Job |-> Idle]
    /\ service' = FALSE
    /\ error' = FALSE
    /\ \/ UNCHANGED <<stored, cursor>>
       \/ \E j \in Job :
            /\ job[j].pc = "process"
            /\ \E done \in SUBSET job[j].batch :
                 /\ stored' = stored \cup done
                 /\ cursor' \in {cursor} \cup
                      {c \in {job[j].next} : done = job[j].batch}
       \/ /\ \E j \in Job : job[j].pc = "close" /\ job[j].op = "reset"
          /\ stored' = {}
          /\ cursor' = 0
    /\ UNCHANGED <<mailbox, token, connected>>

\* What goes on without the user.
Advance(j) ==
    \/ Due(j) \/ Begin(j)
    \/ Restore(j) \/ SignIn(j) \/ NeedService(j)
    \/ History(j) \/ Profile(j) \/ ListInbox(j) \/ GetMessages(j)
    \/ ProcessBatch(j)
    \/ Revoke(j) \/ Close(j)

Next ==
    \/ \E m \in Message : Arrive(m) \/ Relabel(m) \/ Remove(m)
    \/ Tick
    \/ \E j \in Job, op \in Ops : Request(j, op)
    \/ \E j \in Job :
         Advance(j) \/ Answer(j) \/ ProcessFails(j) \/ CallFails(j)
    \/ WorkerDies
    \/ Restart

Spec == Init /\ [][Next]_vars

\* While it lives the worker comes round every 60 seconds; calls to Google and
\* to the database return; the event loop runs what is ready.  Nothing obliges
\* the mailbox or the user to do anything, and a browser that asks may ask for
\* ever: Answer is not under fairness.
FairSpec ==
    /\ Spec
    /\ WF_vars(Tick)
    /\ \A j \in Job : WF_vars(Advance(j))

-----------------------------------------------------------------------------
(* Properties.                                                             *)

\* While the account is connected the cursor is never ahead of the store:
\* a message the next incremental sync will not report is stored, whatever
\* syncs overlapped, failed or fell back to a full sync.
CursorCovers ==
    connected => \A m \in Message : InBox(m) /\ added[m] =< cursor
                                       => Stored(m)

\* Signing out deletes the token: nothing but the answer of the user in the
\* browser brings a credential to an empty keyring.
TokenForgotten ==
    [][~ token /\ token' => \E j \in Job : Answer(j)]_vars

\* The account is in no state to poll: signed out, or the worker is gone or
\* waits for the browser it has opened.
Unattended ==
    \/ ~ connected \/ ~ token
    \/ job[Poller].pc = "dead" \/ Asking(Poller)

\* What is in the mailbox of a connected account reaches the store, unless
\* nobody polls it, or a message left the mailbox: history.list still names
\* it, messages.get raises, and with it every incremental sync until the
\* history id expires.
EventuallyStored ==
    \A m \in Message :
        connected /\ InBox(m) ~> Stored(m) \/ Unattended \/ gone # {}
=============================================================================
