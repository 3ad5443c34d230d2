---------------------------- MODULE EventLedger ----------------------------
(***************************************************************************)
(* What ingestion promises of the messages it is given, whatever requests  *)
(* run at the same time and wherever they fail: a message is accepted at   *)
(* most once per idempotency key, it is filed once, beside messages of its *)
(* own account only, it is not moved afterwards, and it goes when all data *)
(* of its account goes, without touching another account.                  *)
(***************************************************************************)
CONSTANTS
    Event,      \* event ids
    Thread,     \* thread ids
    Owner,      \* (source, account_id) pairs
    NoThread,   \* where a message is that is not filed
    OwnerOf,    \* [Event -> Owner]
    KeyOf       \* event |-> idempotency key

VARIABLES
    accepted,   \* messages the store holds
    filedIn     \* message |-> the thread it is filed in

ledger == <<accepted, filedIn>>

Init ==
    /\ accepted = {}
    /\ filedIn = [e \in Event |-> NoThread]

Accept(e) ==
    /\ \A f \in accepted : KeyOf[f] # KeyOf[e]
    /\ accepted' = accepted \cup {e}
    /\ UNCHANGED filedIn

File(e, t) ==
    /\ e \in accepted
    /\ filedIn[e] = NoThread
    /\ \A f \in Event : filedIn[f] = t => OwnerOf[f] = OwnerOf[e]
    /\ filedIn' = [filedIn EXCEPT ![e] = t]
    /\ UNCHANGED accepted

Forget(o) ==
    /\ accepted' = {e \in accepted : OwnerOf[e] # o}
    /\ filedIn' = [e \in Event |-> IF OwnerOf[e] = o THEN NoThread
                                   ELSE filedIn[e]]

ForgetAll ==
    /\ accepted' = {}
    /\ filedIn' = [e \in Event |-> NoThread]

Next ==
    \/ \E e \in Event : Accept(e)
    \/ \E e \in Event, t \in Thread : File(e, t)
    \/ \E o \in Owner : Forget(o)
    \/ ForgetAll

Spec == Init /\ [][Next]_ledger
=============================================================================
