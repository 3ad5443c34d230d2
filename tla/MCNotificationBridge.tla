------------------------ MODULE MCNotificationBridge ------------------------
(***************************************************************************)
(* Instances of NotificationBridge: m1 and m2 are messages of one Messenger*)
(* chat, m1 the older.                                                     *)
(***************************************************************************)
EXTENDS NotificationBridge, TLC

CONSTANTS m1, m2

Table ==
    m1 :> [created |-> 1, kind |-> "messenger", shows |-> {"a", "bad"}] @@
    m2 :> [created |-> 2, kind |-> "messenger", shows |-> {"a", "blank"}]

MCCreated == [n \in Toast |-> Table[n].created]
MCKind == [n \in Toast |-> Table[n].kind]
MCShows == [n \in Toast |-> Table[n].shows]
=============================================================================
