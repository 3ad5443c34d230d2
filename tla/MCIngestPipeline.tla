-------------------------- MODULE MCIngestPipeline --------------------------
(***************************************************************************)
(* Instances of IngestPipeline.  A cfg picks a few messages of the table   *)
(* and the attributes follow:                                              *)
(*   a1 a2 a3  one LINE conversation, different texts                      *)
(*   d1 d2     one LINE conversation, the same text twice within 12 hours  *)
(*   p1 p2     two plain notifications of one sender inside the window     *)
(*   p3        p2 captured again under another event id                    *)
(*   q1        the same sender at the same time in another account         *)
(*   g1 h1     messages of two Gmail accounts                              *)
(*   x1        an exported message of the conversation of a1               *)
(***************************************************************************)
EXTENDS IngestPipeline, TLC

Table ==
    "a1" :> [kind |-> "chat", owner |-> "line", home |-> "tA", sender |-> "ann", at |-> 1] @@
    "a2" :> [kind |-> "chat", owner |-> "line", home |-> "tA", sender |-> "ann", at |-> 2] @@
    "a3" :> [kind |-> "chat", owner |-> "line", home |-> "tA", sender |-> "bob", at |-> 90] @@
    "x1" :> [kind |-> "chat", owner |-> "line", home |-> "tA", sender |-> "ann", at |-> 0] @@
    "d1" :> [kind |-> "chat", owner |-> "line", home |-> "tD", sender |-> "bob", at |-> 3] @@
    "d2" :> [kind |-> "chat", owner |-> "line", home |-> "tD", sender |-> "bob", at |-> 4] @@
    "p1" :> [kind |-> "plain", owner |-> "win", home |-> "tP", sender |-> "pam", at |-> 5] @@
    "p2" :> [kind |-> "plain", owner |-> "win", home |-> "tQ", sender |-> "pam", at |-> 6] @@
    "p3" :> [kind |-> "plain", owner |-> "win", home |-> "tS", sender |-> "pam", at |-> 50] @@
    "q1" :> [kind |-> "plain", owner |-> "hm", home |-> "tR", sender |-> "pam", at |-> 7] @@
    "g1" :> [kind |-> "gmail", owner |-> "gm", home |-> "tG", sender |-> "gil", at |-> 8] @@
    "h1" :> [kind |-> "gmail", owner |-> "hm", home |-> "tH", sender |-> "gil", at |-> 10]

MCOwner == {"line", "win", "gm", "hm"}
MCGmailOwner == {"gm", "hm"}
MCThread == {Table[e].home : e \in Event}
MCKind == [e \in Event |-> Table[e].kind]
MCOwnerOf == [e \in Event |-> Table[e].owner]
MCSenderOf == [e \in Event |-> Table[e].sender]
MCHomeOf == [e \in Event |-> Table[e].home]
MCAt == [e \in Event |-> Table[e].at]

\* LINE redelivers the same text: a row is also a twin of itself.
MCTwin == {p \in Event \X Event :
             \/ {p[1], p[2]} \subseteq {"d1", "d2"}
             \/ p[1] = p[2] /\ Table[p[1]].kind = "chat"}
MCArchived == Event \cap {"x1"}

QuietVerdict == {"inbox"}

\* The key of a Windows notification is its id and checksum, so p2 and p3
\* share one; every other message has its own.
MCKeyOf == [e \in Event |-> IF e = "p3" THEN "p2" ELSE e]

WorkerSymmetry == Permutations(Worker)
=============================================================================
