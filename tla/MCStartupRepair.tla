-------------------------- MODULE MCStartupRepair ---------------------------
(***************************************************************************)
(* Instances of StartupRepair.  A cfg picks some messages of the table:    *)
(*   l1 l2     Ann and Bob in a LINE group, the same text from both        *)
(*   l3        the text of l1 again, 13 hours later                        *)
(*   x1        the text of l1, from an imported export                     *)
(*   b1 b2 b3  browser toasts of Messenger that name the sender Mei        *)
(***************************************************************************)
EXTENDS StartupRepair, TLC

Table ==
    "l1" :> [kind |-> "line", label |-> "Ann [Home]", text |-> "ok", at |-> 1, old |-> "t1"] @@
    "l2" :> [kind |-> "line", label |-> "Bob [Home]", text |-> "ok", at |-> 2, old |-> "t2"] @@
    "l3" :> [kind |-> "line", label |-> "Ann [Home]", text |-> "ok", at |-> 800, old |-> "t1"] @@
    "x1" :> [kind |-> "line", label |-> "Ann [Home]", text |-> "ok", at |-> 0, old |-> "t1"] @@
    "b1" :> [kind |-> "browser", label |-> "Mei", text |-> "ok", at |-> 5, old |-> "t5"] @@
    "b2" :> [kind |-> "browser", label |-> "Mei", text |-> "ok", at |-> 6, old |-> "t6"] @@
    "b3" :> [kind |-> "browser", label |-> "Mei", text |-> "ok", at |-> 7, old |-> "t6"]

MCArchived == Event \cap {"x1"}

CONSTANT OldEvent       \* the messages an older version stored

Home == [Ann |-> "tA", Bob |-> "tB", Mei |-> "tM"]
MCThread == {Table[e].old : e \in OldEvent} \cup
    {Home[n] : n \in {IF Table[e].kind # "line" THEN "Mei"
                      ELSE IF Table[e].label = "Bob [Home]" THEN "Bob"
                      ELSE "Ann" : e \in Event \ OldEvent}}
MCLabel == {"Ann", "Bob", "Home", "Ann [Home]", "Bob [Home]", "Mei",
            "Messenger"}
MCKind == [e \in Event |-> Table[e].kind]
MCLabelOf == [e \in Event |-> Table[e].label]
MCTextOf == [e \in Event |-> Table[e].text]
MCAt == [e \in Event |-> Table[e].at]
MCOldThread == [e \in Event |-> IF e \in OldEvent THEN Table[e].old
                                                  ELSE NoThread]

Plain(l) == [sender |-> l, conv |-> l, title |-> l]
MCIdentity ==
    [l \in MCLabel |->
       CASE l = "Ann [Home]" -> [sender |-> "Ann", conv |-> l, title |-> "Home"]
         [] l = "Bob [Home]" -> [sender |-> "Bob", conv |-> l, title |-> "Home"]
         [] OTHER -> Plain(l)]
MCHomeOf ==
    [p \in Source \X MCLabel |->
       CASE p[2] = "Mei" /\ "tM" \in MCThread -> "tM"
         [] p[2] = "Bob [Home]" /\ "tB" \in MCThread -> "tB"
         [] p[2] = "Ann [Home]" /\ "tA" \in MCThread -> "tA"
         [] OTHER -> CHOOSE t \in MCThread : TRUE]
=============================================================================
