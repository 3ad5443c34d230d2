------------------------ MODULE StartupRepairProofs -------------------------
(***************************************************************************)
(* Theorems about StartupRepair, for every finite set of messages, every   *)
(* store of an older version made of them and any number of starts,        *)
(* crashes and live messages.                                              *)
(***************************************************************************)
EXTENDS StartupRepair, FiniteSetTheorems, WellFoundedInduction, TLAPS

-----------------------------------------------------------------------------
(* The latest of a finite set.                                             *)

\* What is later than a message is a finite set, and strict inclusion is
\* well-founded on those: a set of messages has a latest one.
LEMMA LatestExists ==
    ASSUME NEW S \in SUBSET Event, S # {}
    PROVE  \E e \in S : \A f \in S : At[f] =< At[e]
<1> DEFINE Later(c) == {n \in Event : At[n] > At[c]}
           T == {Later(c) : c \in S}
<1>1. T \subseteq FiniteSubsetsOf(Event)
  <2> SUFFICES ASSUME NEW c \in S PROVE Later(c) \in FiniteSubsetsOf(Event)
    OBVIOUS
  <2>1. Later(c) \subseteq Event
    OBVIOUS
  <2> QED
    BY <2>1, StoreAssumption, FS_Subset DEF FiniteSubsetsOf
<1>2. T # {}
  OBVIOUS
<1>3. PICK B \in T : \A D \in T : <<D, B>> \notin StrictSubsetOrdering(Event)
  <2> HIDE DEF T
  <2> QED
    BY <1>1, <1>2, FS_StrictSubsetOrderingWellFounded, WFMin
<1>4. PICK e \in S : B = Later(e)
  BY <1>3
<1>5. ASSUME NEW f \in S, ~ At[f] =< At[e] PROVE FALSE
  <2>1. At[e] \in Int /\ At[f] \in Int
    BY StoreAssumption
  <2>2. At[f] > At[e]
    BY <1>5, <2>1
  <2>3. f \in Later(e) /\ f \notin Later(f)
    BY <2>1, <2>2
  <2>4. Later(f) \subseteq Later(e)
    <3> SUFFICES ASSUME NEW n \in Event, At[n] > At[f] PROVE At[n] > At[e]
      OBVIOUS
    <3>1. At[n] \in Int
      BY StoreAssumption
    <3> QED
      BY <3>1, <2>1, <2>2
  <2>5. <<Later(f), Later(e)>> \in StrictSubsetOrdering(Event)
    BY <2>3, <2>4 DEF StrictSubsetOrdering
  <2> QED
    BY <2>5, <1>3, <1>4
<1> QED
  BY <1>5

\* A set of threads has one that no other is newer than.
LEMMA NewestExists ==
    ASSUME NEW S \in SUBSET Thread, S # {}
    PROVE  \E t \in S : \A u \in S \ {t} : ~ Newer(u, t)
<1> DEFINE Beyond(t) == {e \in Event : \A f \in In(t) : At[e] > At[f]}
           T == {Beyond(t) : t \in S}
<1>1. T \subseteq FiniteSubsetsOf(Event)
  <2> SUFFICES ASSUME NEW t \in S PROVE Beyond(t) \in FiniteSubsetsOf(Event)
    OBVIOUS
  <2>1. Beyond(t) \subseteq Event
    OBVIOUS
  <2> QED
    BY <2>1, StoreAssumption, FS_Subset DEF FiniteSubsetsOf
<1>2. T # {}
  OBVIOUS
<1>3. PICK B \in T : \A D \in T : <<D, B>> \notin StrictSubsetOrdering(Event)
  <2> HIDE DEF T
  <2> QED
    BY <1>1, <1>2, FS_StrictSubsetOrderingWellFounded, WFMin
<1>4. PICK t \in S : B = Beyond(t)
  BY <1>3
<1>5. ASSUME NEW u \in S, Newer(u, t) PROVE FALSE
  <2>1. PICK e \in In(u) : \A f \in In(t) : At[e] > At[f]
    BY <1>5 DEF Newer
  <2>2. e \in Event /\ At[e] \in Int
    BY StoreAssumption DEF In
  <2>3. e \in Beyond(t) /\ e \notin Beyond(u)
    BY <2>1, <2>2
  <2>4. Beyond(u) \subseteq Beyond(t)
    <3> SUFFICES ASSUME NEW n \in Event, \A f \in In(u) : At[n] > At[f],
                        NEW f \in In(t)
                 PROVE  At[n] > At[f]
      OBVIOUS
    <3>1. At[n] \in Int /\ f \in Event /\ At[f] \in Int
      BY StoreAssumption DEF In
    <3>2. At[n] > At[e] /\ At[e] > At[f]
      BY <2>1
    <3> QED
      BY <2>2, <3>1, <3>2
  <2>5. <<Beyond(u), Beyond(t)>> \in StrictSubsetOrdering(Event)
    BY <2>3, <2>4 DEF StrictSubsetOrdering
  <2> QED
    BY <2>5, <1>3, <1>4
<1> QED
  BY <1>5

-----------------------------------------------------------------------------
(* The inductive invariant.                                                *)

\* The lists of create_app are empty outside their phases and hold threads of
\* their source only.
ListInv ==
    /\ phase \notin {"merge", "analyze line"} => repaired = {}
    /\ phase \notin {"analyze line", "analyze merged"} => merged = {}
    /\ \A t \in repaired : thread[t].source = "line"
    /\ \A t \in merged : thread[t].source = "messenger"

\* A card that is out of date is on a list, or a process died before.
PendingInv == \A t \in Thread : OutOfDate(t) => t \in cut \cup repaired \cup merged

\* After the timestamps no LINE card is touched until the service runs.
SyncedInv ==
    phase = "analyze merged" =>
        \A t \in Thread : CardExists(t) /\ thread[t].source = "line"
                            => ~ card[t].fresh

IInv == TypeOK /\ NoDanglingRow /\ ListInv /\ PendingInv /\ SyncedInv

LEMMA NoRowFacts ==
    /\ NoRow \notin Row
    /\ NoRow.source = "none"
    /\ NoCard \notin Card
  BY DEF NoRow, Row, NoCard, Card, Source

LEMMA RowTypes ==
    ASSUME NEW l \in Label
    PROVE  /\ LineRow(l) \in Row /\ LineRow(l).source = "line"
           /\ ChatRow(l) \in Row /\ ChatRow(l).source = "messenger"
  BY IdentityAssumption DEF LineRow, ChatRow, Row, Source

LEMMA OldRowType == ASSUME NEW e \in Event PROVE OldRow(e) \in Row
<1>1. LabelOf[e] \in Label /\ Kind[e] \in {"line", "messenger", "browser"}
  BY StoreAssumption
<1>2. ChatRow(LabelOf[e]) \in Row
  BY <1>1, RowTypes
<1>3. CASE Kind[e] = "line"
  BY <1>1, <1>3 DEF OldRow, ChatRow, Row, Source
<1>4. CASE Kind[e] = "messenger"
  BY <1>2, <1>4 DEF OldRow
<1>5. CASE Kind[e] = "browser"
  BY <1>5, StoreAssumption DEF OldRow, Row, Source
<1> QED
  BY <1>1, <1>3, <1>4, <1>5

LEMMA InitInv == Init => IInv
<1> SUFFICES ASSUME Init PROVE IInv
  OBVIOUS
<1>1. /\ filed \in [Event -> Thread \cup {NoThread}]
      /\ row \in [Event -> Row \cup {NoRow}]
      /\ \A e \in Event : row[e] # NoRow <=> filed[e] # NoThread
  BY StoreAssumption, OldRowType, NoRowFacts DEF Init, Old
<1>2. \A t \in Thread : /\ In(t) = {} => thread[t] = NoRow
                        /\ In(t) # {} => thread[t] \in Row
  <2> SUFFICES ASSUME NEW t \in Thread, In(t) # {} PROVE thread[t] \in Row
    BY DEF Init
  <2>1. In(t) \in SUBSET Event
    BY DEF In
  <2>2. PICK e \in In(t) : \A f \in In(t) : At[f] =< At[e]
    BY <2>1, LatestExists
  <2> DEFINE last == CHOOSE x \in In(t) : \A f \in In(t) : At[f] =< At[x]
  <2>3. last \in In(t)
    BY <2>2
  <2>4. thread[t] = OldRow(last)
    BY DEF Init
  <2> HIDE DEF last
  <2>5. last \in Event
    BY <2>3 DEF In
  <2> QED
    BY <2>4, <2>5, OldRowType
<1>3. thread \in [Thread -> Row \cup {NoRow}]
  <2>1. DOMAIN thread = Thread /\ thread = [t \in Thread |-> thread[t]]
    BY DEF Init
  <2> QED
    BY <1>2, <2>1
<1>4. PICK carded \in SUBSET {t \in Thread : In(t) # {}} :
        /\ card = [t \in Thread |->
             IF t \in carded
             THEN [status |-> "open", sender |-> thread[t].sender,
                   covers |-> In(t), fresh |-> TRUE]
             ELSE NoCard]
        /\ item \in [Item -> carded \cup {NoThread}]
  BY DEF Init
<1>5. \A t \in Thread : /\ t \in carded => card[t] \in Card
                        /\ t \in carded <=> CardExists(t)
                        /\ t \in carded => card[t].sender = thread[t].sender
                                           /\ card[t].covers = In(t)
  <2> SUFFICES ASSUME NEW t \in Thread
               PROVE  /\ t \in carded => card[t] \in Card
                      /\ t \in carded <=> CardExists(t)
                      /\ t \in carded => card[t].sender = thread[t].sender
                                         /\ card[t].covers = In(t)
    OBVIOUS
  <2>1. CASE t \in carded
    <3>1. thread[t].sender \in Label
      BY <1>2, <2>1 DEF Row
    <3>2. In(t) \in SUBSET Event
      BY DEF In
    <3>3. card[t] = [status |-> "open", sender |-> thread[t].sender,
                     covers |-> In(t), fresh |-> TRUE]
      BY <1>4, <2>1
    <3>4. card[t] \in Card
      BY <3>1, <3>2, <3>3 DEF Card
    <3>5. card[t].sender = thread[t].sender /\ card[t].covers = In(t)
      BY <3>3
    <3>6. CardExists(t)
      BY <3>4, NoRowFacts DEF CardExists
    <3> QED
      BY <2>1, <3>4, <3>5, <3>6
  <2>2. CASE t \notin carded
    BY <1>4, <2>2 DEF CardExists
  <2> QED
    BY <2>1, <2>2
<1>6. TypeOK
  <2>1. card \in [Thread -> Card \cup {NoCard}]
    <3>1. \A t \in Thread : card[t] \in Card \cup {NoCard}
      BY <1>5 DEF CardExists
    <3>2. DOMAIN card = Thread /\ card = [t \in Thread |-> card[t]]
      BY <1>4
    <3> QED
      BY <3>1, <3>2
  <2>2. item \in [Item -> Thread \cup {NoThread}]
    BY <1>4
  <2> QED
    BY <1>1, <1>3, <2>1, <2>2 DEF Init, TypeOK, Phase
<1>7. NoDanglingRow
  BY <1>1, <1>2, <1>4, <1>5, NoRowFacts, StoreAssumption
     DEF NoDanglingRow, ThreadExists, Stored
<1>8. ListInv /\ SyncedInv
  BY DEF Init, ListInv, SyncedInv
<1>9. PendingInv
  BY <1>5 DEF PendingInv, OutOfDate
<1> QED
  BY <1>6, <1>7, <1>8, <1>9 DEF IInv

-----------------------------------------------------------------------------
(* Cards.                                                                  *)

LEMMA SenderUpdate ==
    ASSUME NEW c \in Card, NEW l \in Label
    PROVE  /\ [c EXCEPT !.sender = l] \in Card
           /\ [c EXCEPT !.sender = l].sender = l
           /\ [c EXCEPT !.sender = l].covers = c.covers
  BY DEF Card

LEMMA CardUpdates ==
    ASSUME NEW c \in Card
    PROVE  /\ c # NoCard
           /\ [c EXCEPT !.fresh = FALSE] \in Card
           /\ [c EXCEPT !.fresh = FALSE].sender = c.sender
           /\ [c EXCEPT !.fresh = FALSE].covers = c.covers
           /\ [c EXCEPT !.fresh = FALSE].fresh = FALSE
           /\ [c EXCEPT !.status = "done", !.fresh = TRUE] \in Card
           /\ [c EXCEPT !.status = "done", !.fresh = TRUE].sender = c.sender
           /\ [c EXCEPT !.status = "done", !.fresh = TRUE].covers = c.covers
<1>1. c # NoCard
  BY NoRowFacts
<1> QED
  BY <1>1 DEF Card

\* An analysis writes a card that is up to date.
LEMMA AnalyzedCard ==
    ASSUME TypeOK, NEW t \in Thread, thread'[t] \in Row
    PROVE  /\ Analyzed(t, KeptStatus(t)) \in Card
           /\ Analyzed(t, KeptStatus(t)).sender = thread'[t].sender
           /\ Analyzed(t, KeptStatus(t)).covers = In(t)'
<1>1. KeptStatus(t) \in {"open", "done"}
  BY DEF KeptStatus, TypeOK, CardExists, Card
<1>2. thread'[t].sender \in Label
  BY DEF Row
<1>3. In(t)' \in SUBSET Event /\ In(t)' = {e \in Event : filed'[e] = t}
  BY DEF In
<1>4. Analyzed(t, KeptStatus(t)) =
        [status |-> KeptStatus(t), sender |-> thread'[t].sender,
         covers |-> In(t)', fresh |-> TRUE]
  BY <1>3 DEF Analyzed
<1> QED
  BY <1>1, <1>2, <1>3, <1>4 DEF Card

-----------------------------------------------------------------------------
(* The repairs keep the invariant.                                         *)

LEMMA ReclassifyInv == IInv /\ ReclassifyMessengerCards => IInv'
<1> SUFFICES ASSUME IInv, ReclassifyMessengerCards PROVE IInv'
  OBVIOUS
<1> DEFINE wrong == {e \in Stored : /\ filed[e] # NoThread
                                    /\ row[e].source = "windows"
                                    /\ row[e].title = "Messenger"}
           touched == {filed[e] : e \in wrong}
           whole == {t \in touched :
                       \A e \in In(t) : row'[e].source = "messenger"}
<1>0. TypeOK /\ NoDanglingRow /\ ListInv /\ PendingInv
  BY DEF IInv
<1>1. /\ row' = [e \in Event |->
                   IF e \in wrong THEN ChatRow(LabelOf[e]) ELSE row[e]]
      /\ phase = "reclassify" /\ phase' = "collapse"
      /\ UNCHANGED <<filed, item, repaired, merged, cut>>
  BY DEF ReclassifyMessengerCards, After
<1>2. PICK last \in [touched -> wrong] :
        /\ \A t \in touched : filed[last[t]] = t
        /\ thread' = [t \in Thread |->
             IF t \in whole THEN row'[last[t]] ELSE thread[t]]
        /\ card' = [t \in Thread |->
             IF t \in whole /\ CardExists(t)
             THEN [card[t] EXCEPT !.sender = row'[last[t]].sender]
             ELSE card[t]]
  BY DEF ReclassifyMessengerCards
<1>3. repaired = {} /\ merged = {}
  BY <1>0, <1>1 DEF ListInv
<1>4. \A e \in Event : /\ row'[e] \in Row \cup {NoRow}
                       /\ row'[e] = NoRow <=> row[e] = NoRow
                       /\ e \in wrong => row'[e] \in Row
  <2> SUFFICES ASSUME NEW e \in Event
               PROVE  /\ row'[e] \in Row \cup {NoRow}
                      /\ row'[e] = NoRow <=> row[e] = NoRow
                      /\ e \in wrong => row'[e] \in Row
    OBVIOUS
  <2>1. ChatRow(LabelOf[e]) \in Row
    BY RowTypes, StoreAssumption
  <2>2. row[e] \in Row \cup {NoRow}
    BY <1>0 DEF TypeOK
  <2>3. e \in wrong => row[e] # NoRow
    BY DEF Stored
  <2> HIDE DEF wrong
  <2> QED
    BY <1>1, <2>1, <2>2, <2>3, NoRowFacts
<1>5. \A t \in whole : last[t] \in wrong /\ last[t] \in Event /\ row'[last[t]] \in Row
  BY <1>2, <1>4 DEF Stored
<1>6. \A t \in touched : In(t) # {}
  BY DEF In, Stored
<1>7. row' \in [Event -> Row \cup {NoRow}]
  BY <1>1, <1>4
<1> HIDE DEF wrong
<1>8. \A t \in Thread : /\ thread'[t] \in Row \cup {NoRow}
                        /\ ThreadExists(t)' <=> ThreadExists(t)
                        /\ t \notin whole => thread'[t] = thread[t]
                        /\ t \in whole => thread'[t] = row'[last[t]]
  <2> SUFFICES ASSUME NEW t \in Thread
               PROVE  /\ thread'[t] \in Row \cup {NoRow}
                      /\ ThreadExists(t)' <=> ThreadExists(t)
                      /\ t \notin whole => thread'[t] = thread[t]
                      /\ t \in whole => thread'[t] = row'[last[t]]
    OBVIOUS
  <2>1. CASE t \in whole
    <3>1. thread'[t] = row'[last[t]] /\ thread'[t] \in Row
      BY <1>2, <1>5, <2>1
    <3>2. ThreadExists(t)
      BY <1>0, <1>6, <2>1 DEF NoDanglingRow
    <3> QED
      BY <2>1, <3>1, <3>2, NoRowFacts DEF ThreadExists
  <2>2. CASE t \notin whole
    <3>1. thread'[t] = thread[t]
      BY <1>2, <2>2
    <3> QED
      BY <1>0, <2>2, <3>1 DEF TypeOK, ThreadExists
  <2> QED
    BY <2>1, <2>2
<1>9. \A t \in Thread : /\ card'[t] \in Card \cup {NoCard}
                        /\ CardExists(t)' <=> CardExists(t)
                        /\ OutOfDate(t)' => OutOfDate(t)
  <2> SUFFICES ASSUME NEW t \in Thread
               PROVE  /\ card'[t] \in Card \cup {NoCard}
                      /\ CardExists(t)' <=> CardExists(t)
                      /\ OutOfDate(t)' => OutOfDate(t)
    OBVIOUS
  <2>0. card[t] \in Card \cup {NoCard} /\ In(t)' = In(t)
    BY <1>0, <1>1 DEF TypeOK, In
  <2>1. CASE t \in whole /\ CardExists(t)
    <3>1. card[t] \in Card
      BY <2>0, <2>1 DEF CardExists
    <3>2. row'[last[t]].sender \in Label
      BY <1>5, <2>1 DEF Row
    <3>3. card'[t] = [card[t] EXCEPT !.sender = row'[last[t]].sender]
      BY <1>2, <2>1
    <3>4. /\ card'[t] \in Card
          /\ card'[t].sender = row'[last[t]].sender
          /\ card'[t].covers = card[t].covers
      BY <3>1, <3>2, <3>3, SenderUpdate
    <3>5. thread'[t].sender = card'[t].sender
      BY <1>8, <2>1, <3>4
    <3>6. card'[t] # NoCard
      BY <3>4, NoRowFacts
    <3>7. CardExists(t)'
      BY <3>6 DEF CardExists
    <3>8. OutOfDate(t)' => OutOfDate(t)
      BY <2>0, <2>1, <3>4, <3>5 DEF OutOfDate
    <3> QED
      BY <2>1, <3>4, <3>7, <3>8
  <2>2. CASE ~ CardExists(t)
    <3>1. card'[t] = card[t]
      BY <1>2, <2>2
    <3> QED
      BY <2>0, <2>2, <3>1 DEF CardExists, OutOfDate
  <2>3. CASE t \notin whole
    <3>1. card'[t] = card[t] /\ thread'[t] = thread[t]
      BY <1>2, <1>8, <2>3
    <3> QED
      BY <2>0, <3>1 DEF CardExists, OutOfDate
  <2> QED
    BY <2>1, <2>2, <2>3
<1> HIDE DEF whole, touched
<1>10. TypeOK'
  <2>1. thread' \in [Thread -> Row \cup {NoRow}]
    BY <1>2, <1>8
  <2>2. card' \in [Thread -> Card \cup {NoCard}]
    BY <1>2, <1>9
  <2> QED
    BY <1>0, <1>1, <1>7, <2>1, <2>2 DEF TypeOK, Phase
<1>11. NoDanglingRow'
  <2>1. \A t \in Thread : ThreadExists(t)' <=> In(t)' # {}
    <3> SUFFICES ASSUME NEW t \in Thread
                 PROVE  ThreadExists(t)' <=> In(t)' # {}
      OBVIOUS
    <3>1. In(t)' = In(t)
      BY <1>1 DEF In
    <3> QED
      BY <1>0, <1>8, <3>1 DEF NoDanglingRow
  <2>2. \A t \in Thread : CardExists(t)' => ThreadExists(t)'
    BY <1>0, <1>8, <1>9 DEF NoDanglingRow
  <2>3. \A i \in Item : item'[i] # NoThread => card'[item'[i]] # NoCard
    <3> SUFFICES ASSUME NEW i \in Item, item'[i] # NoThread
                 PROVE  card'[item'[i]] # NoCard
      OBVIOUS
    <3>1. item'[i] = item[i] /\ item[i] \in Thread
      BY <1>0, <1>1 DEF TypeOK
    <3>2. CardExists(item[i])
      BY <1>0, <3>1 DEF NoDanglingRow
    <3>3. card[item[i]] # NoCard /\ card'[item[i]] # NoCard
      BY <1>9, <3>1, <3>2 DEF CardExists
    <3> QED
      BY <3>1, <3>3
  <2>4. \A e \in Event : filed'[e] # NoThread => row'[e] # NoRow
    BY <1>0, <1>1, <1>4 DEF NoDanglingRow, Stored
  <2> QED
    BY <2>1, <2>2, <2>3, <2>4 DEF NoDanglingRow, Stored, CardExists
<1>12. ListInv'
  BY <1>1, <1>3 DEF ListInv
<1>13. PendingInv'
  BY <1>0, <1>1, <1>9 DEF PendingInv
<1>14. SyncedInv'
  BY <1>1 DEF SyncedInv
<1> QED
  BY <1>10, <1>11, <1>12, <1>13, <1>14 DEF IInv

LEMMA CollapseInv == IInv /\ CollapseReplays => IInv'
<1> SUFFICES ASSUME IInv, CollapseReplays PROVE IInv'
  OBVIOUS
<1>0. TypeOK /\ NoDanglingRow /\ ListInv /\ PendingInv
  BY DEF IInv
<1>1a. PICK head \in {[e \in Collapsible |-> FirstReplay(e)]} :
          \E removed \in {Removed(head)} :
             LET affected == {filed[e] : e \in removed}
                               \cup {filed[head[e]] : e \in removed}
                 emptied == Emptied(affected, removed)
             IN
             /\ row' = [e \in Event |-> IF e \in removed THEN NoRow ELSE row[e]]
             /\ filed' = [e \in Event |->
                            IF e \in removed THEN NoThread ELSE filed[e]]
             /\ thread' = [t \in Thread |->
                  IF t \in emptied THEN NoRow ELSE thread[t]]
             /\ card' = [t \in Thread |->
                  CASE t \in emptied -> NoCard
                    [] t \in affected \ emptied /\ CardExists(t) ->
                         [card[t] EXCEPT !.fresh = FALSE]
                    [] OTHER -> card[t]]
             /\ item' = [i \in Item |->
                  IF item[i] \in emptied THEN NoThread ELSE item[i]]
  BY DEF CollapseReplays
<1>1. PICK removed \in {Removed(head)} :
           LET affected == {filed[e] : e \in removed}
                             \cup {filed[head[e]] : e \in removed}
               emptied == Emptied(affected, removed)
           IN
           /\ row' = [e \in Event |-> IF e \in removed THEN NoRow ELSE row[e]]
           /\ filed' = [e \in Event |->
                          IF e \in removed THEN NoThread ELSE filed[e]]
           /\ thread' = [t \in Thread |->
                IF t \in emptied THEN NoRow ELSE thread[t]]
           /\ card' = [t \in Thread |->
                CASE t \in emptied -> NoCard
                  [] t \in affected \ emptied /\ CardExists(t) ->
                       [card[t] EXCEPT !.fresh = FALSE]
                  [] OTHER -> card[t]]
           /\ item' = [i \in Item |->
                IF item[i] \in emptied THEN NoThread ELSE item[i]]
  BY <1>1a
<1>2. phase = "collapse" /\ phase' = "normalize"
      /\ UNCHANGED <<repaired, merged, cut>>
  BY DEF CollapseReplays, After
<1> DEFINE affected == {filed[e] : e \in removed}
                        \cup {filed[head[e]] : e \in removed}
           emptied == Emptied(affected, removed)
<1>3. removed \subseteq Event
  BY DEF Removed, Collapsible, Stored
<1>4. \A t \in Thread : t \in emptied =>
        In(t) \subseteq removed
  BY DEF Emptied
<1>5. \A t \in Thread : In(t) # {} /\ In(t) \subseteq removed => t \in emptied
  BY DEF Emptied, In
<1>6. /\ row' = [e \in Event |-> IF e \in removed THEN NoRow ELSE row[e]]
      /\ filed' = [e \in Event |->
                     IF e \in removed THEN NoThread ELSE filed[e]]
      /\ thread' = [t \in Thread |->
           IF t \in emptied THEN NoRow ELSE thread[t]]
      /\ item' = [i \in Item |->
           IF item[i] \in emptied THEN NoThread ELSE item[i]]
  BY <1>1
<1>7. card' = [t \in Thread |->
           CASE t \in emptied -> NoCard
             [] t \in affected \ emptied /\ CardExists(t) ->
                  [card[t] EXCEPT !.fresh = FALSE]
             [] OTHER -> card[t]]
  BY <1>1
<1> HIDE DEF affected, emptied
<1>8. \A t \in Thread : /\ card'[t] \in Card \cup {NoCard}
                        /\ CardExists(t)' <=> CardExists(t) /\ t \notin emptied
                        /\ OutOfDate(t)' => OutOfDate(t)
  <2> SUFFICES ASSUME NEW t \in Thread
               PROVE  /\ card'[t] \in Card \cup {NoCard}
                      /\ CardExists(t)' <=> CardExists(t) /\ t \notin emptied
                      /\ OutOfDate(t)' => OutOfDate(t)
    OBVIOUS
  <2>0. card[t] \in Card \cup {NoCard} /\ In(t)' \subseteq In(t)
    BY <1>0, <1>6, StoreAssumption DEF TypeOK, In
  <2>1. CASE t \in emptied
    <3>1. card'[t] = NoCard
      BY <1>7, <2>1
    <3> QED
      BY <2>1, <3>1 DEF CardExists, OutOfDate
  <2>2. CASE t \notin emptied /\ t \in affected /\ CardExists(t)
    <3>1. card[t] \in Card
      BY <2>0, <2>2 DEF CardExists
    <3>2. card'[t] = [card[t] EXCEPT !.fresh = FALSE]
      BY <1>7, <2>2
    <3>3. /\ card'[t] \in Card
          /\ card'[t].sender = card[t].sender
          /\ card'[t].covers = card[t].covers
      BY <3>1, <3>2, CardUpdates
    <3>4. thread'[t] = thread[t]
      BY <1>6, <2>2
    <3> QED
      BY <2>0, <2>2, <3>3, <3>4, NoRowFacts DEF CardExists, OutOfDate
  <2>3. CASE t \notin emptied /\ ~ (t \in affected /\ CardExists(t))
    <3>1. card'[t] = card[t] /\ thread'[t] = thread[t]
      BY <1>6, <1>7, <2>3
    <3> QED
      BY <2>0, <2>3, <3>1 DEF CardExists, OutOfDate
  <2> QED
    BY <2>1, <2>2, <2>3
<1>9. TypeOK'
  <2>1. card' \in [Thread -> Card \cup {NoCard}]
    BY <1>7, <1>8
  <2>2. row' \in [Event -> Row \cup {NoRow}]
    BY <1>0, <1>6 DEF TypeOK
  <2>3. filed' \in [Event -> Thread \cup {NoThread}]
    BY <1>0, <1>6 DEF TypeOK
  <2>4. thread' \in [Thread -> Row \cup {NoRow}]
    BY <1>0, <1>6 DEF TypeOK
  <2>5. item' \in [Item -> Thread \cup {NoThread}]
    BY <1>0, <1>6 DEF TypeOK
  <2> QED
    BY <1>0, <1>2, <2>1, <2>2, <2>3, <2>4, <2>5 DEF TypeOK, Phase
<1>10. NoDanglingRow'
  <2>1. \A t \in Thread : ThreadExists(t)' <=> In(t)' # {}
    <3> SUFFICES ASSUME NEW t \in Thread
                 PROVE  ThreadExists(t)' <=> In(t)' # {}
      OBVIOUS
    <3>1. In(t)' = In(t) \ removed
      BY <1>6, StoreAssumption DEF In
    <3>2. ThreadExists(t)' <=> ThreadExists(t) /\ t \notin emptied
      BY <1>6 DEF ThreadExists
    <3>3. ThreadExists(t) <=> In(t) # {}
      BY <1>0 DEF NoDanglingRow
    <3> QED
      BY <1>4, <1>5, <3>1, <3>2, <3>3
  <2>2. \A t \in Thread : CardExists(t)' => ThreadExists(t)'
    <3>1. \A t \in Thread : CardExists(t)' => CardExists(t) /\ thread'[t] = thread[t]
      BY <1>6, <1>8
    <3> QED
      BY <1>0, <3>1 DEF NoDanglingRow, ThreadExists
  <2>3. \A i \in Item : item'[i] # NoThread => card'[item'[i]] # NoCard
    <3> SUFFICES ASSUME NEW i \in Item, item'[i] # NoThread
                 PROVE  card'[item'[i]] # NoCard
      OBVIOUS
    <3>1. item'[i] = item[i] /\ item[i] \in Thread /\ item[i] \notin emptied
      BY <1>0, <1>6 DEF TypeOK
    <3>2. CardExists(item[i])
      BY <1>0, <3>1 DEF NoDanglingRow
    <3>3. card'[item[i]] # NoCard
      BY <1>8, <3>1, <3>2 DEF CardExists
    <3> QED
      BY <3>1, <3>3
  <2>4. \A e \in Event : filed'[e] # NoThread => row'[e] # NoRow
    BY <1>0, <1>6 DEF NoDanglingRow, Stored
  <2> QED
    BY <2>1, <2>2, <2>3, <2>4 DEF NoDanglingRow, Stored, CardExists
<1>11. ListInv'
  BY <1>0, <1>2 DEF ListInv
<1>12. PendingInv'
  BY <1>0, <1>2, <1>8 DEF PendingInv
<1>13. SyncedInv'
  BY <1>2 DEF SyncedInv
<1> QED
  BY <1>9, <1>10, <1>11, <1>12, <1>13 DEF IInv
LEMMA NormalizeInv == IInv /\ NormalizeLineIdentities => IInv'
<1> SUFFICES ASSUME IInv, NormalizeLineIdentities PROVE IInv'
  OBVIOUS
<1> DEFINE changed == {e \in Stored \ Archived :
                         /\ filed[e] # NoThread
                         /\ row[e].source = "line"
                         /\ row[e] # LineRow(row[e].conv)}
           affected == {filed[e] : e \in changed}
           Last(t) == CHOOSE e \in changed \cap In(t) :
                        \A f \in changed \cap In(t) : At[f] =< At[e]
<1>0. TypeOK /\ NoDanglingRow /\ ListInv /\ PendingInv
  BY DEF IInv
<1>1. /\ phase = "normalize" /\ phase' = "merge"
      /\ row' = [e \in Event |->
                   IF e \in changed THEN LineRow(row[e].conv) ELSE row[e]]
      /\ thread' = [t \in Thread |->
                      IF t \in affected THEN row'[Last(t)] ELSE thread[t]]
      /\ repaired' = affected
      /\ UNCHANGED <<filed, card, item, merged, cut>>
  BY DEF NormalizeLineIdentities, After
<1>2. merged = {}
  BY <1>0, <1>1 DEF ListInv
<1>3. \A e \in changed : /\ e \in Event /\ row[e] # NoRow
                         /\ filed[e] \in Thread /\ e \in In(filed[e])
                         /\ row'[e] \in Row /\ row'[e].source = "line"
  <2> SUFFICES ASSUME NEW e \in changed
               PROVE  /\ e \in Event /\ row[e] # NoRow
                      /\ filed[e] \in Thread /\ e \in In(filed[e])
                      /\ row'[e] \in Row /\ row'[e].source = "line"
    OBVIOUS
  <2>1. e \in Event /\ row[e] # NoRow /\ filed[e] # NoThread
    BY DEF Stored
  <2>2. filed[e] \in Thread /\ e \in In(filed[e])
    BY <1>0, <2>1 DEF TypeOK, In
  <2>3. row[e] \in Row
    BY <1>0, <2>1 DEF TypeOK
  <2>4. row[e].conv \in Label
    BY <2>3 DEF Row
  <2>5. row'[e] = LineRow(row[e].conv)
    BY <1>1, <2>1
  <2> QED
    BY <2>1, <2>2, <2>4, <2>5, RowTypes
<1>4. \A t \in affected : Last(t) \in changed
  <2> SUFFICES ASSUME NEW t \in affected PROVE Last(t) \in changed
    OBVIOUS
  <2>1. changed \cap In(t) \in SUBSET Event /\ changed \cap In(t) # {}
    BY <1>3 DEF In
  <2>2. \E e \in changed \cap In(t) :
           \A f \in changed \cap In(t) : At[f] =< At[e]
    BY <2>1, LatestExists
  <2> QED
    BY <2>2
<1>5. affected \subseteq Thread /\ \A t \in affected : In(t) # {}
  BY <1>3
<1>6. row' \in [Event -> Row \cup {NoRow}]
  <2> HIDE DEF changed
  <2>1. \A e \in Event : row'[e] \in Row \cup {NoRow}
    BY <1>0, <1>1, <1>3 DEF TypeOK
  <2> QED
    BY <1>1, <2>1
<1>7. \A e \in Event : row[e] # NoRow => row'[e] # NoRow
  <2> HIDE DEF changed
  <2> QED
    BY <1>1, <1>3, NoRowFacts
<1>8. /\ \A t \in affected : thread'[t] \in Row /\ thread'[t].source = "line"
      /\ \A t \in Thread \ affected : thread'[t] = thread[t]
  <2> HIDE DEF changed, affected, Last
  <2> QED
    BY <1>1, <1>3, <1>4, <1>5
<1> HIDE DEF changed, affected, Last
<1>9. TypeOK'
  <2>1. \A t \in Thread : thread'[t] \in Row \cup {NoRow}
    BY <1>0, <1>8 DEF TypeOK
  <2>2. thread' \in [Thread -> Row \cup {NoRow}]
    BY <1>1, <2>1
  <2> QED
    BY <1>0, <1>1, <1>5, <1>6, <2>2 DEF TypeOK, Phase
<1>10. NoDanglingRow'
  <2>1. \A t \in Thread : ThreadExists(t)' <=> ThreadExists(t)
    BY <1>0, <1>5, <1>8, NoRowFacts DEF ThreadExists, NoDanglingRow
  <2>2. \A t \in Thread : ThreadExists(t)' <=> In(t)' # {}
    BY <1>0, <1>1, <2>1 DEF NoDanglingRow, In
  <2>3. \A t \in Thread : CardExists(t)' => ThreadExists(t)'
    BY <1>0, <1>1, <2>1 DEF NoDanglingRow, CardExists
  <2>4. \A i \in Item : item'[i] # NoThread => card'[item'[i]] # NoCard
    BY <1>0, <1>1 DEF NoDanglingRow, CardExists
  <2>5. \A e \in Event : filed'[e] # NoThread => row'[e] # NoRow
    BY <1>0, <1>1, <1>7 DEF NoDanglingRow, Stored
  <2> QED
    BY <2>2, <2>3, <2>4, <2>5 DEF NoDanglingRow, Stored, CardExists
<1>11. ListInv'
  BY <1>1, <1>2, <1>8 DEF ListInv
<1>12. PendingInv'
  <2>1. \A t \in Thread \ affected : OutOfDate(t)' => OutOfDate(t)
    BY <1>1, <1>8 DEF OutOfDate, CardExists, In
  <2>2. repaired = {}
    BY <1>0, <1>1 DEF ListInv
  <2> QED
    BY <1>0, <1>1, <1>2, <2>1, <2>2 DEF PendingInv
<1>13. SyncedInv'
  BY <1>1 DEF SyncedInv
<1> QED
  BY <1>9, <1>10, <1>11, <1>12, <1>13 DEF IInv

\* A merge moves what is in a chat's threads into the newest one.
LEMMA CanonicalChosen ==
    ASSUME NEW l, SameChat(l) # {}
    PROVE  Canonical(l) \in SameChat(l)
<1>1. SameChat(l) \in SUBSET Thread
  BY DEF SameChat
<1>2. \E t \in SameChat(l) : \A u \in SameChat(l) \ {t} : ~ Newer(u, t)
  BY <1>1, NewestExists
<1> QED
  BY <1>2 DEF Canonical

LEMMA MergeTargets ==
    ASSUME NEW t \in Thread
    PROVE  /\ Into(t) \in Thread
           /\ Into(Into(t)) = Into(t)
           /\ Into(t) # t =>
                /\ CardExists(Into(t))
                /\ thread[t].source = "messenger"
                /\ Into(t) \in {Canonical(l) : l \in MergedChats}
<1>1. CASE \E l \in MergedChats : t \in SameChat(l)
  <2>1. PICK l \in MergedChats : t \in SameChat(l)
    BY <1>1
  <2>2. thread[t].conv = l /\ thread[t].source = "messenger"
    BY <2>1 DEF SameChat
  <2>3. Into(t) = Canonical(l)
    BY <1>1, <2>2 DEF Into
  <2>4. Canonical(l) \in SameChat(l)
    BY <2>1, CanonicalChosen
  <2>5. Canonical(l) \in Thread /\ thread[Canonical(l)].conv = l
    BY <2>4 DEF SameChat
  <2>6. Into(Canonical(l)) = Canonical(l)
    BY <2>1, <2>4, <2>5 DEF Into
  <2>7. CardExists(Canonical(l))
    BY <2>1 DEF MergedChats
  <2> QED
    BY <2>1, <2>2, <2>3, <2>5, <2>6, <2>7
<1>2. CASE ~ \E l \in MergedChats : t \in SameChat(l)
  <2>1. Into(t) = t
    BY <1>2 DEF Into
  <2> QED
    BY <2>1
<1> QED
  BY <1>1, <1>2

\* The thread a merge chose exists, with a card, and stays.
LEMMA MergedStay ==
    ASSUME NEW l \in MergedChats
    PROVE  /\ Canonical(l) \in Thread
           /\ CardExists(Canonical(l))
           /\ thread[Canonical(l)].source = "messenger"
           /\ Into(Canonical(l)) = Canonical(l)
<1>1. SameChat(l) # {}
  BY FS_EmptySet DEF MergedChats
<1>2. Canonical(l) \in SameChat(l)
  BY <1>1, CanonicalChosen
<1>3. /\ Canonical(l) \in Thread /\ thread[Canonical(l)].conv = l
      /\ thread[Canonical(l)].source = "messenger"
  BY <1>2 DEF SameChat
<1>4. CardExists(Canonical(l))
  BY DEF MergedChats
<1>5. Into(Canonical(l)) = Canonical(l)
  BY <1>2, <1>3 DEF Into
<1> QED
  BY <1>3, <1>4, <1>5
LEMMA MergeInv == IInv /\ MergeMessengerThreads => IInv'
<1> SUFFICES ASSUME IInv, MergeMessengerThreads PROVE IInv'
  OBVIOUS
<1> DEFINE canonical == {Canonical(l) : l \in MergedChats}
           gone == {t \in Thread : Into(t) # t}
<1>0. TypeOK /\ NoDanglingRow /\ ListInv /\ PendingInv
  BY DEF IInv
<1>1. /\ phase = "merge" /\ phase' = "analyze line"
      /\ filed' = [e \in Event |-> Moved(filed[e])]
      /\ item' = [i \in Item |-> Moved(item[i])]
      /\ thread' = [t \in Thread |-> IF t \in gone THEN NoRow ELSE thread[t]]
      /\ card' = [t \in Thread |->
           CASE t \in gone -> NoCard
             [] t \in canonical -> [card[t] EXCEPT !.fresh = FALSE]
             [] OTHER -> card[t]]
      /\ merged' = canonical
      /\ UNCHANGED <<row, repaired, cut>>
  BY DEF MergeMessengerThreads, After, NewCard
<1>2. merged = {}
  BY <1>0, <1>1 DEF ListInv
<1>3. \A t \in canonical : /\ t \in Thread /\ t \notin gone /\ CardExists(t)
                           /\ thread[t].source = "messenger"
  BY MergedStay
<1>4. \A t \in Thread : /\ Into(t) \in Thread \ gone
                        /\ Into(t) # t => Into(t) \in canonical
                        /\ t \in gone => thread[t].source = "messenger"
                        /\ CardExists(t) => CardExists(Into(t))
  BY MergeTargets
<1>5. \A t \in Thread : In(t)' = {e \in Event : Moved(filed[e]) = t}
  BY <1>1 DEF In
<1>6. \A t \in gone : In(t)' = {}
  <2> SUFFICES ASSUME NEW t \in gone, NEW e \in In(t)' PROVE FALSE
    OBVIOUS
  <2>1. e \in Event /\ Moved(filed[e]) = t /\ t \in Thread
    BY <1>5
  <2>2. filed[e] \in Thread /\ Into(filed[e]) = t
    BY <1>0, <2>1, StoreAssumption DEF Moved, TypeOK
  <2> QED
    BY <1>4, <2>2
<1>7. \A t \in Thread \ gone : /\ In(t) \subseteq In(t)'
                               /\ t \notin canonical => In(t)' = In(t)
  <2> SUFFICES ASSUME NEW t \in Thread \ gone
               PROVE  /\ In(t) \subseteq In(t)'
                      /\ t \notin canonical => In(t)' = In(t)
    OBVIOUS
  <2>1. \A e \in In(t) : Moved(filed[e]) = t
    BY StoreAssumption DEF Moved, In
  <2>2. In(t) \subseteq In(t)'
    BY <1>5, <2>1 DEF In
  <2>3. ASSUME t \notin canonical, NEW e \in In(t)' PROVE e \in In(t)
    <3>1. e \in Event /\ Moved(filed[e]) = t
      BY <1>5, <2>3
    <3>2. filed[e] \in Thread /\ Into(filed[e]) = t
      BY <1>0, <3>1, StoreAssumption DEF Moved, TypeOK
    <3>3. filed[e] = t
      BY <1>4, <2>3, <3>2
    <3> QED
      BY <3>1, <3>3 DEF In
  <2> QED
    BY <2>2, <2>3
<1> HIDE DEF canonical, gone
<1>8. \A t \in Thread : /\ t \in gone => thread'[t] = NoRow /\ card'[t] = NoCard
                        /\ t \notin gone => thread'[t] = thread[t]
                        /\ t \in canonical => card'[t] = [card[t] EXCEPT !.fresh = FALSE]
                        /\ t \notin gone \cup canonical => card'[t] = card[t]
  BY <1>1, <1>3
<1>9. \A t \in Thread : /\ card'[t] \in Card \cup {NoCard}
                        /\ CardExists(t)' <=> CardExists(t) /\ t \notin gone
  <2> SUFFICES ASSUME NEW t \in Thread
               PROVE  /\ card'[t] \in Card \cup {NoCard}
                      /\ CardExists(t)' <=> CardExists(t) /\ t \notin gone
    OBVIOUS
  <2>1. CASE t \in gone
    BY <1>8, <2>1 DEF CardExists
  <2>2. CASE t \in canonical
    <3>1. card[t] \in Card
      BY <1>0, <1>3, <2>2 DEF TypeOK, CardExists
    <3>2. card'[t] \in Card
      BY <1>8, <2>2, <3>1, CardUpdates
    <3> QED
      BY <1>3, <2>2, <3>2, NoRowFacts DEF CardExists
  <2>3. CASE t \notin gone \cup canonical
    BY <1>0, <1>8, <2>3 DEF CardExists, TypeOK
  <2> QED
    BY <2>1, <2>2, <2>3
<1>10. TypeOK'
  <2>1. \A t \in Thread \cup {NoThread} : Moved(t) \in Thread \cup {NoThread}
    BY <1>4 DEF Moved
  <2>2. filed' \in [Event -> Thread \cup {NoThread}]
    BY <1>0, <1>1, <2>1 DEF TypeOK
  <2>3. item' \in [Item -> Thread \cup {NoThread}]
    BY <1>0, <1>1, <2>1 DEF TypeOK
  <2>4. thread' \in [Thread -> Row \cup {NoRow}]
    BY <1>0, <1>1 DEF TypeOK
  <2>5. card' \in [Thread -> Card \cup {NoCard}]
    BY <1>1, <1>9
  <2>6. merged' \subseteq Thread
    BY <1>1, <1>3
  <2> QED
    BY <1>0, <1>1, <2>2, <2>3, <2>4, <2>5, <2>6 DEF TypeOK, Phase
<1>11. NoDanglingRow'
  <2>1. \A t \in Thread : ThreadExists(t)' <=> In(t)' # {}
    <3> SUFFICES ASSUME NEW t \in Thread
                 PROVE  ThreadExists(t)' <=> In(t)' # {}
      OBVIOUS
    <3>1. ThreadExists(t) <=> In(t) # {}
      BY <1>0 DEF NoDanglingRow
    <3>2. CASE t \in gone
      BY <1>6, <1>8, <3>2 DEF ThreadExists
    <3>3. CASE t \in canonical
      <4>1. ThreadExists(t) /\ thread'[t] = thread[t]
        BY <1>0, <1>3, <1>8, <3>3 DEF NoDanglingRow
      <4> QED
        BY <1>3, <1>7, <3>1, <3>3, <4>1 DEF ThreadExists
    <3>4. CASE t \notin gone \cup canonical
      BY <1>7, <1>8, <3>1, <3>4 DEF ThreadExists
    <3> QED
      BY <3>2, <3>3, <3>4
  <2>2. \A t \in Thread : CardExists(t)' => ThreadExists(t)'
    BY <1>0, <1>8, <1>9 DEF NoDanglingRow, ThreadExists
  <2>3. \A i \in Item : item'[i] # NoThread => card'[item'[i]] # NoCard
    <3> SUFFICES ASSUME NEW i \in Item, item'[i] # NoThread
                 PROVE  card'[item'[i]] # NoCard
      OBVIOUS
    <3>1. item[i] # NoThread /\ item'[i] = Into(item[i])
      BY <1>1 DEF Moved
    <3>2. item[i] \in Thread /\ CardExists(item[i])
      BY <1>0, <3>1 DEF NoDanglingRow, TypeOK
    <3>3. Into(item[i]) \in Thread \ gone /\ CardExists(Into(item[i]))
      BY <1>4, <3>2
    <3>4. card'[Into(item[i])] # NoCard
      BY <1>9, <3>3 DEF CardExists
    <3> QED
      BY <3>1, <3>4
  <2>4. \A e \in Event : filed'[e] # NoThread => row'[e] # NoRow
    BY <1>0, <1>1 DEF NoDanglingRow, Stored, Moved
  <2> QED
    BY <2>1, <2>2, <2>3, <2>4 DEF NoDanglingRow, Stored, CardExists
<1>12. ListInv'
  <2>1. \A t \in repaired : t \in Thread /\ t \notin gone
    BY <1>0, <1>4 DEF ListInv, TypeOK, gone
  <2>2. \A t \in repaired : thread'[t].source = "line"
    BY <1>0, <1>8, <2>1 DEF ListInv
  <2>3. \A t \in canonical : thread'[t].source = "messenger"
    BY <1>3, <1>8
  <2> QED
    BY <1>1, <2>2, <2>3 DEF ListInv
<1>13. PendingInv'
  <2>1. \A t \in Thread \ (gone \cup canonical) : OutOfDate(t)' => OutOfDate(t)
    BY <1>7, <1>8 DEF OutOfDate, CardExists
  <2>2. \A t \in gone : t \in Thread => ~ OutOfDate(t)'
    BY <1>8 DEF OutOfDate, CardExists
  <2> QED
    BY <1>0, <1>1, <1>2, <2>1, <2>2 DEF PendingInv
<1>14. SyncedInv'
  BY <1>1 DEF SyncedInv
<1> QED
  BY <1>10, <1>11, <1>12, <1>13, <1>14 DEF IInv

-----------------------------------------------------------------------------
(* The analyses and the end of the start keep it.                          *)

\* An analysis of a thread with a row brings its card up to date and changes
\* no other: what each analysing action of the start does.
LEMMA AnalysisKeeps ==
    ASSUME TypeOK, NoDanglingRow, NEW t \in Thread, ThreadExists(t),
           UNCHANGED <<row, filed, thread, item>>,
           card' = [card EXCEPT ![t] = Analyzed(t, KeptStatus(t))]
    PROVE  /\ card' \in [Thread -> Card \cup {NoCard}]
           /\ NoDanglingRow'
           /\ ~ OutOfDate(t)'
           /\ \A u \in Thread \ {t} : card'[u] = card[u]
           /\ \A u \in Thread \ {t} : OutOfDate(u)' => OutOfDate(u)
<1>1. thread'[t] = thread[t] /\ thread'[t] \in Row
  BY DEF TypeOK, ThreadExists
<1>2. /\ Analyzed(t, KeptStatus(t)) \in Card
      /\ Analyzed(t, KeptStatus(t)).sender = thread'[t].sender
      /\ Analyzed(t, KeptStatus(t)).covers = In(t)'
  BY <1>1, AnalyzedCard
<1>3. card'[t] = Analyzed(t, KeptStatus(t))
  BY DEF TypeOK
<1>4. \A u \in Thread \ {t} : card'[u] = card[u]
  BY DEF TypeOK
<1>5. card' \in [Thread -> Card \cup {NoCard}]
  BY <1>2 DEF TypeOK
<1>6. card'[t] # NoCard
  BY <1>2, <1>3, NoRowFacts
<1>7. \A u \in Thread : In(u)' = In(u)
  BY DEF In
<1>8. NoDanglingRow'
  <2>1. \A u \in Thread : ThreadExists(u)' <=> In(u)' # {}
    BY <1>7 DEF NoDanglingRow, ThreadExists
  <2>2. \A u \in Thread : CardExists(u)' => ThreadExists(u)'
    BY <1>4 DEF NoDanglingRow, ThreadExists, CardExists
  <2>3. \A i \in Item : item'[i] # NoThread => card'[item'[i]] # NoCard
    BY <1>4, <1>6 DEF NoDanglingRow, CardExists, TypeOK
  <2>4. \A e \in Event : filed'[e] # NoThread => row'[e] # NoRow
    BY DEF NoDanglingRow, Stored
  <2> QED
    BY <2>1, <2>2, <2>3, <2>4 DEF NoDanglingRow, Stored, CardExists
<1>9. ~ OutOfDate(t)'
  BY <1>2, <1>3 DEF OutOfDate
<1>10. \A u \in Thread \ {t} : OutOfDate(u)' => OutOfDate(u)
  BY <1>4, <1>7 DEF OutOfDate, CardExists
<1> QED
  BY <1>4, <1>5, <1>8, <1>9, <1>10

LEMMA AnalyzeLineInv ==
    ASSUME NEW t \in Thread
    PROVE  IInv /\ AnalyzeRepairedLine(t) => IInv'
<1> SUFFICES ASSUME IInv, AnalyzeRepairedLine(t) PROVE IInv'
  OBVIOUS
<1>0. TypeOK /\ NoDanglingRow /\ ListInv /\ PendingInv
  BY DEF IInv
<1>1. /\ phase = "analyze line" /\ t \in repaired
      /\ repaired' = repaired \ {t}
      /\ UNCHANGED <<row, filed, thread, item, phase, merged, cut>>
      /\ card' = [card EXCEPT ![t] = Analyzed(t, KeptStatus(t))]
  BY DEF AnalyzeRepairedLine
<1>2. ThreadExists(t)
  BY <1>0, <1>1, NoRowFacts DEF ListInv, ThreadExists
<1>3. /\ card' \in [Thread -> Card \cup {NoCard}]
      /\ NoDanglingRow'
      /\ ~ OutOfDate(t)'
      /\ \A u \in Thread \ {t} : OutOfDate(u)' => OutOfDate(u)
  BY <1>0, <1>1, <1>2, AnalysisKeeps
<1>4. TypeOK'
  BY <1>0, <1>1, <1>3 DEF TypeOK
<1>5. ListInv'
  BY <1>0, <1>1 DEF ListInv
<1>6. PendingInv'
  BY <1>0, <1>1, <1>3 DEF PendingInv
<1>7. SyncedInv'
  BY <1>1 DEF SyncedInv
<1> QED
  BY <1>3, <1>4, <1>5, <1>6, <1>7 DEF IInv

LEMMA AnalyzeMergedInv ==
    ASSUME NEW t \in Thread
    PROVE  IInv /\ AnalyzeMerged(t) => IInv'
<1> SUFFICES ASSUME IInv, AnalyzeMerged(t) PROVE IInv'
  OBVIOUS
<1>0. TypeOK /\ NoDanglingRow /\ ListInv /\ PendingInv /\ SyncedInv
  BY DEF IInv
<1>1. /\ phase = "analyze merged" /\ t \in merged
      /\ merged' = merged \ {t}
      /\ UNCHANGED <<row, filed, thread, item, phase, repaired, cut>>
      /\ card' = [card EXCEPT ![t] = Analyzed(t, KeptStatus(t))]
  BY DEF AnalyzeMerged
<1>2. ThreadExists(t) /\ thread[t].source = "messenger"
  BY <1>0, <1>1, NoRowFacts DEF ListInv, ThreadExists
<1>3. /\ card' \in [Thread -> Card \cup {NoCard}]
      /\ NoDanglingRow'
      /\ ~ OutOfDate(t)'
      /\ \A u \in Thread \ {t} : card'[u] = card[u]
      /\ \A u \in Thread \ {t} : OutOfDate(u)' => OutOfDate(u)
  BY <1>0, <1>1, <1>2, AnalysisKeeps
<1>4. TypeOK'
  BY <1>0, <1>1, <1>3 DEF TypeOK
<1>5. ListInv'
  BY <1>0, <1>1 DEF ListInv
<1>6. PendingInv'
  BY <1>0, <1>1, <1>3 DEF PendingInv
<1>7. SyncedInv'
  BY <1>0, <1>1, <1>2, <1>3 DEF SyncedInv, CardExists
<1> QED
  BY <1>3, <1>4, <1>5, <1>6, <1>7 DEF IInv
LEMMA SyncInv == IInv /\ SyncTimestamps => IInv'
<1> SUFFICES ASSUME IInv, SyncTimestamps PROVE IInv'
  OBVIOUS
<1>0. TypeOK /\ NoDanglingRow /\ ListInv /\ PendingInv
  BY DEF IInv
<1>1. /\ repaired = {}
      /\ card' = [t \in Thread |->
           IF CardExists(t) /\ thread[t].source = "line"
           THEN [card[t] EXCEPT !.fresh = FALSE] ELSE card[t]]
      /\ phase = "analyze line" /\ phase' = "analyze merged"
      /\ UNCHANGED <<row, filed, thread, item, repaired, merged, cut>>
  BY DEF SyncTimestamps
<1>2. \A t \in Thread :
        /\ card'[t] \in Card \cup {NoCard}
        /\ CardExists(t)' <=> CardExists(t)
        /\ CardExists(t) => card'[t].sender = card[t].sender
                            /\ card'[t].covers = card[t].covers
        /\ CardExists(t) /\ thread[t].source = "line" => ~ card'[t].fresh
  <2> SUFFICES ASSUME NEW t \in Thread
               PROVE  /\ card'[t] \in Card \cup {NoCard}
                      /\ CardExists(t)' <=> CardExists(t)
                      /\ CardExists(t) => card'[t].sender = card[t].sender
                                          /\ card'[t].covers = card[t].covers
                      /\ CardExists(t) /\ thread[t].source = "line"
                           => ~ card'[t].fresh
    OBVIOUS
  <2>1. CASE CardExists(t) /\ thread[t].source = "line"
    <3>1. card[t] \in Card
      BY <1>0, <2>1 DEF TypeOK, CardExists
    <3>2. card'[t] = [card[t] EXCEPT !.fresh = FALSE]
      BY <1>1, <2>1
    <3>3. /\ card'[t] \in Card /\ card'[t].fresh = FALSE
          /\ card'[t].sender = card[t].sender
          /\ card'[t].covers = card[t].covers
      BY <3>1, <3>2, CardUpdates
    <3> QED
      BY <2>1, <3>3, NoRowFacts DEF CardExists
  <2>2. CASE ~ (CardExists(t) /\ thread[t].source = "line")
    <3>1. card'[t] = card[t]
      BY <1>1, <2>2
    <3> QED
      BY <1>0, <2>2, <3>1 DEF TypeOK, CardExists
  <2> QED
    BY <2>1, <2>2
<1>3. TypeOK'
  <2>1. card' \in [Thread -> Card \cup {NoCard}]
    BY <1>1, <1>2
  <2> QED
    BY <1>0, <1>1, <2>1 DEF TypeOK, Phase
<1>4. NoDanglingRow'
  <2>1. \A t \in Thread : ThreadExists(t)' <=> In(t)' # {}
    BY <1>0, <1>1 DEF NoDanglingRow, ThreadExists, In
  <2>2. \A t \in Thread : CardExists(t)' => ThreadExists(t)'
    BY <1>0, <1>1, <1>2 DEF NoDanglingRow, ThreadExists
  <2>3. \A i \in Item : item'[i] # NoThread => card'[item'[i]] # NoCard
    BY <1>0, <1>1, <1>2 DEF NoDanglingRow, CardExists, TypeOK
  <2>4. \A e \in Event : filed'[e] # NoThread => row'[e] # NoRow
    BY <1>0, <1>1 DEF NoDanglingRow, Stored
  <2> QED
    BY <2>1, <2>2, <2>3, <2>4 DEF NoDanglingRow, Stored, CardExists
<1>5. ListInv'
  BY <1>0, <1>1 DEF ListInv
<1>6. PendingInv'
  <2>1. \A t \in Thread : OutOfDate(t)' => OutOfDate(t)
    BY <1>1, <1>2 DEF OutOfDate, In
  <2> QED
    BY <1>0, <1>1, <2>1 DEF PendingInv
<1>7. SyncedInv'
  BY <1>1, <1>2 DEF SyncedInv
<1> QED
  BY <1>3, <1>4, <1>5, <1>6, <1>7 DEF IInv

LEMMA PhaseInv == IInv /\ (Start \/ Serve \/ Stop) => IInv'
<1> SUFFICES ASSUME IInv, Start \/ Serve \/ Stop PROVE IInv'
  OBVIOUS
<1>0. TypeOK /\ NoDanglingRow /\ ListInv /\ PendingInv
  BY DEF IInv
<1>1. /\ phase' \in {"reclassify", "serving", "down"}
      /\ UNCHANGED <<row, filed, thread, card, item>>
  BY DEF Start, Serve, Stop, store
<1>2. NoDanglingRow'
  BY <1>0, <1>1 DEF NoDanglingRow, ThreadExists, CardExists, In, Stored
<1>3. \A t \in Thread : OutOfDate(t)' => OutOfDate(t)
  BY <1>1 DEF OutOfDate, CardExists, In
<1>4. SyncedInv'
  BY <1>1 DEF SyncedInv
<1>5. CASE Start \/ Serve
  <2>1. UNCHANGED <<repaired, merged, cut>> /\ repaired = {} /\ merged = {}
    BY <1>0, <1>5 DEF Start, Serve, ListInv
  <2>2. TypeOK'
    BY <1>0, <1>1, <2>1 DEF TypeOK, Phase
  <2>3. ListInv'
    BY <2>1 DEF ListInv
  <2>4. PendingInv'
    BY <1>0, <1>3, <2>1 DEF PendingInv
  <2> QED
    BY <1>2, <1>4, <2>2, <2>3, <2>4 DEF IInv
<1>6. CASE Stop
  <2>1. /\ repaired' = {} /\ merged' = {}
        /\ cut' = cut \cup {t \in Thread : OutOfDate(t)}
    BY <1>6 DEF Stop
  <2>2. TypeOK'
    BY <1>0, <1>1, <2>1 DEF TypeOK, Phase
  <2>3. ListInv'
    BY <2>1 DEF ListInv
  <2>4. PendingInv'
    BY <1>3, <2>1 DEF PendingInv
  <2> QED
    BY <1>2, <1>4, <2>2, <2>3, <2>4 DEF IInv
<1> QED
  BY <1>5, <1>6

-----------------------------------------------------------------------------
(* What happens between two starts keeps it.                               *)

LEMMA NewRowType == ASSUME NEW e \in Event PROVE NewRow(e) \in Row
  BY StoreAssumption, RowTypes DEF NewRow

LEMMA ThreadForType == ASSUME NEW e \in Event PROVE ThreadFor(e) \in Thread
<1> DEFINE new == NewRow(e)
           same == {t \in Thread : /\ thread[t].source = new.source
                                   /\ thread[t].conv = new.conv}
<1>1. CASE same = {}
  <2>1. new.source \in Source /\ new.conv \in Label
    BY NewRowType DEF Row
  <2>2. ThreadFor(e) = HomeOf[<<new.source, new.conv>>]
    BY <1>1 DEF ThreadFor
  <2> QED
    BY <2>1, <2>2, IdentityAssumption
<1>2. CASE same # {}
  <2> DEFINE newest == CHOOSE t \in same : \A u \in same \ {t} : ~ Newer(u, t)
  <2>1. \E t \in same : \A u \in same \ {t} : ~ Newer(u, t)
    BY <1>2, NewestExists
  <2>2. newest \in same
    BY <2>1
  <2>3. ThreadFor(e) = newest
    BY <1>2 DEF ThreadFor
  <2> QED
    BY <2>2, <2>3
<1> QED
  BY <1>1, <1>2

\* A message is attached to its thread, which is made if there was none.
LEMMA Attached ==
    ASSUME TypeOK, NoDanglingRow, NEW e \in Event, row[e] = NoRow,
           NEW t \in Thread,
           row' = [row EXCEPT ![e] = NewRow(e)],
           filed' = [filed EXCEPT ![e] = t],
           thread' = [thread EXCEPT ![t] = IF ThreadExists(t) THEN @
                                           ELSE NewRow(e)]
    PROVE  /\ row' \in [Event -> Row \cup {NoRow}]
           /\ filed' \in [Event -> Thread \cup {NoThread}]
           /\ thread' \in [Thread -> Row \cup {NoRow}]
           /\ thread'[t] \in Row
           /\ \A u \in Thread \ {t} : thread'[u] = thread[u]
           /\ ThreadExists(t) => thread'[t] = thread[t]
           /\ In(t)' = In(t) \cup {e}
           /\ \A u \in Thread \ {t} : In(u)' = In(u)
           /\ \A u \in Thread : ThreadExists(u)' <=> In(u)' # {}
           /\ \A u \in Thread : ThreadExists(u) => ThreadExists(u)'
           /\ \A f \in Event : filed'[f] # NoThread => row'[f] # NoRow
<1>1. NewRow(e) \in Row /\ NewRow(e) # NoRow
  BY NewRowType, NoRowFacts
<1>2. filed[e] = NoThread
  BY DEF NoDanglingRow, Stored
<1>3. row' \in [Event -> Row \cup {NoRow}] /\ row'[e] # NoRow
      /\ \A f \in Event : row[f] # NoRow => row'[f] # NoRow
  BY <1>1 DEF TypeOK
<1>4. filed' \in [Event -> Thread \cup {NoThread}]
  BY DEF TypeOK
<1>5. thread'[t] \in Row /\ \A u \in Thread \ {t} : thread'[u] = thread[u]
      /\ (ThreadExists(t) => thread'[t] = thread[t])
  BY <1>1 DEF TypeOK, ThreadExists
<1>6. thread' \in [Thread -> Row \cup {NoRow}]
  BY <1>1 DEF TypeOK
<1>7. In(t)' = In(t) \cup {e}
  BY DEF In, TypeOK
<1>8. \A u \in Thread \ {t} : In(u)' = In(u)
  BY <1>2, StoreAssumption DEF In, TypeOK
<1>9. \A u \in Thread : ThreadExists(u)' <=> In(u)' # {}
  <2>1. thread'[t] # NoRow
    BY <1>5, NoRowFacts
  <2> QED
    BY <1>5, <1>7, <1>8, <2>1 DEF NoDanglingRow, ThreadExists
<1>10. \A u \in Thread : ThreadExists(u) => ThreadExists(u)'
  BY <1>5, NoRowFacts DEF ThreadExists
<1>11. \A f \in Event : filed'[f] # NoThread => row'[f] # NoRow
  BY <1>3 DEF NoDanglingRow, Stored, TypeOK
<1> QED
  BY <1>3, <1>4, <1>5, <1>6, <1>7, <1>8, <1>9, <1>10, <1>11
LEMMA ReceiveInv ==
    ASSUME NEW e \in Event
    PROVE  IInv /\ Receive(e) => IInv'
<1> SUFFICES ASSUME IInv, Receive(e) PROVE IInv'
  OBVIOUS
<1>0. TypeOK /\ NoDanglingRow /\ ListInv /\ PendingInv
  BY DEF IInv
<1>1. /\ phase = "serving" /\ row[e] = NoRow
      /\ row' = [row EXCEPT ![e] = NewRow(e)]
      /\ UNCHANGED <<item, repaired, merged>>
  BY DEF Receive
<1>2. repaired = {} /\ merged = {} /\ ListInv'
  BY <1>0, <1>1 DEF ListInv
<1>3. PICK t \in Thread : t = ThreadFor(e)
  BY ThreadForType
<1>4. NewRow(e) \in Row
  BY NewRowType
<1>5. CASE /\ filed' = [filed EXCEPT ![e] = t]
           /\ thread' = [thread EXCEPT ![t] = IF ThreadExists(t) THEN @
                                              ELSE NewRow(e)]
           /\ card' = [card EXCEPT ![t] = Analyzed(t, KeptStatus(t))]
           /\ UNCHANGED <<phase, cut>>
  <2>1. /\ row' \in [Event -> Row \cup {NoRow}]
        /\ filed' \in [Event -> Thread \cup {NoThread}]
        /\ thread' \in [Thread -> Row \cup {NoRow}]
        /\ thread'[t] \in Row
        /\ \A u \in Thread \ {t} : thread'[u] = thread[u]
        /\ \A u \in Thread \ {t} : In(u)' = In(u)
        /\ \A u \in Thread : ThreadExists(u)' <=> In(u)' # {}
        /\ \A u \in Thread : ThreadExists(u) => ThreadExists(u)'
        /\ \A f \in Event : filed'[f] # NoThread => row'[f] # NoRow
    BY <1>0, <1>1, <1>3, <1>5, Attached
  <2>2. /\ Analyzed(t, KeptStatus(t)) \in Card
        /\ Analyzed(t, KeptStatus(t)).sender = thread'[t].sender
        /\ Analyzed(t, KeptStatus(t)).covers = In(t)'
    BY <1>0, <1>3, <2>1, AnalyzedCard
  <2>3. card'[t] = Analyzed(t, KeptStatus(t))
    BY <1>0, <1>3, <1>5 DEF TypeOK
  <2>4. \A u \in Thread \ {t} : card'[u] = card[u]
    BY <1>0, <1>5 DEF TypeOK
  <2>5. card' \in [Thread -> Card \cup {NoCard}]
    BY <1>0, <1>5, <2>2 DEF TypeOK
  <2>6. card'[t] # NoCard
    BY <2>2, <2>3, NoRowFacts
  <2>7. TypeOK'
    BY <1>0, <1>1, <1>5, <2>1, <2>5 DEF TypeOK
  <2>8. NoDanglingRow'
    <3>1. \A u \in Thread : CardExists(u)' => ThreadExists(u)'
      BY <1>0, <2>1, <2>4, NoRowFacts DEF NoDanglingRow, CardExists, ThreadExists
    <3>2. \A i \in Item : item'[i] # NoThread => card'[item'[i]] # NoCard
      BY <1>0, <1>1, <2>4, <2>6 DEF NoDanglingRow, CardExists, TypeOK
    <3> QED
      BY <2>1, <3>1, <3>2 DEF NoDanglingRow, Stored, CardExists
  <2>9. ~ OutOfDate(t)'
    BY <2>2, <2>3 DEF OutOfDate
  <2>10. \A u \in Thread \ {t} : OutOfDate(u)' => OutOfDate(u)
    BY <2>1, <2>4 DEF OutOfDate, CardExists
  <2>11. PendingInv'
    BY <1>0, <1>1, <1>5, <2>9, <2>10 DEF PendingInv
  <2>12. SyncedInv'
    BY <1>1, <1>5 DEF SyncedInv
  <2> QED
    BY <1>2, <2>7, <2>8, <2>11, <2>12 DEF IInv
<1>6. CASE /\ filed' = [filed EXCEPT ![e] = t]
           /\ thread' = [thread EXCEPT ![t] = IF ThreadExists(t) THEN @
                                              ELSE NewRow(e)]
           /\ cut' = cut \cup {t}
           /\ phase' = "down"
           /\ UNCHANGED card
  <2>1. /\ row' \in [Event -> Row \cup {NoRow}]
        /\ filed' \in [Event -> Thread \cup {NoThread}]
        /\ thread' \in [Thread -> Row \cup {NoRow}]
        /\ \A u \in Thread \ {t} : thread'[u] = thread[u]
        /\ \A u \in Thread \ {t} : In(u)' = In(u)
        /\ \A u \in Thread : ThreadExists(u)' <=> In(u)' # {}
        /\ \A u \in Thread : ThreadExists(u) => ThreadExists(u)'
        /\ \A f \in Event : filed'[f] # NoThread => row'[f] # NoRow
    BY <1>0, <1>1, <1>3, <1>6, Attached
  <2>2. TypeOK'
    BY <1>0, <1>1, <1>3, <1>6, <2>1 DEF TypeOK, Phase
  <2>3. NoDanglingRow'
    <3>1. \A u \in Thread : CardExists(u)' => ThreadExists(u)'
      BY <1>0, <1>6, <2>1 DEF NoDanglingRow, CardExists
    <3>2. \A i \in Item : item'[i] # NoThread => card'[item'[i]] # NoCard
      BY <1>0, <1>1, <1>6 DEF NoDanglingRow, CardExists
    <3> QED
      BY <2>1, <3>1, <3>2 DEF NoDanglingRow, Stored, CardExists
  <2>4. \A u \in Thread \ {t} : OutOfDate(u)' => OutOfDate(u)
    BY <1>6, <2>1 DEF OutOfDate, CardExists
  <2>5. PendingInv'
    BY <1>0, <1>1, <1>6, <2>4 DEF PendingInv
  <2>6. SyncedInv'
    BY <1>6 DEF SyncedInv
  <2> QED
    BY <1>2, <2>2, <2>3, <2>5, <2>6 DEF IInv
<1>7. CASE /\ phase' = "down"
           /\ UNCHANGED <<filed, thread, card, cut>>
  <2>1. \A f \in Event : row[f] # NoRow => row'[f] # NoRow
    BY <1>0, <1>1, <1>4, NoRowFacts DEF TypeOK
  <2>2. TypeOK'
    BY <1>0, <1>1, <1>4, <1>7 DEF TypeOK, Phase
  <2>3. NoDanglingRow'
    BY <1>0, <1>1, <1>7, <2>1
       DEF NoDanglingRow, ThreadExists, CardExists, In, Stored
  <2>4. \A u \in Thread : OutOfDate(u)' => OutOfDate(u)
    BY <1>7 DEF OutOfDate, CardExists, In
  <2>5. PendingInv'
    BY <1>0, <1>1, <1>7, <2>4 DEF PendingInv
  <2>6. SyncedInv'
    BY <1>7 DEF SyncedInv
  <2> QED
    BY <1>2, <2>2, <2>3, <2>5, <2>6 DEF IInv
<1> QED
  BY <1>3, <1>5, <1>6, <1>7 DEF Receive

LEMMA UserInv ==
    ASSUME NEW t \in Thread
    PROVE  IInv /\ (CloseCard(t) \/ \E i \in Item : AddItem(i, t)) => IInv'
<1> SUFFICES ASSUME IInv, CloseCard(t) \/ \E i \in Item : AddItem(i, t)
             PROVE  IInv'
  OBVIOUS
<1>0. TypeOK /\ NoDanglingRow /\ ListInv /\ PendingInv
  BY DEF IInv
<1>1. /\ phase = "serving" /\ CardExists(t)
      /\ UNCHANGED <<row, filed, thread, phase, repaired, merged, cut>>
  BY DEF CloseCard, AddItem, start
<1>2. ListInv' /\ SyncedInv'
  BY <1>0, <1>1 DEF ListInv, SyncedInv
<1>3. CASE CloseCard(t)
  <2>1. /\ UNCHANGED item
        /\ card' = [card EXCEPT ![t].status = "done", ![t].fresh = TRUE]
    BY <1>3 DEF CloseCard
  <2>2. card[t] \in Card
    BY <1>0, <1>1 DEF TypeOK, CardExists
  <2>3. card'[t] = [card[t] EXCEPT !.status = "done", !.fresh = TRUE]
    BY <1>0, <2>1 DEF TypeOK
  <2>4. /\ card'[t] \in Card /\ card'[t].sender = card[t].sender
        /\ card'[t].covers = card[t].covers
    BY <2>2, <2>3, CardUpdates
  <2>5. \A u \in Thread \ {t} : card'[u] = card[u]
    BY <1>0, <2>1 DEF TypeOK
  <2>6. card' \in [Thread -> Card \cup {NoCard}]
    <3>1. DOMAIN card' = Thread /\ card' = [u \in Thread |-> card'[u]]
      BY <1>0, <2>1 DEF TypeOK
    <3>2. \A u \in Thread : card'[u] \in Card \cup {NoCard}
      BY <1>0, <2>4, <2>5 DEF TypeOK
    <3> QED
      BY <3>1, <3>2
  <2>7. TypeOK'
    BY <1>0, <1>1, <2>1, <2>6 DEF TypeOK
  <2>8. card'[t] # NoCard
    BY <2>4, NoRowFacts
  <2>9. NoDanglingRow'
    <3>1. \A u \in Thread : ThreadExists(u)' <=> In(u)' # {}
      BY <1>0, <1>1 DEF NoDanglingRow, ThreadExists, In
    <3>2. \A u \in Thread : CardExists(u)' => ThreadExists(u)'
      BY <1>0, <1>1, <2>5 DEF NoDanglingRow, CardExists, ThreadExists
    <3>3. \A i \in Item : item'[i] # NoThread => card'[item'[i]] # NoCard
      BY <1>0, <2>1, <2>5, <2>8 DEF NoDanglingRow, CardExists, TypeOK
    <3>4. \A f \in Event : filed'[f] # NoThread => row'[f] # NoRow
      BY <1>0, <1>1 DEF NoDanglingRow, Stored
    <3> QED
      BY <3>1, <3>2, <3>3, <3>4 DEF NoDanglingRow, Stored, CardExists
  <2>10. \A u \in Thread : OutOfDate(u)' => OutOfDate(u)
    BY <1>1, <2>4, <2>5 DEF OutOfDate, CardExists, In
  <2>11. PendingInv'
    BY <1>0, <1>1, <2>10 DEF PendingInv
  <2> QED
    BY <1>2, <2>7, <2>9, <2>11 DEF IInv
<1>4. CASE \E i \in Item : AddItem(i, t)
  <2>1. PICK i \in Item : item' = [item EXCEPT ![i] = t] /\ UNCHANGED card
    BY <1>4 DEF AddItem
  <2>2. TypeOK'
    BY <1>0, <1>1, <2>1 DEF TypeOK
  <2>3. NoDanglingRow'
    <3>1. \A u \in Thread : ThreadExists(u)' <=> In(u)' # {}
      BY <1>0, <1>1 DEF NoDanglingRow, ThreadExists, In
    <3>2. \A u \in Thread : CardExists(u)' => ThreadExists(u)'
      BY <1>0, <1>1, <2>1 DEF NoDanglingRow, CardExists, ThreadExists
    <3>3. \A j \in Item : item'[j] # NoThread => card'[item'[j]] # NoCard
      BY <1>0, <1>1, <2>1 DEF NoDanglingRow, CardExists, TypeOK
    <3>4. \A f \in Event : filed'[f] # NoThread => row'[f] # NoRow
      BY <1>0, <1>1 DEF NoDanglingRow, Stored
    <3> QED
      BY <3>1, <3>2, <3>3, <3>4 DEF NoDanglingRow, Stored, CardExists
  <2>4. \A u \in Thread : OutOfDate(u)' => OutOfDate(u)
    BY <1>1, <2>1 DEF OutOfDate, CardExists, In
  <2>5. PendingInv'
    BY <1>0, <1>1, <2>4 DEF PendingInv
  <2> QED
    BY <1>2, <2>2, <2>3, <2>5 DEF IInv
<1> QED
  BY <1>3, <1>4

LEMMA NextInv == IInv /\ [Next]_vars => IInv'
<1> SUFFICES ASSUME IInv, [Next]_vars PROVE IInv'
  OBVIOUS
<1>1. CASE Start \/ Serve \/ Stop
  BY <1>1, PhaseInv
<1>2. CASE ReclassifyMessengerCards
  BY <1>2, ReclassifyInv
<1>3. CASE CollapseReplays
  BY <1>3, CollapseInv
<1>4. CASE NormalizeLineIdentities
  BY <1>4, NormalizeInv
<1>5. CASE MergeMessengerThreads
  BY <1>5, MergeInv
<1>6. ASSUME NEW t \in Thread, AnalyzeRepairedLine(t) \/ AnalyzeMerged(t)
      PROVE  IInv'
  BY <1>6, AnalyzeLineInv, AnalyzeMergedInv
<1>7. CASE SyncTimestamps
  BY <1>7, SyncInv
<1>8. ASSUME NEW e \in Event, Receive(e) PROVE IInv'
  BY <1>8, ReceiveInv
<1>9. ASSUME NEW t \in Thread, CloseCard(t) \/ \E i \in Item : AddItem(i, t)
      PROVE  IInv'
  BY <1>9, UserInv
<1>10. CASE UNCHANGED vars
  <2>1. UNCHANGED <<row, filed, thread, card, item, phase, repaired, merged, cut>>
    BY <1>10 DEF vars, store, start
  <2>2. TypeOK' /\ ListInv' /\ SyncedInv'
    BY <2>1 DEF IInv, TypeOK, ListInv, SyncedInv, CardExists
  <2>3. NoDanglingRow'
    BY <2>1 DEF IInv, NoDanglingRow, ThreadExists, CardExists, In, Stored
  <2>4. PendingInv'
    BY <2>1 DEF IInv, PendingInv, OutOfDate, CardExists, In
  <2> QED
    BY <2>2, <2>3, <2>4 DEF IInv
<1> QED
  BY <1>1, <1>2, <1>3, <1>4, <1>5, <1>6, <1>7, <1>8, <1>9, <1>10
     DEF Next, Repair

LEMMA Inductive == Spec => []IInv
<1>1. Init => IInv
  BY InitInv
<1>2. IInv /\ [Next]_vars => IInv'
  BY NextInv
<1> QED
  BY <1>1, <1>2, PTL DEF Spec
-----------------------------------------------------------------------------
(* The chain of replays.                                                   *)

\* Every finite group of messages has cluster heads: a message heads one, or
\* follows a head within the window, and never both.
AreHeads(heads, group, window) ==
    \A e \in group :
        e \in heads <=> ~ \E h \in heads : /\ At[h] < At[e]
                                           /\ At[e] - At[h] =< window

LEMMA HeadsOfOneMore ==
    ASSUME NEW group \in SUBSET Event, NEW window \in Nat,
           NEW n \in group,
           NEW heads \in SUBSET {f \in group : At[f] < At[n]},
           AreHeads(heads, {f \in group : At[f] < At[n]}, window)
    PROVE  \E more \in SUBSET {f \in group : At[f] =< At[n]} :
              AreHeads(more, {f \in group : At[f] =< At[n]}, window)
<1> DEFINE before == {f \in group : At[f] < At[n]}
           upto == {f \in group : At[f] =< At[n]}
           follows == \E h \in heads : At[h] < At[n] /\ At[n] - At[h] =< window
           more == IF follows THEN heads ELSE heads \cup {n}
<1>1. \A f \in group : At[f] \in Int /\ f \in Event
  BY StoreAssumption
<1>2. \A f \in upto : f = n \/ f \in before
  <2> SUFFICES ASSUME NEW f \in upto, f # n PROVE f \in before
    OBVIOUS
  <2>1. At[f] # At[n]
    BY StoreAssumption
  <2> QED
    BY <1>1, <2>1
<1>3. more \in SUBSET upto
  BY <1>1
<1>4. n \notin heads
  BY <1>1
<1>5. ASSUME NEW e \in before
      PROVE  e \in more <=> ~ \E h \in more : /\ At[h] < At[e]
                                              /\ At[e] - At[h] =< window
  <2>1. e # n /\ ~ At[n] < At[e]
    BY <1>1
  <2>2. e \in more <=> e \in heads
    BY <2>1
  <2>3. (\E h \in more : At[h] < At[e] /\ At[e] - At[h] =< window)
          <=> \E h \in heads : At[h] < At[e] /\ At[e] - At[h] =< window
    BY <2>1
  <2> QED
    BY <2>2, <2>3 DEF AreHeads
<1>6. n \in more <=> ~ \E h \in more : /\ At[h] < At[n]
                                       /\ At[n] - At[h] =< window
  <2>1. ~ At[n] < At[n]
    BY <1>1
  <2> QED
    BY <1>4, <2>1
<1>7. AreHeads(more, upto, window)
  <2> HIDE DEF more, upto, before
  <2> QED
    BY <1>2, <1>5, <1>6 DEF AreHeads
<1> QED
  BY <1>3, <1>7

LEMMA HeadsUpTo ==
    ASSUME NEW group \in SUBSET Event, NEW window \in Nat, NEW n \in group
    PROVE  \E heads \in SUBSET {f \in group : At[f] =< At[n]} :
              AreHeads(heads, {f \in group : At[f] =< At[n]}, window)
<1> DEFINE UpTo(m) == {f \in group : At[f] =< At[m]}
           HasHeads(m) == \E heads \in SUBSET UpTo(m) :
                             AreHeads(heads, UpTo(m), window)
           T == {UpTo(m) : m \in {k \in group : ~ HasHeads(k)}}
<1>1. \A f \in group : At[f] \in Int /\ f \in Event
  BY StoreAssumption
<1>2. SUFFICES ASSUME ~ HasHeads(n) PROVE FALSE
  OBVIOUS
<1>3. T \subseteq FiniteSubsetsOf(Event)
  <2> SUFFICES ASSUME NEW m \in group PROVE UpTo(m) \in FiniteSubsetsOf(Event)
    OBVIOUS
  <2>1. UpTo(m) \subseteq Event
    OBVIOUS
  <2> QED
    BY <2>1, StoreAssumption, FS_Subset DEF FiniteSubsetsOf
<1>4. T # {}
  BY <1>2
<1>5. PICK B \in T : \A D \in T : <<D, B>> \notin StrictSubsetOrdering(Event)
  <2> HIDE DEF T
  <2> QED
    BY <1>3, <1>4, FS_StrictSubsetOrderingWellFounded, WFMin
<1>6. PICK m \in group : ~ HasHeads(m) /\ B = UpTo(m)
  BY <1>5
<1> DEFINE before == {f \in group : At[f] < At[m]}
<1>7. \E heads \in SUBSET before : AreHeads(heads, before, window)
  <2>1. CASE before = {}
    <3>1. {} \in SUBSET before /\ AreHeads({}, before, window)
      BY <2>1 DEF AreHeads
    <3> QED
      BY <3>1
  <2>2. CASE before # {}
    <3>1. PICK k \in before : \A f \in before : At[f] =< At[k]
      <4>1. before \in SUBSET Event
        BY <1>1
      <4> HIDE DEF before
      <4> QED
        BY <2>2, <4>1, LatestExists
    <3>2. k \in group /\ At[k] < At[m]
      BY <3>1
    <3>3. UpTo(k) = before
      <4>1. \A f \in UpTo(k) : f \in before
        BY <1>1, <3>2
      <4>2. \A f \in before : f \in UpTo(k)
        BY <3>1
      <4> QED
        BY <4>1, <4>2
    <3>4. HasHeads(k)
      <4>1. SUFFICES ASSUME ~ HasHeads(k) PROVE FALSE
        OBVIOUS
      <4>2. UpTo(k) \in T
        BY <3>2, <4>1
      <4>3. m \in UpTo(m) /\ m \notin UpTo(k)
        BY <1>1, <3>2
      <4>4. UpTo(k) \subseteq UpTo(m)
        BY <1>1, <3>2
      <4>5. UpTo(k) \subseteq Event /\ UpTo(m) \subseteq Event
        BY <1>1
      <4>6. <<UpTo(k), UpTo(m)>> \in StrictSubsetOrdering(Event)
        <5> HIDE DEF UpTo
        <5> QED
          BY <4>3, <4>4, <4>5 DEF StrictSubsetOrdering
      <4> QED
        BY <1>5, <1>6, <4>2, <4>6
    <3> QED
      BY <3>3, <3>4
  <2> QED
    BY <2>1, <2>2
<1>8. HasHeads(m)
  BY <1>7, HeadsOfOneMore
<1> QED
  BY <1>6, <1>8

LEMMA HeadsExist ==
    ASSUME NEW group \in SUBSET Event, NEW window \in Nat
    PROVE  /\ Heads(group, window) \subseteq group
           /\ AreHeads(Heads(group, window), group, window)
<1>1. \E heads \in SUBSET group : AreHeads(heads, group, window)
  <2>1. CASE group = {}
    BY <2>1 DEF AreHeads
  <2>2. CASE group # {}
    <3>1. PICK n \in group : \A f \in group : At[f] =< At[n]
      BY <2>2, LatestExists
    <3> DEFINE upto == {f \in group : At[f] =< At[n]}
    <3>2. \E heads \in SUBSET upto : AreHeads(heads, upto, window)
      BY HeadsUpTo
    <3>3. upto = group
      BY <3>1
    <3> HIDE DEF upto
    <3> QED
      BY <3>2, <3>3
  <2> QED
    BY <2>1, <2>2
<1>2. Heads(group, window) =
        CHOOSE heads \in SUBSET group : AreHeads(heads, group, window)
  BY DEF Heads, AreHeads
<1> QED
  BY <1>1, <1>2
\* The cluster of a replay starts at a replay that starts its own.
LEMMA FirstReplayFacts ==
    ASSUME NEW e \in Collapsible
    PROVE  /\ FirstReplay(e) \in Replays(e)
           /\ At[FirstReplay(e)] =< At[e]
           /\ At[e] - At[FirstReplay(e)] =< ReplayWindow(e)
           /\ FirstReplay(FirstReplay(e)) = FirstReplay(e)
<1> DEFINE group == Replays(e)
           window == ReplayWindow(e)
           heads == Heads(group, window)
           Starts(h, f) == At[h] =< At[f] /\ At[f] - At[h] =< window
<1>1. e \in group /\ group \in SUBSET Event
  BY DEF Collapsible, Replays, Stored
<1>2. window \in Nat
  BY StoreAssumption DEF ReplayWindow
<1>3. heads \subseteq group /\ AreHeads(heads, group, window)
  BY <1>1, <1>2, HeadsExist
<1>4. \A f \in group : At[f] \in Int /\ f \in Event
  BY <1>1, StoreAssumption
<1>5. \E h \in heads : Starts(h, e)
  <2> HIDE DEF group, heads, window
  <2>1. CASE e \in heads
    BY <1>1, <1>2, <1>4, <2>1
  <2>2. CASE e \notin heads
    <3>1. PICK h \in heads : At[h] < At[e] /\ At[e] - At[h] =< window
      BY <1>1, <1>3, <2>2 DEF AreHeads
    <3>2. At[h] \in Int /\ At[e] \in Int
      BY <1>1, <1>3, <1>4
    <3> QED
      BY <3>1, <3>2
  <2> QED
    BY <2>1, <2>2
<1>6. FirstReplay(e) = CHOOSE h \in heads : Starts(h, e)
  BY DEF FirstReplay
<1> DEFINE first == FirstReplay(e)
<1>7. first \in heads /\ Starts(first, e)
  <2> HIDE DEF heads, Starts
  <2> QED
    BY <1>5, <1>6
<1>8. first \in group
  BY <1>3, <1>7
<1>9. Replays(first) = group /\ ReplayWindow(first) = window
  <2>1. /\ row[first].source = row[e].source
        /\ row[first].title = row[e].title /\ TextOf[first] = TextOf[e]
    BY <1>8 DEF Replays
  <2> QED
    BY <2>1 DEF Replays, ReplayWindow
<1>10. FirstReplay(first) = CHOOSE h \in heads : Starts(h, first)
  BY <1>9 DEF FirstReplay
<1>11. Starts(first, first)
  BY <1>2, <1>4, <1>8
<1>12. ASSUME NEW h \in heads, Starts(h, first) PROVE h = first
  <2>1. At[h] \in Int /\ At[first] \in Int /\ h \in Event /\ first \in Event
    BY <1>3, <1>4, <1>8
  <2>2. ~ (At[h] < At[first] /\ At[first] - At[h] =< window)
    <3> HIDE DEF heads, group, window, first
    <3> QED
      BY <1>3, <1>7, <1>8 DEF AreHeads
  <2>3. At[h] = At[first]
    BY <1>12, <2>1, <2>2
  <2> QED
    BY <2>1, <2>3, StoreAssumption
<1>13. FirstReplay(first) = first
  <2> HIDE DEF heads, Starts, first
  <2> QED
    BY <1>7, <1>10, <1>11, <1>12
<1> QED
  BY <1>7, <1>8, <1>13

-----------------------------------------------------------------------------
(* Threads of one chat.                                                    *)

LEMMA ChatFinite ==
    ASSUME IInv, NEW l
    PROVE  IsFiniteSet(SameChat(l))
<1> DEFINE inside == {e \in Event : filed[e] \in SameChat(l)}
           f == [e \in inside |-> filed[e]]
<1>1. IsFiniteSet(inside)
  BY StoreAssumption, FS_Subset
<1>2. \A t \in SameChat(l) : \E e \in inside : f[e] = t
  <2> SUFFICES ASSUME NEW t \in SameChat(l) PROVE \E e \in inside : f[e] = t
    OBVIOUS
  <2>1. t \in Thread /\ thread[t] # NoRow
    BY NoRowFacts DEF SameChat
  <2>2. In(t) # {}
    BY <2>1 DEF IInv, NoDanglingRow, ThreadExists
  <2> QED
    BY <2>2 DEF In
<1>3. f \in [inside -> SameChat(l)]
  OBVIOUS
<1> HIDE DEF inside, f
<1>4. f \in Surjection(inside, SameChat(l))
  BY <1>2, <1>3 DEF Surjection
<1> QED
  BY <1>1, <1>4, FS_Surjection

\* Two threads of a chat after a step were two threads of it before.
LEMMA SmallerChat ==
    ASSUME IInv, NEW l, NEW S \in SUBSET SameChat(l), Cardinality(S) > 1
    PROVE  Cardinality(SameChat(l)) > 1
<1>1. IsFiniteSet(SameChat(l))
  BY ChatFinite
<1>2. IsFiniteSet(S) /\ Cardinality(S) =< Cardinality(SameChat(l))
  BY <1>1, FS_Subset
<1>3. Cardinality(S) \in Nat /\ Cardinality(SameChat(l)) \in Nat
  BY <1>1, <1>2, FS_CardinalityType
<1> QED
  BY <1>2, <1>3

LEMMA AtMostOne ==
    ASSUME NEW x, NEW S \in SUBSET {x}
    PROVE  ~ Cardinality(S) > 1
<1>1. IsFiniteSet({x}) /\ Cardinality({x}) = 1
  BY FS_Singleton
<1>2. IsFiniteSet(S) /\ Cardinality(S) =< 1
  BY <1>1, FS_Subset
<1>3. Cardinality(S) \in Nat
  BY <1>2, FS_CardinalityType
<1> QED
  BY <1>2, <1>3
-----------------------------------------------------------------------------
(* Theorems.                                                               *)

\* Every variable keeps its type, in every start, crash and live message.
THEOREM TypeCorrect == Spec => []TypeOK
<1>1. IInv => TypeOK
  BY DEF IInv
<1> QED
  BY <1>1, Inductive, PTL

\* Whatever create_app removes, merges or moves, no thread is without
\* messages, no card without a thread, no reminder, draft or feedback without
\* a card.
THEOREM RowsComplete == Spec => []NoDanglingRow
<1>1. IInv => NoDanglingRow
  BY DEF IInv
<1> QED
  BY <1>1, Inductive, PTL

\* create_app never calls analyze_thread for a thread without messages.
THEOREM StartSafe == Spec => []StartNeverRaises
<1>1. IInv => StartNeverRaises
  <2> SUFFICES ASSUME IInv, NEW t \in repaired \cup merged PROVE In(t) # {}
    BY DEF StartNeverRaises
  <2>1. t \in Thread /\ thread[t] # NoRow
    BY NoRowFacts DEF IInv, ListInv, TypeOK
  <2> QED
    BY <2>1 DEF IInv, NoDanglingRow, ThreadExists
<1> QED
  BY <1>1, Inductive, PTL

\* When the service runs, only a card that a dead process left behind may be
\* out of date.
THEOREM UpToDate == Spec => []OutOfDateByCrash
<1>1. IInv => OutOfDateByCrash
  BY DEF IInv, ListInv, PendingInv, OutOfDateByCrash
<1> QED
  BY <1>1, Inductive, PTL

LEMMA CollapseStep ==
    ASSUME IInv, CollapseReplays
    PROVE  \E head, removed, affected :
                /\ head = [e \in Collapsible |-> FirstReplay(e)]
                /\ removed = Removed(head)
                /\ \A e \in Event : row'[e] = IF e \in removed THEN NoRow
                                                               ELSE row[e]
                /\ \A i \in Item :
                     item'[i] = IF item[i] \in Emptied(affected, removed)
                                THEN NoThread ELSE item[i]
                /\ \A t \in Thread :
                     thread'[t] = IF t \in Emptied(affected, removed)
                                  THEN NoRow ELSE thread[t]
<1>1. PICK head \in {[e \in Collapsible |-> FirstReplay(e)]} :
          \E removed \in {Removed(head)} :
             LET affected == {filed[e] : e \in removed}
                               \cup {filed[head[e]] : e \in removed}
                 emptied == Emptied(affected, removed)
             IN
             /\ row' = [e \in Event |->
                          IF e \in removed THEN NoRow ELSE row[e]]
             /\ thread' = [t \in Thread |->
                  IF t \in emptied THEN NoRow ELSE thread[t]]
             /\ item' = [i \in Item |->
                  IF item[i] \in emptied THEN NoThread ELSE item[i]]
  BY DEF CollapseReplays
<1>2. PICK removed, affected :
             /\ removed = Removed(head)
             /\ row' = [e \in Event |->
                          IF e \in removed THEN NoRow ELSE row[e]]
             /\ thread' = [t \in Thread |->
                  IF t \in Emptied(affected, removed) THEN NoRow
                                                      ELSE thread[t]]
             /\ item' = [i \in Item |->
                  IF item[i] \in Emptied(affected, removed) THEN NoThread
                                                            ELSE item[i]]
  BY <1>1
<1>3. /\ \A e \in Event : row'[e] = IF e \in removed THEN NoRow ELSE row[e]
      /\ \A i \in Item : item'[i] = IF item[i] \in Emptied(affected, removed)
                                    THEN NoThread ELSE item[i]
      /\ \A t \in Thread : thread'[t] = IF t \in Emptied(affected, removed)
                                        THEN NoRow ELSE thread[t]
  BY <1>2
<1>4. head = [e \in Collapsible |-> FirstReplay(e)]
  BY <1>1
<1> QED
  BY <1>2, <1>3, <1>4

\* Only the collapse removes a message.
LEMMA RowsStay ==
    ASSUME IInv, [Next]_vars, ~ CollapseReplays,
           NEW e \in Event, row[e] # NoRow
    PROVE  row'[e] # NoRow
<1>1. row[e] \in Row
  BY DEF IInv, TypeOK
<1>2. ChatRow(LabelOf[e]) # NoRow /\ LineRow(row[e].conv) # NoRow
  <2>1. row[e].conv \in Label /\ LabelOf[e] \in Label
    BY <1>1, StoreAssumption DEF Row
  <2> QED
    BY <2>1, RowTypes, NoRowFacts
<1>3. CASE ReclassifyMessengerCards
  BY <1>2, <1>3 DEF ReclassifyMessengerCards
<1>4. CASE NormalizeLineIdentities
  BY <1>2, <1>4 DEF NormalizeLineIdentities
<1>5. ASSUME NEW f \in Event, Receive(f) PROVE row'[e] # NoRow
  BY <1>5 DEF Receive, IInv, TypeOK
<1>6. CASE UNCHANGED row
  BY <1>6
<1>7. CASE Start \/ MergeMessengerThreads \/ SyncTimestamps \/ Serve \/ Stop
  BY <1>6, <1>7 DEF Start, MergeMessengerThreads, SyncTimestamps, Serve, Stop,
                    store
<1>8. ASSUME NEW t \in Thread,
             \/ AnalyzeRepairedLine(t) \/ AnalyzeMerged(t) \/ CloseCard(t)
             \/ \E i \in Item : AddItem(i, t)
      PROVE  row'[e] # NoRow
  BY <1>6, <1>8 DEF AnalyzeRepairedLine, AnalyzeMerged, CloseCard, AddItem
<1> QED
  BY <1>3, <1>4, <1>5, <1>6, <1>7, <1>8 DEF Next, Repair, vars, store

\* collapse_duplicate_notification_replays keeps an earlier replay, within the
\* window, of every message it removes, and nothing else removes one.
THEOREM ReplaysKept == Spec => ReplayKept
<1>1. ASSUME IInv, [Next]_vars, NEW e \in Stored, row'[e] = NoRow
      PROVE  \E f \in Stored :
               /\ row'[f] # NoRow
               /\ row[f].source = row[e].source /\ row[f].title = row[e].title
               /\ TextOf[f] = TextOf[e]
               /\ At[f] < At[e] /\ At[e] - At[f] =< LineWindow
  <2>1. e \in Event /\ row[e] # NoRow
    BY DEF Stored
  <2>2. CollapseReplays
    BY <1>1, <2>1, RowsStay
  <2>3. PICK head, removed :
               /\ head = [d \in Collapsible |-> FirstReplay(d)]
               /\ removed = Removed(head)
               /\ \A d \in Event : row'[d] = IF d \in removed THEN NoRow
                                                              ELSE row[d]
    BY <1>1, <2>2, CollapseStep
  <2>4. e \in removed
    BY <1>1, <2>1, <2>3
  <2>5. e \in Collapsible /\ FirstReplay(e) # e
    BY <2>3, <2>4 DEF Removed
  <2> DEFINE f == FirstReplay(e)
  <2>6. /\ f \in Replays(e) /\ At[f] =< At[e]
        /\ At[e] - At[f] =< ReplayWindow(e) /\ FirstReplay(f) = f
    BY <2>5, FirstReplayFacts
  <2>7. /\ f \in Stored /\ f \in Event
        /\ row[f].source = row[e].source /\ row[f].title = row[e].title
        /\ TextOf[f] = TextOf[e]
    BY <2>6 DEF Replays, Stored
  <2>8. f \notin removed
    BY <2>3, <2>6 DEF Removed
  <2>9. row'[f] # NoRow
    BY <2>3, <2>7, <2>8 DEF Stored
  <2>10. At[f] # At[e] /\ At[f] \in Int /\ At[e] \in Int
    BY <2>1, <2>5, <2>7, StoreAssumption
  <2>11. At[f] < At[e]
    BY <2>6, <2>10
  <2>12. ReplayWindow(e) \in Int /\ ReplayWindow(e) =< LineWindow
         /\ LineWindow \in Int
    BY StoreAssumption DEF ReplayWindow
  <2>13. At[e] - At[f] =< LineWindow
    BY <2>6, <2>10, <2>12
  <2> QED
    BY <2>7, <2>9, <2>11, <2>13
<1>2. IInv /\ [Next]_vars =>
        [\A e \in Stored : row'[e] = NoRow =>
         \E f \in Stored :
             /\ row'[f] # NoRow
             /\ row[f].source = row[e].source /\ row[f].title = row[e].title
             /\ TextOf[f] = TextOf[e]
             /\ At[f] < At[e] /\ At[e] - At[f] =< LineWindow]_vars
  BY <1>1
<1> QED
  BY <1>2, Inductive, PTL DEF Spec, ReplayKept

\* A reminder, a draft or feedback leaves its card only with the thread's last
\* message: a merge takes it along.
THEOREM ItemsKept == Spec => ItemsFollow
<1>1. ASSUME IInv, [Next]_vars, NEW i \in Item, item[i] # NoThread,
             item'[i] = NoThread, NEW e \in In(item[i])
      PROVE  row'[e] = NoRow
  <2>1. CASE CollapseReplays
    <3>1. PICK removed, affected :
            /\ \A d \in Event : row'[d] = IF d \in removed THEN NoRow
                                                           ELSE row[d]
            /\ item'[i] = IF item[i] \in Emptied(affected, removed)
                          THEN NoThread ELSE item[i]
      BY <1>1, <2>1, CollapseStep
    <3>2. item[i] \in Emptied(affected, removed)
      BY <1>1, <3>1
    <3>3. e \in removed /\ e \in Event
      BY <3>2 DEF Emptied, In
    <3> QED
      BY <3>1, <3>3
  <2>2. CASE MergeMessengerThreads
    <3>1. item[i] \in Thread /\ item'[i] = Into(item[i])
      BY <1>1, <2>2 DEF MergeMessengerThreads, NewCard, Moved, IInv, TypeOK
    <3>2. item'[i] \in Thread
      BY <3>1, MergeTargets
    <3> QED
      BY <1>1, <3>2, StoreAssumption
  <2>3. ASSUME NEW t \in Thread, NEW j \in Item, AddItem(j, t)
        PROVE  row'[e] = NoRow
    BY <1>1, <2>3, StoreAssumption DEF AddItem, IInv, TypeOK
  <2>4. CASE UNCHANGED item
    BY <1>1, <2>4
  <2>5. CASE \/ Start \/ ReclassifyMessengerCards \/ NormalizeLineIdentities
             \/ SyncTimestamps \/ Serve \/ Stop
    BY <2>4, <2>5 DEF Start, ReclassifyMessengerCards, NormalizeLineIdentities,
                      SyncTimestamps, Serve, Stop, store
  <2>6. ASSUME NEW f \in Event, Receive(f) PROVE row'[e] = NoRow
    BY <2>4, <2>6 DEF Receive
  <2>7. ASSUME NEW t \in Thread,
               AnalyzeRepairedLine(t) \/ AnalyzeMerged(t) \/ CloseCard(t)
        PROVE  row'[e] = NoRow
    BY <2>4, <2>7 DEF AnalyzeRepairedLine, AnalyzeMerged, CloseCard
  <2> QED
    BY <1>1, <2>1, <2>2, <2>3, <2>4, <2>5, <2>6, <2>7
       DEF Next, Repair, vars, store
<1>2. IInv /\ [Next]_vars =>
        [\A i \in Item : item[i] # NoThread /\ item'[i] = NoThread =>
         \A e \in In(item[i]) : row'[e] = NoRow]_vars
  BY <1>1
<1> QED
  BY <1>2, Inductive, PTL DEF Spec, ItemsFollow

\* Each repair hands over to the next; none ends the start.
LEMMA RepairPhases ==
    /\ ReclassifyMessengerCards => phase' = "collapse"
    /\ CollapseReplays => phase' = "normalize"
    /\ NormalizeLineIdentities => phase' = "merge"
    /\ MergeMessengerThreads => phase' = "analyze line"
<1>1. ReclassifyMessengerCards => phase' = "collapse"
  BY DEF ReclassifyMessengerCards, After
<1>2. CollapseReplays => phase' = "normalize"
  BY DEF CollapseReplays, After
<1>3. NormalizeLineIdentities => phase' = "merge"
  BY DEF NormalizeLineIdentities, After
<1>4. MergeMessengerThreads => phase' = "analyze line"
  <2> SUFFICES ASSUME MergeMessengerThreads PROVE phase' = "analyze line"
    OBVIOUS
  <2>1. phase = "merge" /\ phase' = After[phase]
    BY DEF MergeMessengerThreads
  <2> QED
    BY <2>1 DEF After
<1> QED
  BY <1>1, <1>2, <1>3, <1>4

\* The last step of a start finds every LINE card with the time of its latest
\* message.
THEOREM TimesKept == Spec => LineTimesKept
<1>1. ASSUME IInv, [Next]_vars, phase # "serving", phase' = "serving"
      PROVE  \A t \in Thread : CardExists(t) /\ thread[t].source = "line"
                                 => ~ card[t].fresh
  <2>1. phase = "analyze merged"
    <3>1. CASE Start \/ Stop \/ SyncTimestamps
      BY <1>1, <3>1 DEF Start, Stop, SyncTimestamps
    <3>2. CASE Serve
      BY <3>2 DEF Serve
    <3>3. CASE ReclassifyMessengerCards \/ CollapseReplays
      BY <1>1, <3>3, RepairPhases
    <3>4. CASE NormalizeLineIdentities \/ MergeMessengerThreads
      BY <1>1, <3>4, RepairPhases
    <3>5. ASSUME NEW t \in Thread,
                 \/ AnalyzeRepairedLine(t) \/ AnalyzeMerged(t) \/ CloseCard(t)
                 \/ \E i \in Item : AddItem(i, t)
          PROVE  FALSE
      BY <1>1, <3>5 DEF AnalyzeRepairedLine, AnalyzeMerged, CloseCard, AddItem
    <3>6. ASSUME NEW e \in Event, Receive(e) PROVE FALSE
      BY <1>1, <3>6 DEF Receive
    <3>7. CASE UNCHANGED vars
      BY <1>1, <3>7 DEF vars, start
    <3> QED
      BY <1>1, <3>1, <3>2, <3>3, <3>4, <3>5, <3>6, <3>7 DEF Next, Repair
  <2> QED
    BY <1>1, <2>1 DEF IInv, SyncedInv
<1>2. IInv /\ [Next]_vars =>
        [phase # "serving" /\ phase' = "serving" =>
         \A t \in Thread : CardExists(t) /\ thread[t].source = "line"
                             => ~ card[t].fresh]_vars
  BY <1>1
<1> QED
  BY <1>2, Inductive, PTL DEF Spec, LineTimesKept
\* A chat gets a second thread when browser toasts are reclassified, and keeps
\* two after the merge only where its newest thread has no card: no live
\* message, analysis or other repair makes one.
THEOREM ChatsMerged == Spec => OneThreadPerChat
<1>1. ASSUME IInv, Next, NEW l \in Label,
             Cardinality(SameChat(l)') > 1, phase # "reclassify"
      PROVE  /\ Cardinality(SameChat(l)) > 1
             /\ phase = "merge" /\ phase' # "down" => ~ CardExists(Canonical(l))
  <2> DEFINE same == SameChat(l)
  <2>0. \A t \in same' : /\ t \in Thread /\ thread'[t] # NoRow
                         /\ thread'[t].source = "messenger"
                         /\ thread'[t].conv = l
    BY NoRowFacts DEF SameChat
  <2>1. ASSUME \A t \in same' : thread'[t] = thread[t]
        PROVE  same' \subseteq same /\ Cardinality(SameChat(l)) > 1
    <3>1. same' \subseteq same
      BY <2>0, <2>1 DEF SameChat
    <3>2. PICK S : S = SameChat(l)'
      OBVIOUS
    <3> QED
      BY <1>1, <3>1, <3>2, SmallerChat
  <2>2. CASE MergeMessengerThreads
    <3>1. \A t \in same' : thread'[t] = thread[t] /\ Into(t) = t
      <4> SUFFICES ASSUME NEW t \in same'
                   PROVE  thread'[t] = thread[t] /\ Into(t) = t
        OBVIOUS
      <4>1. t \in Thread /\ thread'[t] # NoRow
        BY <2>0
      <4> QED
        BY <2>2, <4>1 DEF MergeMessengerThreads
    <3>2. same' \subseteq same /\ Cardinality(SameChat(l)) > 1
      BY <2>1, <3>1
    <3>3. ASSUME CardExists(Canonical(l)) PROVE FALSE
      <4>1. l \in MergedChats
        BY <3>2, <3>3 DEF MergedChats
      <4>2. \A t \in same' : t = Canonical(l)
        <5> SUFFICES ASSUME NEW t \in same' PROVE t = Canonical(l)
          OBVIOUS
        <5>1. t \in SameChat(l) /\ Into(t) = t
          BY <3>1, <3>2
        <5>2. thread[t].conv = l
          BY <5>1 DEF SameChat
        <5> QED
          BY <4>1, <5>1, <5>2 DEF Into
      <4>3. PICK S, x : S = SameChat(l)' /\ x = Canonical(l)
        OBVIOUS
      <4>4. S \in SUBSET {x}
        BY <4>2, <4>3
      <4> QED
        BY <1>1, <4>3, <4>4, AtMostOne
    <3> QED
      BY <3>2, <3>3
  <2>3. ASSUME NEW e \in Event, Receive(e)
        PROVE  phase = "serving" /\ Cardinality(SameChat(l)) > 1
    <3>1. phase = "serving"
      BY <2>3 DEF Receive
    <3>2. CASE UNCHANGED thread
      BY <2>1, <3>1, <3>2
    <3>3. PICK t \in Thread : t = ThreadFor(e)
      BY ThreadForType
    <3>4. CASE /\ thread' = [thread EXCEPT ![t] = IF ThreadExists(t) THEN @
                                                  ELSE NewRow(e)]
      <4>1. \A u \in Thread \ {t} : thread'[u] = thread[u]
        BY <1>1, <3>4 DEF IInv, TypeOK
      <4>2. CASE ThreadExists(t)
        <5>1. thread'[t] = thread[t]
          BY <1>1, <3>4, <4>2 DEF IInv, TypeOK
        <5> QED
          BY <2>0, <2>1, <3>1, <4>1, <5>1
      <4>3. CASE ~ ThreadExists(t)
        <5>1. thread'[t] = NewRow(e) /\ thread[t] = NoRow
          BY <1>1, <3>4, <4>3 DEF IInv, TypeOK, ThreadExists
        <5>2. CASE t \notin same'
          BY <2>0, <2>1, <3>1, <4>1, <5>2
        <5>3. CASE t \in same'
          <6>1. NewRow(e).source = "messenger" /\ NewRow(e).conv = l
            BY <2>0, <5>1, <5>3
          <6>2. SameChat(l) = {}
            <7> DEFINE group == {u \in Thread :
                                   /\ thread[u].source = NewRow(e).source
                                   /\ thread[u].conv = NewRow(e).conv}
                       newest == CHOOSE u \in group :
                                    \A v \in group \ {u} : ~ Newer(v, u)
            <7>1. group = SameChat(l)
              BY <6>1 DEF SameChat
            <7>2. SUFFICES ASSUME group # {} PROVE FALSE
              BY <7>1
            <7>3. \E u \in group : \A v \in group \ {u} : ~ Newer(v, u)
              BY <7>2, NewestExists
            <7>4. newest \in group
              BY <7>3
            <7>5. t = newest
              BY <3>3, <7>2 DEF ThreadFor
            <7>6. thread[t].source = NewRow(e).source
              BY <7>4, <7>5
            <7> QED
              BY <5>1, <6>1, <7>6, NoRowFacts
          <6>3. \A u \in same' : u = t
            BY <2>0, <4>1, <6>2 DEF SameChat
          <6>4. PICK S : S = SameChat(l)'
            OBVIOUS
          <6>5. S \in SUBSET {t}
            BY <6>3, <6>4
          <6> QED
            BY <1>1, <6>4, <6>5, AtMostOne
        <5> QED
          BY <5>2, <5>3
      <4> QED
        BY <4>2, <4>3
    <3> QED
      BY <2>3, <3>2, <3>3, <3>4 DEF Receive
  <2>4. CASE CollapseReplays
    <3>1. PICK emptied : \A t \in Thread :
             thread'[t] = IF t \in emptied THEN NoRow ELSE thread[t]
      BY <1>1, <2>4, CollapseStep
    <3>2. \A t \in same' : thread'[t] = thread[t]
      BY <2>0, <3>1
    <3> QED
      BY <2>1, <2>4, <3>2 DEF CollapseReplays
  <2>5. CASE NormalizeLineIdentities
    <3>1. \A t \in repaired' : thread'[t].source = "line"
      BY <1>1, <2>5, NormalizeInv DEF IInv, ListInv
    <3>2. \A t \in Thread \ repaired' : thread'[t] = thread[t]
      BY <2>5 DEF NormalizeLineIdentities
    <3>3. \A t \in same' : thread'[t] = thread[t]
      BY <2>0, <3>1, <3>2
    <3> QED
      BY <2>1, <2>5, <3>3 DEF NormalizeLineIdentities
  <2>6. CASE UNCHANGED thread /\ (phase = "merge" => phase' = "down")
    <3>1. Cardinality(SameChat(l)) > 1
      BY <2>1, <2>6
    <3> QED
      BY <2>6, <3>1
  <2>7. CASE Start \/ SyncTimestamps \/ Serve \/ Stop
    BY <2>6, <2>7 DEF Start, SyncTimestamps, Serve, Stop, store
  <2>8. ASSUME NEW t \in Thread,
               \/ AnalyzeRepairedLine(t) \/ AnalyzeMerged(t) \/ CloseCard(t)
               \/ \E i \in Item : AddItem(i, t)
        PROVE  UNCHANGED thread /\ phase # "merge"
    BY <2>8 DEF AnalyzeRepairedLine, AnalyzeMerged, CloseCard, AddItem
  <2>9. CASE ReclassifyMessengerCards
    BY <1>1, <2>9 DEF ReclassifyMessengerCards
  <2>10. ASSUME NEW e \in Event, Receive(e)
         PROVE  /\ Cardinality(SameChat(l)) > 1
                /\ phase = "merge" /\ phase' # "down"
                     => ~ CardExists(Canonical(l))
    BY <2>3, <2>10
  <2> QED
    BY <1>1, <2>2, <2>4, <2>5, <2>6, <2>7, <2>8, <2>9, <2>10 DEF Next, Repair
<1>2. IInv /\ [Next]_vars =>
        [\A l \in Label : Cardinality(SameChat(l)') > 1 =>
         \/ phase = "reclassify"
         \/ /\ Cardinality(SameChat(l)) > 1
            /\ phase = "merge" /\ phase' # "down"
                 => ~ CardExists(Canonical(l))]_vars
  BY <1>1
<1> QED
  BY <1>2, Inductive, PTL DEF Spec, OneThreadPerChat
=============================================================================
