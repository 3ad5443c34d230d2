--------------------------- MODULE CardDeskProofs ---------------------------
(***************************************************************************)
(* Theorems of AttentionPolicy and CardDesk, for every set of cards,       *)
(* messages, model answers, rules and settings.  Where a theorem needs the *)
(* thresholds to be what configs/agent.yaml makes them, its hypothesis     *)
(* says how much of that it needs.                                         *)
(***************************************************************************)
EXTENDS CardDesk, FiniteSetTheorems, TLAPS

-----------------------------------------------------------------------------
(* The policy.                                                             *)

\* What decide gets from the other stages.
PolicyInput(triage, preference, state) ==
    /\ triage \in Triage
    /\ preference \in 0..100
    /\ state.recent \in Nat
    /\ state.quiet \in BOOLEAN
    /\ state.focus \in BOOLEAN

LEMMA FlagsFinite == IsFiniteSet(Flags)
<1> DEFINE A == {} \cup {"incomplete_preview"} \cup {"truncated_content"}
                \cup {"ambiguous_sender"} \cup {"ambiguous_deadline"}
           B == {"missing_context"} \cup {"source_resolution_uncertain"}
                \cup {"conflicting_information"}
<1>1. IsFiniteSet(A)
  BY FS_EmptySet, FS_Singleton, FS_Union
<1>2. IsFiniteSet(B)
  BY FS_Singleton, FS_Union
<1>3. Flags = A \cup B
  BY DEF Flags
<1> QED
  BY <1>1, <1>2, <1>3, FS_Union

LEMMA PenaltyRange ==
    ASSUME NEW flags \in SUBSET Flags
    PROVE  Penalty(flags) \in Int /\ Penalty(flags) >= 0
<1>1. Cardinality(flags) \in Nat
  BY FlagsFinite, FS_Subset, FS_CardinalityType
<1> QED
  BY <1>1 DEF Penalty

LEMMA PriorityScoreRange ==
    ASSUME NEW priority \in Priorities
    PROVE  /\ PriorityScore(priority) \in Int
           /\ priority \notin {"urgent", "high"} => PriorityScore(priority) =< 3800
           /\ priority = "unknown" => PriorityScore(priority) = 2200
  BY DEF Priorities, PriorityScore

\* A score is an integer of the bonuses' making.
LEMMA RawScoreBound ==
    ASSUME NEW triage \in Triage, NEW signals, NEW preference \in 0..100
    PROVE  /\ RawScore(triage, signals, preference) \in Int
           /\ RawScore(triage, signals, preference) =<
                PriorityScore(triage.priority) + 1100
                + Bonus(triage.reply = "yes", 1400)
                + Bonus(triage.deadline, 1200)
                + Bonus(signals.vip, 1600)
<1> DEFINE s == PriorityScore(triage.priority)
           r == Bonus(triage.reply = "yes", 1400)
           d == Bonus(triage.deadline, 1200)
           v == Bonus(signals.vip, 1600)
           p == Penalty(triage.flags)
           q == (preference - NoPreference) * 22
<1>0. triage.priority \in Priorities /\ triage.flags \in SUBSET Flags
  BY DEF Triage
<1>1. s \in Int
  BY <1>0, PriorityScoreRange
<1>2. r \in Int /\ d \in Int /\ v \in Int
  BY DEF Bonus
<1>3. p \in Int /\ p >= 0
  BY <1>0, PenaltyRange
<1>4. q \in Int /\ q =< 1100
  BY DEF NoPreference
<1>5. RawScore(triage, signals, preference) = s + r + d + v - p + q
  BY DEF RawScore
<1> HIDE DEF s, r, d, v, p, q
<1>6. /\ s + r + d + v - p + q \in Int
      /\ s + r + d + v - p + q =< s + 1100 + r + d + v
  BY <1>1, <1>2, <1>3, <1>4
<1> QED
  BY <1>5, <1>6 DEF s, r, d, v

LEMMA ScoreBound ==
    ASSUME NEW triage \in Triage, NEW signals, NEW preference \in 0..100,
           NEW quiet \in BOOLEAN
    PROVE  /\ Score(triage, signals, preference, quiet) \in Int
           /\ Score(triage, signals, preference, quiet) =<
                AtLeast0(RawScore(triage, signals, preference))
           /\ quiet /\ ~Override(triage, signals) =>
                Score(triage, signals, preference, quiet) =< 6500
<1> DEFINE raw == RawScore(triage, signals, preference)
<1>1. raw \in Int
  BY RawScoreBound
<1> HIDE DEF raw
<1> QED
  BY <1>1 DEF Score, Clamp, AtLeast0, raw

\* A decision to surface needs the score, and in quiet hours or over the
\* budget a threshold above 0.65 leaves no other way than the override.
THEOREM OverrideNeeded ==
    ASSUME SurfaceThreshold > 6500,
           NEW triage, NEW signals, NEW preference, NEW state,
           PolicyInput(triage, preference, state),
           Decide(triage, signals, preference, state) = "surface_now",
           state.quiet \/ state.recent >= MaxPerHour
    PROVE  Override(triage, signals)
<1> SUFFICES ASSUME ~Override(triage, signals) PROVE FALSE
  OBVIOUS
<1> DEFINE score == Score(triage, signals, preference, state.quiet)
<1>0. /\ triage \in Triage /\ preference \in 0..100
      /\ state.quiet \in BOOLEAN /\ state.focus \in BOOLEAN
  BY DEF PolicyInput
<1>1. score \in Int /\ (state.quiet => score =< 6500)
  BY <1>0, ScoreBound
<1>2. Route(score, triage, state.focus) = "surface_now"
  BY DEF Decide
<1>3. score >= Threshold(state.focus)
  BY <1>2 DEF Route
<1>4. Threshold(state.focus) \in Int /\ Threshold(state.focus) > 6500
  BY ThresholdAssumption DEF Threshold, Bonus
<1>5. ~state.quiet
  BY <1>1, <1>3, <1>4
<1>6. state.recent >= MaxPerHour
  BY <1>5
<1> QED
  BY <1>6 DEF Decide

\* Without a VIP rule, a triage that is neither urgent nor high stays below
\* any threshold above 0.75, however the user liked its kind in the past.
THEOREM OrdinaryIsQuiet ==
    ASSUME SurfaceThreshold > 7500,
           NEW triage, NEW signals, NEW preference, NEW state,
           PolicyInput(triage, preference, state),
           Decide(triage, signals, preference, state) = "surface_now",
           ~signals.vip
    PROVE  triage.priority \in {"urgent", "high"}
<1> SUFFICES ASSUME triage.priority \notin {"urgent", "high"} PROVE FALSE
  OBVIOUS
<1> DEFINE score == Score(triage, signals, preference, state.quiet)
           raw == RawScore(triage, signals, preference)
<1>1. PriorityScore(triage.priority) \in Int /\ PriorityScore(triage.priority) =< 3800
  BY PriorityScoreRange DEF PolicyInput, Triage
<1>2. raw \in Int /\ raw =< 7500
  <2>1. /\ raw \in Int
        /\ raw =< PriorityScore(triage.priority) + 1100
                  + Bonus(triage.reply = "yes", 1400)
                  + Bonus(triage.deadline, 1200) + Bonus(signals.vip, 1600)
    BY RawScoreBound DEF PolicyInput
  <2>2. /\ Bonus(triage.reply = "yes", 1400) \in {0, 1400}
        /\ Bonus(triage.deadline, 1200) \in {0, 1200}
        /\ Bonus(signals.vip, 1600) = 0
    BY DEF Bonus
  <2> HIDE DEF raw
  <2> QED
    BY <1>1, <2>1, <2>2
<1>3. score \in Int /\ score =< 7500
  <2>1. score \in Int /\ score =< AtLeast0(raw)
    BY ScoreBound DEF PolicyInput
  <2> HIDE DEF raw, score
  <2> QED
    BY <1>2, <2>1 DEF AtLeast0
<1>4. score >= Threshold(state.focus)
  BY DEF Decide, Route
<1>5. Threshold(state.focus) \in Int /\ Threshold(state.focus) > 7500
  BY ThresholdAssumption DEF Threshold, Bonus
<1> HIDE DEF score
<1> QED
  BY <1>3, <1>4, <1>5

\* What the validator makes of bare metadata never reaches a threshold above
\* 0.49, whoever sent it.
THEOREM BareIsQuiet ==
    ASSUME SurfaceThreshold > 4900,
           NEW triage, NEW signals, NEW preference, NEW state,
           PolicyInput(triage, preference, state),
           triage.priority = "unknown", triage.reply = "unknown",
           ~triage.deadline
    PROVE  Decide(triage, signals, preference, state) # "surface_now"
<1> SUFFICES ASSUME Decide(triage, signals, preference, state) = "surface_now"
             PROVE FALSE
  OBVIOUS
<1> DEFINE score == Score(triage, signals, preference, state.quiet)
           raw == RawScore(triage, signals, preference)
<1>1. PriorityScore(triage.priority) = 2200
  BY PriorityScoreRange DEF PolicyInput, Triage
<1>2. raw \in Int /\ raw =< 4900
  <2>1. /\ raw \in Int
        /\ raw =< PriorityScore(triage.priority) + 1100
                  + Bonus(triage.reply = "yes", 1400)
                  + Bonus(triage.deadline, 1200) + Bonus(signals.vip, 1600)
    BY RawScoreBound DEF PolicyInput
  <2>2. /\ Bonus(triage.reply = "yes", 1400) = 0
        /\ Bonus(triage.deadline, 1200) = 0
        /\ Bonus(signals.vip, 1600) \in {0, 1600}
    BY DEF Bonus
  <2> HIDE DEF raw
  <2> QED
    BY <1>1, <2>1, <2>2
<1>3. score \in Int /\ score =< 4900
  <2>1. score \in Int /\ score =< AtLeast0(raw)
    BY ScoreBound DEF PolicyInput
  <2> HIDE DEF raw, score
  <2> QED
    BY <1>2, <2>1 DEF AtLeast0
<1>4. score >= Threshold(state.focus)
  BY DEF Decide, Route
<1>5. Threshold(state.focus) \in Int /\ Threshold(state.focus) > 4900
  BY ThresholdAssumption DEF Threshold, Bonus
<1> HIDE DEF score
<1> QED
  BY <1>3, <1>4, <1>5

\* Quiet hours, focus mode, shadow mode and a spent budget only ever silence:
\* what surfaces under them surfaces without them too.
THEOREM SettingsOnlySilence ==
    ASSUME NEW triage, NEW signals, NEW preference, NEW state, NEW calm,
           PolicyInput(triage, preference, state),
           PolicyInput(triage, preference, calm),
           Decide(triage, signals, preference, state) = "surface_now",
           calm.quiet => state.quiet, calm.focus => state.focus,
           calm.shadow => state.shadow, calm.recent =< state.recent
    PROVE  Decide(triage, signals, preference, calm) = "surface_now"
<1> DEFINE raw == RawScore(triage, signals, preference)
           before == Score(triage, signals, preference, state.quiet)
           after == Score(triage, signals, preference, calm.quiet)
<1>1. raw \in Int
  BY RawScoreBound DEF PolicyInput
<1>2. before \in Int /\ after \in Int /\ before =< after
  <2> HIDE DEF raw
  <2> QED
    BY <1>1 DEF PolicyInput, Score, Clamp, AtLeast0, raw
<1>3. before >= Threshold(state.focus)
  BY DEF Decide, Route
<1>4. /\ Threshold(state.focus) \in Int /\ Threshold(calm.focus) \in Int
      /\ Threshold(calm.focus) =< Threshold(state.focus)
  BY ThresholdAssumption DEF Threshold, Bonus, PolicyInput
<1>5. after >= Threshold(calm.focus)
  <2> HIDE DEF before, after
  <2> QED
    BY <1>2, <1>3, <1>4
<1>6. Route(after, triage, calm.focus) = "surface_now"
  BY <1>5 DEF Route
<1>7. ~(calm.recent >= MaxPerHour /\ ~Override(triage, signals))
  <2>1. ~(state.recent >= MaxPerHour /\ ~Override(triage, signals))
    BY DEF Decide
  <2> QED
    BY <2>1, ThresholdAssumption DEF PolicyInput
<1>8. ~signals.noise /\ ~signals.muted /\ ~state.shadow
  BY DEF Decide
<1> HIDE DEF after
<1> QED
  BY <1>6, <1>7, <1>8 DEF Decide, after

\* The quiet interval and the interval from its end to its start divide the
\* day, across midnight too, unless both are empty.
THEOREM QuietHoursSplitTheDay ==
    ASSUME NEW now \in Nat, NEW start \in Nat, NEW end \in Nat, start # end
    PROVE  InQuietHours(now, start, end) <=> ~InQuietHours(now, end, start)
  BY DEF InQuietHours

-----------------------------------------------------------------------------
(* From the message to the triage.                                         *)

LEMMA SignalsOf ==
    ASSUME NEW m, NEW R
    PROVE  /\ Signals(m, R).vip = Vip(m, R)
           /\ Signals(m, R).muted = Muted(m, R)
           /\ Signals(m, R).category = "security" => "security" \in m.text
           /\ Signals(m, R).explicit_urgency => "urgent" \in m.text
           /\ Signals(m, R).priority \in Priorities
           /\ Signals(m, R).reply \in Replies
  BY DEF Signals, Category, RulePriority, RuleReply, Priorities, Replies

LEMMA VerifiedType ==
    ASSUME NEW m \in Message, NEW proposal \in Proposal, NEW R
    PROVE  Verified(proposal, m, Signals(m, R)) \in Triage
<1> DEFINE signals == Signals(m, R)
           base == Baseline(m, signals)
           chosen == IF proposal.usable THEN proposal ELSE base
<1>1. signals.priority \in Priorities /\ signals.reply \in Replies
  BY SignalsOf
<1>2. m.marks \subseteq Flags /\ PreviewFlag(m) \subseteq Flags
  BY InputAssumption DEF PreviewFlag, Flags
<1>3. base \in Triage
  <2>1. base.flags \in SUBSET Flags
    BY <1>2 DEF Baseline, Flags
  <2> HIDE DEF signals
  <2> QED
    BY <1>1, <2>1 DEF Triage, Baseline
<1>4. chosen \in Triage
  BY <1>3, InputAssumption
<1> HIDE DEF signals, base, chosen
<1>5. Validate(chosen, m, signals) \in Triage
  BY <1>2, <1>4 DEF Validate, Triage, Priorities, Replies, Flags
<1> QED
  BY <1>5 DEF Verified, chosen, base, signals

\* The validator's promise, whatever the model proposed.
LEMMA VerifiedMeaning ==
    ASSUME NEW m \in Message, NEW proposal \in Proposal, NEW R
    PROVE  LET signals == Signals(m, R)
               triage == Verified(proposal, m, signals) IN
           /\ m.completeness = "metadata_only" =>
                /\ triage.priority = "unknown"
                /\ triage.reply = "unknown"
                /\ ~triage.deadline
           /\ IsPreview(m) /\ triage.priority = "urgent" => Evidence(signals)
<1> DEFINE signals == Signals(m, R)
           chosen == IF proposal.usable THEN proposal ELSE Baseline(m, signals)
<1>1. chosen = [usable |-> chosen.usable, priority |-> chosen.priority,
                reply |-> chosen.reply, deadline |-> chosen.deadline,
                flags |-> chosen.flags]
  BY InputAssumption DEF Triage, Baseline
<1> HIDE DEF signals, chosen
<1>2. /\ m.completeness = "metadata_only" =>
           /\ Validate(chosen, m, signals).priority = "unknown"
           /\ Validate(chosen, m, signals).reply = "unknown"
           /\ ~Validate(chosen, m, signals).deadline
      /\ IsPreview(m) /\ Validate(chosen, m, signals).priority = "urgent" =>
           Evidence(signals)
  BY <1>1 DEF Validate
<1> QED
  BY <1>2 DEF Verified, chosen, signals

-----------------------------------------------------------------------------
(* The desk.                                                               *)

\* A snooze that lasts belongs to a snoozed card: this is what makes the two
\* queries of BadgesMatchViews agree.
OpenIsAwake ==
    \A c \in Card : Exists(c) /\ card[c].status = "open" => card[c].until = "none"

DeskInv == TypeOK /\ OpenIsAwake

LEMMA ZeroTypes == 0 \in 0..(Slots - 1) /\ 0 \in 0..MinObservations
<1>1. Slots \in Nat /\ Slots > 0 /\ MinObservations \in Nat
  BY DeskAssumption
<1> QED
  BY <1>1

LEMMA InitDesk == Init => DeskInv
<1>1. InitSettings \in SettingsChoices
  BY DeskAssumption
<1>2. SUFFICES ASSUME Init PROVE DeskInv
  OBVIOUS
<1>3. TypeOK
  BY <1>1, <1>2, ZeroTypes DEF Init, TypeOK
<1>4. OpenIsAwake
  BY <1>2 DEF Init, OpenIsAwake, Exists
<1> QED
  BY <1>3, <1>4 DEF DeskInv

\* What a policy may be asked in a state of the right types.
LEMMA PreferenceType == TypeOK => Preferences \subseteq 0..100
  BY DeskAssumption DEF Preferences, NoPreference

LEMMA AnalyzeDesk ==
    ASSUME DeskInv, NEW c \in Card, NEW m \in Message, NEW p \in Proposal,
           NEW score \in Preferences, Analyze(c, m, p, score)
    PROVE  DeskInv'
<1> DEFINE signals == Signals(m, Live)
           triage == Verified(p, m, signals)
           decision == Decide(triage, signals, score, Policy)
           row == Row(c, m, triage, decision)
<1>1. triage \in Triage
  BY VerifiedType
<1>2. decision \in Routes
  BY DEF Decide, Route, Routes
<1>3. DisplayMode(decision) \in Modes
  <2> HIDE DEF decision
  <2> QED
    BY <1>2 DEF Routes, Modes, DisplayMode
<1>4. row \in CardRow
  <2>1. /\ triage.priority \in Priorities
        /\ triage.reply \in Replies
    BY <1>1 DEF Triage
  <2>2. Exists(c) => card[c].status \in Statuses
                     /\ card[c].until \in {"none", "future", "past"}
    BY DEF DeskInv, TypeOK, Exists, CardRow
  <2> HIDE DEF triage, decision
  <2> QED
    BY <1>3, <2>1, <2>2 DEF Row, CardRow, Statuses
<1>5. row.status = "open" => row.until = "none"
  BY DEF Row, DeskInv, OpenIsAwake
<1>6. /\ card' = [card EXCEPT ![c] = row]
      /\ announced' = [card |-> c, decision |-> decision]
      /\ interruption' =
           IF decision = "surface_now" /\ interruption[c] = "none"
           THEN [interruption EXCEPT ![c] = "recent"] ELSE interruption
      /\ UNCHANGED <<slot, settings, rules, observed, trained>>
  BY DEF Analyze
<1> HIDE DEF row, decision
<1>7. TypeOK'
  BY <1>2, <1>4, <1>6 DEF DeskInv, TypeOK
<1>8. OpenIsAwake'
  BY <1>5, <1>6 DEF DeskInv, TypeOK, OpenIsAwake, Exists
<1> QED
  BY <1>7, <1>8 DEF DeskInv

LEMMA StatusDesk ==
    ASSUME DeskInv, NEW c \in Card, Exists(c), NEW status \in Statuses,
           NEW until \in {"none", "future", "past"},
           status = "open" => until = "none",
           UpdateCardStatus(c, status, until)
    PROVE  /\ card' \in [Card -> CardRow \cup {NoCard}]
           /\ OpenIsAwake'
<1>1. [card[c] EXCEPT !.status = status, !.until = until] \in CardRow
  BY DEF DeskInv, TypeOK, Exists, CardRow
<1>2. card' = [card EXCEPT ![c] = [card[c] EXCEPT !.status = status,
                                                  !.until = until]]
  BY DEF UpdateCardStatus, DeskInv, TypeOK
<1> QED
  BY <1>1, <1>2 DEF DeskInv, TypeOK, OpenIsAwake, Exists, CardRow

LEMMA ObserveType ==
    ASSUME TypeOK, Observe
    PROVE  observed' \in 0..MinObservations /\ trained' \in BOOLEAN
<1>1. MinObservations \in Nat
  BY DeskAssumption
<1>2. observed \in Nat /\ observed =< MinObservations /\ trained \in BOOLEAN
  BY <1>1 DEF TypeOK
<1>3. observed' \in Nat /\ observed' =< MinObservations
  BY <1>1, <1>2 DEF Observe
<1>4. observed' \in 0..MinObservations
  BY <1>1, <1>3
<1>5. trained' = trained \/ trained' = TRUE
  BY DEF Observe
<1> QED
  BY <1>2, <1>4, <1>5

LEMMA NextDesk == DeskInv /\ [Next]_vars => DeskInv'
<1> SUFFICES ASSUME DeskInv, [Next]_vars PROVE DeskInv'
  OBVIOUS
<1> USE DEF DeskInv
<1>1. CASE \E c \in Card, m \in Message, p \in Proposal, score \in Preferences :
             Analyze(c, m, p, score)
  BY <1>1, AnalyzeDesk
<1>2. ASSUME NEW c \in Card, OpenSource(c) PROVE DeskInv'
  BY <1>2, ObserveType DEF OpenSource, TypeOK, OpenIsAwake, Exists
<1>3. ASSUME NEW c \in Card, Snooze(c) PROVE DeskInv'
  <2>1. PICK until \in {"future", "past"} : UpdateCardStatus(c, "snoozed", until)
    BY <1>3 DEF Snooze
  <2>2. card' \in [Card -> CardRow \cup {NoCard}] /\ OpenIsAwake'
    BY <1>3, <2>1, StatusDesk DEF Snooze, Statuses
  <2> QED
    BY <1>3, <2>2, ObserveType DEF Snooze, TypeOK
<1>4. ASSUME NEW c \in Card, NEW status \in {"done", "dismissed"}, Close(c, status)
      PROVE  DeskInv'
  <2>1. card' \in [Card -> CardRow \cup {NoCard}] /\ OpenIsAwake'
    BY <1>4, StatusDesk DEF Close, Statuses
  <2> QED
    BY <1>4, <2>1, ObserveType DEF Close, TypeOK
<1>5. ASSUME NEW c \in Card, NEW kind \in {"vip_sender", "mute_sender"},
             MarkSender(c, kind)
      PROVE  DeskInv'
  <2>0. card[c].about \in Message
    BY <1>5 DEF MarkSender, Exists, TypeOK, CardRow
  <2>1. [kind |-> kind, pattern |-> card[c].about.sender] \in SenderRules
    BY <2>0 DEF SenderRules
  <2>2. rules' \in [RuleId -> RuleChoices \cup SenderRules \cup {NoRule}]
    BY <1>5, <2>1 DEF MarkSender, AddRule, TypeOK
  <2> QED
    BY <1>5, <2>2, ObserveType DEF MarkSender, TypeOK, OpenIsAwake, Exists
<1>6. ASSUME NEW rule \in RuleChoices, CreateRule(rule) PROVE DeskInv'
  BY <1>6 DEF CreateRule, AddRule, TypeOK, OpenIsAwake, Exists
<1>7. ASSUME NEW i \in RuleId, DeleteRule(i) PROVE DeskInv'
  BY <1>7 DEF DeleteRule, TypeOK, OpenIsAwake, Exists
<1>8. ASSUME NEW s \in SettingsChoices, UpdateSettings(s) PROVE DeskInv'
  BY <1>8 DEF UpdateSettings, TypeOK, OpenIsAwake, Exists
<1>9. CASE ResetPreferences
  BY <1>9, ZeroTypes DEF ResetPreferences, TypeOK, OpenIsAwake, Exists
<1>10. CASE Tick
  <2>1. PICK over \in SUBSET {c \in Existing : card[c].until = "future"} :
          card' = [c \in Card |-> IF c \in over
                                  THEN [card[c] EXCEPT !.until = "past"]
                                  ELSE card[c]]
    BY <1>10 DEF Tick
  <2>2. \A c \in over : /\ [card[c] EXCEPT !.until = "past"] \in CardRow
                        /\ card[c].status # "open"
    BY DEF Existing, Exists, TypeOK, CardRow, OpenIsAwake
  <2>3. \A c \in over : [card[c] EXCEPT !.until = "past"].status # "open"
    BY <2>2 DEF CardRow
  <2>4. card' \in [Card -> CardRow \cup {NoCard}]
    BY <2>1, <2>2 DEF TypeOK
  <2>5. OpenIsAwake'
    BY <2>1, <2>3 DEF OpenIsAwake, Exists
  <2>6. slot' \in 0..(Slots - 1)
    BY <1>10, DeskAssumption DEF Tick, TypeOK
  <2>7. interruption' \in [Card -> {"none", "recent", "old"}]
    BY <1>10 DEF Tick, TypeOK
  <2> QED
    BY <1>10, <2>4, <2>5, <2>6, <2>7 DEF Tick, TypeOK
<1>11. ASSUME NEW c \in Card, Retire(c) PROVE DeskInv'
  BY <1>11 DEF Retire, TypeOK, OpenIsAwake, Exists
<1>12. CASE DeleteAllData
  <2>1. TypeOK'
    BY <1>12, ZeroTypes DEF DeleteAllData, TypeOK
  <2> QED
    BY <1>12, <2>1 DEF DeleteAllData, OpenIsAwake, Exists
<1>13. CASE UNCHANGED vars
  BY <1>13 DEF vars, TypeOK, OpenIsAwake, Exists
<1> QED
  BY <1>1, <1>2, <1>3, <1>4, <1>5, <1>6, <1>7, <1>8, <1>9, <1>10, <1>11,
     <1>12, <1>13 DEF Next, Perform

\* Every reachable state of the desk is of the right types.
THEOREM TypeCorrect == Spec => []TypeOK
<1>1. DeskInv => TypeOK
  BY DEF DeskInv
<1> QED
  BY <1>1, InitDesk, NextDesk, PTL DEF Spec

\* The rows counts() counts are those list_cards selects, although only
\* list_cards looks at snoozed_until; the badge differs from its list by what
\* the LIMIT cuts off, and by nothing else, for any number of cards.
THEOREM BadgesAgree == Spec => []BadgesMatchViews
<1>1. DeskInv => BadgesMatchViews
  <2> SUFFICES ASSUME DeskInv, NEW view \in {"now", "reply"}
               PROVE  /\ Badge(view) =< ListLimit => Listed(view) = Badge(view)
                      /\ Badge(view) > ListLimit => Listed(view) = ListLimit
    BY DEF BadgesMatchViews
  <2> DEFINE n == Cardinality(Matching(view))
  <2>1. Badge(view) = n
    <3>1. Matching("now") = {c \in Existing : /\ card[c].status = "open"
                                              /\ card[c].mode # "hidden"}
      BY DEF Matching, Open, Visible, Existing, DeskInv, OpenIsAwake
    <3>2. Matching("reply") = {c \in Existing : /\ card[c].status = "open"
                                                /\ card[c].mode # "hidden"
                                                /\ card[c].reply = "yes"}
      BY DEF Matching, Open, Visible, Existing
    <3>3. Matching(view) = {c \in Existing :
                              /\ card[c].status = "open"
                              /\ card[c].mode # "hidden"
                              /\ view = "reply" => card[c].reply = "yes"}
      BY <3>1, <3>2
    <3> QED
      BY <3>3 DEF Badge
  <2>2. n \in Nat /\ ListLimit \in Nat
    <3>1. IsFiniteSet(Matching(view))
      <4>1. Matching(view) \subseteq Card
        BY DEF Matching, Open, Visible, Existing
      <4> QED
        BY <4>1, DeskAssumption, FS_Subset
    <3> QED
      BY <3>1, DeskAssumption, FS_CardinalityType
  <2>3. Listed(view) = IF n < ListLimit THEN n ELSE ListLimit
    BY DEF Listed
  <2> HIDE DEF n
  <2> QED
    BY <2>1, <2>2, <2>3
<1> QED
  BY <1>1, InitDesk, NextDesk, PTL DEF Spec

\* What a step that surfaces a card must be.
LEMMA OnlyAnalysisSurfaces ==
    ASSUME DeskInv, [Next]_vars, NEW c \in Card, announced'.card = c
    PROVE  \/ \E m \in Message, p \in Proposal, score \in Preferences :
                Analyze(c, m, p, score)
           \/ UNCHANGED vars
<1>1. Nothing.card # c
  BY DeskAssumption DEF Nothing
<1>2. announced' # Nothing
  BY <1>1
<1>3. \A d \in Card, m \in Message, p \in Proposal, score \in Preferences :
        Analyze(d, m, p, score) => announced'.card = d
  BY DEF Analyze
<1> QED
  BY <1>2, <1>3 DEF Next, Perform, OpenSource, Snooze, Close, MarkSender,
     CreateRule, DeleteRule, UpdateSettings, ResetPreferences, Tick, Retire,
     DeleteAllData

\* The card an analysis leaves behind, and what the policy knew.
LEMMA AnalyzeEffect ==
    ASSUME DeskInv, NEW c \in Card, NEW m \in Message, NEW p \in Proposal,
           NEW score \in Preferences, Analyze(c, m, p, score)
    PROVE  LET signals == Signals(m, Live)
               triage == Verified(p, m, signals) IN
           /\ card'[c].about = m
           /\ card'[c].priority = triage.priority
           /\ announced' = [card |-> c,
                            decision |-> Decide(triage, signals, score, Policy)]
           /\ Live' = Live
           /\ Quiet' <=> Quiet
           /\ PolicyInput(triage, score, Policy)
<1> DEFINE signals == Signals(m, Live)
           triage == Verified(p, m, signals)
           decision == Decide(triage, signals, score, Policy)
           row == Row(c, m, triage, decision)
<1>1. card' = [card EXCEPT ![c] = row] /\ c \in DOMAIN card
  BY DEF Analyze, DeskInv, TypeOK
<1>2. row.about = m /\ row.priority = triage.priority
  BY DEF Row
<1>3. Live' = Live /\ (Quiet' <=> Quiet)
  BY DEF Analyze, Live, Quiet
<1>4. triage \in Triage /\ score \in 0..100
  BY VerifiedType, PreferenceType DEF DeskInv
<1>5. Policy.recent \in Nat
  <2>1. Recent \subseteq Card
    BY DEF Recent
  <2>2. IsFiniteSet(Recent)
    BY <2>1, DeskAssumption, FS_Subset
  <2> QED
    BY <2>2, FS_CardinalityType DEF Policy
<1>6. Policy.quiet \in BOOLEAN /\ Policy.focus \in BOOLEAN
  BY InputAssumption DEF Policy, Quiet, InQuietHours, DeskInv, TypeOK
<1>7. announced' = [card |-> c, decision |-> decision]
  BY DEF Analyze
<1>8. card'[c].about = m /\ card'[c].priority = triage.priority
  <2> HIDE DEF row
  <2> QED
    BY <1>1, <1>2
<1> QED
  BY <1>3, <1>4, <1>5, <1>6, <1>7, <1>8 DEF PolicyInput

\* Evidence of the rules is a licence in the words of the message.
LEMMA EvidenceLicenses ==
    ASSUME NEW m, Evidence(Signals(m, Live))
    PROVE  Licensed(m)
  BY SignalsOf DEF Evidence, Licensed

LEMMA OverrideLicenses ==
    ASSUME NEW m, NEW triage, Override(triage, Signals(m, Live))
    PROVE  Licensed(m)
  BY SignalsOf DEF Override, Licensed

\* For every message, model answer and preference: nobody is disturbed in
\* quiet hours without a VIP rule or words of urgency or security.  The one
\* thing it needs of the configuration is a threshold above 0.65.
THEOREM NightsQuiet ==
    ASSUME SurfaceThreshold > 6500
    PROVE  Spec => []NightIsQuiet
<1>1. Init => NightIsQuiet
  BY DEF Init, NightIsQuiet, Surfaced, Nothing
<1>2. DeskInv /\ NightIsQuiet /\ [Next]_vars => NightIsQuiet'
  <2> SUFFICES ASSUME DeskInv, NightIsQuiet, [Next]_vars, NEW c \in Card,
                      Surfaced(c)', Quiet'
               PROVE  Licensed(card[c].about)'
    BY DEF NightIsQuiet
  <2>1. announced'.card = c
    BY DEF Surfaced
  <2>2. CASE UNCHANGED vars
    BY <2>2 DEF vars, NightIsQuiet, Surfaced, Quiet, Licensed, Live
  <2>3. ASSUME NEW m \in Message, NEW p \in Proposal,
               NEW score \in Preferences, Analyze(c, m, p, score)
        PROVE  Licensed(card[c].about)'
    <3> DEFINE signals == Signals(m, Live)
               triage == Verified(p, m, signals)
    <3>1. /\ card'[c].about = m
          /\ announced' = [card |-> c,
                           decision |-> Decide(triage, signals, score, Policy)]
          /\ Live' = Live
          /\ (Quiet' <=> Quiet)
          /\ PolicyInput(triage, score, Policy)
      BY <2>3, AnalyzeEffect
    <3>2. Decide(triage, signals, score, Policy) = "surface_now"
      BY <3>1 DEF Surfaced
    <3>3. Policy.quiet
      BY <3>1 DEF Policy
    <3> HIDE DEF triage
    <3>4. Override(triage, signals)
      BY <3>1, <3>2, <3>3, OverrideNeeded
    <3>5. Licensed(m)
      BY <3>4, OverrideLicenses
    <3> QED
      BY <3>1, <3>5 DEF Licensed
  <2> QED
    BY <2>1, <2>2, <2>3, OnlyAnalysisSurfaces
<1> QED
  BY <1>1, <1>2, InitDesk, NextDesk, PTL DEF Spec

\* The same for the weight: ordinary messages of ordinary senders, and bare
\* metadata of anybody, never disturb.
THEOREM WeightNeeded ==
    ASSUME SurfaceThreshold > 7500
    PROVE  Spec => []SurfaceNeedsWeight
<1>1. Init => SurfaceNeedsWeight
  BY DEF Init, SurfaceNeedsWeight, Surfaced, Nothing
<1>2. DeskInv /\ SurfaceNeedsWeight /\ [Next]_vars => SurfaceNeedsWeight'
  <2> SUFFICES ASSUME DeskInv, SurfaceNeedsWeight, [Next]_vars, NEW c \in Card,
                      Surfaced(c)'
               PROVE  /\ card'[c].about.completeness # "metadata_only"
                      /\ \/ Vip(card'[c].about, Live')
                         \/ card'[c].priority \in {"urgent", "high"}
    BY DEF SurfaceNeedsWeight
  <2>1. announced'.card = c
    BY DEF Surfaced
  <2>2. CASE UNCHANGED vars
    <3>1. Live' = Live /\ card' = card /\ announced' = announced
      BY <2>2 DEF vars, Live
    <3>2. Surfaced(c)
      BY <3>1 DEF Surfaced
    <3> QED
      BY <3>1, <3>2 DEF SurfaceNeedsWeight
  <2>3. ASSUME NEW m \in Message, NEW p \in Proposal,
               NEW score \in Preferences, Analyze(c, m, p, score)
        PROVE  /\ card'[c].about.completeness # "metadata_only"
               /\ \/ Vip(card'[c].about, Live')
                  \/ card'[c].priority \in {"urgent", "high"}
    <3> DEFINE signals == Signals(m, Live)
               triage == Verified(p, m, signals)
    <3>1. /\ card'[c].about = m
          /\ card'[c].priority = triage.priority
          /\ announced' = [card |-> c,
                           decision |-> Decide(triage, signals, score, Policy)]
          /\ Live' = Live
          /\ PolicyInput(triage, score, Policy)
      BY <2>3, AnalyzeEffect
    <3>2. Decide(triage, signals, score, Policy) = "surface_now"
      BY <3>1 DEF Surfaced
    <3>3. m.completeness = "metadata_only" =>
            /\ triage.priority = "unknown"
            /\ triage.reply = "unknown"
            /\ ~triage.deadline
      BY VerifiedMeaning
    <3>4. signals.vip = Vip(m, Live)
      BY SignalsOf
    <3> HIDE DEF triage, signals
    <3>5. SurfaceThreshold > 4900
      BY ThresholdAssumption
    <3>6. m.completeness # "metadata_only"
      BY <3>1, <3>2, <3>3, <3>5, BareIsQuiet
    <3>7. signals.vip \/ triage.priority \in {"urgent", "high"}
      BY <3>1, <3>2, OrdinaryIsQuiet
    <3> QED
      BY <3>1, <3>4, <3>6, <3>7
  <2> QED
    BY <2>1, <2>2, <2>3, OnlyAnalysisSurfaces
<1> QED
  BY <1>1, <1>2, InitDesk, NextDesk, PTL DEF Spec

\* The model cannot make a preview urgent: the rules must have seen why.
THEOREM PreviewsProven == Spec => []PreviewUrgencyProven
<1>1. Init => PreviewUrgencyProven
  BY DeskAssumption DEF Init, PreviewUrgencyProven, Nothing
<1>2. DeskInv /\ PreviewUrgencyProven /\ [Next]_vars => PreviewUrgencyProven'
  <2> SUFFICES ASSUME DeskInv, PreviewUrgencyProven, [Next]_vars,
                      NEW c \in Card, announced'.card = c,
                      IsPreview(card'[c].about), card'[c].priority = "urgent"
               PROVE  Licensed(card[c].about)'
    BY DEF PreviewUrgencyProven
  <2>1. CASE UNCHANGED vars
    BY <2>1 DEF vars, PreviewUrgencyProven, Licensed, Live
  <2>2. ASSUME NEW m \in Message, NEW p \in Proposal,
               NEW score \in Preferences, Analyze(c, m, p, score)
        PROVE  Licensed(card[c].about)'
    <3>1. /\ card'[c].about = m
          /\ card'[c].priority = Verified(p, m, Signals(m, Live)).priority
          /\ Live' = Live
      BY <2>2, AnalyzeEffect
    <3>2. Evidence(Signals(m, Live))
      BY <3>1, VerifiedMeaning
    <3>3. Licensed(m)
      BY <3>2, EvidenceLicenses
    <3> QED
      BY <3>1, <3>3 DEF Licensed
  <2> QED
    BY <2>1, <2>2, OnlyAnalysisSurfaces
<1> QED
  BY <1>1, <1>2, InitDesk, NextDesk, PTL DEF Spec

\* A muted sender stays muted, whatever other rules say, while the rule lives.
THEOREM MuteOutlasts == Spec => []MuteOutlastsImportance
<1>1. Init => MuteOutlastsImportance
  BY DEF Init, MuteOutlastsImportance, Surfaced, Nothing
<1>2. DeskInv /\ MuteOutlastsImportance /\ [Next]_vars => MuteOutlastsImportance'
  <2> SUFFICES ASSUME DeskInv, MuteOutlastsImportance, [Next]_vars,
                      NEW c \in Card, Surfaced(c)'
               PROVE  ~Named({"mute_sender"}, Live', card'[c].about.sender)
    BY DEF MuteOutlastsImportance
  <2>1. announced'.card = c
    BY DEF Surfaced
  <2>2. CASE UNCHANGED vars
    BY <2>2 DEF vars, MuteOutlastsImportance, Surfaced, Live
  <2>3. ASSUME NEW m \in Message, NEW p \in Proposal,
               NEW score \in Preferences, Analyze(c, m, p, score)
        PROVE  ~Named({"mute_sender"}, Live', card'[c].about.sender)
    <3> DEFINE signals == Signals(m, Live)
               triage == Verified(p, m, signals)
    <3>1. /\ card'[c].about = m
          /\ announced' = [card |-> c,
                           decision |-> Decide(triage, signals, score, Policy)]
          /\ Live' = Live
      BY <2>3, AnalyzeEffect
    <3>2. ~signals.muted
      BY <3>1 DEF Surfaced, Decide
    <3>3. ~Muted(m, Live)
      BY <3>2, SignalsOf
    <3> QED
      BY <3>1, <3>3 DEF Muted
  <2> QED
    BY <2>1, <2>2, <2>3, OnlyAnalysisSurfaces
<1> QED
  BY <1>1, <1>2, InitDesk, NextDesk, PTL DEF Spec

\* Nothing but the end of its snooze returns a card that was put away.  (The
\* code has not even that: no step but a deletion ends it.)
THEOREM PutAwayKept == Spec => PutAwayStays
<1>1. DeskInv /\ [Next]_vars =>
        \A c \in Card :
          Exists(c) /\ card[c].status # "open" /\ Exists(c)' => c \notin Shown'
  <2> SUFFICES ASSUME DeskInv, [Next]_vars, NEW c \in Card,
                      Exists(c), card[c].status # "open", Exists(c)'
               PROVE  card'[c].status # "open"
    BY DEF Shown, Matching, Open, Visible, Existing
  <2> USE DEF DeskInv, TypeOK
  <2>1. ASSUME NEW d \in Card, NEW m \in Message, NEW p \in Proposal,
               NEW score \in Preferences, Analyze(d, m, p, score)
        PROVE  card'[c].status # "open"
    <3> DEFINE signals == Signals(m, Live)
               triage == Verified(p, m, signals)
               decision == Decide(triage, signals, score, Policy)
               row == Row(d, m, triage, decision)
    <3>1. card' = [card EXCEPT ![d] = row]
      BY <2>1 DEF Analyze
    <3>2. d = c => row.status # "open"
      BY DEF Row
    <3> HIDE DEF row
    <3> QED
      BY <3>1, <3>2
  <2>2. ASSUME NEW d \in Card, NEW status \in Statuses \ {"open"}, NEW until,
               Exists(d), UpdateCardStatus(d, status, until)
        PROVE  card'[c].status # "open"
    BY <2>2 DEF UpdateCardStatus, Exists, CardRow
  <2>3. ASSUME NEW d \in Card, Perform(d) PROVE card'[c].status # "open"
    BY <2>2, <2>3 DEF Perform, OpenSource, Snooze, Close, MarkSender, Statuses
  <2>4. CASE Tick
    BY <2>4 DEF Tick, Existing, Exists, CardRow
  <2>5. ASSUME NEW d \in Card, Retire(d) PROVE card'[c].status # "open"
    BY <2>5 DEF Retire, Exists
  <2>6. CASE DeleteAllData
    BY <2>6 DEF DeleteAllData, Exists
  <2>7. CASE UNCHANGED card
    BY <2>7
  <2> QED
    BY <2>1, <2>3, <2>4, <2>5, <2>6, <2>7 DEF Next, CreateRule, DeleteRule,
       UpdateSettings, ResetPreferences, vars
<1>2. DeskInv /\ [Next]_vars =>
        \A c \in Card :
          /\ Exists(c) /\ card[c].status # "open" /\ c \notin Shown
          /\ Exists(c)' /\ c \in Shown'
          => /\ card[c].status = "snoozed"
             /\ card[c].until = "future" /\ card'[c].until = "past"
  BY <1>1
<1> QED
  BY <1>2, InitDesk, NextDesk, PTL DEF Spec, PutAwayStays
=============================================================================
