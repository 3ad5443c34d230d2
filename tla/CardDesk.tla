------------------------------ MODULE CardDesk ------------------------------
(***************************************************************************)
(* The desk of the user: the cards, what CardActions.perform does with     *)
(* them, the rules, settings and preferences that route the next analysis, *)
(* and retention.  The interleaving of requests is the subject of          *)
(* IngestPipeline: here an analysis is one step, and its decision is not   *)
(* left open but the one AttentionPolicy takes.                            *)
(*                                                                         *)
(* The day is divided into Slots periods of an hour or more; quiet hours   *)
(* begin and end with a slot.                                              *)
(***************************************************************************)
EXTENDS AttentionPolicy

CONSTANTS
    Card,             \* cards, one for each thread
    Message,          \* what a thread may hold when it is analysed
    Proposal,         \* what the model may answer
    Learned,          \* preference scores the ranker may predict, in percent
    RuleId,           \* rules that may exist at the same time
    RuleChoices,      \* rules the user may write, [kind, pattern]
    SettingsChoices,  \* what PATCH /settings may leave behind
    InitSettings,
    Slots,
    MinObservations,  \* 8, observations before the ranker trains
    ListLimit,        \* cards in a list: 500 in the shell, 100 in a bootstrap
    NoRule, NoCard    \* null values

ASSUME DeskAssumption ==
    /\ InitSettings \in SettingsChoices
    /\ Slots \in Nat \ {0}
    /\ MinObservations \in Nat
    /\ ListLimit \in 1..500
    /\ Learned \subseteq 0..100
    /\ NoRule \notin RuleChoices
    /\ NoCard \notin Card
    /\ IsFiniteSet(Card)

ASSUME InputAssumption ==
    /\ \A m \in Message : /\ m.text \subseteq Features
                          /\ m.completeness \in Completeness
                          /\ m.marks \subseteq Flags
    /\ Proposal \subseteq Triage
    /\ \A s \in SettingsChoices : {s.focus, s.shadow} \subseteq BOOLEAN

VARIABLES
    slot,          \* the time of day
    settings,      \* [focus, shadow, start, end]
    rules,         \* rule id |-> rule
    card,          \* card |-> its row, with the messages its thread holds
    interruption,  \* card |-> its interruptions row
    observed,      \* number of preference observations, up to MinObservations
    trained,       \* whether there are preference weights
    announced      \* the triage_completed event of the latest step, if any

vars == <<slot, settings, rules, card, interruption, observed, trained,
          announced>>

Statuses == {"open", "snoozed", "done", "dismissed"}
Modes == {"surface_now", "inbox", "digest", "review", "hidden"}
CardRow == [status : Statuses, until : {"none", "future", "past"},
            mode : Modes, priority : Priorities, reply : Replies,
            about : Message]
Nothing == [card |-> NoCard, decision |-> "none"]

\* What mark_important and mark_not_important write.
SenderRules == [kind : {"vip_sender", "mute_sender"},
                pattern : {m.sender : m \in Message}]

TypeOK ==
    /\ slot \in 0..(Slots - 1)
    /\ settings \in SettingsChoices
    /\ rules \in [RuleId -> RuleChoices \cup SenderRules \cup {NoRule}]
    /\ card \in [Card -> CardRow \cup {NoCard}]
    /\ interruption \in [Card -> {"none", "recent", "old"}]
    /\ observed \in 0..MinObservations
    /\ trained \in BOOLEAN
    /\ announced \in [card : Card, decision : Routes] \cup {Nothing}

-----------------------------------------------------------------------------
(* What is read.                                                           *)

Live == {rules[i] : i \in RuleId} \ {NoRule}
Exists(c) == card[c] # NoCard
Existing == {c \in Card : Exists(c)}
Quiet == InQuietHours(slot, settings.start, settings.end)
Recent == {c \in Card : interruption[c] = "recent"}
Policy == [quiet |-> Quiet, focus |-> settings.focus,
           shadow |-> settings.shadow, recent |-> Cardinality(Recent)]
Preferences == IF trained THEN Learned ELSE {NoPreference}

\* The WHERE clause of list_cards.
Visible == {c \in Existing : card[c].mode # "hidden"}
Open == {c \in Visible : card[c].status = "open"}
Matching(view) ==
    CASE view = "now"    -> {c \in Open : card[c].until # "future"}
      [] view = "reply"  -> {c \in Open : card[c].reply = "yes"}
      [] view = "digest" -> {c \in Open :
                               card[c].mode \in {"digest", "inbox", "review"}}
      [] view = "done"   -> {c \in Visible : card[c].status = "done"}

\* Its LIMIT: how many of them the list shows.  Which ones, the first by
\* priority and time, is left out.
Listed(view) ==
    LET n == Cardinality(Matching(view)) IN IF n < ListLimit THEN n ELSE ListLimit

\* counts: the badge of the default view is "open".
Badge(view) ==
    Cardinality({c \in Existing :
        /\ card[c].status = "open"
        /\ card[c].mode # "hidden"
        /\ view = "reply" => card[c].reply = "yes"})

-----------------------------------------------------------------------------
Init ==
    /\ slot = 0
    /\ settings = InitSettings
    /\ rules = [i \in RuleId |-> NoRule]
    /\ card = [c \in Card |-> NoCard]
    /\ interruption = [c \in Card |-> "none"]
    /\ observed = 0
    /\ trained = FALSE
    /\ announced = Nothing

Row_Reopened(c, m, triage, decision) ==
    [status |-> "open",
     until  |-> IF Exists(c) THEN card[c].until ELSE "none",
     mode   |-> DisplayMode(decision),
     priority |-> triage.priority, reply |-> triage.reply, about |-> m]
\* save_analysis: an existing card keeps its status and snoozed_until.
Row(c, m, triage, decision) ==
    [status |-> IF Exists(c) THEN card[c].status ELSE "open",
     until  |-> IF Exists(c) THEN card[c].until ELSE "none",
     mode   |-> DisplayMode(decision),
     priority |-> triage.priority, reply |-> triage.reply, about |-> m]

\* _analyze_thread of a live message: rules, model, validator, policy, the
\* card, and record_interruption, which writes one row per card for ever.
Analyze(c, m, proposal, preference) ==
    LET signals  == Signals(m, Live)
        triage   == Verified(proposal, m, signals)
        decision == Decide(triage, signals, preference, Policy) IN
    /\ card' = [card EXCEPT ![c] = Row(c, m, triage, decision)]
    /\ interruption' =
         IF decision = "surface_now" /\ interruption[c] = "none"
         THEN [interruption EXCEPT ![c] = "recent"] ELSE interruption
    /\ announced' = [card |-> c, decision |-> decision]
    /\ UNCHANGED <<slot, settings, rules, observed, trained>>

-----------------------------------------------------------------------------
(* CardActions.perform.                                                    *)

\* PreferenceRanker.observe: weights are kept if they predict better.
Observe ==
    /\ observed' = IF observed < MinObservations THEN observed + 1
                   ELSE observed
    /\ \/ UNCHANGED trained
       \/ observed' = MinObservations /\ trained' = TRUE

\* open: nothing but feedback.
OpenSource(c) ==
    /\ Exists(c)
    /\ Observe
    /\ announced' = Nothing
    /\ UNCHANGED <<slot, settings, rules, card, interruption>>

UpdateCardStatus(c, status, until) ==
    card' = [card EXCEPT ![c].status = status, ![c].until = until]

\* The time asked for may lie in the past.
Snooze(c) ==
    /\ Exists(c)
    /\ \E until \in {"future", "past"} : UpdateCardStatus(c, "snoozed", until)
    /\ Observe
    /\ announced' = Nothing
    /\ UNCHANGED <<slot, settings, rules, interruption>>

Close(c, status) ==
    /\ Exists(c)
    /\ UpdateCardStatus(c, status, "none")
    /\ Observe
    /\ announced' = Nothing
    /\ UNCHANGED <<slot, settings, rules, interruption>>

AddRule(rule) ==
    \E i \in RuleId : rules[i] = NoRule /\ rules' = [rules EXCEPT ![i] = rule]

\* mark_important and mark_not_important add a rule and remove none.
MarkSender(c, kind) ==
    /\ Exists(c)
    /\ AddRule([kind |-> kind, pattern |-> card[c].about.sender])
    /\ Observe
    /\ announced' = Nothing
    /\ UNCHANGED <<slot, settings, card, interruption>>

-----------------------------------------------------------------------------
(* Rules, settings, preferences, time and retention.                       *)

CreateRule(rule) ==
    /\ AddRule(rule)
    /\ announced' = Nothing
    /\ UNCHANGED <<slot, settings, card, interruption, observed, trained>>

DeleteRule(i) ==
    /\ rules[i] # NoRule
    /\ rules' = [rules EXCEPT ![i] = NoRule]
    /\ announced' = Nothing
    /\ UNCHANGED <<slot, settings, card, interruption, observed, trained>>

\* Nothing is routed again when the settings change.
UpdateSettings(s) ==
    /\ settings' = s
    /\ announced' = Nothing
    /\ UNCHANGED <<slot, rules, card, interruption, observed, trained>>

ResetPreferences ==
    /\ observed' = 0
    /\ trained' = FALSE
    /\ announced' = Nothing
    /\ UNCHANGED <<slot, settings, rules, card, interruption>>

\* The hour of the recent interruptions is over, and some snoozes are.
Tick ==
    /\ slot' = (slot + 1) % Slots
    /\ \E over \in SUBSET {c \in Existing : card[c].until = "future"} :
         card' = [c \in Card |-> IF c \in over
                                 THEN [card[c] EXCEPT !.until = "past"]
                                 ELSE card[c]]
    /\ interruption' = [c \in Card |-> IF c \in Recent THEN "old"
                                       ELSE interruption[c]]
    /\ announced' = Nothing
    /\ UNCHANGED <<settings, rules, observed, trained>>

\* cleanup_retention deletes a card summary_days after it was closed; its
\* messages and its interruptions row stay.
Retire(c) ==
    /\ Exists(c)
    /\ card[c].status \in {"done", "dismissed"}
    /\ interruption[c] # "recent"
    /\ card' = [card EXCEPT ![c] = NoCard]
    /\ announced' = Nothing
    /\ UNCHANGED <<slot, settings, rules, interruption, observed, trained>>

\* delete_all_personal_data leaves the settings.
DeleteAllData ==
    /\ rules' = [i \in RuleId |-> NoRule]
    /\ card' = [c \in Card |-> NoCard]
    /\ interruption' = [c \in Card |-> "none"]
    /\ observed' = 0
    /\ trained' = FALSE
    /\ announced' = Nothing
    /\ UNCHANGED <<slot, settings>>

Perform(c) ==
    \/ OpenSource(c)
    \/ Snooze(c)
    \/ \E status \in {"done", "dismissed"} : Close(c, status)
    \/ \E kind \in {"vip_sender", "mute_sender"} : MarkSender(c, kind)

Next ==
    \/ \E c \in Card, m \in Message, p \in Proposal, score \in Preferences :
          Analyze(c, m, p, score)
    \/ \E c \in Card : Perform(c) \/ Retire(c)
    \/ \E rule \in RuleChoices : CreateRule(rule)
    \/ \E i \in RuleId : DeleteRule(i)
    \/ \E s \in SettingsChoices : UpdateSettings(s)
    \/ ResetPreferences
    \/ Tick
    \/ DeleteAllData

Spec == Init /\ [][Next]_vars

-----------------------------------------------------------------------------
(* Properties.                                                             *)

\* The step before has disturbed the user with the card of thread c.
Surfaced(c) == announced = [card |-> c, decision |-> "surface_now"]

\* What allows an interruption at any hour: a rule of the user, or words of
\* the message itself.
Licensed(m) ==
    \/ Vip(m, Live)
    \/ "urgent" \in m.text
    \/ "security" \in m.text

\* Whatever the model answers and the ranker has learned, nobody is
\* disturbed in quiet hours without a licence (AGENT.md:24).  decide has no
\* such guard: it follows from the penalty, the threshold and their order.
NightIsQuiet ==
    \A c \in Card : Surfaced(c) /\ Quiet => Licensed(card[c].about)

\* The model cannot raise what the rules find unimportant: without a VIP
\* rule only an urgent or high triage disturbs, and what came without
\* content never does, VIP or not.
SurfaceNeedsWeight ==
    \A c \in Card : Surfaced(c) =>
        /\ card[c].about.completeness # "metadata_only"
        /\ Vip(card[c].about, Live) \/ card[c].priority \in {"urgent", "high"}

\* A preview is shown as urgent only on evidence of the rules: the words of
\* a preview do not suffice for the model to say so.
PreviewUrgencyProven ==
    \A c \in Card :
        /\ announced.card = c
        /\ IsPreview(card[c].about)
        /\ card[c].priority = "urgent"
        => Licensed(card[c].about)

\* Once the user muted a sender, no analysis surfaces a message of it until
\* that rule is deleted: not for a VIP rule written before or after.
MuteOutlastsImportance ==
    \A c \in Card : Surfaced(c) =>
        ~Named({"mute_sender"}, Live, card[c].about.sender)

\* A badge counts what its list shows as long as the list has room, and never
\* less: counts and list_cards are two queries, of which only one looks at
\* snoozed_until and only one has a LIMIT.
BadgesMatchViews ==
    \A view \in {"now", "reply"} :
        /\ Badge(view) =< ListLimit => Listed(view) = Badge(view)
        /\ Badge(view) > ListLimit => Listed(view) = ListLimit

\* The open views of the desk.
Shown == UNION {Matching(view) : view \in {"now", "reply", "digest"}}

\* What the user put away comes back to an open view by the end of its snooze
\* or not at all: no message that arrives in its thread, no rule, setting or
\* other action reopens it, until retention or the user deletes the card.
PutAwayStays ==
    [][\A c \in Card :
         /\ Exists(c) /\ card[c].status # "open" /\ c \notin Shown
         /\ Exists(c)' /\ c \in Shown'
         => /\ card[c].status = "snoozed"
            /\ card[c].until = "future" /\ card'[c].until = "past"]_vars
=============================================================================
