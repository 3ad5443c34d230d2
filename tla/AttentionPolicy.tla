-------------------------- MODULE AttentionPolicy --------------------------
(***************************************************************************)
(* What becomes of a thread: RuleEngine reads its text, the model proposes *)
(* a triage, TriageValidator and the pipeline choose between the proposal  *)
(* and the offline baseline, and InterruptionPolicy decides whether the    *)
(* user is disturbed.  All of it is a function of its arguments.           *)
(*                                                                         *)
(* Text is abstracted to the patterns rules.py finds in it.  A message is  *)
(* [sender, source, text, completeness, marks]: text is a set of Features, *)
(* marks are the uncertainty flags the connectors put into the metadata.   *)
(* Of a triage the policy reads priority, reply, deadline and flags, the   *)
(* rest is for display; usable says, of a proposal of the model, that the  *)
(* gateway returned it and that each action item and deadline in it quotes *)
(* the text.  Scores are in units of 1/10000, the preference in percent.   *)
(*                                                                         *)
(* A definition X_Defect is X with a defect, as in IngestPipeline.         *)
(***************************************************************************)
EXTENDS Integers, FiniteSets

CONSTANTS
    Contains,          \* <<p, s>>: pattern p occurs in sender name s
    SurfaceThreshold,  \* surface_threshold, 8200 as delivered
    ReviewThreshold,   \* review_threshold, 5500 as delivered
    MaxPerHour         \* max_interruptions_per_hour, 4 as delivered

ASSUME ThresholdAssumption ==
    /\ SurfaceThreshold \in 0..10000
    /\ ReviewThreshold \in 0..10000
    /\ MaxPerHour \in Nat

Features == {"image", "empty", "noise", "offer", "security", "meeting",
             "research", "transaction", "question", "request", "urgent",
             "deadline"}
Completeness == {"full", "thread_delta", "notification_preview",
                 "metadata_only", "mixed"}
Priorities == {"urgent", "high", "normal", "low", "noise", "unknown"}
Replies == {"yes", "no", "unknown"}
Flags == {"incomplete_preview", "truncated_content", "ambiguous_sender",
          "ambiguous_deadline", "missing_context",
          "source_resolution_uncertain", "conflicting_information"}
Triage == [usable : BOOLEAN, priority : Priorities, reply : Replies,
           deadline : BOOLEAN, flags : SUBSET Flags]
Routes == {"surface_now", "store_in_inbox", "include_in_digest",
           "needs_review", "ignore_as_noise"}

\* The score of a card nothing was learned about.
NoPreference == 50

-----------------------------------------------------------------------------
(* RuleEngine.                                                             *)

Named(kinds, rules, sender) ==
    \E r \in rules : r.kind \in kinds /\ <<r.pattern, sender>> \in Contains

\* The first pattern list that matches decides, then the source.
Category(m) ==
    IF "image" \in m.text THEN "unknown"
    ELSE IF "noise" \in m.text
         THEN IF "offer" \in m.text THEN "promotion" ELSE "system"
    ELSE IF "security" \in m.text THEN "security"
    ELSE IF "meeting" \in m.text THEN "meeting"
    ELSE IF "research" \in m.text THEN "research"
    ELSE IF "transaction" \in m.text THEN "transaction"
    ELSE IF m.source \in {"line_notification", "messenger_notification"}
         THEN "social"
    ELSE IF m.source = "gmail" THEN "work" ELSE "other"

\* An image or a notice of no interest ends the reading: category rules and
\* deadlines are not looked at.
ReadToTheEnd(m) == m.text \cap {"image", "noise"} = {}

Vip(m, rules) == Named({"vip_sender", "priority_sender"}, rules, m.sender)

Muted_UnlessVip(m, rules) ==
    /\ Named({"mute_sender"}, rules, m.sender)
    /\ ~Vip(m, rules)
Muted(m, rules) ==
    \/ Named({"mute_sender"}, rules, m.sender)
    \/ /\ ReadToTheEnd(m)
       /\ \E r \in rules : r.kind = "mute_category" /\ r.pattern = Category(m)

RuleReply(m) ==
    IF "image" \in m.text THEN "unknown"
    ELSE IF "noise" \in m.text THEN "no"
    ELSE IF "question" \in m.text THEN "yes"
    ELSE IF "request" \in m.text /\ Category(m) # "security" THEN "yes"
    ELSE "no"

\* The urgency of a security alert gives way to a question or a VIP rule.
RulePriority(m, rules) ==
    IF "image" \in m.text THEN "unknown"
    ELSE IF "noise" \in m.text THEN "noise"
    ELSE IF Muted(m, rules) THEN "low"
    ELSE IF "urgent" \in m.text THEN "urgent"
    ELSE IF RuleReply(m) = "yes" \/ Vip(m, rules) THEN "high"
    ELSE IF Category(m) = "security" THEN "urgent"
    ELSE IF "deadline" \in m.text THEN "high" ELSE "normal"

Signals(m, rules) ==
    [category |-> Category(m),
     priority |-> RulePriority(m, rules),
     reply    |-> RuleReply(m),
     noise    |-> "noise" \in m.text /\ "image" \notin m.text,
     vip      |-> Vip(m, rules),
     muted    |-> Muted(m, rules),
     explicit_urgency |-> "urgent" \in m.text /\ ReadToTheEnd(m)]

IsPreview(m) ==
    m.completeness \in {"notification_preview", "metadata_only", "mixed"}
PreviewFlag(m) == IF IsPreview(m) THEN {"incomplete_preview"} ELSE {}

\* RuleEngine.triage with what the pipeline adds from the metadata.
Baseline(m, signals) ==
    [usable   |-> TRUE,
     priority |-> signals.priority,
     reply    |-> signals.reply,
     deadline |-> "deadline" \in m.text,
     flags    |-> PreviewFlag(m) \cup m.marks \cup
                  IF m.text \cap {"image", "empty"} # {}
                  THEN {"missing_context"} ELSE {}]

-----------------------------------------------------------------------------
(* TriageValidator and the choice between the model and the baseline.      *)

Evidence(signals) ==
    signals.vip \/ signals.explicit_urgency \/ signals.category = "security"

Validate_AnyUrgency(triage, m, signals) ==
    IF m.completeness = "metadata_only"
    THEN [triage EXCEPT !.priority = "unknown", !.reply = "unknown",
                        !.deadline = FALSE,
                        !.flags = @ \cup PreviewFlag(m)
                                    \cup {"missing_context"}]
    ELSE [triage EXCEPT !.flags = @ \cup PreviewFlag(m)]
Validate_KeepsPriority(triage, m, signals) ==
    [triage EXCEPT
        !.flags = @ \cup PreviewFlag(m),
        !.priority = IF IsPreview(m) /\ @ = "urgent" /\ ~Evidence(signals)
                     THEN "high" ELSE @]
\* A preview cannot be urgent without evidence of the rules, and bare
\* metadata says nothing at all.
Validate(triage, m, signals) ==
    IF m.completeness = "metadata_only"
    THEN [triage EXCEPT !.priority = "unknown", !.reply = "unknown",
                        !.deadline = FALSE,
                        !.flags = @ \cup PreviewFlag(m)
                                    \cup {"missing_context"}]
    ELSE [triage EXCEPT
             !.flags = @ \cup PreviewFlag(m),
             !.priority = IF IsPreview(m) /\ @ = "urgent" /\ ~Evidence(signals)
                          THEN "high" ELSE @]

\* One invented quotation discards the whole proposal.
Verified(proposal, m, signals) ==
    Validate(IF proposal.usable THEN proposal ELSE Baseline(m, signals),
             m, signals)

-----------------------------------------------------------------------------
(* InterruptionPolicy.                                                     *)

PriorityScore(priority) ==
    CASE priority = "urgent"  -> 9000
      [] priority = "high"    -> 6800
      [] priority = "normal"  -> 3800
      [] priority = "low"     -> 1500
      [] priority = "noise"   -> 0
      [] priority = "unknown" -> 2200

Bonus(holds, amount) == IF holds THEN amount ELSE 0

Penalty(flags) ==
    IF Cardinality(flags) >= 3 THEN 1800 ELSE 600 * Cardinality(flags)

RawScore(triage, signals, preference) ==
      PriorityScore(triage.priority)
    + Bonus(triage.reply = "yes", 1400)
    + Bonus(triage.deadline, 1200)
    + Bonus(signals.vip, 1600)
    - Penalty(triage.flags)
    + (preference - NoPreference) * 22

AtLeast0(x) == IF x < 0 THEN 0 ELSE x
Clamp(x) == IF x > 10000 THEN 10000 ELSE AtLeast0(x)

\* allowed_quiet_override
Override(triage, signals) ==
    \/ signals.vip
    \/ /\ triage.priority = "urgent"
       /\ signals.category = "security" \/ signals.explicit_urgency

Score_ClampLast(triage, signals, preference, quiet) ==
    Clamp(RawScore(triage, signals, preference)
          - Bonus(quiet /\ ~Override(triage, signals), 3500))
\* The score is cut to 1 before the quiet hours take 0.35 off.
Score(triage, signals, preference, quiet) ==
    LET score == Clamp(RawScore(triage, signals, preference)) IN
    IF quiet /\ ~Override(triage, signals) THEN AtLeast0(score - 3500)
    ELSE score

Threshold(focus) == SurfaceThreshold + Bonus(focus, 800)

Route(score, triage, focus) ==
    IF score >= Threshold(focus) THEN "surface_now"
    ELSE IF score >= ReviewThreshold
         THEN IF triage.flags # {} THEN "needs_review" ELSE "store_in_inbox"
    ELSE IF triage.priority \in {"low", "normal"} THEN "include_in_digest"
    ELSE "store_in_inbox"

\* state is what the pipeline reads for the decision: [quiet, focus, shadow,
\* recent], recent being interruptions_last_hour.
Decide(triage, signals, preference, state) ==
    LET route == Route(Score(triage, signals, preference, state.quiet),
                       triage, state.focus)
        spent == state.recent >= MaxPerHour IN
    IF signals.noise THEN "ignore_as_noise"
    ELSE IF signals.muted THEN "include_in_digest"
    ELSE IF route # "surface_now" THEN route
    ELSE IF spent /\ ~Override(triage, signals) THEN "include_in_digest"
    ELSE IF state.shadow THEN "store_in_inbox" ELSE "surface_now"

DisplayMode_AsDecided(decision) == decision
DisplayMode(decision) ==
    CASE decision = "surface_now"       -> "surface_now"
      [] decision = "store_in_inbox"    -> "inbox"
      [] decision = "include_in_digest" -> "digest"
      [] decision = "needs_review"      -> "review"
      [] decision = "ignore_as_noise"   -> "hidden"

\* _in_quiet_hours: an interval that begins after it ends spans midnight, and
\* one that begins when it ends is empty.
InQuietHours(now, start, end) ==
    IF start =< end THEN start =< now /\ now < end
    ELSE now >= start \/ now < end
=============================================================================
