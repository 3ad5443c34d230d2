---------------------------- MODULE MCCardDesk ----------------------------
(***************************************************************************)
(* One thread under every kind of message, model answer and setting.  The  *)
(* messages are the ones that differ in what decide looks at:              *)
(*   ask      a question in full text: high and in need of a reply         *)
(*   alarm    an urgent request with a deadline, seen as a preview         *)
(*   login    a security alert in a thread of mixed completeness           *)
(*   hint     a preview the rules find nothing in                          *)
(*   bare     metadata without content                                     *)
(*   offer    advertising                                                  *)
(***************************************************************************)
EXTENDS CardDesk, TLC

Plain == [sender |-> "boss", source |-> "gmail", text |-> {},
          completeness |-> "full", marks |-> {}]
MCMessage ==
    {[Plain EXCEPT !.text = {"question", "deadline"}],
     [Plain EXCEPT !.text = {"urgent", "request", "deadline"},
                   !.source = "line_notification",
                   !.completeness = "notification_preview"],
     [Plain EXCEPT !.text = {"security", "request"}, !.completeness = "mixed"],
     [Plain EXCEPT !.completeness = "notification_preview"],
     [Plain EXCEPT !.text = {"empty"}, !.completeness = "metadata_only"],
     [Plain EXCEPT !.text = {"noise", "offer"}]}

\* The loudest answer, the loudest ordinary one, and none that is usable.
Answer == [usable |-> TRUE, priority |-> "urgent", reply |-> "yes",
           deadline |-> TRUE, flags |-> {}]
MCProposal == {Answer, [Answer EXCEPT !.priority = "normal"],
                       [Answer EXCEPT !.usable = FALSE]}

MCContains == {<<"boss", "boss">>}
MCRuleChoices == {[kind |-> "mute_category", pattern |-> "work"]}

\* Shadow mode is on as delivered; then ordinary and focus mode with the same
\* quiet hours.
Delivered == [focus |-> FALSE, shadow |-> TRUE, start |-> 1, end |-> 0]
Ordinary == [Delivered EXCEPT !.shadow = FALSE]
MCSettings == {Delivered, Ordinary, [Ordinary EXCEPT !.focus = TRUE]}

RuleSymmetry == Permutations(RuleId)
=============================================================================
