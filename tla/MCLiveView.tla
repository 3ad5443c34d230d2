----------------------------- MODULE MCLiveView -----------------------------
(* Instances of LiveView.                                                  *)
EXTENDS LiveView, TLC

LoadSymmetry == Permutations(Load) \cup Permutations(Reminder)
=============================================================================
