---------------------------- MODULE MCGmailSync ----------------------------
(* Instances of GmailSync: the background worker and one or two requests.  *)
EXTENDS GmailSync, TLC

MessageSymmetry == Permutations(Message)
=============================================================================
