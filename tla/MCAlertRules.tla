---------------------------- MODULE MCAlertRules ----------------------------
(* Small instances of AlertRules. *)
EXTENDS AlertRules, TLC

Evaluations == Permutations(Sweep)
=============================================================================
