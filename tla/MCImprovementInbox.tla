------------------------- MODULE MCImprovementInbox -------------------------
(* Small instances of ImprovementInbox: the approvals are interchangeable, *)
(* and so are the rounds of the interval.                                  *)
EXTENDS ImprovementInbox, TLC

Alike == Permutations(Approval) \cup Permutations(Sweep \ Manual)
=============================================================================
