----------------------------- MODULE MCSignals ------------------------------
(* Small instances of Signals. *)
EXTENDS Signals, TLC

CONSTANTS a, d1, d2, c1, c2, k1, r1

AllOnA == [c \in Triage |-> a]
Ask(s, r) == [status |-> s, reason |-> r]

\* Both requests may confirm, close or archive the signal
AnyVerdict == [c \in Triage |->
    {Ask("triaged", "none"), Ask("resolved", "fixed"), Ask("resolved", "false_positive"), Ask("archived", "none")}]

Alike == Permutations(Detection) \cup Permutations(Triage)
=============================================================================
