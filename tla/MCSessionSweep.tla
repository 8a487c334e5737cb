--------------------------- MODULE MCSessionSweep ---------------------------
(* Small instances of SessionSweep. *)
EXTENDS SessionSweep, TLC

CONSTANTS a, b, j1, j2, t1, t2, t3, m1, p1, p2, p3, p4, p5, x1, c1

\* Replica a runs two ticks and a manual sweep of j1, replica b one tick
TwoReplicas == [x \in Sweep \cup Trace \cup Rerun |-> IF x = t3 THEN b ELSE a]
Scopes == [w \in Sweep |-> IF w = m1 THEN j1 ELSE Global]
OneRow == <<j1>>
Rows == <<j1, j2>>

\* p1 has an evaluator, p2 a group of two judges; both may fail
FirstOfJ1 == [x \in Pair \cup Trace |-> IF x = p2 THEN j2 ELSE j1]
OnePanel == [p \in Pair |-> IF p = p2 THEN 2 ELSE 0]
AnyVerdict == [p \in Pair |-> BOOLEAN]
RerunP1 == [c \in Rerun |-> p1]

\* Three stuck pairs in j1; a stuck and a working one in j2
Stuck == [p \in Pair |-> IF p = p5 THEN {TRUE} ELSE {FALSE}]
LastTwoOfJ2 == [x \in Pair \cup Trace |-> IF x \in {p4, p5} THEN j2 ELSE j1]
PanelOfP5 == [p \in Pair |-> IF p = p5 THEN 2 ELSE 0]
RerunP5 == [c \in Rerun |-> p5]
=============================================================================
