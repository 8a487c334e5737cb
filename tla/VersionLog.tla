----------------------------- MODULE VersionLog -----------------------------
(***************************************************************************)
(* What a registry promises about the versions of one record, without      *)
(* saying how publishes race for a number: versions are numbered one after *)
(* the other, each publish adds one at most, a publish is answered with    *)
(* success once its version is in the log and the record has reached it,   *)
(* and with an error only when it added nothing.  The record moves forward *)
(* to versions of the log.  None of this holds of what a deletion left.    *)
(***************************************************************************)
EXTENDS Naturals

CONSTANTS Publisher, Creator

VARIABLES
    log,     \* versions: number and author
    head,    \* the version the record stands at, 0 before there is a record
    answer,  \* what each publish was told
    closed   \* the versions have been deleted

vars == <<log, head, answer, closed>>

Numbers == {v.n : v \in log}
Added(p) == \E v \in log : v.by = p

Init ==
    /\ log = {}
    /\ head = 0
    /\ answer = [p \in Publisher |-> "none"]
    /\ closed = FALSE

\* The record is there before its first version
Create ==
    /\ head = 0
    /\ head' = 1
    /\ UNCHANGED <<log, answer, closed>>

First ==
    /\ head # 0
    /\ 1 \notin Numbers
    /\ log' = log \cup {[n |-> 1, by |-> Creator]}
    /\ UNCHANGED <<head, answer, closed>>

\* The number after the last one; the first version may still be on its way
IsNext(n) == (n = 2 \/ n - 1 \in Numbers) /\ \A k \in Numbers : k < n

Append(p) ==
    /\ answer[p] = "none"
    /\ ~Added(p)
    /\ \E v \in log' :
          /\ v.by = p
          /\ v.n \notin Numbers
          /\ IsNext(v.n) \/ closed
          /\ log' = log \cup {v}
    /\ UNCHANGED <<head, answer, closed>>

Moves == head' > head /\ (head' \in Numbers \/ closed)

Advance ==
    /\ Moves
    /\ UNCHANGED <<log, answer, closed>>

Confirm(p) ==
    /\ answer[p] = "none"
    /\ answer' = [answer EXCEPT ![p] = "published"]
    /\ Moves \/ UNCHANGED head
    /\ (\E v \in log : v.by = p /\ v.n <= head') \/ closed
    /\ UNCHANGED <<log, closed>>

\* The record is gone, or every attempt was overtaken
Refuse(p) ==
    /\ answer[p] = "none"
    /\ ~Added(p)
    /\ answer' = [answer EXCEPT ![p] = "refused"]
    /\ UNCHANGED <<log, head, closed>>

Close ==
    /\ ~closed
    /\ closed' = TRUE
    /\ log' = {}
    /\ UNCHANGED <<head, answer>>

Next ==
    \/ Create \/ First \/ Advance \/ Close
    \/ \E p \in Publisher : Append(p) \/ Confirm(p) \/ Refuse(p)

Spec == Init /\ [][Next]_vars
=============================================================================
