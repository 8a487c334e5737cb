---------------------------- MODULE SpanDelivery ----------------------------
(***************************************************************************)
(* What ingest promises a client (ADR-0005), without saying how: a span    *)
(* id gets at most one row, a 200 is given only for a row that is in the   *)
(* store, and the checks of a span start once, with the answer to the      *)
(* delivery whose row it is.  Rows are never taken back.                   *)
(***************************************************************************)
CONSTANTS Req, SameKey(_, _)

VARIABLES
    rows,     \* deliveries whose row is in the store
    answer,   \* what each delivery was told
    checked   \* deliveries whose checks were started

vars == <<rows, answer, checked>>

Init ==
    /\ rows = {}
    /\ answer = [r \in Req |-> "none"]
    /\ checked = {}

\* A batch of rows becomes visible at once
Land(batch) ==
    /\ batch # {}
    /\ \A r, q \in rows \cup batch : SameKey(r, q) => r = q
    /\ rows' = rows \cup batch
    /\ UNCHANGED <<answer, checked>>

Accept(r) ==
    /\ answer[r] = "none"
    /\ r \in rows
    /\ \A q \in checked : q # r /\ ~SameKey(r, q)
    /\ answer' = [answer EXCEPT ![r] = "stored"]
    /\ checked' = checked \cup {r}
    /\ UNCHANGED rows

Replay(r) ==
    /\ answer[r] = "none"
    /\ \E q \in rows : q = r \/ SameKey(r, q)
    /\ answer' = [answer EXCEPT ![r] = "replayed"]
    /\ UNCHANGED <<rows, checked>>

\* 429, 503, 500, or the connection is lost
Refuse(some) ==
    /\ some # {}
    /\ \A r \in some : answer[r] = "none"
    /\ answer' = [r \in Req |-> IF r \in some THEN "refused" ELSE answer[r]]
    /\ UNCHANGED <<rows, checked>>

Next ==
    \/ \E batch \in SUBSET (Req \ rows) : Land(batch)
    \/ \E r \in Req : Accept(r) \/ Replay(r)
    \/ \E some \in SUBSET Req : Refuse(some)

Spec == Init /\ [][Next]_vars
=============================================================================
