--------------------------- MODULE MCIngestQueue ---------------------------
(* Small instances of IngestQueue: three deliveries, two of them of one span. *)
EXTENDS IngestQueue, TLC

CONSTANTS r1, r2, r3, p1, p2, s1, s2

\* Two deliveries of one span and one delivery of another, one project
OneProject == [r \in Req |-> p1]
Redelivered == [r \in Req |-> IF r = r3 THEN s2 ELSE s1]

\* The third delivery belongs to another project and has no span id
TwoProjects == [r \in Req |-> IF r = r3 THEN p2 ELSE p1]
OneUnkeyed == [r \in Req |-> IF r = r3 THEN NoSpan ELSE s1]
=============================================================================
