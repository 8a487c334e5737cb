---------------------------- MODULE MCTraceQuota ----------------------------
(* A small instance of TraceQuota: two roots in an export, a redelivery of  *)
(* one of them, and an SDK request for a third; one root started the day    *)
(* before, one starts when it is sent or tomorrow, one has no start.        *)
EXTENDS TraceQuota, TLC

CONSTANTS e1, e2, e3, x1, x2, x3

Overlap == [e \in Export |-> CASE e = e1 -> {x1, x2}
                               [] e = e2 -> {x2}
                               [] OTHER -> {x3}]

Starts == [x \in Root |-> CASE x = x1 -> FirstDay - 1
                            [] x = x2 -> FirstDay + 1
                            [] OTHER -> NoDay]
=============================================================================
