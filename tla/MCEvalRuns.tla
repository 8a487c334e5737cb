----------------------------- MODULE MCEvalRuns ------------------------------
(* A small instance of EvalRuns: a driver with two chunks, an SDK submission, *)
(* its redelivery with an invalid and a repeated result, and a finalization. *)
EXTENDS EvalRuns

CONSTANTS drive, submit, again, finalize, k1, k2

TwoChunks ==
    [c \in Caller |->
        CASE c = drive    -> << <<k1>>, <<k2>> >>
          [] c = submit   -> << <<k2>> >>
          [] c = again    -> << <<Invalid, k2, k2>> >>
          [] c = finalize -> <<>>]
=============================================================================
