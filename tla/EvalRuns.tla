------------------------------ MODULE EvalRuns ------------------------------
(***************************************************************************)
(* One evaluation run (core/evaluate/runs.ts) and everyone who writes to   *)
(* it: SDK requests that submit results or finalize, and the background    *)
(* driver of a connector run (core/evaluate/connectorRun.ts), which        *)
(* submits chunk after chunk, finalizes, and marks the run failed when     *)
(* something throws.                                                       *)
(*                                                                         *)
(* Every caller is a list of batches still to submit, followed for some by *)
(* the finalization: a driver has many batches, an SDK submission one, an  *)
(* SDK finalization none, the grading of one stored trace one and the      *)
(* finalization.  A step is the code between two awaits.  Scoring is       *)
(* nondeterministic: each caller's judge rates the answer or fails.        *)
(***************************************************************************)
EXTENDS Naturals, Sequences

CONSTANTS
    Caller,    \* calls that write to the run
    Driver,    \* those that are the connector run's background driver
    Finisher,  \* those that finalize after their last batch
    Key,       \* idempotency keys of results
    Invalid,   \* stands for a result that fails validation
    None,      \* no row; no rating
    Work,      \* the batches of each caller
    MaxFaults, \* bound: storage calls that throw
    MaxCrashes \* bound: restarts of the engine

ASSUME CallerAssumption == Driver \subseteq Caller /\ Finisher \subseteq Caller
ASSUME WorkAssumption == Work \in [Caller -> Seq(Seq(Key \cup {Invalid}))]

\* A result row: whose batch it came with, and its verdict
Row == [by : Caller, rating : Caller \cup {None}, status : {"scored", "skipped"}]

ASSUME NamesAssumption == Invalid \notin Key /\ None \notin Caller \cup Row
ASSUME BoundAssumption == MaxFaults \in Nat /\ MaxCrashes \in Nat

VARIABLES
    status,  \* the run row's status
    group,   \* the scorer group that grades the run: "none", "there" or "deleted"
    rows,    \* the result rows, unique by key: whose batch, its rating and status
    pc,      \* where each caller is
    todo,    \* what each caller has left to submit
    answers, \* what each caller's response says of its results
    faults, crashes

vars == <<status, group, rows, pc, todo, answers, faults, crashes>>

Terminal == {"completed", "failed"}
Ended == {"done", "refused", "stopped", "threw", "dead"}
Submitting == {"resolve", "item", "score"}
TryBlock == {"check", "resolve", "item", "score", "readToFinish", "finish"}
CatchBlock == {"readToFail", "fail"}
Working == TryBlock \cup CatchBlock
Places == {"idle"} \cup Working \cup Ended

\* A rating is named by the caller whose judge gave it; a case that failed with
\* an error is rated too
Verdict(c) == {[rating |-> c, status |-> "scored"], [rating |-> None, status |-> "skipped"]}

Opening(c) == IF Work[c] = <<>> THEN "readToFinish" ELSE "check"

Init ==
    /\ status = "in_progress"
    /\ group \in {"none", "there"}
    /\ rows = [k \in Key |-> None]
    /\ pc = [c \in Caller |-> IF c \in Driver THEN Opening(c) ELSE "idle"]
    /\ todo = Work
    /\ answers = [c \in Caller |-> {}]
    /\ faults = 0
    /\ crashes = 0

Goto(c, place) == pc' = [pc EXCEPT ![c] = place]

\* A request arrives; the driver was started with the run
Arrive(c) ==
    /\ pc[c] = "idle"
    /\ Goto(c, Opening(c))
    /\ UNCHANGED <<status, group, rows, todo, answers, faults, crashes>>

-----------------------------------------------------------------------------
(* appendResults *)

\* Both refusals carry the code "conflict": the route answers 409, the driver stands down
CheckStatus(c) ==
    /\ pc[c] = "check"
    /\ Goto(c, IF status \in Terminal THEN "refused" ELSE "resolve")
    /\ UNCHANGED <<status, group, rows, todo, answers, faults, crashes>>

ResolveGroup(c) ==
    /\ pc[c] = "resolve"
    /\ Goto(c, IF group = "deleted" THEN "refused" ELSE "item")
    /\ UNCHANGED <<status, group, rows, todo, answers, faults, crashes>>

\* The batch and the result a caller is at
Batch(c) == Head(todo[c])
Item(c) == Head(Batch(c))
AtItem(c) == pc[c] = "item" /\ Batch(c) # <<>>
ItemDone(c) == todo' = [todo EXCEPT ![c][1] = Tail(@)]

Answer(c, key, rating, st, deduped) ==
    answers' = [answers EXCEPT ![c] =
        @ \cup {[key |-> key, rating |-> rating, status |-> st, deduped |-> deduped]}]

SkipInvalid(c) ==
    /\ AtItem(c)
    /\ Item(c) = Invalid
    /\ ItemDone(c)
    /\ UNCHANGED <<status, group, rows, pc, answers, faults, crashes>>

AnswerExisting(c) ==
    /\ AtItem(c)
    /\ Item(c) \in Key
    /\ rows[Item(c)] # None
    /\ Answer(c, Item(c), rows[Item(c)].rating, rows[Item(c)].status, TRUE)
    /\ ItemDone(c)
    /\ UNCHANGED <<status, group, rows, pc, faults, crashes>>

StartScoring(c) ==
    /\ AtItem(c)
    /\ Item(c) \in Key
    /\ rows[Item(c)] = None
    /\ Goto(c, "score")
    /\ UNCHANGED <<status, group, rows, todo, answers, faults, crashes>>

Store(c, v) ==
    rows' = [rows EXCEPT ![Item(c)] = [by |-> c, rating |-> v.rating, status |-> v.status]]

\* The insert does nothing on a conflict: here it wins
Insert(c) ==
    /\ pc[c] = "score"
    /\ rows[Item(c)] = None
    /\ \E v \in Verdict(c) :
          /\ Store(c, v)
          /\ Answer(c, Item(c), v.rating, v.status, FALSE)
    /\ Goto(c, "item")
    /\ ItemDone(c)
    /\ UNCHANGED <<status, group, faults, crashes>>

\* Mutant: the loser answers its own score
OwnRating(winner, own) == own.rating

\* What the loser of an insert answers: the winner's columns, its own where
\* the winner's are null.  Rows never change, so the read is part of the step.
LoserRating(winner, own) == IF winner.rating # None THEN winner.rating ELSE own.rating

\* Mutant: an insert that changed nothing is counted as accepted
LoseInsertAccepted(c) ==
    /\ pc[c] = "score"
    /\ rows[Item(c)] # None
    /\ \E v \in Verdict(c) :
          LET winner == rows[Item(c)]
          IN  Answer(c, Item(c), LoserRating(winner, v), winner.status, FALSE)
    /\ Goto(c, "item")
    /\ ItemDone(c)
    /\ UNCHANGED <<status, group, rows, faults, crashes>>

LoseInsert(c) ==
    /\ pc[c] = "score"
    /\ rows[Item(c)] # None
    /\ \E v \in Verdict(c) :
          LET winner == rows[Item(c)]
          IN  Answer(c, Item(c), LoserRating(winner, v), winner.status, TRUE)
    /\ Goto(c, "item")
    /\ ItemDone(c)
    /\ UNCHANGED <<status, group, rows, faults, crashes>>

AfterBatch(c) ==
    CASE Tail(todo[c]) # <<>> -> "check"
      [] Tail(todo[c]) = <<>> /\ c \in Finisher -> "readToFinish"
      [] OTHER -> "done"

\* The driver awaits one batch before it submits the next
BatchDone(c) ==
    /\ pc[c] = "item"
    /\ Batch(c) = <<>>
    /\ todo' = [todo EXCEPT ![c] = Tail(@)]
    /\ Goto(c, AfterBatch(c))
    /\ UNCHANGED <<status, group, rows, answers, faults, crashes>>

-----------------------------------------------------------------------------
(* finalizeRun and failRun: the status is read, and written in a later step *)

\* Mutant: finalize does not look at the status
ReadToFinishUnchecked(c) ==
    /\ pc[c] = "readToFinish"
    /\ Goto(c, "finish")
    /\ UNCHANGED <<status, group, rows, todo, answers, faults, crashes>>

ReadToFinish(c) ==
    /\ pc[c] = "readToFinish"
    /\ Goto(c, IF status = "failed" THEN "done" ELSE "finish")
    /\ UNCHANGED <<status, group, rows, todo, answers, faults, crashes>>

Finish(c) ==
    /\ pc[c] = "finish"
    /\ status' = "completed"
    /\ Goto(c, "done")
    /\ UNCHANGED <<group, rows, todo, answers, faults, crashes>>

ReadToFail(c) ==
    /\ pc[c] = "readToFail"
    /\ Goto(c, IF status = "completed" THEN "stopped" ELSE "fail")
    /\ UNCHANGED <<status, group, rows, todo, answers, faults, crashes>>

Fail(c) ==
    /\ pc[c] = "fail"
    /\ status' = "failed"
    /\ Goto(c, "stopped")
    /\ UNCHANGED <<group, rows, todo, answers, faults, crashes>>

-----------------------------------------------------------------------------
(* Failures and the rest of the system *)

\* Mutant: the driver skips a chunk that throws and goes on to finalize
ThrownSkipped(c) ==
    CASE c \in Driver /\ pc[c] \in Submitting -> "readToFinish"
      [] c \in Driver /\ pc[c] \in TryBlock \ Submitting -> "readToFail"
      [] OTHER -> "threw"

\* Mutant: the driver takes every error for a conflict
ThrownAsConflict(c) == IF c \in Driver /\ pc[c] \in TryBlock THEN "refused" ELSE "threw"

\* Where a caller goes when a call throws: the driver catches and marks the run
\* failed, and logs a failure to do so; a request is answered 500
Thrown(c) == IF c \in Driver /\ pc[c] \in TryBlock THEN "readToFail" ELSE "threw"

Throws(c) ==
    /\ pc[c] \in Working
    /\ faults < MaxFaults
    /\ faults' = faults + 1
    /\ Goto(c, Thrown(c))
    /\ UNCHANGED <<status, group, rows, todo, answers, crashes>>

\* A write is done and its acknowledgement is lost
ThrowsAfterWrite(c) ==
    /\ faults < MaxFaults
    /\ faults' = faults + 1
    /\ \/ /\ pc[c] = "score"
          /\ rows[Item(c)] = None
          /\ \E v \in Verdict(c) : Store(c, v)
          /\ UNCHANGED status
       \/ /\ pc[c] = "finish"
          /\ status' = "completed"
          /\ UNCHANGED rows
       \/ /\ pc[c] = "fail"
          /\ status' = "failed"
          /\ UNCHANGED rows
    /\ Goto(c, Thrown(c))
    /\ UNCHANGED <<group, todo, answers, crashes>>

DeleteGroup ==
    /\ group = "there"
    /\ group' = "deleted"
    /\ UNCHANGED <<status, rows, pc, todo, answers, faults, crashes>>

\* Requests under way and the driver end with the process; nothing resumes a driver
Crash ==
    /\ crashes < MaxCrashes
    /\ crashes' = crashes + 1
    /\ pc' = [c \in Caller |-> IF pc[c] \in Working THEN "dead" ELSE pc[c]]
    /\ UNCHANGED <<status, group, rows, todo, answers, faults>>

\* Every request was made and has ended
Quiescent ==
    /\ \A c \in Caller : pc[c] \in Ended
    /\ UNCHANGED vars

AppendStep(c) ==
    \/ CheckStatus(c) \/ ResolveGroup(c)
    \/ SkipInvalid(c) \/ AnswerExisting(c) \/ StartScoring(c)
    \/ Insert(c) \/ LoseInsert(c) \/ BatchDone(c)

StatusStep(c) == ReadToFinish(c) \/ Finish(c) \/ ReadToFail(c) \/ Fail(c)

Step(c) == AppendStep(c) \/ StatusStep(c)

Next ==
    \/ \E c \in Caller : Arrive(c) \/ Step(c) \/ Throws(c) \/ ThrowsAfterWrite(c)
    \/ DeleteGroup
    \/ Crash
    \/ Quiescent

Spec == Init /\ [][Next]_vars

\* The event loop runs what is ready, and judge and connector calls return
FairSpec == Spec /\ \A c \in Caller : WF_vars(Step(c))

-----------------------------------------------------------------------------
(* Properties *)

TypeOK ==
    /\ status \in Terminal \cup {"in_progress"}
    /\ group \in {"none", "there", "deleted"}
    /\ rows \in [Key -> {None} \cup Row]
    /\ pc \in [Caller -> Places]
    /\ todo \in [Caller -> Seq(Seq(Key \cup {Invalid}))]
    /\ answers \in [Caller -> SUBSET [key : Key, rating : Caller \cup {None},
                                     status : {"scored", "skipped"}, deduped : BOOLEAN]]
    /\ faults \in 0..MaxFaults
    /\ crashes \in 0..MaxCrashes

Reported(c, key) == \E a \in answers[c] : a.key = key /\ ~a.deduped
CutOff(c) == pc[c] \in CatchBlock \cup {"stopped", "threw", "dead"}

\* Every row is counted as accepted in exactly one answer, that of the call that
\* inserted it, unless that call threw or died after the insert; however many
\* submissions of the key overlap (the conflict clause of appendResults).
AcceptedOnce ==
    /\ \A c \in Caller, key \in Key :
          Reported(c, key) => rows[key] # None /\ rows[key].by = c
    /\ \A key \in Key :
          rows[key] # None => Reported(rows[key].by, key) \/ CutOff(rows[key].by)

\* Submissions of one key are told the same verdict, the stored one, whoever
\* scored it (the duplicate branches of appendResults).  The exception is the
\* loser of an insert whose winner could not be rated: it is told the winner's
\* status with its own rating, a verdict nobody gave.
AnswersAgree ==
    \A c \in Caller : \A a \in answers[c] :
        /\ rows[a.key] # None
        /\ a.status = rows[a.key].status
        /\ a.rating = rows[a.key].rating \/ (rows[a.key].rating = None /\ a.deduped)

\* The valid results of a list of batches
Keys(work) ==
    {key \in Key : \E i \in DOMAIN work : \E j \in DOMAIN work[i] : work[i][j] = key}

\* A call that got through has every one of its results stored: a driver never
\* completes a run over a chunk that threw, was refused or is still being scored
\* (the awaited loop and the catch of driveConnectorRun).
DoneIsStored ==
    \A c \in Caller : pc[c] = "done" => \A key \in Keys(Work[c]) : rows[key] # None

\* Nobody who passed a check of the old status is still under way
Sealed ==
    /\ \A c \in Caller : pc[c] \notin Submitting
    /\ \/ status = "completed" /\ \A c \in Caller : pc[c] # "fail"
       \/ status = "failed" /\ \A c \in Caller : pc[c] # "finish"

\* "Terminal states are terminal": once the calls that overlapped the end of a
\* run are over, no late batch, finalization, driver failure or restart changes
\* its status or its rows (the status checks of appendResults, finalizeRun, failRun).
SealedIsFinal == [][Sealed => Sealed' /\ UNCHANGED <<status, rows>>]_vars

\* A connector run does not stay in progress: the driver brings it to a terminal
\* status unless the process ends, marking it failed fails too, or its scorer
\* group is deleted under it (startConnectorRun, driveConnectorRun).
DrivenRunEnds ==
    \A d \in Driver : <>(status \in Terminal \/ group = "deleted" \/ pc[d] \in {"threw", "dead"})

\* A driver stands down only because someone finalized the run: the sentence of
\* connectorRun.ts about a refused batch.  A deleted scorer group refuses with
\* the same code, and the run stays in progress with nobody to end it.
StandsDownWhenFinal == \A d \in Driver : pc[d] = "refused" => status \in Terminal
=============================================================================
