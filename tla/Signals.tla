------------------------------ MODULE Signals -------------------------------
(***************************************************************************)
(* One signal (core/monitor/signals.ts): the detections that raise it, the *)
(* operator's triage, the labels a verdict leaves for the calibration of   *)
(* the judge (core/monitor/feedback.ts), and the groups of confirmed       *)
(* failures with their reports (core/monitor/improvementGroups.ts).        *)
(*                                                                         *)
(* The signal is one that a judge raises about an agent, so its key has a  *)
(* unique index, a confirmation is captured and a verdict leaves a label.  *)
(* Every statement is a step, as on Postgres; SQLite runs some of them     *)
(* back to back.  An error that the code does not catch ends the request,  *)
(* which here is a request that takes no further step.                     *)
(***************************************************************************)
EXTENDS Naturals, Sequences, FiniteSets

CONSTANTS
    Detection,   \* verdicts below the threshold
    Triage,      \* PATCH requests of the operator, each with a status
    Verdict,     \* [Triage -> SUBSET [status, reason]]: what it may ask for
    Correction,  \* submissions of the correction dialog
    Report,      \* requests for an improvement report
    At,          \* [Triage -> Replica]: the process that serves it
    Replica,
    NoEvent, Nobody

Status == {"open", "reopened", "triaged", "resolved", "archived"}
Reason == {"none", "fixed", "false_positive", "wont_fix"}
Closed == {"archived", "resolved"}

ASSUME ActorAssumption ==
    /\ At \in [Triage -> Replica]
    /\ NoEvent \notin Detection /\ Nobody \notin Triage
    /\ Detection \cap (Triage \cup Correction \cup Report) = {}
    /\ Triage \cap (Correction \cup Report) = {} /\ Correction \cap Report = {}
ASSUME VerdictAssumption ==
    \A c \in Triage : Verdict[c] \subseteq [status : Status, reason : Reason]

VARIABLES
    row,         \* the signal, or NoRow
    occurrences, \* its events, oldest first
    outcomes,    \* traces with a signal_regressed outcome
    labels,      \* its feedback rows
    groups,      \* status of the improvement groups, oldest first
    members,     \* the confirmed failures in each of them
    reports,     \* stored reports: the group and the members they read
    chain,       \* ensureChains of each replica: who is in it
    pc,          \* where each request is
    saw,         \* the row as each detection and triage read it
    job,         \* what a triage asks for, and the event and group it holds
    study,       \* the group and the members a report request has read
    since,       \* history: detections that read since the last closing
    undone,      \* history: a detection wrote back a status it no longer had
    earlier,     \* history: triages that were over when each one began
    corrected,   \* history: events with a correction when each one began
    blind        \* history: triages whose look at the corrections failed

rowVars    == <<row, occurrences, outcomes>>
groupVars  == <<groups, members, chain>>
reportVars == <<reports, study>>
historyVars == <<since, undone, earlier, corrected, blind>>
vars == <<rowVars, labels, groupVars, reportVars, pc, saw, job, historyVars>>

NoRow == [status |-> "none", reason |-> "none", count |-> 0]
NoJob == [status |-> "none", reason |-> "none", event |-> NoEvent, group |-> 0]

Init ==
    /\ row = NoRow
    /\ occurrences = <<>>
    /\ outcomes = {}
    /\ labels = {}
    /\ groups = <<>>
    /\ members = <<>>
    /\ reports = {}
    /\ chain = [r \in Replica |-> Nobody]
    /\ pc = [a \in Detection \cup Triage \cup Correction \cup Report |-> "idle"]
    /\ saw = [a \in Detection \cup Triage |-> NoRow]
    /\ job = [c \in Triage |-> NoJob]
    /\ study = [r \in Report |-> [group |-> 0, read |-> {}]]
    /\ since = {}
    /\ undone = FALSE
    /\ earlier = [c \in Triage |-> {}]
    /\ corrected = [c \in Triage |-> {}]
    /\ blind = {}

Goto(a, s) == pc' = [pc EXCEPT ![a] = s]

-----------------------------------------------------------------------------
(* upsertSignal, and the event its caller records *)

Read(d) ==
    /\ pc[d] = "idle"
    /\ saw' = [saw EXCEPT ![d] = row]
    /\ Goto(d, IF row = NoRow THEN "insert"
               ELSE IF row.status = "resolved" /\ row.reason = "fixed" THEN "regressed"
               ELSE "update")
    /\ since' = since \cup {d}
    /\ UNCHANGED <<rowVars, labels, groupVars, reportVars, job, undone, earlier, corrected, blind>>

\* A lost insert means that the row is there now
Insert(d) ==
    /\ pc[d] = "insert"
    /\ IF row = NoRow
       THEN row' = [status |-> "open", reason |-> "none", count |-> 1] /\ Goto(d, "record")
       ELSE UNCHANGED row /\ Goto(d, "update")
    /\ UNCHANGED <<occurrences, outcomes, labels, groupVars, reportVars, saw, job, historyVars>>

\* The claim of a fix was wrong; a report that cannot be written is let go
Regressed(d) ==
    /\ pc[d] = "regressed"
    /\ outcomes' \in {outcomes, outcomes \cup {d}}
    /\ Goto(d, "update")
    /\ UNCHANGED <<row, occurrences, labels, groupVars, reportVars, saw, job, historyVars>>

\* Mutant: the count is written back from the read
CountFromRead(d) == saw[d].count + 1

\* Incremented by the database
NextCount(d) == row.count + 1

\* Mutant: an archived signal stays archived
ReopensResolved(d) == saw[d].status = "resolved"

\* A closed signal is a shelf, not a grave
Reopens(d) == saw[d].status \in Closed

\* Mutant: the reason of the closing stays on a reopened signal
KeepReason(d) == row.reason

ReasonAfter(d) == IF Reopens(d) THEN "none" ELSE row.reason

StatusAfter(d) == IF Reopens(d) THEN "reopened"
                  ELSE IF saw[d] = NoRow THEN "open" ELSE saw[d].status

Update(d) ==
    /\ pc[d] = "update"
    /\ row' = [status |-> StatusAfter(d), reason |-> ReasonAfter(d), count |-> NextCount(d)]
    /\ undone' = (~Reopens(d) /\ (undone \/ row.status # StatusAfter(d)))
    /\ Goto(d, "record")
    /\ UNCHANGED <<occurrences, outcomes, labels, groupVars, reportVars, saw, job,
                   since, earlier, corrected, blind>>

Record(d) ==
    /\ pc[d] = "record"
    /\ occurrences' = Append(occurrences, d)
    /\ Goto(d, "done")
    /\ UNCHANGED <<row, outcomes, labels, groupVars, reportVars, saw, job, historyVars>>

-----------------------------------------------------------------------------
(* updateSignal *)

Newest == IF occurrences = <<>> THEN NoEvent ELSE occurrences[Len(occurrences)]

\* Mutant: the reviewer's own correction is not looked for
NeverCorrected(e) == FALSE

HasCorrection(e) == \E l \in labels : l.event = e /\ l.metric # "confirmed"

TriageReads(c) ==
    /\ pc[c] = "idle"
    /\ row # NoRow
    /\ saw' = [saw EXCEPT ![c] = row]
    /\ \E v \in Verdict[c] :
          job' = [job EXCEPT ![c] = [NoJob EXCEPT !.status = v.status, !.reason = v.reason]]
    /\ Goto(c, "write")
    /\ earlier' = [earlier EXCEPT ![c] = {b \in Triage : pc[b] = "done"}]
    /\ corrected' = [corrected EXCEPT ![c] = {l.event : l \in {k \in labels : k.metric # "confirmed"}}]
    /\ UNCHANGED <<rowVars, labels, groupVars, reportVars, since, undone, blind>>

BecameTriaged(c) == job[c].status = "triaged" /\ saw[c].status # "triaged"
BecameFalsePositive(c) ==
    /\ job[c].status = "resolved" /\ job[c].reason = "false_positive"
    /\ ~(saw[c].status = "resolved" /\ saw[c].reason = "false_positive")

\* The reason travels with resolved and only resolved
TriageWrites(c) ==
    /\ pc[c] = "write"
    /\ row' = [row EXCEPT !.status = job[c].status,
                          !.reason = IF job[c].status = "resolved" THEN job[c].reason ELSE "none"]
    /\ since' = IF job[c].status \in Closed THEN {} ELSE since
    /\ undone' = FALSE
    /\ Goto(c, IF BecameTriaged(c) THEN "capture"
               ELSE IF BecameFalsePositive(c) THEN "label" ELSE "done")
    /\ UNCHANGED <<occurrences, outcomes, labels, groupVars, reportVars, saw, job,
                   earlier, corrected, blind>>

-----------------------------------------------------------------------------
(* captureConfirmedFailure *)

\* The newest occurrence goes to the collecting group
Capture(c) ==
    /\ pc[c] = "capture"
    /\ job' = [job EXCEPT ![c].event = Newest]
    /\ Goto(c, "ensure")
    /\ UNCHANGED <<rowVars, labels, groupVars, reportVars, saw, historyVars>>

Collecting == {g \in DOMAIN groups : groups[g] = "collecting"}

\* Mutant: two calls may look for the group at once
NoChain(c) == TRUE

\* One call at a time, in each process
ChainFree(c) == chain[At[c]] = Nobody

\* ensureCollectingGroupSerialized looks for the group
EnsureFinds(c) ==
    /\ pc[c] = "ensure"
    /\ ChainFree(c)
    /\ \/ \E g \in Collecting :
             /\ job' = [job EXCEPT ![c].group = g]
             /\ Goto(c, "check")
             /\ UNCHANGED chain
       \/ /\ Collecting = {}
          /\ chain' = [chain EXCEPT ![At[c]] = c]
          /\ Goto(c, "create")
          /\ UNCHANGED job
    /\ UNCHANGED <<rowVars, labels, groups, members, reportVars, saw, historyVars>>

EnsureCreates(c) ==
    /\ pc[c] = "create"
    /\ groups' = Append(groups, "collecting")
    /\ members' = Append(members, {})
    /\ job' = [job EXCEPT ![c].group = Len(groups) + 1]
    /\ chain' = [chain EXCEPT ![At[c]] = Nobody]
    /\ Goto(c, "check")
    /\ UNCHANGED <<rowVars, labels, reportVars, saw, historyVars>>

\* Mutant: the members are not looked at
NoDuplicate(c) == FALSE

\* Deduped per group, signal and event
Duplicate(c) == \E m \in members[job[c].group] : m.event = job[c].event

CaptureChecks(c) ==
    /\ pc[c] = "check"
    /\ Goto(c, IF Duplicate(c) THEN "label" ELSE "join")
    /\ UNCHANGED <<rowVars, labels, groupVars, reportVars, saw, job, historyVars>>

CaptureJoins(c) ==
    /\ pc[c] = "join"
    /\ members' = [members EXCEPT ![job[c].group] = @ \cup {[event |-> job[c].event, by |-> c]}]
    /\ Goto(c, "label")
    /\ UNCHANGED <<rowVars, labels, groups, chain, reportVars, saw, job, historyVars>>

\* A capture that fails does not fail the triage
CaptureFails(c) ==
    /\ pc[c] \in {"capture", "ensure", "create", "check", "join"}
    /\ chain' = [chain EXCEPT ![At[c]] = IF @ = c THEN Nobody ELSE @]
    /\ Goto(c, "label")
    /\ UNCHANGED <<rowVars, labels, groups, members, reportVars, saw, job, historyVars>>

-----------------------------------------------------------------------------
(* The label: an agreement, or the baseline of a disagreement *)

Label(c) ==
    /\ pc[c] = "label"
    /\ job' = [job EXCEPT ![c].event = Newest]
    /\ Goto(c, IF Newest = NoEvent THEN "done"
               ELSE IF BecameTriaged(c) THEN "store" ELSE "compare")
    /\ UNCHANGED <<rowVars, labels, groupVars, reportVars, saw, historyVars>>

\* A look that fails finds none
Compare(c) ==
    /\ pc[c] = "compare"
    /\ \/ /\ Goto(c, IF HasCorrection(job[c].event) THEN "done" ELSE "store")
          /\ UNCHANGED blind
       \/ /\ Goto(c, "store")
          /\ blind' = blind \cup {c}
    /\ UNCHANGED <<rowVars, labels, groupVars, reportVars, saw, job, since, undone, earlier, corrected>>

\* A label that cannot be written is let go
StoreLabel(c) ==
    /\ pc[c] = "store"
    /\ LET metric == IF BecameTriaged(c) THEN "confirmed" ELSE "false-positive" IN
       labels' \in {labels, labels \cup {[event |-> job[c].event, metric |-> metric, by |-> c]}}
    /\ Goto(c, "done")
    /\ UNCHANGED <<rowVars, groupVars, reportVars, saw, job, historyVars>>

\* The correction dialog is about an occurrence the reviewer has seen
Correct(k) ==
    /\ pc[k] = "idle"
    /\ \E n \in DOMAIN occurrences :
          labels' = labels \cup {[event |-> occurrences[n], metric |-> "correction", by |-> k]}
    /\ Goto(k, "done")
    /\ UNCHANGED <<rowVars, groupVars, reportVars, saw, job, historyVars>>

-----------------------------------------------------------------------------
(* generateImprovementReport *)

ReportReads(r) ==
    /\ pc[r] = "idle"
    /\ \E g \in DOMAIN groups :
          /\ members[g] # {}
          /\ study' = [study EXCEPT ![r] = [group |-> g, read |-> members[g]]]
    /\ Goto(r, "asked")
    /\ UNCHANGED <<rowVars, labels, groupVars, reports, saw, job, historyVars>>

ReportIsStored(r) ==
    /\ pc[r] = "asked"
    /\ reports' = reports \cup {[by |-> r, group |-> study[r].group, read |-> study[r].read]}
    /\ Goto(r, "seal")
    /\ UNCHANGED <<rowVars, labels, groupVars, study, saw, job, historyVars>>

Seal(r) ==
    /\ pc[r] = "seal"
    /\ groups' = [groups EXCEPT ![study[r].group] = "proposed"]
    /\ Goto(r, "done")
    /\ UNCHANGED <<rowVars, labels, members, chain, reportVars, saw, job, historyVars>>

-----------------------------------------------------------------------------
DetectionStep(d) == Read(d) \/ Insert(d) \/ Regressed(d) \/ Update(d) \/ Record(d)
TriageStep(c) ==
    \/ TriageReads(c) \/ TriageWrites(c)
    \/ Capture(c) \/ EnsureFinds(c) \/ EnsureCreates(c) \/ CaptureChecks(c) \/ CaptureJoins(c)
    \/ CaptureFails(c)
    \/ Label(c) \/ Compare(c) \/ StoreLabel(c)
ReportStep(r) == ReportReads(r) \/ ReportIsStored(r) \/ Seal(r)

Next ==
    \/ \E d \in Detection : DetectionStep(d)
    \/ \E c \in Triage : TriageStep(c)
    \/ \E k \in Correction : Correct(k)
    \/ \E r \in Report : ReportStep(r)

Spec == Init /\ [][Next]_vars

-----------------------------------------------------------------------------
(* Properties *)

Place == {"idle", "done", "insert", "regressed", "update", "record", "write", "capture", "ensure",
          "create", "check", "join", "label", "compare", "store", "asked", "seal"}
Event == Detection \cup {NoEvent}
Member == [event : Event, by : Triage]

TypeOK ==
    /\ row \in [status : Status \cup {"none"}, reason : Reason, count : Nat]
    /\ occurrences \in Seq(Detection) /\ outcomes \subseteq Detection
    /\ groups \in Seq({"collecting", "proposed"})
    /\ members \in Seq(SUBSET Member) /\ Len(members) = Len(groups)
    /\ chain \in [Replica -> Triage \cup {Nobody}]
    /\ pc \in [Detection \cup Triage \cup Correction \cup Report -> Place]
    /\ \A d \in Detection :
          saw[d] \in [status : Status \cup {"none"}, reason : Reason, count : Nat]
    /\ job \in [Triage -> [status : Status \cup {"none"}, reason : Reason, event : Event, group : Nat]]
    /\ study \in [Report -> [group : Nat, read : SUBSET Member]]
    /\ labels \subseteq [event : Event, metric : {"confirmed", "false-positive", "correction"},
                         by : Triage \cup Correction]
    /\ since \subseteq Detection /\ blind \subseteq Triage
    /\ earlier \in [Triage -> SUBSET Triage] /\ corrected \in [Triage -> SUBSET Event]
    /\ \A c \in Triage : pc[c] \in {"check", "join"} => job[c].group \in DOMAIN groups
    /\ \A r \in Report : pc[r] \in {"asked", "seal"} => study[r].group \in DOMAIN groups

Counted(d) == pc[d] \in {"record", "done"}

\* The count operators triage by is the number of detections, however many of
\* them read the row before any wrote it (signals.ts:196-206).
CountIsExact == row.count = Cardinality({d \in Detection : Counted(d)})

\* A signal is closed only as long as nothing was detected since: whoever read
\* it after it was closed has reopened it (signals.ts:208-211).
NoSilentRecurrence ==
    row.status \in Closed => \A d \in since : ~Counted(d)

\* A reason is on a resolved signal, or on one whose triage was undone by a
\* detection that had read the row before (signals.ts:396-399).
ReasonTravelsWithResolved ==
    row.reason # "none" => row.status = "resolved" \/ undone

\* Of the captures of one process only one can find no group, so confirmed
\* failures are not split over two (improvementGroups.ts:96-99).
OneCollecting ==
    (\A b, c \in Triage : At[b] = At[c]) => \A g, h \in Collecting : g = h

\* A confirmation that began after another was over does not double its
\* evidence (improvementGroups.ts:137-138).
EvidenceOnce ==
    \A g \in DOMAIN members : \A m, n \in members[g] :
        m.event = n.event => m.by \notin earlier[n.by]

\* The baseline of a disagreement never lands on a correction that was there
\* when the verdict was given, unless it could not be looked for
\* (feedback.ts:75-78).
BaselineYields ==
    \A l \in labels :
        l.metric = "false-positive" => l.event \notin corrected[l.by] \/ l.by \in blind
=============================================================================
