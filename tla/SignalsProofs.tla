--------------------------- MODULE SignalsProofs ----------------------------
(***************************************************************************)
(* Proofs about Signals, for any number of detections, triages,            *)
(* corrections, reports and processes: the count, the recurrences, the     *)
(* reason, the collecting group, the evidence and the baseline labels.     *)
(***************************************************************************)
EXTENDS Signals, FiniteSetTheorems, SequenceTheorems, TLAPS

Actor == Detection \cup Triage \cup Correction \cup Report
RowType == [status : Status \cup {"none"}, reason : Reason, count : Nat]
JobType == [status : Status \cup {"none"}, reason : Reason, event : Event, group : Nat]

\* saw has the domain it began with
SawShape == saw = [a \in Detection \cup Triage |-> saw[a]]

\* The newest occurrence is a detection or none
LEMMA NewestIsEvent == ASSUME TypeOK PROVE Newest \in Event
<1>1. CASE occurrences = <<>>
  BY <1>1 DEF Newest, Event
<1>2. CASE occurrences # <<>>
  <2>1. Len(occurrences) \in 1 .. Len(occurrences)
    BY <1>2 DEF TypeOK
  <2> QED BY <1>2, <2>1, ElementOfSeq DEF Newest, Event, TypeOK
<1> QED BY <1>1, <1>2

-----------------------------------------------------------------------------
(* What each kind of step changes, and who takes it. *)

LabelSteps(c) == Label(c) \/ Compare(c) \/ StoreLabel(c)
CaptureSteps(c) == Capture(c) \/ EnsureFinds(c) \/ EnsureCreates(c) \/ CaptureChecks(c)
                   \/ CaptureJoins(c) \/ CaptureFails(c)

\* A step moves one actor, and away from "done" nobody moves
LEMMA OneMoves ==
    ASSUME TypeOK, Next
    PROVE  \E a \in Actor : \E s \in Place :
              /\ pc[a] # "done" /\ s # "idle"
              /\ pc' = [pc EXCEPT ![a] = s]
<1>1. ASSUME NEW d \in Detection, DetectionStep(d)
      PROVE  \E s \in Place : pc[d] # "done" /\ s # "idle" /\ pc' = [pc EXCEPT ![d] = s]
  BY <1>1 DEF DetectionStep, Read, Insert, Regressed, Update, Record, Goto, Place
<1>2. ASSUME NEW c \in Triage, TriageStep(c)
      PROVE  \E s \in Place : pc[c] # "done" /\ s # "idle" /\ pc' = [pc EXCEPT ![c] = s]
  <2>1. CASE TriageReads(c) \/ TriageWrites(c)
    BY <2>1 DEF TriageReads, TriageWrites, Goto, Place
  <2>2. CASE CaptureSteps(c)
    BY <2>2 DEF CaptureSteps, Capture, EnsureFinds, EnsureCreates, CaptureChecks, CaptureJoins,
                CaptureFails, Goto, Place
  <2>3. CASE LabelSteps(c)
    BY <2>3 DEF LabelSteps, Label, Compare, StoreLabel, Goto, Place
  <2> QED BY <1>2, <2>1, <2>2, <2>3 DEF TriageStep, CaptureSteps, LabelSteps
<1>3. ASSUME NEW k \in Correction, Correct(k)
      PROVE  \E s \in Place : pc[k] # "done" /\ s # "idle" /\ pc' = [pc EXCEPT ![k] = s]
  BY <1>3 DEF Correct, Goto, Place
<1>4. ASSUME NEW r \in Report, ReportStep(r)
      PROVE  \E s \in Place : pc[r] # "done" /\ s # "idle" /\ pc' = [pc EXCEPT ![r] = s]
  BY <1>4 DEF ReportStep, ReportReads, ReportIsStored, Seal, Goto, Place
<1> QED BY <1>1, <1>2, <1>3, <1>4 DEF Next, Actor

-----------------------------------------------------------------------------
(* Types *)

TypeInv == TypeOK /\ SawShape

LEMMA TypeInit == Init => TypeInv
<1> SUFFICES ASSUME Init PROVE TypeInv
  OBVIOUS
<1>1. <<>> \in Seq(Detection) /\ <<>> \in Seq({"collecting", "proposed"}) /\ <<>> \in Seq(SUBSET Member)
  OBVIOUS
<1> QED BY <1>1 DEF Init, TypeInv, TypeOK, SawShape, NoRow, NoJob, Place, Event, Status, Reason

LEMMA TypeDetection ==
    ASSUME TypeInv, NEW d \in Detection, DetectionStep(d) PROVE TypeInv'
<1> USE DEF TypeInv, TypeOK, SawShape, rowVars, groupVars, reportVars, historyVars, Goto
<1>0. \A c \in Triage \cup Report : c # d
  BY ActorAssumption
<1>1. CASE Read(d)
  BY <1>0, <1>1 DEF Read, Place
<1>2. CASE Insert(d)
  <2>1. row' \in RowType
    BY <1>2 DEF Insert, RowType, Status, Reason
  <2>2. pc' \in [Actor -> Place] /\ \A a \in Actor : a # d => pc'[a] = pc[a]
    BY <1>2 DEF Insert, Place, Actor
  <2> QED BY <1>0, <1>2, <2>1, <2>2 DEF Insert, RowType, Actor
<1>3. CASE Regressed(d)
  BY <1>0, <1>3 DEF Regressed, Place
<1>4. CASE Update(d)
  <2>1. row' \in RowType
    BY <1>4 DEF Update, StatusAfter, ReasonAfter, NextCount, RowType, Status, Reason
  <2> QED BY <1>0, <1>4, <2>1 DEF Update, Place, RowType
<1>5. CASE Record(d)
  <2>1. occurrences' \in Seq(Detection)
    BY <1>5, AppendProperties DEF Record
  <2> QED BY <1>0, <1>5, <2>1 DEF Record, Place
<1> QED BY <1>1, <1>2, <1>3, <1>4, <1>5 DEF DetectionStep

\* What a triage finds is an event or a group
LEMMA JobTakesEvent ==
    ASSUME job \in [Triage -> JobType], NEW c \in Triage, NEW e \in Event,
           job' = [job EXCEPT ![c].event = e]
    PROVE  /\ job' \in [Triage -> JobType]
           /\ \A b \in Triage : job'[b].group = job[b].group
<1>1. [job[c] EXCEPT !.event = e] \in JobType
  BY DEF JobType
<1> QED BY <1>1 DEF JobType

LEMMA JobTakesGroup ==
    ASSUME job \in [Triage -> JobType], NEW c \in Triage, NEW g \in Nat,
           job' = [job EXCEPT ![c].group = g]
    PROVE  /\ job' \in [Triage -> JobType]
           /\ \A b \in Triage : job'[b].group = IF b = c THEN g ELSE job[b].group
<1>1. [job[c] EXCEPT !.group = g] \in JobType
  BY DEF JobType
<1> QED BY <1>1 DEF JobType

LEMMA JobTyped == ASSUME TypeInv PROVE job \in [Triage -> JobType]
  BY DEF TypeInv, TypeOK, JobType

LEMMA TypeTriage ==
    ASSUME TypeInv, NEW c \in Triage, TriageReads(c) \/ TriageWrites(c) \/ LabelSteps(c) PROVE TypeInv'
<1> USE DEF TypeInv, TypeOK, SawShape, rowVars, groupVars, reportVars, historyVars, Goto
<1>0. \A c2 \in Detection \cup Report : c2 # c
  BY ActorAssumption
<1>1. CASE TriageReads(c)
  <2>1. PICK v \in Verdict[c] :
            job' = [job EXCEPT ![c] = [NoJob EXCEPT !.status = v.status, !.reason = v.reason]]
    BY <1>1 DEF TriageReads
  <2>2. v.status \in Status /\ v.reason \in Reason
    BY VerdictAssumption
  <2>3. [NoJob EXCEPT !.status = v.status, !.reason = v.reason] \in JobType
    BY <2>2 DEF NoJob, JobType, Event
  <2>4. job' \in [Triage -> JobType]
    BY <2>1, <2>3 DEF JobType
  <2>5. earlier' \in [Triage -> SUBSET Triage]
    BY <1>1 DEF TriageReads
  <2>6. corrected' \in [Triage -> SUBSET Event]
    <3>1. {l.event : l \in {k \in labels : k.metric # "confirmed"}} \subseteq Event
      OBVIOUS
    <3> QED BY <1>1, <3>1 DEF TriageReads
  <2>7. UNCHANGED <<row, occurrences, outcomes, labels, groups, members, chain, study, since, blind>>
    BY <1>1 DEF TriageReads
  <2>8. pc' \in [Actor -> Place] /\ pc'[c] = "write" /\ \A a \in Actor : a # c => pc'[a] = pc[a]
    BY <1>1 DEF TriageReads, Place, Actor
  <2>9. saw' = [a \in Detection \cup Triage |-> saw'[a]] /\ \A d \in Detection : saw'[d] = saw[d]
    BY <1>0, <1>1 DEF TriageReads
  <2>10. \A b \in Triage : b # c => job'[b] = job[b]
    BY <2>1
  <2> QED BY <1>0, <2>4, <2>5, <2>6, <2>7, <2>8, <2>9, <2>10 DEF Actor, JobType
<1>2. CASE TriageWrites(c)
  <2>1. row' \in RowType
    BY <1>2 DEF TriageWrites, RowType, Reason
  <2> QED BY <1>0, <1>2, <2>1 DEF TriageWrites, Place, RowType
<1>3. CASE Label(c)
  <2>1. job' \in [Triage -> JobType] /\ \A b \in Triage : job'[b].group = job[b].group
    BY <1>3, NewestIsEvent, JobTyped, JobTakesEvent DEF Label
  <2>2. pc' \in [Actor -> Place] /\ (\A a \in Actor : a # c => pc'[a] = pc[a])
        /\ pc'[c] \in {"done", "store", "compare"}
    BY <1>3 DEF Label, Place, Actor
  <2> QED BY <1>0, <1>3, <2>1, <2>2 DEF Label, Actor, JobType
<1>4. CASE Compare(c)
  BY <1>0, <1>4 DEF Compare, Place
<1>5. CASE StoreLabel(c)
  BY <1>0, <1>5 DEF StoreLabel, Place
<1> QED BY <1>1, <1>2, <1>3, <1>4, <1>5 DEF LabelSteps

\* A new group is the last one
LEMMA CreatedGroup ==
    ASSUME TypeInv, NEW c \in Triage, EnsureCreates(c)
    PROVE  /\ groups' \in Seq({"collecting", "proposed"}) /\ Len(groups') = Len(groups) + 1
           /\ members' \in Seq(SUBSET Member) /\ Len(members') = Len(groups')
           /\ DOMAIN groups' = DOMAIN groups \cup {Len(groups) + 1}
           /\ \A g \in DOMAIN groups : groups'[g] = groups[g] /\ members'[g] = members[g]
           /\ groups'[Len(groups) + 1] = "collecting" /\ members'[Len(groups) + 1] = {}
<1> USE DEF TypeInv, TypeOK, EnsureCreates
<1>1. /\ groups' \in Seq({"collecting", "proposed"}) /\ Len(groups') = Len(groups) + 1
      /\ \A g \in 1 .. Len(groups) : groups'[g] = groups[g]
      /\ groups'[Len(groups) + 1] = "collecting"
  <2>1. "collecting" \in {"collecting", "proposed"}
    OBVIOUS
  <2> QED BY <2>1, AppendProperties
<1>2. /\ members' \in Seq(SUBSET Member) /\ Len(members') = Len(members) + 1
      /\ \A g \in 1 .. Len(members) : members'[g] = members[g]
      /\ members'[Len(members) + 1] = {}
  <2>1. {} \in SUBSET Member
    OBVIOUS
  <2> QED BY <2>1, AppendProperties
<1> QED BY <1>1, <1>2

\* A join adds one member to one group
LEMMA JoinedGroup ==
    ASSUME TypeInv, NEW c \in Triage, CaptureJoins(c)
    PROVE  /\ members' \in Seq(SUBSET Member) /\ Len(members') = Len(members)
           /\ \A g \in DOMAIN members : members'[g] =
                 IF g = job[c].group THEN members[g] \cup {[event |-> job[c].event, by |-> c]}
                 ELSE members[g]
<1> USE DEF TypeInv, TypeOK, CaptureJoins
<1> DEFINE more == members[job[c].group] \cup {[event |-> job[c].event, by |-> c]}
<1>1. job[c].group \in 1 .. Len(members)
  OBVIOUS
<1>2. more \in SUBSET Member
  <2>1. members[job[c].group] \in SUBSET Member
    BY <1>1, ElementOfSeq
  <2>2. [event |-> job[c].event, by |-> c] \in Member
    BY DEF Member
  <2> QED BY <2>1, <2>2
<1>3. members' = [members EXCEPT ![job[c].group] = more]
  OBVIOUS
<1> HIDE DEF more
<1>4. members' \in Seq(SUBSET Member) /\ Len(members') = Len(members)
      /\ \A g \in 1 .. Len(members) : members'[g] = IF g = job[c].group THEN more ELSE members[g]
  <2> DEFINE S == SUBSET Member
  <2>1. members \in Seq(S) /\ more \in S
    BY <1>2
  <2> HIDE DEF S
  <2>2. /\ [members EXCEPT ![job[c].group] = more] \in Seq(S)
        /\ Len([members EXCEPT ![job[c].group] = more]) = Len(members)
        /\ \A g \in 1 .. Len(members) :
              [members EXCEPT ![job[c].group] = more][g] = IF g = job[c].group THEN more ELSE members[g]
    BY <1>1, <2>1, ExceptSeq
  <2> QED BY <1>3, <2>2 DEF S
<1> QED BY <1>4 DEF more

LEMMA TypeCapture ==
    ASSUME TypeInv, NEW c \in Triage, CaptureSteps(c) PROVE TypeInv'
<1> USE DEF TypeInv, TypeOK, SawShape, rowVars, groupVars, reportVars, historyVars, Goto
<1>0. \A c2 \in Detection \cup Report : c2 # c
  BY ActorAssumption
<1>1. CASE Capture(c)
  <2>1. job' \in [Triage -> JobType] /\ \A b \in Triage : job'[b].group = job[b].group
    BY <1>1, NewestIsEvent, JobTyped, JobTakesEvent DEF Capture
  <2> QED BY <1>0, <1>1, <2>1 DEF Capture, Place, JobType
<1>2. CASE EnsureFinds(c)
  <2>1. CASE \E g \in Collecting : job' = [job EXCEPT ![c].group = g] /\ Goto(c, "check") /\ UNCHANGED chain
    <3>1. PICK g \in Collecting : job' = [job EXCEPT ![c].group = g]
      BY <2>1
    <3>2. g \in DOMAIN groups /\ g \in Nat
      BY DEF Collecting
    <3>3. job' \in [Triage -> JobType]
          /\ \A b \in Triage : job'[b].group = IF b = c THEN g ELSE job[b].group
      BY <3>1, <3>2, JobTyped, JobTakesGroup
    <3> QED BY <1>0, <1>2, <2>1, <3>2, <3>3 DEF EnsureFinds, Place, JobType
  <2>2. CASE /\ chain' = [chain EXCEPT ![At[c]] = c] /\ Goto(c, "create") /\ UNCHANGED job
    BY <1>0, <1>2, <2>2, ActorAssumption DEF EnsureFinds, Place
  <2> QED BY <1>2, <2>1, <2>2 DEF EnsureFinds
<1>3. CASE EnsureCreates(c)
  <2>1. /\ job' \in [Triage -> JobType]
        /\ \A b \in Triage : job'[b].group = IF b = c THEN Len(groups) + 1 ELSE job[b].group
    <3>1. Len(groups) + 1 \in Nat
      OBVIOUS
    <3> QED BY <1>3, <3>1, JobTyped, JobTakesGroup DEF EnsureCreates
  <2>3. chain' \in [Replica -> Triage \cup {Nobody}]
    BY <1>3, ActorAssumption DEF EnsureCreates
  <2> QED BY <1>0, <1>3, <2>1, <2>3, CreatedGroup DEF EnsureCreates, Place, JobType
<1>4. CASE CaptureChecks(c)
  BY <1>0, <1>4 DEF CaptureChecks, Place
<1>5. CASE CaptureJoins(c)
  BY <1>0, <1>5, JoinedGroup DEF CaptureJoins, Place
<1>6. CASE CaptureFails(c)
  BY <1>0, <1>6 DEF CaptureFails, Place
<1> QED BY <1>1, <1>2, <1>3, <1>4, <1>5, <1>6 DEF CaptureSteps

\* A report seals one group
LEMMA SealedGroup ==
    ASSUME TypeInv, NEW r \in Report, Seal(r)
    PROVE  /\ groups' \in Seq({"collecting", "proposed"}) /\ Len(groups') = Len(groups)
           /\ \A g \in DOMAIN groups : groups'[g] = IF g = study[r].group THEN "proposed" ELSE groups[g]
<1> USE DEF TypeInv, TypeOK, Seal
<1>1. study[r].group \in 1 .. Len(groups) /\ "proposed" \in {"collecting", "proposed"}
  OBVIOUS
<1> QED BY <1>1, ExceptSeq

LEMMA TypeReport ==
    ASSUME TypeInv, NEW r \in Report, ReportStep(r) PROVE TypeInv'
<1> USE DEF TypeInv, TypeOK, SawShape, rowVars, groupVars, reportVars, historyVars, Goto
<1>0. \A c \in Detection \cup Triage : c # r
  BY ActorAssumption
<1>1. CASE ReportReads(r)
  <2>1. PICK g \in DOMAIN groups : study' = [study EXCEPT ![r] = [group |-> g, read |-> members[g]]]
    BY <1>1 DEF ReportReads
  <2>2. members[g] \in SUBSET Member
    BY <2>1, ElementOfSeq
  <2> QED BY <1>0, <1>1, <2>1, <2>2 DEF ReportReads, Place
<1>2. CASE ReportIsStored(r)
  BY <1>0, <1>2 DEF ReportIsStored, Place
<1>3. CASE Seal(r)
  BY <1>0, <1>3, SealedGroup DEF Seal, Place
<1> QED BY <1>1, <1>2, <1>3 DEF ReportStep

LEMMA TypeStep == TypeInv /\ [Next]_vars => TypeInv'
<1> SUFFICES ASSUME TypeInv, [Next]_vars PROVE TypeInv'
  OBVIOUS
<1>1. CASE UNCHANGED vars
  BY <1>1 DEF vars, rowVars, groupVars, reportVars, historyVars, TypeInv, TypeOK, SawShape
<1>2. ASSUME NEW k \in Correction, Correct(k) PROVE TypeInv'
  <2>1. \A c \in Detection \cup Triage \cup Report : c # k
    BY ActorAssumption
  <2>2. labels' \subseteq [event : Event, metric : {"confirmed", "false-positive", "correction"},
                          by : Triage \cup Correction]
    <3>1. PICK n \in DOMAIN occurrences :
              labels' = labels \cup {[event |-> occurrences[n], metric |-> "correction", by |-> k]}
      BY <1>2 DEF Correct
    <3>2. occurrences[n] \in Event
      BY ElementOfSeq DEF TypeInv, TypeOK, Event
    <3> QED BY <3>1, <3>2 DEF TypeInv, TypeOK
  <2> QED BY <1>2, <2>1, <2>2 DEF Correct, TypeInv, TypeOK, SawShape, rowVars, groupVars, reportVars,
                           historyVars, Goto, Place
<1> QED BY <1>1, <1>2, TypeDetection, TypeTriage, TypeCapture, TypeReport
        DEF Next, TriageStep, LabelSteps, CaptureSteps

\* The types of one signal and everyone who works on it.
THEOREM TypeHolds == Spec => []TypeInv
  BY TypeInit, TypeStep, PTL DEF Spec

-----------------------------------------------------------------------------
(* The signal: its count, its status and its reason. *)

\* Only these four kinds of step touch the signal, or what counts as detected
LEMMA SignalSteps ==
    ASSUME TypeInv, Next
    PROVE  \/ \E d \in Detection : Read(d) \/ Insert(d) \/ Update(d)
           \/ \E c \in Triage : TriageWrites(c)
           \/ UNCHANGED <<row, undone, since>> /\ \A d \in Detection : Counted(d)' = Counted(d)
<1> DEFINE Spared == UNCHANGED <<row, undone, since>> /\ \A d \in Detection : Counted(d)' = Counted(d)
<1> USE DEF TypeInv, TypeOK, Goto, rowVars, groupVars, reportVars, historyVars
<1>1. ASSUME NEW d \in Detection, Regressed(d) \/ Record(d) PROVE Spared
  BY <1>1 DEF Regressed, Record, Counted
<1>2. ASSUME NEW c \in Triage, TriageReads(c) PROVE Spared
  <2>1. \A d \in Detection : pc'[d] = pc[d]
    BY <1>2, ActorAssumption DEF TriageReads
  <2> QED BY <1>2, <2>1 DEF TriageReads, Counted
<1>3. ASSUME NEW c \in Triage, CaptureSteps(c) PROVE Spared
  <2>1. \A d \in Detection : pc'[d] = pc[d]
    BY <1>3, ActorAssumption DEF CaptureSteps, Capture, EnsureFinds, EnsureCreates, CaptureChecks,
                                CaptureJoins, CaptureFails
  <2>2. UNCHANGED <<row, undone, since>>
    BY <1>3 DEF CaptureSteps, Capture, EnsureFinds, EnsureCreates, CaptureChecks, CaptureJoins, CaptureFails
  <2> QED BY <2>1, <2>2 DEF Counted
<1>4. ASSUME NEW c \in Triage, LabelSteps(c) PROVE Spared
  <2>1. \A d \in Detection : pc'[d] = pc[d]
    BY <1>4, ActorAssumption DEF LabelSteps, Label, Compare, StoreLabel
  <2>2. UNCHANGED <<row, undone, since>>
    BY <1>4 DEF LabelSteps, Label, Compare, StoreLabel
  <2> QED BY <2>1, <2>2 DEF Counted
<1>5. ASSUME NEW k \in Correction, Correct(k) PROVE Spared
  <2>1. \A d \in Detection : pc'[d] = pc[d]
    BY <1>5, ActorAssumption DEF Correct
  <2> QED BY <1>5, <2>1 DEF Correct, Counted
<1>6. ASSUME NEW r \in Report, ReportStep(r) PROVE Spared
  <2>1. \A d \in Detection : pc'[d] = pc[d]
    BY <1>6, ActorAssumption DEF ReportStep, ReportReads, ReportIsStored, Seal
  <2>2. UNCHANGED <<row, undone, since>>
    BY <1>6 DEF ReportStep, ReportReads, ReportIsStored, Seal
  <2> QED BY <2>1, <2>2 DEF Counted
<1> QED BY <1>1, <1>2, <1>3, <1>4, <1>5, <1>6
        DEF Next, DetectionStep, TriageStep, CaptureSteps, LabelSteps

Tallied == {d \in Detection : Counted(d)}

\* The inductive form of CountIsExact
CountInv == IsFiniteSet(Tallied) /\ row.count = Cardinality(Tallied)

\* A step that counts one detection, or none
LEMMA CountMoves ==
    ASSUME CountInv,
           \/ row'.count = row.count /\ \A d \in Detection : Counted(d)' = Counted(d)
           \/ \E d \in Detection :
                 /\ row'.count = row.count + 1 /\ ~Counted(d) /\ Counted(d)'
                 /\ \A e \in Detection : e # d => Counted(e)' = Counted(e)
    PROVE  CountInv'
<1>1. CASE row'.count = row.count /\ \A d \in Detection : Counted(d)' = Counted(d)
  <2>1. Tallied' = Tallied
    BY <1>1 DEF Tallied
  <2> QED BY <1>1, <2>1 DEF CountInv
<1>2. ASSUME NEW d \in Detection, row'.count = row.count + 1, ~Counted(d), Counted(d)',
             \A e \in Detection : e # d => Counted(e)' = Counted(e)
      PROVE  CountInv'
  <2>1. Tallied' = Tallied \cup {d} /\ d \notin Tallied
    BY <1>2 DEF Tallied
  <2> QED BY <1>2, <2>1, FS_AddElement DEF CountInv
<1> QED BY <1>1, <1>2

\* What a detection that has written counts
LEMMA DetectionCounts ==
    ASSUME TypeInv, CountInv, NEW d \in Detection, Read(d) \/ Insert(d) \/ Update(d)
    PROVE  CountInv'
<1> USE DEF TypeInv, TypeOK, Goto
<1>1. CASE Read(d)
  <2>1. row'.count = row.count
    BY <1>1 DEF Read, rowVars
  <2>2. \A e \in Detection : Counted(e)' = Counted(e)
    BY <1>1 DEF Read, Counted
  <2> QED BY <2>1, <2>2, CountMoves
<1>2. CASE Insert(d) /\ row = NoRow
  <2>1. row'.count = row.count + 1
    BY <1>2 DEF Insert, NoRow
  <2>2. ~Counted(d) /\ Counted(d)' /\ \A e \in Detection : e # d => Counted(e)' = Counted(e)
    BY <1>2 DEF Insert, Counted
  <2> QED BY <2>1, <2>2, CountMoves
<1>3. CASE Insert(d) /\ row # NoRow
  <2>1. row'.count = row.count
    BY <1>3 DEF Insert
  <2>2. \A e \in Detection : Counted(e)' = Counted(e)
    BY <1>3 DEF Insert, Counted
  <2> QED BY <2>1, <2>2, CountMoves
<1>4. CASE Update(d)
  <2>1. row'.count = row.count + 1
    BY <1>4 DEF Update, NextCount
  <2>2. ~Counted(d) /\ Counted(d)' /\ \A e \in Detection : e # d => Counted(e)' = Counted(e)
    BY <1>4 DEF Update, Counted
  <2> QED BY <2>1, <2>2, CountMoves
<1> QED BY <1>1, <1>2, <1>3, <1>4

\* A triage writes the status, and detections stay where they are
LEMMA TriageSpares ==
    ASSUME TypeInv, NEW c \in Triage, TriageWrites(c)
    PROVE  row'.count = row.count /\ \A d \in Detection : Counted(d)' = Counted(d)
<1>1. \A d \in Detection : pc'[d] = pc[d]
  BY ActorAssumption DEF TriageWrites, Goto, TypeInv, TypeOK
<1>2. row'.count = row.count
  BY DEF TriageWrites, TypeInv, TypeOK
<1> QED BY <1>1, <1>2 DEF Counted

LEMMA CountStep == TypeInv /\ CountInv /\ [Next]_vars => CountInv'
<1> SUFFICES ASSUME TypeInv, CountInv, [Next]_vars PROVE CountInv'
  OBVIOUS
<1>1. CASE UNCHANGED vars
  BY <1>1 DEF vars, rowVars, CountInv, Tallied, Counted
<1>2. CASE Next
  BY <1>2, SignalSteps, DetectionCounts, TriageSpares, CountMoves
<1> QED BY <1>1, <1>2

LEMMA CountInit == Init => CountInv
<1> SUFFICES ASSUME Init PROVE CountInv
  OBVIOUS
<1>1. Tallied = {}
  BY DEF Init, Tallied, Counted
<1>2. row.count = 0
  BY DEF Init, NoRow
<1> QED BY <1>1, <1>2, FS_EmptySet DEF CountInv

\* The count of a signal is the number of detections that wrote to it, for any
\* number of them that read the row before any wrote (upsertSignal).
THEOREM CountHolds == Spec => []CountIsExact
<1>1. CountInv => CountIsExact
  BY DEF CountInv, CountIsExact, Tallied
<1> QED BY <1>1, CountInit, CountStep, TypeHolds, PTL DEF Spec

LEMMA RecurrenceStep == TypeInv /\ NoSilentRecurrence /\ [Next]_vars => NoSilentRecurrence'
<1> SUFFICES ASSUME TypeInv, NoSilentRecurrence, [Next]_vars PROVE NoSilentRecurrence'
  OBVIOUS
<1>1. CASE UNCHANGED vars
  BY <1>1 DEF vars, rowVars, historyVars, NoSilentRecurrence, Counted
<1> USE DEF TypeInv, TypeOK, Goto, NoSilentRecurrence
<1>2. ASSUME NEW d \in Detection, Read(d) PROVE NoSilentRecurrence'
  <2>1. row' = row /\ since' = since \cup {d} /\ \A e \in Detection : pc'[e] = IF e = d THEN pc'[d] ELSE pc[e]
    BY <1>2 DEF Read, rowVars
  <2>2. pc'[d] \in {"insert", "regressed", "update"} /\ \A e : e # d => pc'[e] = pc[e]
    BY <1>2 DEF Read
  <2> QED BY <2>1, <2>2 DEF Counted
<1>3. ASSUME NEW d \in Detection, Insert(d) PROVE NoSilentRecurrence'
  <2>1. CASE row = NoRow
    BY <1>3, <2>1 DEF Insert, Closed
  <2>2. CASE row # NoRow
    <3>1. row' = row /\ since' = since /\ pc' = [pc EXCEPT ![d] = "update"]
      BY <1>3, <2>2 DEF Insert, historyVars
    <3> QED BY <3>1 DEF Counted
  <2> QED BY <2>1, <2>2
<1>4. ASSUME NEW d \in Detection, Update(d) PROVE NoSilentRecurrence'
  BY <1>4 DEF Update, StatusAfter, Reopens, Closed
<1>5. ASSUME NEW c \in Triage, TriageWrites(c) PROVE NoSilentRecurrence'
  <2>1. CASE job[c].status \in Closed
    BY <1>5, <2>1 DEF TriageWrites
  <2>2. CASE job[c].status \notin Closed
    BY <1>5, <2>2 DEF TriageWrites
  <2> QED BY <2>1, <2>2
<1>6. CASE UNCHANGED <<row, undone, since>> /\ \A d \in Detection : Counted(d)' = Counted(d)
  <2>1. \A d \in since : Counted(d)' = Counted(d)
    BY <1>6
  <2> QED BY <1>6, <2>1
<1> QED BY <1>1, <1>2, <1>3, <1>4, <1>5, <1>6, SignalSteps

LEMMA ReasonStep == TypeInv /\ ReasonTravelsWithResolved /\ [Next]_vars => ReasonTravelsWithResolved'
<1> SUFFICES ASSUME TypeInv, ReasonTravelsWithResolved, [Next]_vars PROVE ReasonTravelsWithResolved'
  OBVIOUS
<1> USE DEF ReasonTravelsWithResolved
<1>1. CASE UNCHANGED vars
  BY <1>1 DEF vars, rowVars, historyVars
<1>2. ASSUME NEW d \in Detection, Read(d) PROVE ReasonTravelsWithResolved'
  BY <1>2 DEF Read, rowVars
<1>3. ASSUME NEW d \in Detection, Insert(d) PROVE ReasonTravelsWithResolved'
  BY <1>3 DEF Insert, historyVars
<1>4. ASSUME NEW d \in Detection, Update(d) PROVE ReasonTravelsWithResolved'
  BY <1>4 DEF Update, StatusAfter, ReasonAfter, Reopens, Closed
<1>5. ASSUME NEW c \in Triage, TriageWrites(c) PROVE ReasonTravelsWithResolved'
  BY <1>5 DEF TriageWrites, TypeInv, TypeOK
<1>6. CASE UNCHANGED <<row, undone, since>> /\ \A d \in Detection : Counted(d)' = Counted(d)
  BY <1>6
<1> QED BY <1>1, <1>2, <1>3, <1>4, <1>5, <1>6, SignalSteps

\* No detection stays hidden under a closed signal, however it interleaves with
\* triages and other detections (upsertSignal, updateSignal).
THEOREM RecurrenceHolds == Spec => []NoSilentRecurrence
<1>1. Init => NoSilentRecurrence
  BY DEF Init, NoSilentRecurrence, NoRow, Closed
<1> QED BY <1>1, RecurrenceStep, TypeHolds, PTL DEF Spec

\* A reason is found only on a resolved signal, or on one whose triage a
\* detection has undone (updateSignal, upsertSignal).
THEOREM ReasonHolds == Spec => []ReasonTravelsWithResolved
<1>1. Init => ReasonTravelsWithResolved
  BY DEF Init, ReasonTravelsWithResolved, NoRow
<1> QED BY <1>1, ReasonStep, TypeHolds, PTL DEF Spec

-----------------------------------------------------------------------------
(* The collecting group. *)

\* Only these steps touch the groups and the chain
LEMMA GroupSteps ==
    ASSUME TypeInv, Next
    PROVE  \/ \E c \in Triage : EnsureFinds(c) \/ EnsureCreates(c) \/ CaptureFails(c)
           \/ \E r \in Report : Seal(r)
           \/ UNCHANGED <<groups, chain>> /\ \A c \in Triage : pc'[c] = "create" <=> pc[c] = "create"
<1> DEFINE Spared == UNCHANGED <<groups, chain>> /\ \A c \in Triage : pc'[c] = "create" <=> pc[c] = "create"
<1> USE DEF TypeInv, TypeOK, Goto, groupVars
<1>1. ASSUME NEW d \in Detection, Read(d) \/ Insert(d) \/ Regressed(d) \/ Update(d) \/ Record(d) PROVE Spared
  BY <1>1, ActorAssumption DEF Read, Insert, Regressed, Update, Record
<1>2. ASSUME NEW c \in Triage, TriageReads(c) \/ TriageWrites(c) PROVE Spared
  BY <1>2, ActorAssumption DEF TriageReads, TriageWrites
<1>3. ASSUME NEW c \in Triage, Capture(c) PROVE Spared
  BY <1>3, ActorAssumption DEF Capture
<1>4. ASSUME NEW c \in Triage, CaptureChecks(c) \/ CaptureJoins(c) PROVE Spared
  BY <1>4, ActorAssumption DEF CaptureChecks, CaptureJoins
<1>5. ASSUME NEW c \in Triage, Label(c) \/ Compare(c) \/ StoreLabel(c) PROVE Spared
  BY <1>5, ActorAssumption DEF Label, Compare, StoreLabel
<1>6. ASSUME NEW k \in Correction, Correct(k) PROVE Spared
  BY <1>6, ActorAssumption DEF Correct
<1>7. ASSUME NEW r \in Report, ReportReads(r) \/ ReportIsStored(r) PROVE Spared
  BY <1>7, ActorAssumption DEF ReportReads, ReportIsStored
<1> QED BY <1>1, <1>2, <1>3, <1>4, <1>5, <1>6, <1>7
        DEF Next, DetectionStep, TriageStep, ReportStep

OneReplica == \A b, c \in Triage : At[b] = At[c]

\* The inductive form of OneCollecting: who creates a group holds the chain of
\* its process, and has found no group
GroupInv ==
    /\ \A c \in Triage : pc[c] = "create" => chain[At[c]] = c
    /\ OneReplica => \A c \in Triage : pc[c] = "create" => Collecting = {}
    /\ OneReplica => \A g, h \in Collecting : g = h

LEMMA GroupStep == TypeInv /\ GroupInv /\ [Next]_vars => GroupInv'
<1> SUFFICES ASSUME TypeInv, GroupInv, [Next]_vars PROVE GroupInv'
  OBVIOUS
<1> USE DEF GroupInv, Goto
<1>1. CASE UNCHANGED vars
  BY <1>1 DEF vars, groupVars, Collecting
<1>2. ASSUME NEW c \in Triage, EnsureFinds(c) PROVE GroupInv'
  <2>1. Collecting' = Collecting
    BY <1>2 DEF EnsureFinds, Collecting
  <2>2. CASE UNCHANGED chain /\ pc' = [pc EXCEPT ![c] = "check"]
    BY <2>1, <2>2 DEF TypeInv, TypeOK
  <2>3. CASE /\ Collecting = {} /\ chain' = [chain EXCEPT ![At[c]] = c]
             /\ pc' = [pc EXCEPT ![c] = "create"]
    <3>1. \A b \in Triage : b # c /\ pc[b] = "create" => At[b] # At[c]
      BY <1>2, ActorAssumption DEF EnsureFinds, ChainFree
    <3>2. \A b \in Triage : pc'[b] = "create" => chain'[At[b]] = b
      BY <2>3, <3>1, ActorAssumption DEF TypeInv, TypeOK
    <3> QED BY <2>1, <2>3, <3>2
  <2> QED BY <1>2, <2>2, <2>3 DEF EnsureFinds
<1>3. ASSUME NEW c \in Triage, EnsureCreates(c) PROVE GroupInv'
  <2>1. chain[At[c]] = c /\ chain' = [chain EXCEPT ![At[c]] = Nobody] /\ pc' = [pc EXCEPT ![c] = "check"]
    BY <1>3 DEF EnsureCreates
  <2>2. \A b \in Triage : pc'[b] = "create" => pc[b] = "create" /\ At[b] # At[c] /\ chain'[At[b]] = b
    BY <2>1, ActorAssumption DEF TypeInv, TypeOK
  <2>3. OneReplica => \A g \in Collecting' : g = Len(groups) + 1
    <3>1. OneReplica => Collecting = {}
      BY <1>3 DEF EnsureCreates
    <3> QED BY <1>3, <3>1, CreatedGroup DEF Collecting
  <2> QED BY <2>2, <2>3 DEF OneReplica
<1>4. ASSUME NEW c \in Triage, CaptureFails(c) PROVE GroupInv'
  <2>1. Collecting' = Collecting
    BY <1>4 DEF CaptureFails, Collecting
  <2>2. /\ chain' = [chain EXCEPT ![At[c]] = IF chain[At[c]] = c THEN Nobody ELSE chain[At[c]]]
        /\ pc' = [pc EXCEPT ![c] = "label"]
    BY <1>4 DEF CaptureFails
  <2>3. \A b \in Triage : pc'[b] = "create" => pc[b] = "create" /\ chain'[At[b]] = b
    BY <2>2, ActorAssumption DEF TypeInv, TypeOK
  <2> QED BY <2>1, <2>3
<1>5. ASSUME NEW r \in Report, Seal(r) PROVE GroupInv'
  <2>1. Collecting' \subseteq Collecting
    BY <1>5, SealedGroup DEF Collecting, TypeInv, TypeOK
  <2>2. UNCHANGED chain /\ \A c \in Triage : pc'[c] = pc[c]
    BY <1>5, ActorAssumption DEF Seal, TypeInv, TypeOK
  <2> QED BY <2>1, <2>2
<1>6. CASE UNCHANGED <<groups, chain>> /\ \A c \in Triage : pc'[c] = "create" <=> pc[c] = "create"
  BY <1>6 DEF Collecting
<1> QED BY <1>1, <1>2, <1>3, <1>4, <1>5, <1>6, GroupSteps

\* In one process at most one improvement group collects, whatever number of
\* confirmations run at once and wherever they fail (ensureCollectingGroup).
THEOREM OneCollectingHolds == Spec => []OneCollecting
<1>1. Init => GroupInv
  BY DEF Init, GroupInv, Collecting
<1>2. GroupInv => OneCollecting
  BY DEF GroupInv, OneCollecting, OneReplica
<1> QED BY <1>1, <1>2, GroupStep, TypeHolds, PTL DEF Spec

-----------------------------------------------------------------------------
(* The evidence. *)

\* Only these steps touch the evidence, or what is known of it
LEMMA EvidenceSteps ==
    ASSUME TypeInv, Next
    PROVE  \/ \E c \in Triage : TriageReads(c) \/ EnsureCreates(c) \/ CaptureChecks(c) \/ CaptureJoins(c)
           \/ /\ UNCHANGED <<members, earlier>>
              /\ \A c \in Triage : pc'[c] = "join" => pc[c] = "join" /\ job'[c] = job[c]
<1> DEFINE Spared == /\ UNCHANGED <<members, earlier>>
                     /\ \A c \in Triage : pc'[c] = "join" => pc[c] = "join" /\ job'[c] = job[c]
<1> USE DEF TypeInv, TypeOK, Goto, groupVars, historyVars
<1>1. ASSUME NEW d \in Detection, Read(d) \/ Insert(d) \/ Regressed(d) \/ Update(d) \/ Record(d) PROVE Spared
  BY <1>1, ActorAssumption DEF Read, Insert, Regressed, Update, Record
<1>2. ASSUME NEW c \in Triage, TriageWrites(c) PROVE Spared
  BY <1>2, ActorAssumption DEF TriageWrites
<1>3. ASSUME NEW c \in Triage, Capture(c) \/ EnsureFinds(c) PROVE Spared
  BY <1>3, ActorAssumption DEF Capture, EnsureFinds
<1>4. ASSUME NEW c \in Triage, CaptureFails(c) PROVE Spared
  BY <1>4, ActorAssumption DEF CaptureFails
<1>5. ASSUME NEW c \in Triage, Label(c) \/ Compare(c) \/ StoreLabel(c) PROVE Spared
  BY <1>5, ActorAssumption DEF Label, Compare, StoreLabel
<1>6. ASSUME NEW k \in Correction, Correct(k) PROVE Spared
  BY <1>6, ActorAssumption DEF Correct
<1>7. ASSUME NEW r \in Report, ReportReads(r) \/ ReportIsStored(r) \/ Seal(r) PROVE Spared
  BY <1>7, ActorAssumption DEF ReportReads, ReportIsStored, Seal
<1> QED BY <1>1, <1>2, <1>3, <1>4, <1>5, <1>6, <1>7
        DEF Next, DetectionStep, TriageStep, ReportStep

\* The inductive form of EvidenceOnce: who is about to join has found no
\* evidence of the event by anyone who was over before
EvidenceInv ==
    /\ \A c \in Triage : \A b \in earlier[c] : pc[b] = "done"
    /\ \A g \in DOMAIN members : \A m \in members[g] : pc[m.by] # "idle"
    /\ \A c \in Triage : pc[c] = "join" =>
          \A m \in members[job[c].group] : m.event = job[c].event => m.by \notin earlier[c]
    /\ EvidenceOnce

\* What a group holds was captured by triages
LEMMA MembersTyped ==
    ASSUME TypeInv, NEW g \in DOMAIN members
    PROVE  members[g] \in SUBSET Member
  BY ElementOfSeq DEF TypeInv, TypeOK

LEMMA EvidenceStep == TypeInv /\ EvidenceInv /\ [Next]_vars => EvidenceInv'
<1> SUFFICES ASSUME TypeInv, EvidenceInv, [Next]_vars PROVE EvidenceInv'
  OBVIOUS
<1> USE DEF EvidenceInv, EvidenceOnce
<1>1. CASE UNCHANGED vars
  BY <1>1 DEF vars, groupVars, historyVars
<1>0. ASSUME Next
      PROVE  /\ \A b \in Triage : pc[b] = "done" => pc'[b] = "done"
             /\ \A b \in Triage : pc[b] # "idle" => pc'[b] # "idle"
  BY <1>0, OneMoves DEF TypeInv, TypeOK, Actor
<1>2. ASSUME NEW c \in Triage, TriageReads(c), Next PROVE EvidenceInv'
  <2>1. /\ UNCHANGED <<members>> /\ pc' = [pc EXCEPT ![c] = "write"] /\ pc[c] = "idle"
        /\ earlier' = [earlier EXCEPT ![c] = {b \in Triage : pc[b] = "done"}]
        /\ \A b \in Triage : b # c => job'[b] = job[b]
    BY <1>2 DEF TriageReads, groupVars, Goto, TypeInv, TypeOK
  <2>2. \A b \in Triage : \A a \in earlier'[b] : pc'[a] = "done"
    BY <1>0, <1>2, <2>1 DEF TypeInv, TypeOK
  <2>3. \A g \in DOMAIN members : \A m \in members[g] : m.by \in Triage /\ m.by # c
    BY <2>1, MembersTyped DEF Member
  <2>4. \A b \in Triage : pc'[b] = "join" => pc[b] = "join" /\ b # c
    BY <2>1 DEF TypeInv, TypeOK
  <2>5. \A b \in Triage : b # c => earlier'[b] = earlier[b]
    BY <2>1 DEF TypeInv, TypeOK
  <2>6. \A g \in DOMAIN members : \A m \in members[g] : pc'[m.by] # "idle"
    BY <1>0, <1>2, <2>3
  <2>7. \A b \in Triage : pc'[b] = "join" => job'[b] = job[b] /\ earlier'[b] = earlier[b]
    BY <2>1, <2>4, <2>5
  <2>8. EvidenceOnce'
    BY <2>1, <2>3, <2>5
  <2> QED BY <2>1, <2>2, <2>4, <2>6, <2>7, <2>8
<1>3. ASSUME NEW c \in Triage, EnsureCreates(c), Next PROVE EvidenceInv'
  <2>1. /\ earlier' = earlier /\ pc' = [pc EXCEPT ![c] = "check"]
        /\ \A b \in Triage : b # c => job'[b] = job[b]
    BY <1>3 DEF EnsureCreates, historyVars, Goto, TypeInv, TypeOK
  <2>2. \A g \in DOMAIN members' : (g \in DOMAIN members /\ members'[g] = members[g]) \/ members'[g] = {}
    BY <1>3, CreatedGroup DEF TypeInv, TypeOK
  <2>3. \A b \in Triage : pc'[b] = "join" => pc[b] = "join" /\ b # c /\ job[b].group \in DOMAIN members
                                          /\ members'[job[b].group] = members[job[b].group]
    BY <1>3, <2>1, CreatedGroup DEF TypeInv, TypeOK
  <2>4. \A g \in DOMAIN members : \A m \in members[g] : m.by \in Triage
    BY MembersTyped DEF Member
  <2>5. \A b \in Triage : \A a \in earlier'[b] : pc'[a] = "done"
    BY <1>0, <1>3, <2>1 DEF TypeInv, TypeOK
  <2>6. \A g \in DOMAIN members' : \A m \in members'[g] : pc'[m.by] # "idle"
    BY <1>0, <1>3, <2>2, <2>4
  <2>7. EvidenceOnce'
    BY <2>1, <2>2
  <2> QED BY <2>1, <2>3, <2>5, <2>6, <2>7
<1>4. ASSUME NEW c \in Triage, CaptureChecks(c), Next PROVE EvidenceInv'
  <2>1. UNCHANGED <<members, earlier, job>>
    BY <1>4 DEF CaptureChecks, groupVars, historyVars
  <2>2. \A b \in Triage : pc'[b] = "join" => pc[b] = "join" \/ (b = c /\ ~Duplicate(c))
    BY <1>4 DEF CaptureChecks, Goto, TypeInv, TypeOK
  <2>3. \A g \in DOMAIN members : \A m \in members[g] : m.by \in Triage
    BY MembersTyped DEF Member
  <2>4. \A b \in Triage : \A a \in earlier'[b] : pc'[a] = "done"
    BY <1>0, <1>4, <2>1 DEF TypeInv, TypeOK
  <2>5. \A g \in DOMAIN members' : \A m \in members'[g] : pc'[m.by] # "idle"
    BY <1>0, <1>4, <2>1, <2>3
  <2> QED BY <2>1, <2>2, <2>4, <2>5 DEF Duplicate
<1>5. ASSUME NEW c \in Triage, CaptureJoins(c), Next PROVE EvidenceInv'
  <2> DEFINE own == [event |-> job[c].event, by |-> c]
  <2>1. /\ UNCHANGED <<earlier, job>> /\ pc[c] = "join" /\ pc' = [pc EXCEPT ![c] = "label"]
    BY <1>5 DEF CaptureJoins, historyVars, Goto
  <2>2. /\ DOMAIN members' = DOMAIN members
        /\ \A g \in DOMAIN members : \A m \in members'[g] :
              m \in members[g] \/ (m = own /\ g = job[c].group)
        /\ \A b \in Triage : pc[b] = "join" => job[b].group \in DOMAIN members
    <3>1. /\ members' \in Seq(SUBSET Member) /\ Len(members') = Len(members)
          /\ \A g \in DOMAIN members : members'[g] =
                IF g = job[c].group THEN members[g] \cup {own} ELSE members[g]
      BY <1>5, JoinedGroup
    <3>2. members \in Seq(SUBSET Member) /\ \A b \in Triage : pc[b] = "join" => job[b].group \in DOMAIN members
      BY <1>5 DEF TypeInv, TypeOK
    <3> HIDE DEF own
    <3>3. DOMAIN members' = DOMAIN members
      <4> DEFINE S == SUBSET Member
      <4>1. members \in Seq(S) /\ members' \in Seq(S) /\ Len(members') = Len(members)
        BY <3>1, <3>2
      <4> HIDE DEF S
      <4> QED BY <4>1
    <3>4. \A g \in DOMAIN members : \A m \in members'[g] : m \in members[g] \/ (m = own /\ g = job[c].group)
      BY <3>1
    <3> QED BY <3>2, <3>3, <3>4
  <2>3. own.event = job[c].event /\ own.by = c
    OBVIOUS
  <2>4. \A b \in Triage : c \notin earlier[b]
    BY <2>1
  <2>5. \A g \in DOMAIN members : \A m \in members[g] : m.by \in Triage
    BY MembersTyped DEF Member
  <2>6. \A b \in Triage : \A a \in earlier'[b] : pc'[a] = "done"
    BY <1>0, <1>5, <2>1 DEF TypeInv, TypeOK
  <2> HIDE DEF own
  <2>7. \A g \in DOMAIN members' : \A m \in members'[g] : pc'[m.by] # "idle"
    BY <1>0, <1>5, <2>1, <2>2, <2>3, <2>5
  <2>8. \A b \in Triage : pc'[b] = "join" => pc[b] = "join"
    BY <2>1 DEF TypeInv, TypeOK
  <2>9. \A b \in Triage : pc'[b] = "join" =>
           \A m \in members'[job'[b].group] : m.event = job'[b].event => m.by \notin earlier'[b]
    BY <2>1, <2>2, <2>3, <2>4, <2>8
  <2>10. EvidenceOnce'
    BY <2>1, <2>2, <2>3, <2>4, <2>5
  <2> QED BY <2>6, <2>7, <2>9, <2>10
<1>6. ASSUME UNCHANGED <<members, earlier>>,
             \A c \in Triage : pc'[c] = "join" => pc[c] = "join" /\ job'[c] = job[c], Next
      PROVE  EvidenceInv'
  <2>1. \A g \in DOMAIN members : \A m \in members[g] : m.by \in Triage
    BY MembersTyped DEF Member
  <2>2. \A b \in Triage : \A a \in earlier'[b] : pc'[a] = "done"
    BY <1>0, <1>6 DEF TypeInv, TypeOK
  <2>3. \A g \in DOMAIN members' : \A m \in members'[g] : pc'[m.by] # "idle"
    BY <1>0, <1>6, <2>1
  <2> QED BY <1>6, <2>2, <2>3
<1> QED BY <1>1, <1>2, <1>3, <1>4, <1>5, <1>6, EvidenceSteps

\* A confirmation that begins after another was over does not double its
\* evidence, for any number of confirmations (captureConfirmedFailure).
THEOREM EvidenceHolds == Spec => []EvidenceOnce
<1>1. Init => EvidenceInv
  BY DEF Init, EvidenceInv, EvidenceOnce
<1>2. EvidenceInv => EvidenceOnce
  BY DEF EvidenceInv
<1> QED BY <1>1, <1>2, EvidenceStep, TypeHolds, PTL DEF Spec

-----------------------------------------------------------------------------
(* The baseline labels. *)

\* Only these steps touch the labels, or what is known of them
LEMMA LabelledBy ==
    ASSUME TypeInv, Next
    PROVE  \/ \E c \in Triage : TriageReads(c) \/ Label(c) \/ Compare(c) \/ StoreLabel(c)
           \/ \E k \in Correction : Correct(k)
           \/ /\ UNCHANGED <<labels, corrected, blind>>
              /\ \A c \in Triage :
                    pc'[c] = "store" => pc[c] = "store" /\ job'[c] = job[c] /\ saw'[c] = saw[c]
<1> DEFINE Spared == /\ UNCHANGED <<labels, corrected, blind>>
                     /\ \A c \in Triage :
                           pc'[c] = "store" => pc[c] = "store" /\ job'[c] = job[c] /\ saw'[c] = saw[c]
<1> USE DEF TypeInv, TypeOK, SawShape, Goto, groupVars, historyVars
<1>1. ASSUME NEW d \in Detection, Read(d) \/ Insert(d) \/ Regressed(d) \/ Update(d) \/ Record(d) PROVE Spared
  BY <1>1, ActorAssumption DEF Read, Insert, Regressed, Update, Record
<1>2. ASSUME NEW c \in Triage, TriageWrites(c) PROVE Spared
  BY <1>2, ActorAssumption DEF TriageWrites
<1>3. ASSUME NEW c \in Triage, Capture(c) \/ EnsureFinds(c) \/ EnsureCreates(c) PROVE Spared
  BY <1>3, ActorAssumption DEF Capture, EnsureFinds, EnsureCreates
<1>4. ASSUME NEW c \in Triage, CaptureChecks(c) \/ CaptureJoins(c) \/ CaptureFails(c) PROVE Spared
  BY <1>4, ActorAssumption DEF CaptureChecks, CaptureJoins, CaptureFails
<1>7. ASSUME NEW r \in Report, ReportReads(r) \/ ReportIsStored(r) \/ Seal(r) PROVE Spared
  BY <1>7, ActorAssumption DEF ReportReads, ReportIsStored, Seal
<1> QED BY <1>1, <1>2, <1>3, <1>4, <1>7
        DEF Next, DetectionStep, TriageStep, ReportStep

\* The inductive form of BaselineYields: who is about to store a baseline has
\* found no correction, and those that it began with are still there
BaselineInv ==
    /\ \A c \in Triage : \A e \in corrected[c] : HasCorrection(e)
    /\ \A l \in labels : l.by \in Triage => pc[l.by] # "idle"
    /\ \A c \in Triage : pc[c] = "store" =>
          BecameTriaged(c) \/ c \in blind \/ job[c].event \notin corrected[c]
    /\ \A l \in labels : l.metric = "false-positive" => l.by \in Triage
    /\ BaselineYields

LEMMA BaselineStep == TypeInv /\ BaselineInv /\ [Next]_vars => BaselineInv'
<1> SUFFICES ASSUME TypeInv, BaselineInv, [Next]_vars PROVE BaselineInv'
  OBVIOUS
<1> USE DEF BaselineInv, BaselineYields
<1>1. CASE UNCHANGED vars
  BY <1>1 DEF vars, historyVars, HasCorrection, BecameTriaged
<1>0. ASSUME Next, NEW b \in Triage, pc[b] # "idle" PROVE pc'[b] # "idle"
  BY <1>0, OneMoves DEF TypeInv, TypeOK, Actor
<1>2. ASSUME NEW c \in Triage, TriageReads(c), Next PROVE BaselineInv'
  <2>1. /\ UNCHANGED <<labels, blind>> /\ pc' = [pc EXCEPT ![c] = "write"] /\ pc[c] = "idle"
        /\ corrected' = [corrected EXCEPT
              ![c] = {l.event : l \in {k \in labels : k.metric # "confirmed"}}]
        /\ \A b \in Triage : b # c => job'[b] = job[b] /\ saw'[b] = saw[b]
    BY <1>2 DEF TriageReads, Goto, historyVars, TypeInv, TypeOK, SawShape
  <2>2. \A b \in Triage : b # c => corrected'[b] = corrected[b]
    BY <2>1 DEF TypeInv, TypeOK
  <2>3. \A e \in corrected'[c] : HasCorrection(e)
    BY <2>1 DEF TypeInv, TypeOK, HasCorrection
  <2>4. \A b \in Triage : \A e \in corrected'[b] : HasCorrection(e)'
    BY <2>1, <2>2, <2>3 DEF HasCorrection
  <2>5. \A l \in labels' : l.by \in Triage => pc'[l.by] # "idle" /\ l.by # c
    BY <1>0, <1>2, <2>1
  <2>6. \A b \in Triage : pc'[b] = "store" => pc[b] = "store" /\ b # c
    BY <2>1 DEF TypeInv, TypeOK
  <2>7. BaselineYields'
    BY <2>1, <2>2, <2>5
  <2>8. \A b \in Triage : pc'[b] = "store" =>
           BecameTriaged(b)' \/ b \in blind' \/ job'[b].event \notin corrected'[b]
    BY <2>1, <2>2, <2>6 DEF BecameTriaged
  <2> QED BY <2>1, <2>4, <2>5, <2>7, <2>8
<1>3. ASSUME NEW c \in Triage, Label(c), Next PROVE BaselineInv'
  <2>1. /\ UNCHANGED <<labels, corrected, blind, saw>>
        /\ job' = [job EXCEPT ![c].event = Newest]
        /\ \A b \in Triage : b # c => job'[b] = job[b]
        /\ job'[c].status = job[c].status
    BY <1>3 DEF Label, historyVars, TypeInv, TypeOK
  <2>2. \A b \in Triage : pc'[b] = "store" => (b # c /\ pc[b] = "store") \/ (b = c /\ BecameTriaged(c))
    BY <1>3 DEF Label, Goto, TypeInv, TypeOK
  <2>3. \A b \in Triage : pc'[b] = "store" =>
           BecameTriaged(b)' \/ b \in blind' \/ job'[b].event \notin corrected'[b]
    BY <2>1, <2>2 DEF BecameTriaged
  <2>4. \A l \in labels' : l.by \in Triage => pc'[l.by] # "idle"
    BY <1>0, <1>3, <2>1
  <2> QED BY <2>1, <2>3, <2>4 DEF HasCorrection
<1>4. ASSUME NEW c \in Triage, Compare(c), Next PROVE BaselineInv'
  <2>1. UNCHANGED <<labels, corrected, saw, job>> /\ blind \subseteq blind'
    BY <1>4 DEF Compare
  <2>2. \A b \in Triage : pc'[b] = "store" =>
           pc[b] = "store" \/ (b = c /\ (~HasCorrection(job[c].event) \/ c \in blind'))
    BY <1>4 DEF Compare, Goto, TypeInv, TypeOK
  <2>3. \A b \in Triage : pc'[b] = "store" =>
           BecameTriaged(b)' \/ b \in blind' \/ job'[b].event \notin corrected'[b]
    BY <2>1, <2>2 DEF BecameTriaged
  <2>4. \A l \in labels' : l.by \in Triage => pc'[l.by] # "idle"
    BY <1>0, <1>4, <2>1
  <2> QED BY <2>1, <2>3, <2>4 DEF HasCorrection
<1>5. ASSUME NEW c \in Triage, StoreLabel(c), Next PROVE BaselineInv'
  <2> DEFINE metric == IF BecameTriaged(c) THEN "confirmed" ELSE "false-positive"
             own == [event |-> job[c].event, metric |-> metric, by |-> c]
  <2>1. /\ UNCHANGED <<corrected, blind, saw, job>> /\ pc[c] = "store" /\ pc' = [pc EXCEPT ![c] = "done"]
        /\ labels \subseteq labels' /\ \A l \in labels' : l \in labels \/ l = own
    BY <1>5 DEF StoreLabel, Goto, historyVars
  <2>2. own.event = job[c].event /\ own.by = c /\ (own.metric = "false-positive" => ~BecameTriaged(c))
    OBVIOUS
  <2> HIDE DEF own, metric
  <2>3. \A b \in Triage : pc'[b] = "store" => pc[b] = "store"
    BY <2>1 DEF TypeInv, TypeOK
  <2>4. \A l \in labels' : l.by \in Triage => pc'[l.by] # "idle"
    <3>1. pc'[c] # "idle"
      BY <1>0, <1>5, <2>1
    <3> QED BY <1>0, <1>5, <2>1, <2>2, <3>1
  <2>5. \A b \in Triage : \A e \in corrected'[b] : HasCorrection(e)'
    BY <2>1 DEF HasCorrection
  <2>6. \A l \in labels' : l.metric = "false-positive" =>
           l.by \in Triage /\ (l.event \notin corrected'[l.by] \/ l.by \in blind')
    BY <2>1, <2>2
  <2>7. \A b \in Triage : pc'[b] = "store" =>
           BecameTriaged(b)' \/ b \in blind' \/ job'[b].event \notin corrected'[b]
    BY <2>1, <2>3 DEF BecameTriaged
  <2> QED BY <2>4, <2>5, <2>6, <2>7
<1>6. ASSUME NEW k \in Correction, Correct(k), Next PROVE BaselineInv'
  <2>1. PICK n \in DOMAIN occurrences :
            labels' = labels \cup {[event |-> occurrences[n], metric |-> "correction", by |-> k]}
    BY <1>6 DEF Correct
  <2>2. UNCHANGED <<corrected, blind, saw, job>> /\ \A b \in Triage : pc'[b] = pc[b]
    BY <1>6, ActorAssumption DEF Correct, Goto, historyVars, TypeInv, TypeOK
  <2>3. k \notin Triage
    BY ActorAssumption
  <2>4. \A l \in labels' : l \in labels \/ (l.metric = "correction" /\ l.by = k)
    BY <2>1
  <2>5. \A b \in Triage : \A e \in corrected'[b] : HasCorrection(e)'
    BY <2>1, <2>2 DEF HasCorrection
  <2>6. \A b \in Triage : pc'[b] = "store" =>
           BecameTriaged(b)' \/ b \in blind' \/ job'[b].event \notin corrected'[b]
    BY <2>2 DEF BecameTriaged
  <2> QED BY <2>2, <2>3, <2>4, <2>5, <2>6
<1>7. ASSUME UNCHANGED <<labels, corrected, blind>>, Next,
             \A c \in Triage :
                pc'[c] = "store" => pc[c] = "store" /\ job'[c] = job[c] /\ saw'[c] = saw[c]
      PROVE  BaselineInv'
  <2>1. \A l \in labels' : l.by \in Triage => pc'[l.by] # "idle"
    BY <1>0, <1>7
  <2>2. \A b \in Triage : pc'[b] = "store" =>
           BecameTriaged(b)' \/ b \in blind' \/ job'[b].event \notin corrected'[b]
    BY <1>7 DEF BecameTriaged
  <2> QED BY <1>7, <2>1, <2>2 DEF HasCorrection
<1> QED BY <1>1, <1>2, <1>3, <1>4, <1>5, <1>6, <1>7, LabelledBy

\* The baseline of a disagreement yields to a correction that was there when
\* the verdict was given, for any number of triages and corrections (updateSignal).
THEOREM BaselineHolds == Spec => []BaselineYields
<1>1. Init => BaselineInv
  BY DEF Init, BaselineInv, BaselineYields
<1>2. BaselineInv => BaselineYields
  BY DEF BaselineInv
<1> QED BY <1>1, <1>2, BaselineStep, TypeHolds, PTL DEF Spec

=============================================================================
