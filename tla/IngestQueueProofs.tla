------------------------- MODULE IngestQueueProofs -------------------------
(***************************************************************************)
(* Safety of the ingest micro-batcher for every number of requests,        *)
(* projects and passes, every batch and queue size, and any number of      *)
(* failing storage calls and crashes.                                      *)
(***************************************************************************)
EXTENDS IngestQueue, TLAPS, SequenceTheorems, FiniteSetTheorems,
        NaturalsInduction, WellFoundedInduction

-----------------------------------------------------------------------------
(* What the helpers return. *)

\* The group of a project of a well-formed batch is well formed.
LEMMA StartGroupType ==
    ASSUME NEW batch \in Seq(Req), NEW i \in DOMAIN batch, NEW todo \in SUBSET Project
    PROVE  /\ StartGroup(batch, i, todo) \in PassState
           /\ StartGroup(batch, i, todo).at = "insert"
           /\ StartGroup(batch, i, todo).proj \in Project
<1>1. batch[i] \in Req
  BY LenProperties, ElementOfSeq
<1>2. ProjOf[batch[i]] \in Project
  BY <1>1, ReqAssumption
<1>3. todo \ {ProjOf[batch[i]]} \in SUBSET Project
  OBVIOUS
<1>4. QED
  BY <1>2, <1>3 DEF StartGroup, PassState, PassStages

\* A splice takes a well-formed batch from a non-empty queue.
LEMMA SpliceType ==
    ASSUME NEW q \in Seq(Req), q # <<>>
    PROVE  /\ Splice(q) \in PassState
           /\ Splice(q).at = "insert"
           /\ Splice(q).proj \in Project
<1> DEFINE n == IF Len(q) < FlushSize THEN Len(q) ELSE FlushSize
           b == SubSeq(q, 1, n)
<1>1. n \in Nat /\ 1 <= n /\ n <= Len(q)
  BY SizeAssumption, EmptySeq
<1>2. b \in Seq(Req) /\ Len(b) = n
  BY <1>1, SubSeqProperties, ElementOfSeq
<1> DEFINE projects == {ProjOf[r] : r \in Members(b)}
<1>3. projects \subseteq Project
  <2>1. Members(b) \subseteq Req
    BY <1>2, LenProperties, ElementOfSeq DEF Members
  <2>2. QED
    BY <2>1, ReqAssumption
<1>4. Splice(q) = StartGroup(b, 1, projects)
  BY DEF Splice
<1>5. 1 \in DOMAIN b
  BY <1>1, <1>2, LenProperties
<1> HIDE DEF b, projects
<1>6. QED
  BY <1>2, <1>3, <1>4, <1>5, StartGroupType

\* What the splice leaves is a queue no longer than it was.
LEMMA RemainingType ==
    ASSUME NEW q \in Seq(Req)
    PROVE  Remaining(q) \in Seq(Req) /\ Len(Remaining(q)) <= Len(q)
<1>1. CASE Len(q) < FlushSize
  BY <1>1, EmptySeq, LenProperties DEF Remaining
<1>2. CASE ~(Len(q) < FlushSize)
  <2>1. Len(q) \in Nat /\ FlushSize \in Nat \ {0}
    BY SizeAssumption, LenProperties
  <2>2. \A i \in FlushSize + 1 .. Len(q) : q[i] \in Req
    BY <2>1, ElementOfSeq
  <2>3. /\ SubSeq(q, FlushSize + 1, Len(q)) \in Seq(Req)
        /\ Len(SubSeq(q, FlushSize + 1, Len(q))) =
              IF FlushSize + 1 <= Len(q) THEN Len(q) - (FlushSize + 1) + 1 ELSE 0
    BY <2>1, <2>2, SubSeqProperties
  <2>4. QED
    BY <1>2, <2>1, <2>3 DEF Remaining
<1>3. QED
  BY <1>1, <1>2

LEMMA IdlePassType == IdlePass \in PassState
  BY EmptySeq DEF IdlePass, PassState, PassStages

\* Winners are requests of the batch.
LEMMA WinnersType ==
    ASSUME TypeOK, NEW p \in Pass
    PROVE  Group(p) \subseteq Req /\ Winners(p) \subseteq Group(p)
<1>1. pass[p].batch \in Seq(Req)
  BY DEF TypeOK, PassState
<1>2. Members(pass[p].batch) \subseteq Req
  BY <1>1, LenProperties, ElementOfSeq DEF Members
<1>3. QED
  BY <1>2 DEF Group, Winners


-----------------------------------------------------------------------------
(* Type correctness.  A pass that is at work has a project: its rollup cell. *)

PassWorks ==
    \A p \in Pass : pass[p].at \notin {"idle", "done"} => pass[p].proj \in Project

TypeInv == TypeOK /\ PassWorks

\* The part of the state that flushNow touches
FlushTypes ==
    /\ queue \in Seq(Req)
    /\ Len(queue) <= QueueMax
    /\ pass \in [Pass -> PassState]
    /\ PassWorks

\* Claiming the slot keeps the queue and the passes well formed.
LEMMA ClaimTypes ==
    ASSUME TypeInv, NEW q \in Seq(Req), q # <<>>, Len(q) <= QueueMax, Claim(q)
    PROVE  FlushTypes' /\ flushing' \in Pass
<1>1. PICK p \in Pass :
          /\ flushing' = p
          /\ pass' = [pass EXCEPT ![p] = Splice(q)]
          /\ queue' = Remaining(q)
  BY DEF Claim
<1>2. queue' \in Seq(Req) /\ Len(queue') <= QueueMax
  BY <1>1, RemainingType, LenProperties, SizeAssumption
<1>3. /\ Splice(q) \in PassState
      /\ Splice(q).proj \in Project
  BY SpliceType
<1>4. pass' \in [Pass -> PassState]
  BY <1>1, <1>3 DEF TypeInv, TypeOK
<1>5. PassWorks'
  BY <1>1, <1>3 DEF TypeInv, TypeOK, PassWorks
<1>6. QED
  BY <1>1, <1>2, <1>4, <1>5 DEF FlushTypes

\* So does flushNow, whichever branch it takes.
LEMMA FlushNowTypes ==
    ASSUME TypeInv, NEW q \in Seq(Req), Len(q) <= QueueMax, FlushNow(q)
    PROVE  FlushTypes' /\ waiters' \in Nat /\ flushing' \in Pass \cup {NoPass}
<1>1. CASE UNCHANGED passVars /\ queue' = q /\ waiters' \in Nat
  BY <1>1 DEF TypeInv, TypeOK, PassWorks, FlushTypes, passVars
<1>2. CASE q # <<>> /\ Claim(q) /\ UNCHANGED waiters
  BY <1>2, ClaimTypes DEF TypeInv, TypeOK
<1>3. QED
  BY <1>1, <1>2 DEF FlushNow, TypeInv, TypeOK, passVars

\* And the turn of a pass to its next group or batch.
LEMMA NextGroupTypes ==
    ASSUME TypeInv, NEW p \in Pass, NextGroup(p)
    PROVE  FlushTypes'
<1> USE DEF TypeInv, TypeOK, PassWorks, FlushTypes
<1>1. pass[p].batch \in Seq(Req) /\ pass[p].todo \in SUBSET Project
  BY DEF PassState
<1>2. CASE \E i \in DOMAIN pass[p].batch :
              /\ pass' = [pass EXCEPT ![p] = StartGroup(pass[p].batch, i, pass[p].todo)]
              /\ UNCHANGED queue
  BY <1>1, <1>2, StartGroupType
<1>3. CASE /\ queue # <<>>
           /\ pass' = [pass EXCEPT ![p] = Splice(queue)]
           /\ queue' = Remaining(queue)
  <2>1. queue' \in Seq(Req) /\ Len(queue') <= QueueMax
    BY <1>3, RemainingType, LenProperties, SizeAssumption
  <2>2. Splice(queue) \in PassState /\ Splice(queue).proj \in Project
    BY <1>3, SpliceType
  <2>3. QED
    BY <1>3, <2>1, <2>2
<1>4. CASE /\ pass' = [pass EXCEPT ![p] = [IdlePass EXCEPT !.at = "done"]]
           /\ UNCHANGED queue
  <2>1. /\ [IdlePass EXCEPT !.at = "done"] \in PassState
        /\ [IdlePass EXCEPT !.at = "done"].at = "done"
    BY IdlePassType DEF IdlePass, PassState, PassStages
  <2>2. QED
    BY <1>4, <2>1
<1>5. QED
  BY <1>2, <1>3, <1>4 DEF NextGroup

\* A pass that moves on with a new set of winners stays well formed.
LEMMA StageTypes ==
    ASSUME TypeInv, NEW p \in Pass, NEW won \in SUBSET Req,
           NEW stage \in PassStages, pass[p].at \notin {"idle", "done"},
           pass' = [pass EXCEPT ![p].at = stage, ![p].won = won],
           UNCHANGED queue
    PROVE  FlushTypes'
<1> USE DEF TypeInv, TypeOK, FlushTypes
<1>1. pass[p] \in PassState /\ pass[p].proj \in Project
  BY DEF PassWorks
<1>2. /\ [pass[p] EXCEPT !.at = stage, !.won = won] \in PassState
      /\ [pass[p] EXCEPT !.at = stage, !.won = won].proj \in Project
  BY <1>1 DEF PassState
<1>3. pass' = [pass EXCEPT ![p] = [pass[p] EXCEPT !.at = stage, !.won = won]]
  OBVIOUS
<1>4. pass' \in [Pass -> PassState] /\ PassWorks'
  BY <1>2, <1>3 DEF PassWorks
<1>5. QED
  BY <1>4

LEMMA GotoType ==
    ASSUME TypeInv, NEW r \in Req, NEW s \in PcStates, Goto(r, s)
    PROVE  pc' \in [Req -> PcStates]
  BY DEF TypeInv, TypeOK, Goto

LEMMA FaultType == ASSUME TypeInv, Fault PROVE faults' \in Nat
  BY DEF TypeInv, TypeOK, Fault

\* Every state of the batcher is well typed, and the queue never grows past
\* QUEUE_MAX.
THEOREM TypeCorrect == Spec => []TypeInv
<1>1. Init => TypeInv
  <2> SUFFICES ASSUME Init PROVE TypeInv
    OBVIOUS
  <2>1. <<>> \in Seq(Req) /\ Len(<<>>) = 0
    BY EmptySeq
  <2>2. IdlePass \in PassState /\ IdlePass.at = "idle"
    BY IdlePassType DEF IdlePass
  <2>3. PassWorks
    BY <2>2 DEF Init, PassWorks
  <2>4. pc \in [Req -> PcStates] /\ pass \in [Pass -> PassState]
    BY <2>2 DEF Init, PcStates
  <2>5. queue \in Seq(Req) /\ Len(queue) <= QueueMax
    BY <2>1, SizeAssumption DEF Init
  <2>6. QED
    BY <2>3, <2>4, <2>5 DEF Init, TypeInv, TypeOK
<1>2. TypeInv /\ [Next]_vars => TypeInv'
  <2> SUFFICES ASSUME TypeInv, [Next]_vars PROVE TypeInv'
    OBVIOUS
  <2> USE DEF TypeInv, TypeOK
  <2>1. ASSUME NEW r \in Req, Arrive(r) \/ LookupHits(r) \/ LookupMisses(r)
                              \/ PrepareFails(r) \/ QueueFull(r)
        PROVE  TypeInv'
    <3>1. pc' \in [Req -> PcStates]
      BY <2>1, GotoType DEF Arrive, LookupHits, LookupMisses, PrepareFails, QueueFull,
         PcStates, InFlight, Answered
    <3>2. faults' \in Nat
      BY <2>1, FaultType DEF Arrive, LookupHits, LookupMisses, PrepareFails, QueueFull, envVars
    <3>3. UNCHANGED <<outcome, checks, queueVars, passVars, storeVars, life, owed, crashes>>
      BY <2>1 DEF Arrive, LookupHits, LookupMisses, PrepareFails, QueueFull, envVars
    <3>4. QED
      BY <3>1, <3>2, <3>3 DEF PassWorks, queueVars, passVars, storeVars
  <2>2. ASSUME NEW r \in Req, Enqueue(r) PROVE TypeInv'
    <3> DEFINE q == Append(queue, r)
    <3>1. q \in Seq(Req) /\ Len(q) <= QueueMax
      BY <2>2, SizeAssumption, LenProperties DEF Enqueue, Full
    <3>2. pc' \in [Req -> PcStates]
      BY <2>2 DEF Enqueue, Goto, PcStates, InFlight
    <3>3. CASE FlushNow(q) /\ UNCHANGED timer
      BY <2>2, <3>1, <3>2, <3>3, FlushNowTypes
      DEF Enqueue, FlushTypes, PassWorks, storeVars, envVars
    <3>4. CASE queue' = q /\ timer' = TRUE /\ UNCHANGED <<waiters, passVars>>
      BY <2>2, <3>1, <3>2, <3>4 DEF Enqueue, PassWorks, passVars, storeVars, envVars
    <3>5. QED
      BY <2>2, <3>3, <3>4 DEF Enqueue
  <2>3. ASSUME NEW r \in Req, Settle(r) \/ FindWinner(r) \/ ChecksRun(r)
        PROVE  TypeInv'
    <3>1. pc' \in [Req -> PcStates]
      BY <2>3, GotoType DEF Settle, FindWinner, ChecksRun, PcStates, InFlight, Answered
    <3>2. faults' \in Nat
      BY <2>3, FaultType DEF Settle, FindWinner, ChecksRun, envVars
    <3>3. checks' \in [Req -> {"none", "running", "done", "lost"}]
      BY <2>3 DEF Settle, FindWinner, ChecksRun
    <3>4. UNCHANGED <<outcome, queueVars, passVars, storeVars, life, owed, crashes>>
      BY <2>3 DEF Settle, FindWinner, ChecksRun, envVars
    <3>5. QED
      BY <3>1, <3>2, <3>3, <3>4 DEF PassWorks, queueVars, passVars, storeVars
  <2>4. ASSUME TimerFires PROVE TypeInv'
    BY <2>4, FlushNowTypes DEF TimerFires, FlushTypes, PassWorks, reqVars, storeVars, envVars
  <2>5. ASSUME WaiterResumes PROVE TypeInv'
    <3>1. waiters' \in Nat
      BY <2>5 DEF WaiterResumes
    <3>2. CASE queue # <<>> /\ Claim(queue)
      BY <2>5, <3>1, <3>2, ClaimTypes
      DEF WaiterResumes, FlushTypes, PassWorks, reqVars, storeVars, envVars
    <3>3. CASE UNCHANGED <<queue, passVars>>
      BY <2>5, <3>1, <3>3
      DEF WaiterResumes, PassWorks, passVars, reqVars, storeVars, envVars
    <3>4. QED
      BY <2>5, <3>2, <3>3 DEF WaiterResumes
  <2>6. ASSUME NEW p \in Pass, PassStep(p) PROVE TypeInv'
    <3>1. pass[p] \in PassState
      OBVIOUS
    <3>2. /\ Winners(p) \in SUBSET Req
          /\ pass[p].won \in SUBSET Req
          /\ pass[p].seen \in Nat
      BY <3>1, WinnersType DEF PassState
    <3>3. /\ \A won \in SUBSET Req : Landed(won) \in [Req -> Nat]
          /\ \A won \in SUBSET Req : Cardinality(won) \in Nat
      BY ReqAssumption, FS_Subset, FS_CardinalityType DEF Landed
    <3>4. CASE InsertAtomically(p)
      <4>1. copies' \in [Req -> Nat]
        BY <3>2, <3>3, <3>4 DEF InsertAtomically
      <4>2. AfterInsert(Winners(p)) \in {"resolve", "rollup"} /\ pass[p].at = "insert"
        BY <3>4 DEF AfterInsert, InsertAtomically, At
      <4>3. FlushTypes'
        BY <3>2, <3>4, <4>2, StageTypes DEF InsertAtomically, queueVars, PassStages
      <4>4. QED
        BY <3>4, <4>1, <4>3 DEF InsertAtomically, FlushTypes, reqVars, queueVars, envVars
    <3>4a. CASE CheckTaken(p)
      <4>1. FlushTypes'
        BY <3>2, <3>4a, StageTypes DEF CheckTaken, At, queueVars, PassStages
      <4>2. QED
        BY <3>4a, <4>1 DEF CheckTaken, FlushTypes, reqVars, queueVars, storeVars, envVars
    <3>4b. CASE InsertChecked(p)
      <4>1. copies' \in [Req -> Nat]
        BY <3>2, <3>3, <3>4b DEF InsertChecked
      <4>2. pass' \in [Pass -> PassState] /\ PassWorks'
        BY <3>1, <3>4b DEF InsertChecked, At, PassWorks, PassState, PassStages
      <4>3. QED
        BY <3>4b, <4>1, <4>2 DEF InsertChecked, reqVars, queueVars, envVars
    <3>5. CASE InsertFails(p)
      <4>1. copies' \in [Req -> Nat]
        BY <3>2, <3>3, <3>5 DEF InsertFails, MayHaveCommitted
      <4>2. CASE /\ pass' = [pass EXCEPT ![p].at = "backoff", ![p].won = {}]
                 /\ UNCHANGED <<outcome, queue>>
        <5>1. pass' \in [Pass -> PassState]
          BY <3>1, <4>2 DEF PassState, PassStages
        <5>2. PassWorks'
          BY <3>1, <3>5, <4>2 DEF InsertFails, At, PassWorks, PassState
        <5>3. QED
          BY <3>5, <4>1, <4>2, <5>1, <5>2, FaultType DEF InsertFails
      <4>3. CASE /\ outcome' = [r \in Req |-> IF r \in Group(p) THEN "dropped" ELSE outcome[r]]
                 /\ NextGroup(p)
        BY <3>5, <4>1, <4>3, NextGroupTypes, FaultType DEF InsertFails, FlushTypes
      <4>4. QED
        BY <3>5, <4>2, <4>3 DEF InsertFails
    <3>6. CASE Retry(p)
      <4>1. pass' = [pass EXCEPT ![p] = [pass[p] EXCEPT !.at = "insert", !.tries = 2]]
        BY <3>6 DEF Retry
      <4>2. /\ [pass[p] EXCEPT !.at = "insert", !.tries = 2] \in PassState
            /\ [pass[p] EXCEPT !.at = "insert", !.tries = 2].proj = pass[p].proj
        <5>1. 2 \in 1..2 /\ "insert" \in PassStages
          BY DEF PassStages
        <5>2. [pass[p] EXCEPT !.at = "insert", !.tries = 2] \in PassState
          BY <3>1, <5>1 DEF PassState
        <5>3. [pass[p] EXCEPT !.at = "insert", !.tries = 2].proj = pass[p].proj
          BY <3>1 DEF PassState
        <5>4. QED
          BY <5>2, <5>3
      <4>3. pass[p].proj \in Project
        BY <3>6 DEF Retry, At, PassWorks
      <4>4. pass' \in [Pass -> PassState] /\ PassWorks'
        BY <4>1, <4>2, <4>3 DEF PassWorks
      <4>5. QED
        BY <3>6, <4>4 DEF Retry, reqVars, queueVars, storeVars, envVars
    <3>6a. CASE ReadRollup(p)
      <4>1. rollup[pass[p].proj] \in Nat
        BY <3>6a DEF ReadRollup, At, PassWorks
      <4>2. pass' \in [Pass -> PassState] /\ PassWorks'
        BY <3>1, <3>6a, <4>1 DEF ReadRollup, At, PassWorks, PassState, PassStages
      <4>3. QED
        BY <3>6a, <4>2 DEF ReadRollup, reqVars, queueVars, storeVars, envVars
    <3>6b. CASE RollupFails(p)
      <4>1. pass' \in [Pass -> PassState] /\ PassWorks'
        BY <3>1, <3>6b DEF RollupFails, At, PassWorks, PassState, PassStages
      <4>2. QED
        BY <3>6b, <4>1, FaultType DEF RollupFails, reqVars, queueVars, storeVars
    <3>7. CASE WriteRollup(p)
      <4>1. pass[p].seen + Cardinality(pass[p].won) \in Nat
        BY <3>2, <3>3
      <4>2. rollup' \in [Project -> Nat] /\ rolled' \subseteq Req
        BY <3>2, <3>7, <4>1 DEF WriteRollup
      <4>3. pass' \in [Pass -> PassState] /\ PassWorks'
        BY <3>1, <3>7 DEF WriteRollup, At, PassWorks, PassState, PassStages
      <4>4. QED
        BY <3>7, <4>2, <4>3 DEF WriteRollup, reqVars, queueVars, envVars
    <3>8. CASE Resolve(p)
      <4>1. outcome' \in [Req -> {"none", "stored", "deduped", "dropped"}]
        BY <3>8 DEF Resolve
      <4>2. QED
        BY <3>8, <4>1, NextGroupTypes DEF Resolve, FlushTypes, storeVars, envVars
    <3>9. CASE ReleaseSlot(p)
      <4>1. pass' \in [Pass -> PassState] /\ PassWorks'
        BY <3>9, IdlePassType DEF ReleaseSlot, PassWorks, IdlePass
      <4>2. QED
        BY <3>9, <4>1 DEF ReleaseSlot, reqVars, queueVars, storeVars
    <3>10. QED
      BY <2>6, <3>4, <3>4a, <3>4b, <3>5, <3>6, <3>6a, <3>6b, <3>7, <3>8, <3>9
      DEF PassStep
  <2>7. ASSUME Sigterm \/ DrainStarts \/ Exit PROVE TypeInv'
    BY <2>7 DEF Sigterm, DrainStarts, Exit, PassWorks, reqVars, queueVars, passVars, storeVars
  <2>8. ASSUME DrainFlushes PROVE TypeInv'
    <3>1. CASE UNCHANGED <<queue, passVars>> /\ life' = "drained"
      BY <2>8, <3>1 DEF DrainFlushes, PassWorks, passVars, reqVars, storeVars
    <3>2. CASE queue # <<>> /\ Claim(queue) /\ life' = "drainpass"
      BY <2>8, <3>2, ClaimTypes DEF DrainFlushes, FlushTypes, PassWorks, reqVars, storeVars
    <3>3. QED
      BY <2>8, <3>1, <3>2 DEF DrainFlushes
  <2>9. ASSUME Crash PROVE TypeInv'
    <3>1. pc' \in [Req -> PcStates] /\ checks' \in [Req -> {"none", "running", "done", "lost"}]
      BY <2>9 DEF Crash, PcStates, InFlight, Answered
    <3>2. pass' \in [Pass -> PassState] /\ PassWorks'
      BY <2>9, IdlePassType DEF Crash, PassWorks, IdlePass
    <3>3. queue' \in Seq(Req) /\ Len(queue') <= QueueMax
      BY <2>9, EmptySeq, SizeAssumption DEF Crash
    <3>4. /\ timer' = FALSE /\ waiters' = 0 /\ flushing' = NoPass
          /\ life' = "serving" /\ owed' = {}
      BY <2>9 DEF Crash
    <3>5. crashes' \in Nat
      BY <2>9 DEF Crash
    <3>6. UNCHANGED <<outcome, copies, rollup, rolled, faults>>
      BY <2>9 DEF Crash, storeVars
    <3>7. QED
      BY <3>1, <3>2, <3>3, <3>4, <3>5, <3>6
  <2>10. CASE UNCHANGED vars
    BY <2>10 DEF vars, PassWorks, reqVars, queueVars, passVars, storeVars, envVars
  <2>11. QED
    BY <2>1, <2>2, <2>3, <2>4, <2>5, <2>6, <2>7, <2>8, <2>9, <2>10
    DEF Next, HandlerStep, DrainStep, Quiescent
<1>3. QED
  BY <1>1, <1>2, PTL DEF Spec


-----------------------------------------------------------------------------
(* One flusher at a time.  The slot and the live pass determine each other. *)

\* A claim of a free slot makes the claiming pass the only live one.
LEMMA ClaimKeepsOneFlusher ==
    ASSUME TypeInv, SingleFlusher, flushing = NoPass,
           NEW q \in Seq(Req), q # <<>>, Claim(q)
    PROVE  SingleFlusher'
<1>1. PICK p \in Pass : flushing' = p /\ pass' = [pass EXCEPT ![p] = Splice(q)]
  BY DEF Claim
<1>2. Splice(q).at = "insert"
  BY SpliceType
<1>3. \A x \in Pass : ~Live(x)
  BY PassAssumption DEF SingleFlusher
<1>4. QED
  BY <1>1, <1>2, <1>3 DEF SingleFlusher, Live, TypeInv, TypeOK

LEMMA FlushNowKeepsOneFlusher ==
    ASSUME TypeInv, SingleFlusher, NEW q \in Seq(Req), FlushNow(q)
    PROVE  SingleFlusher'
<1>1. CASE UNCHANGED passVars
  BY <1>1 DEF SingleFlusher, Live, passVars
<1>2. CASE flushing = NoPass /\ q # <<>> /\ Claim(q)
  BY <1>2, ClaimKeepsOneFlusher
<1>3. QED
  BY <1>1, <1>2 DEF FlushNow

\* The turn of a pass to its next group, or to its end, keeps it live.
LEMMA NextGroupStaysLive ==
    ASSUME TypeInv, NEW p \in Pass, NextGroup(p)
    PROVE  /\ pass'[p].at \in {"insert", "done"}
           /\ \A x \in Pass \ {p} : pass'[x] = pass[x]
<1> USE DEF TypeInv, TypeOK
<1>1. pass[p].batch \in Seq(Req) /\ pass[p].todo \in SUBSET Project
  BY DEF PassState
<1>2. CASE \E i \in DOMAIN pass[p].batch :
              pass' = [pass EXCEPT ![p] = StartGroup(pass[p].batch, i, pass[p].todo)]
  BY <1>1, <1>2, StartGroupType
<1>3. CASE queue # <<>> /\ pass' = [pass EXCEPT ![p] = Splice(queue)]
  BY <1>3, SpliceType
<1>4. CASE pass' = [pass EXCEPT ![p] = [IdlePass EXCEPT !.at = "done"]]
  BY <1>4 DEF IdlePass
<1>5. QED
  BY <1>2, <1>3, <1>4 DEF NextGroup

\* A step of a pass other than its end moves that pass alone, and keeps it live.
LEMMA PassStepStaysLive ==
    ASSUME TypeInv, NEW p \in Pass, PassStep(p), ~ReleaseSlot(p)
    PROVE  /\ pass[p].at # "idle" /\ pass'[p].at # "idle"
           /\ flushing' = flushing
           /\ \A x \in Pass \ {p} : pass'[x] = pass[x]
<1> USE DEF TypeInv, TypeOK, At
<1>1. CASE InsertAtomically(p)
  BY <1>1 DEF InsertAtomically, AfterInsert, PassState
<1>2. CASE CheckTaken(p)
  BY <1>2 DEF CheckTaken, PassState
<1>3. CASE InsertChecked(p)
  BY <1>3 DEF InsertChecked, PassState
<1>4. CASE InsertFails(p)
  <2>1. pass[p].at \in {"insert", "write"} /\ flushing' = flushing
    BY <1>4 DEF InsertFails
  <2>2. CASE pass' = [pass EXCEPT ![p].at = "backoff", ![p].won = {}]
    BY <2>1, <2>2 DEF PassState
  <2>3. QED
    BY <1>4, <2>1, <2>2, NextGroupStaysLive DEF InsertFails
<1>5. CASE Retry(p)
  BY <1>5 DEF Retry, PassState
<1>6. CASE ReadRollup(p)
  BY <1>6 DEF ReadRollup, PassState
<1>7. CASE WriteRollup(p) \/ RollupFails(p)
  BY <1>7 DEF WriteRollup, RollupFails, PassState
<1>8. CASE Resolve(p)
  BY <1>8, NextGroupStaysLive DEF Resolve
<1>9. QED
  BY <1>1, <1>2, <1>3, <1>4, <1>5, <1>6, <1>7, <1>8 DEF PassStep

\* At most one pass runs, and it is the one `flushing` points to: the promise
\* check-then-insert and the rollup read-modify-write rest on.
THEOREM OneFlusher == Spec => []SingleFlusher
<1>1. Init => SingleFlusher
  BY PassAssumption DEF Init, SingleFlusher, Live, IdlePass
<1>2. TypeInv /\ SingleFlusher /\ [Next]_vars => SingleFlusher'
  <2> SUFFICES ASSUME TypeInv, SingleFlusher, [Next]_vars PROVE SingleFlusher'
    OBVIOUS
  <2>1. CASE UNCHANGED passVars
    BY <2>1 DEF SingleFlusher, Live, passVars
  <2>2. ASSUME NEW r \in Req, Enqueue(r) PROVE SingleFlusher'
    <3>1. Append(queue, r) \in Seq(Req)
      BY DEF TypeInv, TypeOK
    <3>2. QED
      BY <2>1, <2>2, <3>1, FlushNowKeepsOneFlusher DEF Enqueue
  <2>3. ASSUME TimerFires PROVE SingleFlusher'
    BY <2>3, FlushNowKeepsOneFlusher DEF TimerFires, TypeInv, TypeOK
  <2>4. ASSUME WaiterResumes \/ DrainFlushes PROVE SingleFlusher'
    BY <2>1, <2>4, ClaimKeepsOneFlusher DEF WaiterResumes, DrainFlushes, TypeInv, TypeOK
  <2>5. ASSUME NEW p \in Pass, PassStep(p) PROVE SingleFlusher'
    <3>1. CASE ReleaseSlot(p)
      BY <3>1, PassAssumption DEF ReleaseSlot, At, SingleFlusher, Live, IdlePass, TypeInv, TypeOK
    <3>2. CASE ~ReleaseSlot(p)
      BY <2>5, <3>2, PassStepStaysLive DEF SingleFlusher, Live
    <3>3. QED
      BY <3>1, <3>2
  <2>6. ASSUME Crash PROVE SingleFlusher'
    BY <2>6, PassAssumption DEF Crash, SingleFlusher, Live, IdlePass
  <2>7. ASSUME NEW r \in Req,
               \/ Arrive(r) \/ LookupHits(r) \/ LookupMisses(r) \/ PrepareFails(r)
               \/ QueueFull(r) \/ Settle(r) \/ FindWinner(r) \/ ChecksRun(r)
        PROVE  UNCHANGED passVars
    BY <2>7 DEF Arrive, LookupHits, LookupMisses, PrepareFails, QueueFull, Settle,
       FindWinner, ChecksRun
  <2>8. ASSUME Sigterm \/ DrainStarts \/ Exit PROVE UNCHANGED passVars
    BY <2>8 DEF Sigterm, DrainStarts, Exit
  <2>9. UNCHANGED vars => UNCHANGED passVars
    BY DEF vars
  <2>10. QED
    BY <2>1, <2>2, <2>3, <2>4, <2>5, <2>6, <2>7, <2>8, <2>9
    DEF Next, HandlerStep, DrainStep, Quiescent
<1>3. QED
  BY <1>1, <1>2, TypeCorrect, PTL DEF Spec


-----------------------------------------------------------------------------
(* No accepted span is stranded. *)

\* A flushNow with something to flush leaves a waiter or a pass at work.
LEMMA FlushNowReaches ==
    ASSUME TypeInv, SingleFlusher, NEW q \in Seq(Req), FlushNow(q)
    PROVE  queue' # <<>> => waiters' > 0 \/ \E p \in Pass : Live(p)' /\ pass'[p].at # "done"
<1>1. CASE waiters' = waiters + 1
  BY <1>1 DEF TypeInv, TypeOK
<1>2. CASE queue' = q /\ q = <<>>
  BY <1>2
<1>3. CASE q # <<>> /\ Claim(q)
  <2>1. PICK p \in Pass : pass' = [pass EXCEPT ![p] = Splice(q)]
    BY <1>3 DEF Claim
  <2>2. pass'[p].at = "insert"
    BY <1>3, <2>1, SpliceType DEF TypeInv, TypeOK
  <2>3. QED
    BY <2>2 DEF Live
<1>4. QED
  BY <1>1, <1>2, <1>3 DEF FlushNow

\* A queued span always has an armed timer, a suspended flushNow or a running
\* pass that will reach it.  The pass that found the queue empty and has not yet
\* released the slot does not count: scheduleFlush must see to what came after.
THEOREM NothingStranded == Spec => []NoStrandedSpan
<1>1. Init => NoStrandedSpan
  BY DEF Init, NoStrandedSpan
<1>2. TypeInv /\ SingleFlusher /\ NoStrandedSpan /\ [Next]_vars => NoStrandedSpan'
  <2> SUFFICES ASSUME TypeInv, SingleFlusher, NoStrandedSpan, [Next]_vars
               PROVE  NoStrandedSpan'
    OBVIOUS
  <2>1. CASE UNCHANGED <<queueVars, passVars, life>>
    BY <2>1 DEF NoStrandedSpan, Live, queueVars, passVars
  <2>2. ASSUME NEW r \in Req, Enqueue(r) PROVE NoStrandedSpan'
    <3>1. Append(queue, r) \in Seq(Req)
      BY DEF TypeInv, TypeOK
    <3>2. CASE FlushNow(Append(queue, r))
      BY <3>1, <3>2, FlushNowReaches DEF NoStrandedSpan
    <3>3. CASE timer' = TRUE
      BY <3>3 DEF NoStrandedSpan
    <3>4. QED
      BY <2>2, <3>2, <3>3 DEF Enqueue
  <2>3. ASSUME TimerFires PROVE NoStrandedSpan'
    BY <2>3, FlushNowReaches DEF TimerFires, NoStrandedSpan, TypeInv, TypeOK
  <2>4. ASSUME WaiterResumes PROVE NoStrandedSpan'
    <3>1. CASE queue # <<>> /\ Claim(queue)
      <4>1. PICK p \in Pass : pass' = [pass EXCEPT ![p] = Splice(queue)]
        BY <3>1 DEF Claim
      <4>2. pass'[p].at = "insert"
        BY <3>1, <4>1, SpliceType DEF TypeInv, TypeOK
      <4>3. QED
        BY <4>2 DEF Live, NoStrandedSpan
    <3>2. CASE queue = <<>> /\ UNCHANGED queue
      BY <3>2 DEF NoStrandedSpan
    <3>3. QED
      BY <2>4, <3>1, <3>2 DEF WaiterResumes
  <2>5. ASSUME NEW p \in Pass, PassStep(p) PROVE NoStrandedSpan'
    <3>1. CASE ReleaseSlot(p)
      <4>1. \A x \in Pass : Live(x) => x = p
        BY <3>1 DEF ReleaseSlot, At, SingleFlusher, Live
      <4>2. queue # <<>> /\ life \in {"serving", "closing"} => timer \/ waiters > 0
        BY <3>1, <4>1 DEF ReleaseSlot, At, NoStrandedSpan
      <4>3. QED
        BY <3>1, <4>2 DEF ReleaseSlot, NoStrandedSpan, queueVars
    <3>2. CASE NextGroup(p)
      <4>1. pass'[p].at = "insert" \/ (queue = <<>> /\ UNCHANGED queue)
        <5>1. pass[p].batch \in Seq(Req) /\ pass[p].todo \in SUBSET Project
          BY DEF TypeInv, TypeOK, PassState
        <5>2. CASE \E i \in DOMAIN pass[p].batch :
                      pass' = [pass EXCEPT ![p] = StartGroup(pass[p].batch, i, pass[p].todo)]
          BY <5>1, <5>2, StartGroupType DEF TypeInv, TypeOK
        <5>3. CASE queue # <<>> /\ pass' = [pass EXCEPT ![p] = Splice(queue)]
          BY <5>3, SpliceType DEF TypeInv, TypeOK
        <5>4. QED
          BY <3>2, <5>2, <5>3 DEF NextGroup
      <4>2. QED
        BY <4>1 DEF NoStrandedSpan, Live
    <3>3. CASE ~ReleaseSlot(p) /\ ~NextGroup(p)
      <4>1. pass'[p].at \notin {"idle", "done"}
        <5> USE DEF TypeInv, TypeOK, At, PassState
        <5>1. CASE InsertAtomically(p)
          BY <5>1 DEF InsertAtomically, AfterInsert
        <5>2. CASE CheckTaken(p)
          BY <5>2 DEF CheckTaken
        <5>3. CASE InsertChecked(p)
          BY <5>3 DEF InsertChecked
        <5>4. CASE InsertFails(p)
          <6>1. pass' = [pass EXCEPT ![p].at = "backoff", ![p].won = {}]
            BY <3>3, <5>4 DEF InsertFails
          <6>2. QED
            BY <6>1
        <5>5. CASE Retry(p)
          BY <5>5 DEF Retry
        <5>6. CASE ReadRollup(p)
          BY <5>6 DEF ReadRollup
        <5>7. CASE WriteRollup(p) \/ RollupFails(p)
          BY <5>7 DEF WriteRollup, RollupFails
        <5>8. QED
          BY <2>5, <3>3, <5>1, <5>2, <5>3, <5>4, <5>5, <5>6, <5>7 DEF PassStep, Resolve
      <4>2. QED
        BY <4>1 DEF NoStrandedSpan, Live
    <3>4. QED
      BY <3>1, <3>2, <3>3
  <2>6. ASSUME Crash PROVE NoStrandedSpan'
    BY <2>6 DEF Crash, NoStrandedSpan
  <2>7. ASSUME Sigterm PROVE NoStrandedSpan'
    BY <2>7 DEF Sigterm, NoStrandedSpan, Live, queueVars, passVars
  <2>8. ASSUME DrainStarts \/ DrainFlushes \/ Exit PROVE NoStrandedSpan'
    BY <2>8 DEF DrainStarts, DrainFlushes, Exit, NoStrandedSpan
  <2>9. ASSUME NEW r \in Req,
               \/ Arrive(r) \/ LookupHits(r) \/ LookupMisses(r) \/ PrepareFails(r)
               \/ QueueFull(r) \/ Settle(r) \/ FindWinner(r) \/ ChecksRun(r)
        PROVE  UNCHANGED <<queueVars, passVars, life>>
    BY <2>9 DEF Arrive, LookupHits, LookupMisses, PrepareFails, QueueFull, Settle,
       FindWinner, ChecksRun, envVars
  <2>10. UNCHANGED vars => UNCHANGED <<queueVars, passVars, life>>
    BY DEF vars, envVars
  <2>11. QED
    BY <2>1, <2>2, <2>3, <2>4, <2>5, <2>6, <2>7, <2>8, <2>9, <2>10
    DEF Next, HandlerStep, DrainStep, Quiescent
<1>3. QED
  BY <1>1, <1>2, TypeCorrect, OneFlusher, PTL DEF Spec


-----------------------------------------------------------------------------
(* One row per span, and answers that are true of the store.               *)
(*                                                                         *)
(* The strengthening follows a row through a pass: what check-then-insert  *)
(* decided to insert is still absent when it inserts (no other pass is     *)
(* live), what a pass calls won is in the store, and what it leaves out is *)
(* held by another row.                                                    *)

Known(r) == Stored(r) \/ Held(r)

\* Rows that may be inserted together
Fresh(won) ==
    \A r \in won : /\ ~Held(r)
                   /\ \A q \in won : SameSpan(r, q) => r = q

WriteOK ==
    \A p \in Pass : pass[p].at = "write" =>
        /\ ~UniqueIndex
        /\ Fresh(pass[p].won)
        /\ \A r \in Group(p) :
               r \in pass[p].won \/ Held(r) \/ \E q \in pass[p].won : SameSpan(r, q)

LandedOK ==
    \A p \in Pass : pass[p].at \in {"rollup", "merge", "resolve"} =>
        /\ \A r \in pass[p].won : Stored(r)
        /\ \A r \in Group(p) : Known(r)

OutcomeOK ==
    \A r \in Req :
        /\ outcome[r] = "stored" => Stored(r)
        /\ outcome[r] = "deduped" => Known(r)
        /\ pc[r] = "settling" => Known(r)

ChecksOK == \A r \in Req : checks[r] # "none" => Stored(r)

StoreInv ==
    OneRowPerSpan /\ WriteOK /\ LandedOK /\ OutcomeOK /\ ChecksOK /\ AckIsDurable

\* A non-empty set of positions has a least one.
LEMMA LeastPosition ==
    ASSUME NEW T \in SUBSET Nat, T # {}
    PROVE  \E x \in T : \A y \in T : x <= y
<1>1. PICK x \in T : \A y \in T : ~(<<y, x>> \in OpToRel(<, Nat))
  BY NatLessThanWellFounded, WFMin
<1>2. \A y \in T : ~(y < x)
  BY <1>1 DEF OpToRel
<1>3. QED
  BY <1>2

\* Two winners of one statement never share a key, and no winner's key is taken.
LEMMA WinnersFresh ==
    ASSUME TypeInv, NEW p \in Pass
    PROVE  Fresh(Winners(p))
<1>1. pass[p].batch \in Seq(Req)
  BY DEF TypeInv, TypeOK, PassState
<1>2. DOMAIN pass[p].batch = 1 .. Len(pass[p].batch) /\ Len(pass[p].batch) \in Nat
  BY <1>1, LenProperties
<1>3. ASSUME NEW r \in Winners(p), NEW q \in Winners(p), SameSpan(r, q) PROVE r = q
  <2>1. PICK i \in DOMAIN pass[p].batch :
            pass[p].batch[i] = r /\ \A k \in 1 .. i - 1 : ~SameSpan(r, pass[p].batch[k])
    BY DEF Winners, FirstOfItsSpan
  <2>2. PICK j \in DOMAIN pass[p].batch :
            pass[p].batch[j] = q /\ \A k \in 1 .. j - 1 : ~SameSpan(q, pass[p].batch[k])
    BY DEF Winners, FirstOfItsSpan
  <2>3. SameSpan(q, r)
    BY <1>3 DEF SameSpan
  <2>4. ~(j < i) /\ ~(i < j)
    BY <1>2, <1>3, <2>1, <2>2, <2>3
  <2>5. QED
    BY <1>2, <2>1, <2>2, <2>4
<1>4. QED
  BY <1>3 DEF Fresh, Winners

\* A row of the group that does not win is known to the store, or loses to a
\* winner of the same statement.
LEMMA WinnersCover ==
    ASSUME TypeInv, NEW p \in Pass, NEW r \in Group(p)
    PROVE  \/ r \in Winners(p)
           \/ Held(r)
           \/ UniqueIndex /\ Stored(r)
           \/ \E q \in Winners(p) : SameSpan(r, q)
<1> DEFINE b == pass[p].batch
           same == {k \in DOMAIN b : SameSpan(r, b[k])}
<1>1. b \in Seq(Req)
  BY DEF TypeInv, TypeOK, PassState
<1>2. DOMAIN b = 1 .. Len(b) /\ Len(b) \in Nat
  BY <1>1, LenProperties
<1>3. PICK n \in DOMAIN b : b[n] = r
  BY DEF Group, Members
<1>4. r \in Req
  BY <1>1, <1>2, <1>3, ElementOfSeq
<1>5. CASE SpanOf[r] = NoSpan
  <2>1. FirstOfItsSpan(r, b)
    BY <1>3, <1>5 DEF FirstOfItsSpan, SameSpan
  <2>2. QED
    BY <2>1 DEF Winners
<1>6. CASE SpanOf[r] # NoSpan /\ ~Held(r)
  <2>1. n \in same /\ same \in SUBSET Nat
    BY <1>2, <1>3, <1>6 DEF SameSpan
  <2>2. PICK m \in same : \A y \in same : m <= y
    BY <2>1, LeastPosition
  <2>3. b[m] \in Req /\ SameSpan(r, b[m]) /\ m \in DOMAIN b
    BY <1>1, <1>2, ElementOfSeq
  <2>4. \A i \in 1 .. m - 1 : ~SameSpan(b[m], b[i])
    <3>1. SUFFICES ASSUME NEW i \in 1 .. m - 1, SameSpan(b[m], b[i]) PROVE FALSE
      OBVIOUS
    <3>2. SameSpan(r, b[i]) /\ i \in DOMAIN b
      BY <1>2, <2>3, <3>1 DEF SameSpan
    <3>3. m <= i
      BY <2>2, <3>2
    <3>4. QED
      BY <1>2, <2>3, <3>1, <3>3
  <2>5. FirstOfItsSpan(b[m], b)
    BY <2>3, <2>4 DEF FirstOfItsSpan
  <2>6. b[m] \in Group(p)
    BY <2>3 DEF Group, Members, SameSpan
  <2>7. ~Held(b[m]) /\ ~Stored(b[m])
    BY <1>4, <1>6, <2>3 DEF Held, SameSpan
  <2>8. b[m] \in Winners(p)
    BY <2>5, <2>6, <2>7 DEF Winners
  <2>9. QED
    BY <2>3, <2>8
<1>7. QED
  BY <1>5, <1>6

\* Rows are only ever added.
LEMMA RowsStay ==
    ASSUME TypeInv, NEW won \in SUBSET Req, copies' = Landed(won)
    PROVE  /\ \A r \in Req : Stored(r) => Stored(r)'
           /\ \A r \in Req : Held(r) => Held(r)'
           /\ \A r \in won : Stored(r)'
           /\ \A r \in Req : Stored(r)' => Stored(r) \/ r \in won
<1>1. \A r \in Req : copies[r] \in Nat
  BY DEF TypeInv, TypeOK
<1>2. \A r \in Req : copies'[r] = IF r \in won THEN copies[r] + 1 ELSE copies[r]
  BY DEF Landed
<1>3. QED
  BY <1>1, <1>2 DEF Stored, Held

\* Fresh rows keep the idempotency key.
LEMMA FreshRowsKeepTheKey ==
    ASSUME TypeInv, OneRowPerSpan, NEW won \in SUBSET Req, Fresh(won),
           copies' = Landed(won)
    PROVE  OneRowPerSpan'
<1> SUFFICES ASSUME NEW r \in Req, NEW q \in Req, SameSpan(r, q), Stored(r)', Stored(q)'
             PROVE  r = q /\ copies'[r] = 1
  BY DEF OneRowPerSpan
<1>1. /\ copies[r] \in Nat /\ copies[q] \in Nat
      /\ copies'[r] = IF r \in won THEN copies[r] + 1 ELSE copies[r]
      /\ copies'[q] = IF q \in won THEN copies[q] + 1 ELSE copies[q]
  BY DEF TypeInv, TypeOK, Landed
<1>2. SameSpan(q, r) /\ SameSpan(r, r)
  BY DEF SameSpan
<1>3. CASE r \in won
  <2>1. ~Stored(r) /\ ~Stored(q)
    BY <1>2, <1>3 DEF Fresh, Held
  <2>2. q \in won
    BY <2>1, RowsStay
  <2>3. r = q /\ copies[r] = 0
    BY <1>1, <1>3, <2>1, <2>2 DEF Fresh, Stored
  <2>4. QED
    BY <1>1, <1>3, <2>3
<1>4. CASE r \notin won
  <2>1. Stored(r)
    BY <1>4, RowsStay
  <2>2. q \notin won
    BY <1>2, <2>1 DEF Fresh, Held
  <2>3. Stored(q)
    BY <2>2, RowsStay
  <2>4. QED
    BY <1>1, <1>4, <2>1, <2>3 DEF OneRowPerSpan
<1>5. QED
  BY <1>3, <1>4


\* With the store and the passes unchanged, only answers can go wrong.
LEMMA AnswersStay ==
    ASSUME TypeInv, StoreInv, UNCHANGED <<copies, pass>>,
           \A r \in Req :
               /\ outcome'[r] = outcome[r]
               /\ \/ pc'[r] = pc[r]
                  \/ pc'[r] = "ok" /\ Stored(r)
                  \/ pc'[r] \in {"replay", "settling"} /\ Known(r)
                  \/ pc'[r] \notin {"ok", "replay", "settling"}
               /\ checks'[r] # "none" => checks[r] # "none" \/ Stored(r)
    PROVE  StoreInv'
<1>1. \A r \in Req : (Stored(r)' <=> Stored(r)) /\ (Held(r)' <=> Held(r))
  BY DEF Stored, Held
<1>2. \A p \in Pass : Group(p)' = Group(p)
  BY DEF Group
<1>3. OneRowPerSpan'
  BY <1>1 DEF StoreInv, OneRowPerSpan
<1>4. WriteOK' /\ LandedOK'
  BY <1>1, <1>2 DEF StoreInv, WriteOK, LandedOK, Fresh, Known, Group, Held, Stored
<1>5. OutcomeOK' /\ ChecksOK' /\ AckIsDurable'
  BY <1>1 DEF StoreInv, OutcomeOK, ChecksOK, AckIsDurable, Known
<1>6. QED
  BY <1>3, <1>4, <1>5 DEF StoreInv

\* What a pass at work claims, whoever else starts or stops one.
PassOK(p) ==
    /\ pass[p].at = "write" =>
           /\ ~UniqueIndex
           /\ Fresh(pass[p].won)
           /\ \A r \in Group(p) :
                  r \in pass[p].won \/ Held(r) \/ \E q \in pass[p].won : SameSpan(r, q)
    /\ pass[p].at \in {"rollup", "merge", "resolve"} =>
           /\ \A r \in pass[p].won : Stored(r)
           /\ \A r \in Group(p) : Known(r)

\* When one pass moves and the others are idle, its own claims decide.
LEMMA OnePassMoves ==
    ASSUME TypeInv, StoreInv, NEW p \in Pass, PassOK(p)',
           \A x \in Pass \ {p} : pass'[x].at \in {"idle", "insert", "done"},
           OneRowPerSpan',
           \A r \in Req : (Stored(r) => Stored(r)') /\ (Held(r) => Held(r)'),
           UNCHANGED checks,
           \A r \in Req : pc'[r] \in {pc[r], "queued"},
           \A r \in Req : \/ outcome'[r] = outcome[r]
                          \/ outcome'[r] = "dropped"
                          \/ outcome'[r] = "stored" /\ Stored(r)
                          \/ outcome'[r] = "deduped" /\ Known(r)
    PROVE  StoreInv'
<1>1. WriteOK' /\ LandedOK'
  BY DEF PassOK, WriteOK, LandedOK
<1>2. OutcomeOK' /\ ChecksOK' /\ AckIsDurable'
  BY DEF StoreInv, OutcomeOK, ChecksOK, AckIsDurable, Known
<1>3. QED
  BY <1>1, <1>2 DEF StoreInv

\* A claim only starts a pass.
LEMMA ClaimKeepsStoreInv ==
    ASSUME TypeInv, StoreInv, NEW q \in Seq(Req), q # <<>>, Claim(q),
           SingleFlusher, flushing = NoPass, UNCHANGED <<copies, outcome, checks>>,
           \A r \in Req : pc'[r] \in {pc[r], "queued"}
    PROVE  StoreInv'
<1>1. PICK p \in Pass : pass' = [pass EXCEPT ![p] = Splice(q)]
  BY DEF Claim
<1>2. pass'[p].at = "insert"
  BY <1>1, SpliceType DEF TypeInv, TypeOK
<1>3. \A x \in Pass \ {p} : pass'[x].at = "idle"
  BY <1>1, PassAssumption DEF SingleFlusher, Live, TypeInv, TypeOK
<1>4. OneRowPerSpan' /\ \A r \in Req : (Stored(r) => Stored(r)') /\ (Held(r) => Held(r)')
  BY DEF StoreInv, OneRowPerSpan, Stored, Held
<1>5. PassOK(p)'
  BY <1>2 DEF PassOK
<1>6. QED
  BY <1>3, <1>4, <1>5, OnePassMoves

LEMMA FlushNowKeepsStoreInv ==
    ASSUME TypeInv, StoreInv, SingleFlusher, NEW q \in Seq(Req), FlushNow(q),
           UNCHANGED <<copies, outcome, checks>>,
           \A r \in Req : pc'[r] \in {pc[r], "queued"}
    PROVE  StoreInv'
<1>1. CASE UNCHANGED passVars
  BY <1>1, AnswersStay DEF passVars
<1>2. CASE flushing = NoPass /\ q # <<>> /\ Claim(q)
  BY <1>2, ClaimKeepsStoreInv
<1>3. QED
  BY <1>1, <1>2 DEF FlushNow

\* Every step of a pass: the one live pass inserts only fresh rows, and what it
\* goes on to claim about its group is true of the store.
LEMMA PassStepKeepsStoreInv ==
    ASSUME TypeInv, SingleFlusher, StoreInv, NEW p \in Pass, PassStep(p)
    PROVE  StoreInv'
<1> USE DEF TypeInv, TypeOK
<1>1. /\ Winners(p) \in SUBSET Req /\ Group(p) \in SUBSET Req
      /\ pass[p] \in PassState /\ pass[p].won \in SUBSET Req
  BY WinnersType DEF PassState
<1>2. \A x \in Pass \ {p} : pass[x].at = "idle"
  <2>1. Live(p)
    BY DEF PassStep, InsertAtomically, CheckTaken, InsertChecked, InsertFails, Retry,
       ReadRollup, WriteRollup, RollupFails, Resolve, ReleaseSlot, At, Live
  <2>2. QED
    BY <2>1 DEF SingleFlusher, Live
<1>3. \A x \in Pass \ {p} : pass'[x].at = "idle"
  <2>1. CASE ReleaseSlot(p)
    BY <1>2, <2>1 DEF ReleaseSlot
  <2>2. CASE ~ReleaseSlot(p)
    BY <1>2, <2>2, PassStepStaysLive
  <2>3. QED
    BY <2>1, <2>2
<1>4. UNCHANGED <<pc, checks>>
  BY DEF PassStep, InsertAtomically, CheckTaken, InsertChecked, InsertFails, Retry,
     ReadRollup, WriteRollup, RollupFails, Resolve, ReleaseSlot, reqVars
\* The store grows by fresh rows or not at all
<1>5. ASSUME NEW won \in SUBSET Req, Fresh(won), copies' = Landed(won)
      PROVE  /\ OneRowPerSpan'
             /\ \A r \in Req : (Stored(r) => Stored(r)') /\ (Held(r) => Held(r)')
             /\ \A r \in won : Stored(r)'
  BY <1>5, FreshRowsKeepTheKey, RowsStay DEF StoreInv
<1>6. ASSUME UNCHANGED copies
      PROVE  /\ OneRowPerSpan'
             /\ \A r \in Req : (Stored(r) <=> Stored(r)') /\ (Held(r) <=> Held(r)')
  BY <1>6 DEF StoreInv, OneRowPerSpan, Stored, Held
<1>7. CASE InsertAtomically(p)
  <2>1. Fresh(Winners(p)) /\ copies' = Landed(Winners(p)) /\ UNCHANGED outcome
    BY <1>7, WinnersFresh DEF InsertAtomically, reqVars
  <2>2. /\ pass'[p].at \in {"rollup", "resolve"} /\ pass'[p].won = Winners(p)
        /\ pass'[p].batch = pass[p].batch /\ pass'[p].proj = pass[p].proj
    BY <1>1, <1>7 DEF InsertAtomically, AfterInsert, PassState
  <2>3. \A r \in Group(p) : Known(r)'
    <3>1. SUFFICES ASSUME NEW r \in Group(p) PROVE Known(r)'
      OBVIOUS
    <3>2. CASE \E q \in Winners(p) : SameSpan(r, q)
      BY <1>1, <1>5, <2>1, <3>2 DEF Known, Held
    <3>3. QED
      BY <1>1, <1>5, <2>1, <3>2, WinnersCover DEF Known
  <2>4. PassOK(p)'
    BY <1>1, <1>5, <2>1, <2>2, <2>3 DEF PassOK, Group
  <2>5. QED
    BY <1>1, <1>3, <1>4, <1>5, <2>1, <2>4, OnePassMoves
<1>8. CASE CheckTaken(p)
  <2>1. ~UniqueIndex /\ UNCHANGED <<copies, outcome>>
    BY <1>8 DEF CheckTaken, storeVars, reqVars
  <2>2. /\ pass'[p].at = IF Winners(p) = {} THEN "resolve" ELSE "write"
        /\ pass'[p].won = Winners(p)
        /\ pass'[p].batch = pass[p].batch /\ pass'[p].proj = pass[p].proj
    BY <1>1, <1>8 DEF CheckTaken, PassState
  <2>3. Group(p)' = Group(p)
    BY <2>2 DEF Group
  <2>4. \A r \in Req : Held(r) <=> Held(r)'
    BY <1>6, <2>1
  <2>5. Fresh(Winners(p)) /\ Fresh(pass[p].won)' <=> Fresh(Winners(p))
    BY <1>1, <2>2, <2>4, WinnersFresh DEF Fresh
  <2>6. PassOK(p)'
    BY <1>1, <2>1, <2>2, <2>3, <2>4, <2>5, WinnersCover, WinnersFresh DEF PassOK, Known
  <2>7. QED
    BY <1>3, <1>4, <1>6, <2>1, <2>6, OnePassMoves
<1>9. CASE InsertChecked(p)
  <2>1. /\ Fresh(pass[p].won) /\ copies' = Landed(pass[p].won) /\ UNCHANGED outcome
        /\ \A r \in Group(p) :
              r \in pass[p].won \/ Held(r) \/ \E q \in pass[p].won : SameSpan(r, q)
    BY <1>9 DEF InsertChecked, At, StoreInv, WriteOK, reqVars
  <2>2. /\ pass'[p].at = "rollup" /\ pass'[p].won = pass[p].won
        /\ pass'[p].batch = pass[p].batch /\ pass'[p].proj = pass[p].proj
    BY <1>1, <1>9 DEF InsertChecked, PassState
  <2>3. \A r \in Group(p) : Known(r)'
    BY <1>1, <1>5, <2>1 DEF Known, Held
  <2>4. PassOK(p)'
    BY <1>1, <1>5, <2>1, <2>2, <2>3 DEF PassOK, Group
  <2>5. QED
    BY <1>1, <1>3, <1>4, <1>5, <2>1, <2>4, OnePassMoves
<1>10. CASE InsertFails(p)
  <2>1. /\ OneRowPerSpan'
        /\ \A r \in Req : (Stored(r) => Stored(r)') /\ (Held(r) => Held(r)')
    <3>1. CASE UNCHANGED copies
      BY <1>6, <3>1
    <3>2. CASE UniqueIndex /\ copies' = Landed(Winners(p))
      BY <1>1, <1>5, <3>2, WinnersFresh
    <3>3. CASE pass[p].at = "write" /\ copies' = Landed(pass[p].won)
      BY <1>1, <1>5, <3>3 DEF StoreInv, WriteOK
    <3>4. QED
      BY <1>10, <3>1, <3>2, <3>3 DEF InsertFails, MayHaveCommitted
  <2>2. pass'[p].at \in {"backoff", "insert", "done"}
    <3>1. CASE pass' = [pass EXCEPT ![p].at = "backoff", ![p].won = {}]
      BY <1>1, <3>1 DEF PassState
    <3>2. QED
      BY <1>10, <3>1, NextGroupStaysLive DEF InsertFails
  <2>3. \A r \in Req : outcome'[r] \in {outcome[r], "dropped"}
    BY <1>10 DEF InsertFails
  <2>4. PassOK(p)'
    BY <2>2 DEF PassOK
  <2>5. QED
    BY <1>3, <1>4, <2>1, <2>3, <2>4, OnePassMoves
<1>11. CASE Retry(p)
  <2>1. pass'[p].at = "insert" /\ UNCHANGED <<copies, outcome>>
    BY <1>1, <1>11 DEF Retry, PassState, storeVars, reqVars
  <2>2. PassOK(p)'
    BY <2>1 DEF PassOK
  <2>3. QED
    BY <1>3, <1>4, <1>6, <2>1, <2>2, OnePassMoves
<1>12. CASE ReadRollup(p) \/ WriteRollup(p) \/ RollupFails(p)
  <2>1. pass[p].at \in {"rollup", "merge"} /\ UNCHANGED <<copies, outcome>>
    BY <1>12 DEF ReadRollup, WriteRollup, RollupFails, At, storeVars, reqVars
  <2>2. /\ pass'[p].at \in {"merge", "resolve"} /\ pass'[p].won = pass[p].won
        /\ pass'[p].batch = pass[p].batch /\ pass'[p].proj = pass[p].proj
    <3>1. CASE ReadRollup(p)
      BY <1>1, <3>1 DEF ReadRollup, PassState
    <3>2. CASE WriteRollup(p) \/ RollupFails(p)
      BY <1>1, <3>2 DEF WriteRollup, RollupFails, PassState
    <3>3. QED
      BY <1>12, <3>1, <3>2
  <2>3. /\ \A r \in pass[p].won : Stored(r)
        /\ \A r \in Group(p) : Known(r)
    BY <2>1 DEF StoreInv, LandedOK
  <2>4. PassOK(p)'
    BY <1>1, <1>6, <2>1, <2>2, <2>3 DEF PassOK, Group, Known
  <2>5. QED
    BY <1>3, <1>4, <1>6, <2>1, <2>4, OnePassMoves
<1>13. CASE Resolve(p)
  <2>1. UNCHANGED copies /\ pass[p].at = "resolve"
    BY <1>13 DEF Resolve, At, storeVars
  <2>2. PassOK(p)'
    BY <1>13, NextGroupStaysLive DEF Resolve, PassOK
  <2>3. \A r \in Req : \/ outcome'[r] = outcome[r]
                       \/ outcome'[r] = "stored" /\ Stored(r)
                       \/ outcome'[r] = "deduped" /\ Known(r)
    BY <1>13, <2>1 DEF Resolve, StoreInv, LandedOK
  <2>4. QED
    BY <1>3, <1>4, <1>6, <2>1, <2>2, <2>3, OnePassMoves
<1>14. CASE ReleaseSlot(p)
  <2>1. pass'[p].at = "idle" /\ UNCHANGED <<copies, outcome>>
    BY <1>14 DEF ReleaseSlot, IdlePass, storeVars, reqVars
  <2>2. PassOK(p)'
    BY <2>1 DEF PassOK
  <2>3. QED
    BY <1>3, <1>4, <1>6, <2>1, <2>2, OnePassMoves
<1>15. QED
  BY <1>7, <1>8, <1>9, <1>10, <1>11, <1>12, <1>13, <1>14 DEF PassStep

\* The store stays the truth behind every answer: one row per (project, span id)
\* on every backend, a 200 only for a span that is stored, checks only for
\* a row that landed, whatever faults and crashes come between.
THEOREM StoreSafe == Spec => []StoreInv
<1>1. Init => StoreInv
  <2> SUFFICES ASSUME Init PROVE StoreInv
    OBVIOUS
  <2>1. \A r \in Req : ~Stored(r)
    BY DEF Init, Stored
  <2>2. WriteOK /\ LandedOK
    BY DEF Init, WriteOK, LandedOK, IdlePass
  <2>3. OutcomeOK /\ ChecksOK /\ AckIsDurable
    BY DEF Init, OutcomeOK, ChecksOK, AckIsDurable
  <2>4. QED
    BY <2>1, <2>2, <2>3 DEF StoreInv, OneRowPerSpan
<1>2. TypeInv /\ SingleFlusher /\ StoreInv /\ [Next]_vars => StoreInv'
  <2> SUFFICES ASSUME TypeInv, SingleFlusher, StoreInv, [Next]_vars
               PROVE  StoreInv'
    OBVIOUS
  <2> USE DEF TypeInv, TypeOK
  <2>1. ASSUME UNCHANGED <<reqVars, copies, pass>> PROVE StoreInv'
    BY <2>1, AnswersStay DEF reqVars
  \* A step of one handler: nothing else of the request changes but pc
  <2>2. ASSUME NEW r \in Req, NEW s, Goto(r, s), UNCHANGED <<outcome, checks, copies, pass>>,
               s = "ok" => Stored(r),
               s \in {"replay", "settling"} => Known(r)
        PROVE  StoreInv'
    <3>1. \A x \in Req : \/ pc'[x] = pc[x]
                         \/ pc'[x] = "ok" /\ Stored(x)
                         \/ pc'[x] \in {"replay", "settling"} /\ Known(x)
                         \/ pc'[x] \notin {"ok", "replay", "settling"}
      BY <2>2 DEF Goto
    <3>2. QED
      BY <2>2, <3>1, AnswersStay
  <2>3. ASSUME NEW r \in Req, Arrive(r) PROVE StoreInv'
    BY <2>2, <2>3 DEF Arrive, passVars, storeVars
  <2>4. ASSUME NEW r \in Req, LookupHits(r) PROVE StoreInv'
    BY <2>2, <2>4 DEF LookupHits, Known, passVars, storeVars
  <2>5. ASSUME NEW r \in Req, LookupMisses(r) PROVE StoreInv'
    BY <2>2, <2>5 DEF LookupMisses, passVars, storeVars
  <2>6. ASSUME NEW r \in Req, PrepareFails(r) \/ QueueFull(r) PROVE StoreInv'
    BY <2>2, <2>6 DEF PrepareFails, QueueFull, passVars, storeVars
  <2>7. ASSUME NEW r \in Req, Enqueue(r) PROVE StoreInv'
    <3>1. \A x \in Req : pc'[x] \in {pc[x], "queued"}
      BY <2>7 DEF Enqueue, Goto
    <3>2. UNCHANGED <<copies, outcome, checks>> /\ Append(queue, r) \in Seq(Req)
      BY <2>7 DEF Enqueue, storeVars
    <3>3. CASE FlushNow(Append(queue, r))
      BY <3>1, <3>2, <3>3, FlushNowKeepsStoreInv
    <3>4. CASE UNCHANGED passVars
      BY <3>1, <3>2, <3>4, AnswersStay DEF passVars
    <3>5. QED
      BY <2>7, <3>3, <3>4 DEF Enqueue
  <2>8. ASSUME NEW r \in Req, Settle(r) PROVE StoreInv'
    <3>1. UNCHANGED <<outcome, copies, pass>>
      BY <2>8 DEF Settle, passVars, storeVars
    <3>2. CASE outcome[r] = "stored"
      <4>1. Stored(r)
        BY <3>2 DEF StoreInv, OutcomeOK
      <4>2. Goto(r, "ok") /\ checks' = [checks EXCEPT ![r] = "running"]
        BY <2>8, <3>2 DEF Settle
      <4>3. /\ pc'[r] = "ok"
            /\ \A x \in Req \ {r} : pc'[x] = pc[x] /\ checks'[x] = checks[x]
        BY <4>2 DEF Goto
      <4>4. \A x \in Req :
               /\ \/ pc'[x] = pc[x]
                  \/ pc'[x] = "ok" /\ Stored(x)
               /\ checks'[x] # "none" => checks[x] # "none" \/ Stored(x)
        BY <4>1, <4>3
      <4>5. \A x \in Req :
               /\ outcome'[x] = outcome[x]
               /\ \/ pc'[x] = pc[x]
                  \/ pc'[x] = "ok" /\ Stored(x)
                  \/ pc'[x] \in {"replay", "settling"} /\ Known(x)
                  \/ pc'[x] \notin {"ok", "replay", "settling"}
               /\ checks'[x] # "none" => checks[x] # "none" \/ Stored(x)
        BY <3>1, <4>4
      <4>6. QED
        BY <3>1, <4>5, AnswersStay
    <3>3. CASE outcome[r] = "dropped"
      BY <2>2, <2>8, <3>1, <3>3 DEF Settle
    <3>4. CASE outcome[r] = "deduped"
      <4>1. Known(r)
        BY <3>4 DEF StoreInv, OutcomeOK
      <4>2. QED
        BY <2>2, <2>8, <3>1, <3>4, <4>1 DEF Settle
    <3>5. QED
      BY <2>8, <3>2, <3>3, <3>4 DEF Settle
  <2>9. ASSUME NEW r \in Req, FindWinner(r) PROVE StoreInv'
    <3>1. Known(r)
      BY <2>9 DEF FindWinner, StoreInv, OutcomeOK
    <3>2. QED
      BY <2>2, <2>9, <3>1 DEF FindWinner, passVars, storeVars
  <2>10. ASSUME NEW r \in Req, ChecksRun(r) PROVE StoreInv'
    <3>1. UNCHANGED <<pc, outcome, copies, pass>>
      BY <2>10 DEF ChecksRun, passVars, storeVars
    <3>2. \A x \in Req : checks'[x] # "none" => checks[x] # "none"
      BY <2>10 DEF ChecksRun
    <3>3. QED
      BY <3>1, <3>2, AnswersStay
  <2>11. ASSUME TimerFires PROVE StoreInv'
    BY <2>11, FlushNowKeepsStoreInv DEF TimerFires, reqVars, storeVars
  <2>12. ASSUME WaiterResumes \/ DrainFlushes PROVE StoreInv'
    <3>1. UNCHANGED <<reqVars, copies>> /\ flushing = NoPass
      BY <2>12 DEF WaiterResumes, DrainFlushes, storeVars
    <3>2. CASE queue # <<>> /\ Claim(queue)
      BY <3>1, <3>2, ClaimKeepsStoreInv DEF reqVars
    <3>3. CASE UNCHANGED passVars
      BY <2>1, <3>1, <3>3 DEF passVars
    <3>4. QED
      BY <2>12, <3>2, <3>3 DEF WaiterResumes, DrainFlushes
  <2>13. ASSUME NEW p \in Pass, PassStep(p) PROVE StoreInv'
    BY <2>13, PassStepKeepsStoreInv
  <2>14. ASSUME Sigterm \/ DrainStarts \/ Exit PROVE StoreInv'
    BY <2>1, <2>14 DEF Sigterm, DrainStarts, Exit, passVars, storeVars
  <2>15. ASSUME Crash PROVE StoreInv'
    <3>1. /\ UNCHANGED <<outcome, copies>>
          /\ \A p \in Pass : pass'[p].at = "idle"
          /\ \A r \in Req : pc'[r] = pc[r] \/ pc'[r] = "cut"
          /\ \A r \in Req : checks'[r] # "none" => checks[r] # "none"
      BY <2>15 DEF Crash, storeVars, IdlePass
    <3>2. \A r \in Req : (Stored(r)' <=> Stored(r)) /\ (Held(r)' <=> Held(r))
      BY <3>1 DEF Stored, Held
    <3>3. WriteOK' /\ LandedOK'
      BY <3>1 DEF WriteOK, LandedOK
    <3>4. OneRowPerSpan'
      BY <3>1, <3>2 DEF StoreInv, OneRowPerSpan
    <3>5. OutcomeOK' /\ ChecksOK' /\ AckIsDurable'
      BY <3>1, <3>2 DEF StoreInv, OutcomeOK, ChecksOK, AckIsDurable, Known
    <3>6. QED
      BY <3>3, <3>4, <3>5 DEF StoreInv
  <2>16. ASSUME UNCHANGED vars PROVE StoreInv'
    BY <2>1, <2>16 DEF vars, passVars, storeVars
  <2>17. QED
    BY <2>3, <2>4, <2>5, <2>6, <2>7, <2>8, <2>9, <2>10, <2>11, <2>12, <2>13, <2>14,
       <2>15, <2>16 DEF Next, HandlerStep, DrainStep, Quiescent
<1>3. QED
  BY <1>1, <1>2, TypeCorrect, OneFlusher, PTL DEF Spec

\* The type invariant of the batcher.
THEOREM Typed == Spec => []TypeOK
<1>1. TypeInv => TypeOK
  BY DEF TypeInv
<1>2. QED
  BY <1>1, TypeCorrect, PTL

\* A (project, span id) never gets a second row, with the unique index and with
\* check-then-insert alike, under failed inserts, lost acknowledgements and crashes.
THEOREM KeyHolds == Spec => []OneRowPerSpan
<1>1. StoreInv => OneRowPerSpan
  BY DEF StoreInv
<1>2. QED
  BY <1>1, StoreSafe, PTL

\* A 200 is given only for a span that is in the store, by its own row or by the
\* row of the delivery it replays.
THEOREM AcksAreDurable == Spec => []AckIsDurable
<1>1. StoreInv => AckIsDurable
  BY DEF StoreInv
<1>2. QED
  BY <1>1, StoreSafe, PTL

\* The pipeline of a span runs for one delivery only, the one whose row landed.
THEOREM ChecksStartOnce == Spec => []CheckedOncePerSpan
<1>1. StoreInv => CheckedOncePerSpan
  BY DEF StoreInv, OneRowPerSpan, ChecksOK, CheckedOncePerSpan
<1>2. QED
  BY <1>1, StoreSafe, PTL

-----------------------------------------------------------------------------
(* The batcher implements SpanDelivery. *)

\* The places at which a client has no answer yet
Open == {"idle"} \cup InFlight

AnswersStand == \A r \in Req : pc'[r] = pc[r] \/ (pc[r] \in Open /\ pc'[r] \in Open)
ChecksStand == \A r \in Req : (checks[r] = "none") <=> (checks'[r] = "none")

\* Only the handler that answers 200 starts checks
CheckedAfterAnswer == \A r \in Req : checks[r] # "none" => pc[r] = "ok"

LEMMA NoAnswerYet == ASSUME NEW r \in Req, pc[r] \in Open PROVE AnswerGiven[r] = "none"
  BY DEF AnswerGiven, Open, InFlight

LEMMA SameAnswers == ASSUME AnswersStand PROVE AnswerGiven' = AnswerGiven
<1>1. \A r \in Req : pc[r] \in Open => AnswerGiven[r] = "none"
  BY NoAnswerYet
<1>2. \A r \in Req : pc'[r] \in Open => AnswerGiven'[r] = "none"
  BY DEF AnswerGiven, Open, InFlight
<1>3. \A r \in Req : pc'[r] = pc[r] => AnswerGiven'[r] = AnswerGiven[r]
  BY DEF AnswerGiven
<1>4. \A r \in Req : AnswerGiven'[r] = AnswerGiven[r]
  BY <1>1, <1>2, <1>3 DEF AnswersStand
<1> QED BY <1>4 DEF AnswerGiven

LEMMA SameChecks == ASSUME ChecksStand PROVE ChecksStarted' = ChecksStarted
  BY DEF ChecksStand, ChecksStarted

LEMMA SameRows == ASSUME UNCHANGED copies PROVE RowsHeld' = RowsHeld
  BY DEF RowsHeld, Stored

LEMMA UnseenStep ==
    ASSUME AnswersStand, ChecksStand, UNCHANGED copies
    PROVE  [Delivery!Next]_(Delivery!vars)
  BY SameAnswers, SameChecks, SameRows DEF Delivery!vars

\* A batch lands, or rows that were there already land again
LEMMA LandingStep ==
    ASSUME StoreInv', AnswersStand, ChecksStand, \A r \in Req : Stored(r) => Stored(r)'
    PROVE  [Delivery!Next]_(Delivery!vars)
<1> DEFINE batch == RowsHeld' \ RowsHeld
<1>1. UNCHANGED <<AnswerGiven, ChecksStarted>>
  BY SameAnswers, SameChecks
<1>2. RowsHeld' = RowsHeld \cup batch /\ batch \in SUBSET (Req \ RowsHeld)
  BY DEF RowsHeld
<1>3. \A r, q \in RowsHeld \cup batch : SameSpan(r, q) => r = q
  <2>1. \A r, q \in Req : SameSpan(r, q) /\ Stored(r)' /\ Stored(q)' => r = q
    BY DEF StoreInv, OneRowPerSpan, SameSpan
  <2> QED BY <2>1 DEF RowsHeld
<1> HIDE DEF batch
<1>4. CASE batch = {}
  BY <1>1, <1>2, <1>4 DEF Delivery!vars
<1>5. CASE batch # {}
  <2>1. Delivery!Land(batch)
    BY <1>1, <1>2, <1>3, <1>5 DEF Delivery!Land
  <2> QED BY <1>2, <2>1 DEF Delivery!Next
<1> QED BY <1>4, <1>5

\* One request is answered
LEMMA AnsweredStep ==
    ASSUME TypeOK, NEW r \in Req, NEW s, pc[r] \in Open, pc' = [pc EXCEPT ![r] = s],
           s \in {"ok", "replay", "busy", "unavailable", "error"}, UNCHANGED copies,
           IF s = "ok" THEN /\ Stored(r)
                            /\ checks[r] = "none" /\ checks' = [checks EXCEPT ![r] = "running"]
                            /\ \A q \in Req : checks[q] # "none" => ~SameSpan(r, q)
           ELSE UNCHANGED checks,
           s = "replay" => Known(r)
    PROVE  Delivery!Next
<1>1. RowsHeld' = RowsHeld
  BY SameRows
<1>2. AnswerGiven[r] = "none" /\ AnswerGiven = [q \in Req |-> AnswerGiven[q]]
  BY NoAnswerYet DEF AnswerGiven
<1>3. \A q \in Req : q # r => AnswerGiven'[q] = AnswerGiven[q]
  BY DEF AnswerGiven, TypeOK
<1>4. AnswerGiven' = [q \in Req |-> AnswerGiven'[q]]
  BY DEF AnswerGiven
<1>5. AnswerGiven'[r] = IF s = "ok" THEN "stored" ELSE IF s = "replay" THEN "replayed" ELSE "refused"
  BY DEF AnswerGiven, TypeOK, InFlight
<1>6. CASE s = "ok"
  <2>1. ChecksStarted' = ChecksStarted \cup {r} /\ r \notin ChecksStarted
    BY <1>6 DEF ChecksStarted, TypeOK
  <2>2. AnswerGiven' = [AnswerGiven EXCEPT ![r] = "stored"]
    BY <1>2, <1>3, <1>4, <1>5, <1>6
  <2>3. r \in RowsHeld /\ \A q \in ChecksStarted : q # r /\ ~SameSpan(r, q)
    BY <1>6, <2>1 DEF RowsHeld, ChecksStarted
  <2>4. Delivery!Accept(r)
    BY <1>1, <1>2, <2>1, <2>2, <2>3 DEF Delivery!Accept
  <2> QED BY <2>4 DEF Delivery!Next
<1>7. ASSUME s # "ok" PROVE ChecksStarted' = ChecksStarted
  BY <1>7 DEF ChecksStarted
<1>8. CASE s = "replay"
  <2>1. AnswerGiven' = [AnswerGiven EXCEPT ![r] = "replayed"]
    BY <1>2, <1>3, <1>4, <1>5, <1>8
  <2>2. \E q \in RowsHeld : q = r \/ SameSpan(r, q)
    BY <1>8 DEF Known, Held, RowsHeld
  <2>3. Delivery!Replay(r)
    BY <1>1, <1>2, <1>7, <1>8, <2>1, <2>2 DEF Delivery!Replay
  <2> QED BY <2>3 DEF Delivery!Next
<1>9. CASE s \in {"busy", "unavailable", "error"}
  <2>1. AnswerGiven' = [q \in Req |-> IF q \in {r} THEN "refused" ELSE AnswerGiven[q]]
    BY <1>3, <1>4, <1>5, <1>9
  <2>2. Delivery!Refuse({r})
    BY <1>1, <1>2, <1>7, <1>9, <2>1 DEF Delivery!Refuse
  <2> QED BY <2>2 DEF Delivery!Next
<1> QED BY <1>6, <1>8, <1>9

\* A crash cuts off every request that is in flight
LEMMA CrashIsSeen == ASSUME TypeOK, Crash PROVE [Delivery!Next]_(Delivery!vars)
<1> DEFINE some == {r \in Req : pc[r] \in InFlight}
<1>1. RowsHeld' = RowsHeld
  BY SameRows DEF Crash, storeVars
<1>2. ChecksStarted' = ChecksStarted
  BY DEF Crash, ChecksStarted
<1>3. \A r \in some : AnswerGiven[r] = "none"
  BY NoAnswerYet DEF Open
<1>4. AnswerGiven' = [r \in Req |-> IF r \in some THEN "refused" ELSE AnswerGiven[r]]
  BY DEF Crash, AnswerGiven, InFlight
<1>5. some \in SUBSET Req
  OBVIOUS
<1> HIDE DEF some
<1>6. CASE some = {}
  <2>1. AnswerGiven' = AnswerGiven
    BY <1>4, <1>6 DEF AnswerGiven
  <2> QED BY <1>1, <1>2, <2>1 DEF Delivery!vars
<1>7. CASE some # {}
  <2>1. Delivery!Refuse(some)
    BY <1>1, <1>2, <1>3, <1>4, <1>7 DEF Delivery!Refuse
  <2> QED BY <1>5, <2>1 DEF Delivery!Next
<1> QED BY <1>6, <1>7

LEMMA CheckedAfterAnswerInit == Init => CheckedAfterAnswer
  BY DEF Init, CheckedAfterAnswer

\* A pass and the drain leave handlers and checks alone, and take back no row
LEMMA PassIsUnseen ==
    ASSUME TypeOK, NEW p \in Pass, PassStep(p)
    PROVE  UNCHANGED <<pc, checks>> /\ \A r \in Req : Stored(r) => Stored(r)'
<1>1. UNCHANGED <<pc, checks>>
  BY DEF PassStep, InsertAtomically, CheckTaken, InsertChecked, InsertFails, Retry, ReadRollup,
         WriteRollup, RollupFails, Resolve, ReleaseSlot, reqVars
<1>2. copies' = copies \/ \E won \in SUBSET Req : copies' = Landed(won)
  <2>1. \/ copies' = copies
        \/ copies' = Landed(Winners(p))
        \/ At(p, "write") /\ copies' = Landed(pass[p].won)
    BY DEF PassStep, InsertAtomically, CheckTaken, InsertChecked, InsertFails, MayHaveCommitted,
           Retry, ReadRollup, WriteRollup, RollupFails, Resolve, ReleaseSlot, storeVars, At
  <2>2. pass[p].won \in SUBSET Req
    BY DEF TypeOK, PassState
  <2>3. Winners(p) \in SUBSET Req
    BY <2>2 DEF Winners, Group, Members, TypeOK, PassState
  <2> QED BY <2>1, <2>2, <2>3
<1>3. \A r \in Req : copies[r] \in Nat
  BY DEF TypeOK
<1>4. \A won \in SUBSET Req : copies' = Landed(won) =>
          \A r \in Req : copies'[r] = copies[r] \/ copies'[r] = copies[r] + 1
  BY DEF Landed
<1> QED BY <1>1, <1>2, <1>3, <1>4 DEF Stored

LEMMA CheckedAfterAnswerStep == TypeOK /\ CheckedAfterAnswer /\ [Next]_vars => CheckedAfterAnswer'
<1> SUFFICES ASSUME TypeOK, CheckedAfterAnswer, [Next]_vars PROVE CheckedAfterAnswer'
  OBVIOUS
<1> USE DEF CheckedAfterAnswer
<1>1. ASSUME NEW r \in Req,
             Arrive(r) \/ LookupHits(r) \/ LookupMisses(r) \/ QueueFull(r) \/ Enqueue(r)
                \/ FindWinner(r) \/ PrepareFails(r)
      PROVE  CheckedAfterAnswer'
  <2>1. UNCHANGED checks /\ pc[r] # "ok" /\ \E s : pc' = [pc EXCEPT ![r] = s]
    BY <1>1 DEF Arrive, LookupHits, LookupMisses, QueueFull, Enqueue, FindWinner, PrepareFails, Goto
  <2> QED BY <2>1 DEF TypeOK
<1>2. ASSUME NEW r \in Req, Settle(r) PROVE CheckedAfterAnswer'
  <2>1. pc[r] = "queued" /\ \/ UNCHANGED checks
                            \/ checks' = [checks EXCEPT ![r] = "running"] /\ Goto(r, "ok")
    BY <1>2 DEF Settle
  <2>2. \E s : pc' = [pc EXCEPT ![r] = s]
    BY <1>2 DEF Settle, Goto
  <2> QED BY <2>1, <2>2 DEF TypeOK, Goto
<1>3. ASSUME NEW r \in Req, ChecksRun(r) PROVE CheckedAfterAnswer'
  BY <1>3 DEF ChecksRun, TypeOK
<1>4. ASSUME NEW p \in Pass, PassStep(p) PROVE CheckedAfterAnswer'
  BY <1>4, PassIsUnseen
<1>5. CASE Crash
  BY <1>5 DEF Crash, InFlight
<1>6. CASE TimerFires \/ WaiterResumes \/ Sigterm \/ DrainStep \/ UNCHANGED vars
  BY <1>6 DEF TimerFires, WaiterResumes, Sigterm, DrainStep, DrainStarts, DrainFlushes, Exit, vars, reqVars
<1> QED BY <1>1, <1>2, <1>3, <1>4, <1>5, <1>6 DEF Next, HandlerStep, Quiescent

\* Every step of the batcher is one of SpanDelivery or changes nothing a client sees
LEMMA StepIsDelivery ==
    TypeOK /\ StoreInv /\ StoreInv' /\ CheckedAfterAnswer /\ [Next]_vars
        => [Delivery!Next]_(Delivery!vars)
<1> SUFFICES ASSUME TypeOK, StoreInv, StoreInv', CheckedAfterAnswer, [Next]_vars
             PROVE  [Delivery!Next]_(Delivery!vars)
  OBVIOUS
<1>1. ASSUME NEW r \in Req,
             pc[r] \in Open, \E s \in Open : pc' = [pc EXCEPT ![r] = s], UNCHANGED <<copies, checks>>
      PROVE  [Delivery!Next]_(Delivery!vars)
  <2>1. AnswersStand
    BY <1>1 DEF AnswersStand, TypeOK
  <2>2. ChecksStand
    BY <1>1 DEF ChecksStand
  <2> QED BY <1>1, <2>1, <2>2, UnseenStep
<1>2. ASSUME NEW r \in Req, Arrive(r) \/ LookupMisses(r) \/ Enqueue(r)
      PROVE  [Delivery!Next]_(Delivery!vars)
  <2>1. pc[r] \in Open /\ (\E s \in Open : pc' = [pc EXCEPT ![r] = s]) /\ UNCHANGED <<copies, checks>>
    BY <1>2 DEF Arrive, LookupMisses, Enqueue, Goto, Open, InFlight, storeVars
  <2> QED BY <1>1, <2>1
<1>3. ASSUME NEW r \in Req, NEW s \in {"replay", "busy", "error", "unavailable"}, pc[r] \in Open,
             pc' = [pc EXCEPT ![r] = s], UNCHANGED <<copies, checks>>, s = "replay" => Known(r)
      PROVE  [Delivery!Next]_(Delivery!vars)
  BY <1>3, AnsweredStep
<1>4. ASSUME NEW r \in Req, LookupHits(r) PROVE [Delivery!Next]_(Delivery!vars)
  <2>1. pc[r] \in Open /\ pc' = [pc EXCEPT ![r] = "replay"] /\ UNCHANGED <<copies, checks>> /\ Known(r)
    BY <1>4 DEF LookupHits, Goto, Open, InFlight, storeVars, Known
  <2> QED BY <1>3, <2>1
<1>5. ASSUME NEW r \in Req, QueueFull(r) PROVE [Delivery!Next]_(Delivery!vars)
  <2>1. pc[r] \in Open /\ pc' = [pc EXCEPT ![r] = "busy"] /\ UNCHANGED <<copies, checks>>
    BY <1>5 DEF QueueFull, Goto, Open, InFlight, storeVars
  <2> QED BY <1>3, <2>1
<1>6. ASSUME NEW r \in Req, PrepareFails(r) PROVE [Delivery!Next]_(Delivery!vars)
  <2>1. pc[r] \in Open /\ pc' = [pc EXCEPT ![r] = "error"] /\ UNCHANGED <<copies, checks>>
    BY <1>6 DEF PrepareFails, Goto, Open, InFlight, storeVars
  <2> QED BY <1>3, <2>1
<1>7. ASSUME NEW r \in Req, FindWinner(r) PROVE [Delivery!Next]_(Delivery!vars)
  <2>1. pc[r] = "settling" /\ pc[r] \in Open /\ UNCHANGED <<copies, checks>>
        /\ (pc' = [pc EXCEPT ![r] = "replay"] \/ pc' = [pc EXCEPT ![r] = "error"])
    BY <1>7 DEF FindWinner, Goto, Open, InFlight, storeVars
  <2>2. Known(r)
    BY <2>1 DEF StoreInv, OutcomeOK
  <2> QED BY <1>3, <2>1, <2>2
<1>8. ASSUME NEW r \in Req, Settle(r) PROVE [Delivery!Next]_(Delivery!vars)
  <2>1. pc[r] = "queued" /\ pc[r] \in Open /\ UNCHANGED copies
    BY <1>8 DEF Settle, storeVars, Open, InFlight
  <2>2. checks[r] = "none"
    BY <2>1 DEF CheckedAfterAnswer
  <2>3. CASE outcome[r] = "stored"
    <3>1. pc' = [pc EXCEPT ![r] = "ok"] /\ checks' = [checks EXCEPT ![r] = "running"]
      BY <1>8, <2>3 DEF Settle, Goto
    <3>2. Stored(r)
      BY <2>3 DEF StoreInv, OutcomeOK
    <3>3. \A q \in Req : checks[q] # "none" => ~SameSpan(r, q)
      <4>1. ASSUME NEW q \in Req, checks[q] # "none", SameSpan(r, q) PROVE FALSE
        <5>1. Stored(q)
          BY <4>1 DEF StoreInv, ChecksOK
        <5>2. r = q
          BY <3>2, <4>1, <5>1 DEF StoreInv, OneRowPerSpan
        <5> QED BY <2>2, <4>1, <5>2
      <4> QED BY <4>1
    <3>4. Delivery!Next
      BY <2>1, <2>2, <3>1, <3>2, <3>3, AnsweredStep
    <3> QED BY <3>4
  <2>4. CASE outcome[r] = "dropped"
    <3>1. pc' = [pc EXCEPT ![r] = "unavailable"] /\ UNCHANGED checks
      BY <1>8, <2>4 DEF Settle, Goto
    <3> QED BY <1>3, <2>1, <3>1
  <2>5. CASE outcome[r] = "deduped" /\ SpanOf[r] = NoSpan
    <3>1. pc' = [pc EXCEPT ![r] = "replay"] /\ UNCHANGED checks
      BY <1>8, <2>5 DEF Settle, Goto
    <3>2. Known(r)
      BY <2>5 DEF StoreInv, OutcomeOK
    <3> QED BY <1>3, <2>1, <3>1, <3>2
  <2>6. CASE outcome[r] = "deduped" /\ SpanOf[r] # NoSpan
    <3>1. pc' = [pc EXCEPT ![r] = "settling"] /\ UNCHANGED checks /\ "settling" \in Open
      BY <1>8, <2>6 DEF Settle, Goto, Open, InFlight
    <3> QED BY <1>1, <2>1, <3>1
  <2> QED BY <1>8, <2>3, <2>4, <2>5, <2>6 DEF Settle
<1>9. ASSUME NEW r \in Req, ChecksRun(r) PROVE [Delivery!Next]_(Delivery!vars)
  <2>1. AnswersStand /\ UNCHANGED copies
    BY <1>9 DEF ChecksRun, AnswersStand, storeVars
  <2>2. ChecksStand
    BY <1>9 DEF ChecksRun, ChecksStand, TypeOK
  <2> QED BY <2>1, <2>2, UnseenStep
<1>10. ASSUME NEW p \in Pass, PassStep(p) PROVE [Delivery!Next]_(Delivery!vars)
  <2>1. AnswersStand /\ ChecksStand /\ \A r \in Req : Stored(r) => Stored(r)'
    BY <1>10, PassIsUnseen DEF AnswersStand, ChecksStand
  <2> QED BY <2>1, LandingStep
<1>11. CASE Crash
  BY <1>11, CrashIsSeen
<1>12. CASE TimerFires \/ WaiterResumes \/ Sigterm \/ DrainStep \/ UNCHANGED vars
  <2>1. UNCHANGED <<pc, checks, copies>>
    BY <1>12 DEF TimerFires, WaiterResumes, Sigterm, DrainStep, DrainStarts, DrainFlushes, Exit,
                 vars, reqVars, storeVars
  <2>2. AnswersStand /\ ChecksStand
    BY <2>1 DEF AnswersStand, ChecksStand
  <2> QED BY <2>1, <2>2, UnseenStep
<1> QED BY <1>2, <1>4, <1>5, <1>6, <1>7, <1>8, <1>9, <1>10, <1>11, <1>12 DEF Next, HandlerStep, Quiescent

LEMMA InitIsDelivery == Init => Delivery!Init
  BY DEF Init, Delivery!Init, RowsHeld, Stored, AnswerGiven, ChecksStarted

\* Batching, retries, lost acknowledgements, shutdown and crashes are invisible to
\* a client: the batcher implements SpanDelivery (ADR-0005), for any number of
\* deliveries, projects, passes and failures and with either kind of store.
THEOREM DeliveryIsImplemented == Spec => ImplementsDelivery
<1>1. Spec => []CheckedAfterAnswer
  BY CheckedAfterAnswerInit, CheckedAfterAnswerStep, Typed, PTL DEF Spec
<1> QED BY <1>1, InitIsDelivery, StepIsDelivery, Typed, StoreSafe, PTL DEF Spec, ImplementsDelivery, Delivery!Spec

-----------------------------------------------------------------------------
(* Every accepted span is in one place until it is settled: in the queue or *)
(* in what the live pass has ahead of it.  From that follow the rollups,    *)
(* because no delta is written twice, and the drain.                        *)

Entering == {"idle", "looking", "preparing"}
Unfinished(r) == pc[r] = "queued" /\ outcome[r] = "none"
Distinct(q) == \A i, j \in DOMAIN q : q[i] = q[j] => i = j

\* What a pass still has to settle: its group and the groups after it
AheadOf(s) == {r \in Members(s.batch) : ProjOf[r] = s.proj \/ ProjOf[r] \in s.todo}
Ahead(p) == AheadOf(pass[p])

Carries(p) ==
    /\ \A r \in Ahead(p) :
          Unfinished(r) /\ (r \in rolled => pass[p].at = "resolve" /\ r \in Group(p))
    /\ pass[p].proj \notin pass[p].todo
    /\ pass[p].won \subseteq Group(p)
    /\ pass[p].at = "merge" => pass[p].seen = rollup[pass[p].proj]
    /\ pass[p].at \in {"idle", "done"} => pass[p].batch = <<>>

Accounted ==
    /\ Distinct(queue)
    /\ \A r \in Req : pc[r] \in Entering => outcome[r] = "none" /\ r \notin rolled
    /\ \A r \in Members(queue) :
          Unfinished(r) /\ r \notin rolled /\ \A p \in Pass : r \notin Ahead(p)
    /\ \A p \in Pass : Carries(p)
    /\ \A r \in Req : Unfinished(r) => r \in Members(queue) \/ \E p \in Pass : r \in Ahead(p)

LEMMA NobodyInEmpty == Members(<<>>) = {}
  BY DEF Members

LEMMA MembersOf ==
    ASSUME NEW q \in Seq(Req)
    PROVE  /\ Members(q) = {q[i] : i \in 1 .. Len(q)} /\ DOMAIN q = 1 .. Len(q) /\ Len(q) \in Nat
           /\ Members(q) \subseteq Req
  BY LenProperties, ElementOfSeq DEF Members

\* The order of the queue is cut in two: a batch, and what stays queued
LEMMA SpliceSplits ==
    ASSUME NEW q \in Seq(Req), q # <<>>, Distinct(q)
    PROVE  /\ Distinct(Remaining(q))
           /\ Members(Remaining(q)) \cup AheadOf(Splice(q)) = Members(q)
           /\ Members(Remaining(q)) \cap AheadOf(Splice(q)) = {}
           /\ Splice(q).at = "insert" /\ Splice(q).won = {} /\ Splice(q).proj \notin Splice(q).todo
<1> DEFINE n == IF Len(q) < FlushSize THEN Len(q) ELSE FlushSize
           b == SubSeq(q, 1, n)
           projects == {ProjOf[r] : r \in Members(b)}
           rest == Remaining(q)
<1>1. n \in Nat /\ 1 <= n /\ n <= Len(q) /\ Len(q) \in Nat /\ FlushSize \in Nat
  BY SizeAssumption, EmptySeq, LenProperties
<1>2. b \in Seq(Req) /\ Len(b) = n /\ \A i \in 1 .. n : b[i] = q[i]
  BY <1>1, SubSeqProperties, ElementOfSeq
<1>3. rest \in Seq(Req) /\ Len(rest) = Len(q) - n /\ \A i \in 1 .. Len(q) - n : rest[i] = q[n + i]
  <2>1. CASE Len(q) < FlushSize
    BY <1>1, <2>1, EmptySeq, LenProperties DEF Remaining
  <2>2. CASE ~(Len(q) < FlushSize)
    <3>1. \A i \in FlushSize + 1 .. Len(q) : q[i] \in Req
      BY <1>1, ElementOfSeq
    <3>2. /\ SubSeq(q, FlushSize + 1, Len(q)) \in Seq(Req)
          /\ Len(SubSeq(q, FlushSize + 1, Len(q))) =
                IF FlushSize + 1 <= Len(q) THEN Len(q) - (FlushSize + 1) + 1 ELSE 0
          /\ \A i \in 1 .. Len(q) - (FlushSize + 1) + 1 :
                SubSeq(q, FlushSize + 1, Len(q))[i] = q[FlushSize + 1 + i - 1]
      BY <1>1, <3>1, SubSeqProperties
    <3> QED BY <1>1, <2>2, <3>2 DEF Remaining
  <2> QED BY <2>1, <2>2
<1>4. Splice(q) = StartGroup(b, 1, projects)
  BY DEF Splice
<1>5. AheadOf(StartGroup(b, 1, projects)) = Members(b)
  BY DEF AheadOf, StartGroup
<1>6. /\ StartGroup(b, 1, projects).at = "insert" /\ StartGroup(b, 1, projects).won = {}
      /\ StartGroup(b, 1, projects).proj \notin StartGroup(b, 1, projects).todo
  BY DEF StartGroup
<1> HIDE DEF n, b, projects, rest
<1>7. /\ Members(q) = {q[i] : i \in 1 .. Len(q)} /\ DOMAIN q = 1 .. Len(q)
      /\ Members(b) = {b[i] : i \in 1 .. n}
      /\ Members(rest) = {rest[i] : i \in 1 .. Len(q) - n} /\ DOMAIN rest = 1 .. Len(q) - n
  BY <1>2, <1>3, MembersOf
<1>8. \A r \in Members(b) : \E i \in 1 .. n : q[i] = r
  BY <1>2, <1>7
<1>9. \A r \in Members(rest) : \E i \in n + 1 .. Len(q) : q[i] = r
  <2>1. ASSUME NEW r \in Members(rest) PROVE \E i \in n + 1 .. Len(q) : q[i] = r
    <3>1. PICK i \in 1 .. Len(q) - n : rest[i] = r
      BY <1>7
    <3>2. q[n + i] = r /\ n + i \in n + 1 .. Len(q)
      BY <1>1, <1>3, <3>1
    <3> QED BY <3>2
  <2> QED BY <2>1
<1>10. \A i \in 1 .. n : q[i] \in Members(b)
  BY <1>2, <1>7
<1>11. \A i \in n + 1 .. Len(q) : q[i] \in Members(rest)
  <2>1. ASSUME NEW i \in n + 1 .. Len(q) PROVE q[i] \in Members(rest)
    <3>1. i - n \in 1 .. Len(q) - n /\ n + (i - n) = i
      BY <1>1
    <3>2. rest[i - n] = q[i]
      BY <1>3, <3>1
    <3> QED BY <1>7, <3>1, <3>2
  <2> QED BY <2>1
<1>12. Members(rest) \cup Members(b) = Members(q)
  <2>1. \A r \in Members(q) : r \in Members(rest) \/ r \in Members(b)
    <3>1. ASSUME NEW r \in Members(q) PROVE r \in Members(rest) \/ r \in Members(b)
      <4>1. PICK i \in 1 .. Len(q) : q[i] = r
        BY <1>7
      <4>2. i \in 1 .. n \/ i \in n + 1 .. Len(q)
        BY <1>1
      <4> QED BY <1>10, <1>11, <4>1, <4>2
    <3> QED BY <3>1
  <2>2. ASSUME NEW r \in Members(b) PROVE r \in Members(q)
    <3>1. PICK i \in 1 .. n : q[i] = r
      BY <1>8
    <3>2. i \in 1 .. Len(q)
      BY <1>1
    <3> QED BY <1>7, <3>1, <3>2
  <2>3. ASSUME NEW r \in Members(rest) PROVE r \in Members(q)
    <3>1. PICK i \in n + 1 .. Len(q) : q[i] = r
      BY <1>9
    <3>2. i \in 1 .. Len(q)
      BY <1>1
    <3> QED BY <1>7, <3>1, <3>2
  <2> QED BY <2>1, <2>2, <2>3
<1>13. Members(rest) \cap Members(b) = {}
  <2>1. ASSUME NEW r \in Members(rest), r \in Members(b) PROVE FALSE
    <3>1. PICK i \in 1 .. n : q[i] = r
      BY <1>8, <2>1
    <3>2. PICK j \in n + 1 .. Len(q) : q[j] = r
      BY <1>9, <2>1
    <3>3. i = j
      BY <1>1, <1>7, <3>1, <3>2 DEF Distinct
    <3> QED BY <1>1, <3>3
  <2> QED BY <2>1
<1>14. Distinct(rest)
  <2>1. ASSUME NEW i \in 1 .. Len(q) - n, NEW j \in 1 .. Len(q) - n, rest[i] = rest[j] PROVE i = j
    <3>1. q[n + i] = q[n + j] /\ n + i \in 1 .. Len(q) /\ n + j \in 1 .. Len(q)
      BY <1>1, <1>3, <2>1
    <3>2. n + i = n + j
      BY <1>7, <3>1 DEF Distinct
    <3> QED BY <1>1, <3>2
  <2> QED BY <1>7, <2>1 DEF Distinct
<1> QED BY <1>4, <1>5, <1>6, <1>12, <1>13, <1>14 DEF rest

\* The turn of a pass to what comes next drops its group and nothing else
LEMMA NextGroupDropsGroup ==
    ASSUME TypeInv, Accounted, NEW p \in Pass, NextGroup(p)
    PROVE  /\ \A x \in Pass : x # p => pass'[x] = pass[x]
           /\ Distinct(queue')
           /\ Members(queue') \cup AheadOf(pass'[p]) = Members(queue) \cup (Ahead(p) \ Group(p))
           /\ Members(queue') \cap AheadOf(pass'[p]) = {}
           /\ pass'[p].won = {} /\ pass'[p].proj \notin pass'[p].todo
           /\ pass'[p].at \in {"insert", "done"}
           /\ pass'[p].at = "done" => pass'[p].batch = <<>> /\ queue' = <<>>
<1> DEFINE s == pass[p]
<1>1. /\ s \in PassState /\ pass \in [Pass -> PassState] /\ queue \in Seq(Req) /\ s.batch \in Seq(Req)
      /\ s.todo \subseteq Project /\ Members(s.batch) \subseteq Req
  BY MembersOf DEF TypeInv, TypeOK, PassState
<1>2. s.proj \notin s.todo /\ Distinct(queue) /\ Members(queue) \cap Ahead(p) = {}
  BY DEF Accounted, Carries
<1>3. Ahead(p) \ Group(p) = {r \in Members(s.batch) : ProjOf[r] \in s.todo}
  BY <1>2 DEF Ahead, AheadOf, Group
<1>4. ASSUME NEW i \in DOMAIN s.batch, ProjOf[s.batch[i]] \in s.todo,
             pass' = [pass EXCEPT ![p] = StartGroup(s.batch, i, s.todo)], queue' = queue
      PROVE  /\ AheadOf(pass'[p]) = Ahead(p) \ Group(p) /\ pass'[p].at = "insert" /\ pass'[p].won = {}
             /\ pass'[p].proj \notin pass'[p].todo /\ \A x \in Pass : x # p => pass'[x] = pass[x]
  <2>1. pass'[p] = StartGroup(s.batch, i, s.todo) /\ \A x \in Pass : x # p => pass'[x] = pass[x]
    BY <1>1, <1>4
  <2>2. AheadOf(StartGroup(s.batch, i, s.todo)) = {r \in Members(s.batch) : ProjOf[r] \in s.todo}
    BY <1>4 DEF AheadOf, StartGroup
  <2>3. /\ StartGroup(s.batch, i, s.todo).at = "insert" /\ StartGroup(s.batch, i, s.todo).won = {}
        /\ StartGroup(s.batch, i, s.todo).proj \notin StartGroup(s.batch, i, s.todo).todo
    BY DEF StartGroup
  <2> QED BY <1>3, <2>1, <2>2, <2>3
<1>5. CASE \E i \in DOMAIN s.batch :
              /\ ProjOf[s.batch[i]] \in s.todo
              /\ pass' = [pass EXCEPT ![p] = StartGroup(s.batch, i, s.todo)] /\ UNCHANGED queue
  BY <1>2, <1>4, <1>5
<1>6. CASE /\ s.todo = {} /\ queue # <<>>
           /\ pass' = [pass EXCEPT ![p] = Splice(queue)] /\ queue' = Remaining(queue)
  <2>1. pass'[p] = Splice(queue) /\ \A x \in Pass : x # p => pass'[x] = pass[x]
    BY <1>1, <1>6
  <2>2. Ahead(p) \ Group(p) = {}
    BY <1>3, <1>6
  <2> QED BY <1>1, <1>2, <1>6, <2>1, <2>2, SpliceSplits
<1>7. CASE /\ s.todo = {} /\ queue = <<>> /\ UNCHANGED queue
           /\ pass' = [pass EXCEPT ![p] = [IdlePass EXCEPT !.at = "done"]]
  <2>1. pass'[p] = [IdlePass EXCEPT !.at = "done"] /\ \A x \in Pass : x # p => pass'[x] = pass[x]
    BY <1>1, <1>7
  <2>2. /\ pass'[p].at = "done" /\ pass'[p].batch = <<>> /\ pass'[p].won = {}
        /\ pass'[p].proj \notin pass'[p].todo
    BY <2>1 DEF IdlePass
  <2>3. Ahead(p) \ Group(p) = {} /\ AheadOf(pass'[p]) = {} /\ Members(queue') = {}
    BY <1>3, <1>7, <2>2, NobodyInEmpty DEF AheadOf
  <2> QED BY <1>2, <1>7, <2>1, <2>2, <2>3
<1> QED BY <1>5, <1>6, <1>7 DEF NextGroup

LEMMA OthersCarryNothing ==
    ASSUME TypeInv, SingleFlusher, Accounted, NEW p \in Pass, Live(p)
    PROVE  \A x \in Pass : x # p => pass[x].at = "idle" /\ pass[x].batch = <<>> /\ Ahead(x) = {}
<1>1. \A x \in Pass : x # p => pass[x].at = "idle"
  BY DEF SingleFlusher, Live
<1>2. \A x \in Pass : x # p => pass[x].batch = <<>>
  BY <1>1 DEF Accounted, Carries
<1> QED BY <1>1, <1>2, NobodyInEmpty DEF Ahead, AheadOf

\* A pass that is left alone carries what it carried
LEMMA CarriesOn ==
    ASSUME NEW p \in Pass, Carries(p), pass'[p] = pass[p], UNCHANGED <<rollup, rolled>>,
           \A r \in Req : Unfinished(r) => Unfinished(r)', pass[p].batch \in Seq(Req)
    PROVE  Carries(p)'
  BY MembersOf DEF Carries, Ahead, AheadOf, Group

LEMMA NothingQueuedMoves ==
    ASSUME TypeInv, Accounted, UNCHANGED <<queue, pass, rollup, rolled>>,
           \A r \in Req : /\ Unfinished(r) <=> Unfinished(r)'
                          /\ pc'[r] \in Entering => pc[r] \in Entering /\ outcome'[r] = outcome[r]
    PROVE  Accounted'
<1>1. \A p \in Pass : Carries(p)' /\ Ahead(p)' = Ahead(p)
  BY CarriesOn DEF Accounted, TypeInv, TypeOK, PassState, Ahead
<1>2. Members(queue) \subseteq Req
  BY MembersOf DEF TypeInv, TypeOK
<1> QED BY <1>1, <1>2 DEF Accounted

\* A queue is left for later or cut by a pass that claims the slot
LEMMA QueueMoves ==
    ASSUME TypeInv, SingleFlusher, Accounted, NEW q \in Seq(Req), Distinct(q),
           \A r \in Members(q) : Unfinished(r)' /\ r \notin rolled /\ \A p \in Pass : r \notin Ahead(p),
           \A r \in Members(queue) : r \in Members(q),
           UNCHANGED <<outcome, rollup, rolled>>,
           \A r \in Req : /\ Unfinished(r) => Unfinished(r)'
                          /\ Unfinished(r)' => Unfinished(r) \/ r \in Members(q)
                          /\ pc'[r] \in Entering => pc[r] \in Entering,
           \/ queue' = q /\ pass' = pass
           \/ flushing = NoPass /\ q # <<>> /\ Claim(q)
    PROVE  Accounted'
<1>0. /\ pass \in [Pass -> PassState] /\ \A p \in Pass : pass[p].batch \in Seq(Req)
      /\ Members(q) \subseteq Req
  BY MembersOf DEF TypeInv, TypeOK, PassState
<1>1. CASE queue' = q /\ pass' = pass
  <2>1. \A p \in Pass : Carries(p)' /\ Ahead(p)' = Ahead(p)
    BY <1>0, <1>1, CarriesOn DEF Accounted, Ahead
  <2> QED BY <1>0, <1>1, <2>1 DEF Accounted
<1>2. CASE flushing = NoPass /\ q # <<>> /\ Claim(q)
  <2>1. PICK p \in Pass : pass' = [pass EXCEPT ![p] = Splice(q)] /\ queue' = Remaining(q)
    BY <1>2 DEF Claim
  <2>2. \A x \in Pass : pass[x].at = "idle"
    BY <1>2, PassAssumption DEF SingleFlusher, Live
  <2>3. \A x \in Pass : Ahead(x) = {}
    BY <2>2, NobodyInEmpty DEF Accounted, Carries, Ahead, AheadOf
  <2>4. pass'[p] = Splice(q) /\ \A x \in Pass : x # p => pass'[x] = pass[x]
    BY <1>0, <2>1
  <2>5. /\ Distinct(queue') /\ Members(queue') \cup AheadOf(pass'[p]) = Members(q)
        /\ Members(queue') \cap AheadOf(pass'[p]) = {}
        /\ pass'[p].at = "insert" /\ pass'[p].won = {} /\ pass'[p].proj \notin pass'[p].todo
    BY <1>2, <2>1, <2>4, SpliceSplits
  <2>6. Ahead(p)' = AheadOf(pass'[p]) /\ \A x \in Pass : x # p => Ahead(x)' = {}
    BY <2>3, <2>4 DEF Ahead
  <2>7. Carries(p)'
    BY <2>5, <2>6 DEF Carries
  <2>8. \A x \in Pass : x # p => Carries(x)'
    BY <1>0, <2>4, CarriesOn DEF Accounted
  <2>9. \A r \in Members(queue') : Unfinished(r)' /\ r \notin rolled' /\ \A x \in Pass : r \notin Ahead(x)'
    BY <2>5, <2>6
  <2>10. \A r \in Req : Unfinished(r)' => r \in Members(queue') \/ \E x \in Pass : r \in Ahead(x)'
    <3>1. \A r \in Req : Unfinished(r)' => r \in Members(q)
      BY <2>3 DEF Accounted
    <3> QED BY <2>5, <2>6, <3>1
  <2>11. \A r \in Req : pc'[r] \in Entering => outcome'[r] = "none" /\ r \notin rolled'
    BY DEF Accounted
  <2> QED BY <2>5, <2>7, <2>8, <2>9, <2>10, <2>11 DEF Accounted
<1> QED BY <1>1, <1>2

\* A pass goes on with its group
LEMMA GroupGoesOn ==
    ASSUME TypeInv, SingleFlusher, Accounted, NEW p \in Pass, Live(p),
           UNCHANGED <<queue, pc, outcome>>,
           \A x \in Pass : x # p => pass'[x] = pass[x],
           pass'[p].batch = pass[p].batch, pass'[p].proj = pass[p].proj, pass'[p].todo = pass[p].todo,
           pass'[p].at \notin {"idle", "done"}, pass'[p].won \subseteq Group(p),
           pass'[p].at = "merge" => pass'[p].seen = rollup'[pass[p].proj],
           \A r \in rolled' : r \in rolled \/ r \in Group(p),
           \A r \in Ahead(p) : r \in rolled' => pass'[p].at = "resolve" /\ r \in Group(p)
    PROVE  Accounted'
<1>1. \A x \in Pass : x # p => pass[x].at = "idle" /\ pass[x].batch = <<>> /\ Ahead(x) = {}
  BY OthersCarryNothing
<1>2. Ahead(p)' = Ahead(p) /\ Group(p)' = Group(p) /\ Group(p) \subseteq Ahead(p)
  BY DEF Ahead, AheadOf, Group
<1>3. \A x \in Pass : x # p => Ahead(x)' = {} /\ Group(x)' = Group(x)
  BY <1>1 DEF Ahead, Group
<1>4. \A r \in Req : Unfinished(r)' <=> Unfinished(r)
  BY DEF Unfinished
<1>5. Members(queue) \subseteq Req /\ Ahead(p) \subseteq Req
  BY MembersOf DEF TypeInv, TypeOK, PassState, Ahead, AheadOf
<1>6. \A x \in Pass : Carries(x)
  BY DEF Accounted
<1>7. Carries(p)'
  BY <1>2, <1>4, <1>5, <1>6 DEF Carries
<1>8. \A x \in Pass : x # p => Carries(x)'
  BY <1>1, <1>3, <1>6 DEF Carries
<1>9. \A r \in Members(queue') : Unfinished(r)' /\ r \notin rolled' /\ \A x \in Pass : r \notin Ahead(x)'
  BY <1>2, <1>3, <1>4, <1>5 DEF Accounted
<1>10. \A r \in Req : pc'[r] \in Entering => outcome'[r] = "none" /\ r \notin rolled'
  BY <1>2, <1>6 DEF Accounted, Carries, Unfinished, Entering
<1>11. \A r \in Req : Unfinished(r)' => r \in Members(queue') \/ \E x \in Pass : r \in Ahead(x)'
  BY <1>1, <1>2, <1>4 DEF Accounted
<1> QED BY <1>7, <1>8, <1>9, <1>10, <1>11 DEF Accounted

\* A pass settles its group and turns to what comes next
LEMMA GroupSettles ==
    ASSUME TypeInv, SingleFlusher, Accounted, NEW p \in Pass, Live(p), NextGroup(p),
           UNCHANGED <<pc, rollup, rolled>>,
           \A r \in Req : IF r \in Group(p) THEN outcome'[r] # "none" ELSE outcome'[r] = outcome[r]
    PROVE  Accounted'
<1>1. \A x \in Pass : x # p => pass[x].at = "idle" /\ pass[x].batch = <<>> /\ Ahead(x) = {}
  BY OthersCarryNothing
<1>2. /\ \A x \in Pass : x # p => pass'[x] = pass[x]
      /\ Distinct(queue')
      /\ Members(queue') \cup AheadOf(pass'[p]) = Members(queue) \cup (Ahead(p) \ Group(p))
      /\ Members(queue') \cap AheadOf(pass'[p]) = {}
      /\ pass'[p].won = {} /\ pass'[p].proj \notin pass'[p].todo
      /\ pass'[p].at \in {"insert", "done"}
      /\ pass'[p].at = "done" => pass'[p].batch = <<>> /\ queue' = <<>>
  BY NextGroupDropsGroup
<1>3. Ahead(p)' = AheadOf(pass'[p]) /\ \A x \in Pass : x # p => Ahead(x)' = {} /\ Group(x)' = Group(x)
  BY <1>1, <1>2 DEF Ahead, Group
<1>4. /\ Members(queue) \subseteq Req /\ Ahead(p) \subseteq Req /\ Group(p) \subseteq Ahead(p)
  BY MembersOf DEF TypeInv, TypeOK, PassState, Ahead, AheadOf, Group
<1>5. \A r \in Req : Unfinished(r)' <=> Unfinished(r) /\ r \notin Group(p)
  BY DEF Unfinished, Accounted, Carries
<1>6. \A r \in Members(queue) \cup (Ahead(p) \ Group(p)) : Unfinished(r)' /\ r \notin rolled
  BY <1>4, <1>5 DEF Accounted, Carries
<1>7. Carries(p)'
  BY <1>2, <1>3, <1>6 DEF Carries
<1>8. \A x \in Pass : x # p => Carries(x)'
  BY <1>1, <1>2, <1>3 DEF Accounted, Carries
<1>9. \A r \in Members(queue') : Unfinished(r)' /\ r \notin rolled' /\ \A x \in Pass : r \notin Ahead(x)'
  BY <1>2, <1>3, <1>6
<1>10. \A r \in Req : pc'[r] \in Entering => outcome'[r] = "none" /\ r \notin rolled'
  BY <1>4 DEF Accounted, Carries, Unfinished, Entering
<1>11. \A r \in Req : Unfinished(r)' => r \in Members(queue') \/ \E x \in Pass : r \in Ahead(x)'
  <2>1. \A r \in Req : Unfinished(r)' => r \in Members(queue) \cup (Ahead(p) \ Group(p))
    BY <1>1, <1>5 DEF Accounted
  <2> QED BY <1>2, <1>3, <2>1
<1> QED BY <1>2, <1>7, <1>8, <1>9, <1>10, <1>11 DEF Accounted

LEMMA AccountedInit == Init => Accounted
<1> SUFFICES ASSUME Init PROVE Accounted
  OBVIOUS
<1>1. /\ queue = <<>> /\ rolled = {}
      /\ \A r \in Req : pc[r] = "idle" /\ outcome[r] = "none"
      /\ \A p \in Pass : pass[p] = IdlePass
  BY DEF Init
<1>2. \A p \in Pass : Ahead(p) = {} /\ pass[p].at = "idle"
  BY <1>1, NobodyInEmpty DEF Ahead, AheadOf, IdlePass
<1>3. \A p \in Pass : Carries(p)
  BY <1>1, <1>2 DEF Carries, IdlePass
<1>4. Members(queue) = {} /\ Distinct(queue)
  BY <1>1, NobodyInEmpty, EmptySeq DEF Distinct
<1> QED BY <1>1, <1>3, <1>4 DEF Accounted, Unfinished

\* A pass gives up the slot with nothing ahead of it
LEMMA ReleaseCarriesNothing ==
    ASSUME TypeInv, Accounted, NEW p \in Pass, ReleaseSlot(p)
    PROVE  Accounted'
<1>1. /\ pass[p].at = "done" /\ pass[p].batch = <<>>
      /\ pass'[p] = IdlePass /\ \A x \in Pass : x # p => pass'[x] = pass[x]
      /\ UNCHANGED <<queue, pc, outcome, rollup, rolled>>
  BY DEF ReleaseSlot, At, TypeInv, TypeOK, Accounted, Carries, reqVars, queueVars, storeVars
<1>2. /\ Ahead(p) = {} /\ Ahead(p)' = {} /\ pass'[p].at = "idle" /\ pass'[p].batch = <<>>
      /\ \A x \in Pass : x # p => Ahead(x)' = Ahead(x)
  BY <1>1, NobodyInEmpty DEF Ahead, AheadOf, IdlePass
<1>3. Carries(p)'
  BY <1>1, <1>2 DEF Carries, IdlePass
<1>4. \A r \in Req : Unfinished(r)' <=> Unfinished(r)
  BY <1>1 DEF Unfinished
<1>5. \A x \in Pass : x # p => Carries(x)'
  BY <1>1, <1>4, CarriesOn DEF Accounted, TypeInv, TypeOK, PassState
<1>6. Members(queue) \subseteq Req
  BY MembersOf DEF TypeInv, TypeOK
<1>7. \A r \in Members(queue') : Unfinished(r)' /\ r \notin rolled' /\ \A x \in Pass : r \notin Ahead(x)'
  BY <1>1, <1>2, <1>4, <1>6 DEF Accounted
<1>8. \A r \in Req : Unfinished(r)' => r \in Members(queue') \/ \E x \in Pass : r \in Ahead(x)'
  BY <1>1, <1>2, <1>4 DEF Accounted
<1> QED BY <1>1, <1>3, <1>5, <1>7, <1>8 DEF Accounted

LEMMA CrashForgetsAll == ASSUME TypeInv, Accounted, Crash PROVE Accounted'
<1>1. /\ queue' = <<>> /\ \A p \in Pass : pass'[p] = IdlePass
      /\ \A r \in Req : pc'[r] = IF pc[r] \in InFlight THEN "cut" ELSE pc[r]
      /\ UNCHANGED <<outcome, rollup, rolled>>
  BY DEF Crash, storeVars
<1>2. \A p \in Pass : Ahead(p)' = {} /\ pass'[p].at = "idle"
  BY <1>1, NobodyInEmpty DEF Ahead, AheadOf, IdlePass
<1>3. \A p \in Pass : Carries(p)'
  BY <1>1, <1>2 DEF Carries, IdlePass
<1>4. \A r \in Req : ~Unfinished(r)' /\ (pc'[r] \in Entering => pc[r] \in Entering)
  BY <1>1 DEF Unfinished, Entering, InFlight
<1>5. Members(queue') = {} /\ Distinct(queue')
  BY <1>1, NobodyInEmpty, EmptySeq DEF Distinct
<1> QED BY <1>1, <1>3, <1>4, <1>5 DEF Accounted

\* A new span is behind every other
LEMMA EnqueueKeepsCount == ASSUME TypeInv, SingleFlusher, Accounted, NEW r \in Req, Enqueue(r) PROVE Accounted'
<1> DEFINE q == Append(queue, r)
<1>1. /\ pc[r] = "preparing" /\ pc' = [pc EXCEPT ![r] = "queued"] /\ outcome[r] = "none" /\ r \notin rolled
      /\ UNCHANGED <<outcome, rollup, rolled>>
      /\ queue \in Seq(Req) /\ pc \in [Req -> PcStates]
  BY DEF Enqueue, Goto, Accounted, Entering, TypeInv, TypeOK, storeVars
<1>2. ~Unfinished(r) /\ r \notin Members(queue) /\ \A p \in Pass : r \notin Ahead(p)
  BY <1>1 DEF Unfinished, Accounted, Carries
<1>3. /\ q \in Seq(Req) /\ Len(queue) \in Nat /\ Len(q) = Len(queue) + 1
      /\ q[Len(queue) + 1] = r /\ \A i \in 1 .. Len(queue) : q[i] = queue[i]
  BY <1>1, AppendProperties, LenProperties
<1> HIDE DEF q
<1>4. /\ Members(queue) = {queue[i] : i \in 1 .. Len(queue)} /\ DOMAIN queue = 1 .. Len(queue)
      /\ Members(q) = {q[i] : i \in 1 .. Len(q)} /\ DOMAIN q = 1 .. Len(q) /\ Members(queue) \subseteq Req
  BY <1>1, <1>3, MembersOf
<1>5. Members(q) = Members(queue) \cup {r}
  <2>1. \A i \in 1 .. Len(q) : i \in 1 .. Len(queue) \/ i = Len(queue) + 1
    BY <1>3
  <2>2. \A i \in 1 .. Len(queue) : i \in 1 .. Len(q)
    BY <1>3
  <2>3. Len(queue) + 1 \in 1 .. Len(q)
    BY <1>3
  <2> QED BY <1>3, <1>4, <2>1, <2>2, <2>3
<1>6. Distinct(q)
  <2>1. ASSUME NEW i \in 1 .. Len(q), NEW j \in 1 .. Len(q), q[i] = q[j] PROVE i = j
    <3>1. i \in 1 .. Len(queue) \/ i = Len(queue) + 1
      BY <1>3
    <3>2. j \in 1 .. Len(queue) \/ j = Len(queue) + 1
      BY <1>3
    <3>3. \A k \in 1 .. Len(queue) : queue[k] # r
      BY <1>2, <1>4
    <3>4. CASE i \in 1 .. Len(queue) /\ j \in 1 .. Len(queue)
      BY <1>3, <1>4, <2>1, <3>4 DEF Accounted, Distinct
    <3> QED BY <1>3, <2>1, <3>1, <3>2, <3>3, <3>4
  <2> QED BY <1>4, <2>1 DEF Distinct
<1>7. Unfinished(r)' /\ \A x \in Req : x # r => (Unfinished(x)' <=> Unfinished(x)) /\ pc'[x] = pc[x]
  BY <1>1 DEF Unfinished
<1>8. \A x \in Members(q) : Unfinished(x)' /\ x \notin rolled /\ \A p \in Pass : x \notin Ahead(p)
  BY <1>1, <1>2, <1>4, <1>5, <1>7 DEF Accounted
<1>9. \A x \in Members(queue) : x \in Members(q)
  BY <1>5
<1>10. \A x \in Req : /\ Unfinished(x) => Unfinished(x)'
                      /\ Unfinished(x)' => Unfinished(x) \/ x \in Members(q)
                      /\ pc'[x] \in Entering => pc[x] \in Entering
  BY <1>1, <1>2, <1>5, <1>7 DEF Entering
<1>11. \/ queue' = q /\ pass' = pass
       \/ flushing = NoPass /\ q # <<>> /\ Claim(q)
  BY DEF Enqueue, FlushNow, passVars, q
<1> QED BY <1>1, <1>3, <1>6, <1>8, <1>9, <1>10, <1>11, QueueMoves

LEMMA FlusherKeepsCount ==
    ASSUME TypeInv, SingleFlusher, Accounted, UNCHANGED <<pc, outcome, rollup, rolled>>,
           \/ queue' = queue /\ pass' = pass
           \/ flushing = NoPass /\ queue # <<>> /\ Claim(queue)
    PROVE  Accounted'
<1>1. \A r \in Req : /\ Unfinished(r) <=> Unfinished(r)'
                     /\ pc'[r] \in Entering => pc[r] \in Entering
  BY DEF Unfinished
<1>2. queue \in Seq(Req) /\ Distinct(queue) /\ Members(queue) \subseteq Req
  BY MembersOf DEF TypeInv, TypeOK, Accounted
<1>3. \A r \in Members(queue) : Unfinished(r)' /\ r \notin rolled /\ \A p \in Pass : r \notin Ahead(p)
  BY <1>1, <1>2 DEF Accounted
<1> QED BY <1>1, <1>2, <1>3, QueueMoves

LEMMA PassKeepsCount ==
    ASSUME TypeInv, SingleFlusher, Accounted, NEW p \in Pass, PassStep(p)
    PROVE  Accounted'
<1>1. Winners(p) \subseteq Group(p) /\ pass \in [Pass -> PassState] /\ pass[p] \in PassState /\ Carries(p)
  BY WinnersType DEF TypeInv, TypeOK, Accounted
<1>2. ASSUME InsertAtomically(p) \/ CheckTaken(p) \/ InsertChecked(p) \/ Retry(p) \/ ReadRollup(p)
             \/ WriteRollup(p) \/ RollupFails(p)
             \/ (InsertFails(p) /\ pass[p].tries = 1)
      PROVE  Accounted'
  <2>1. /\ pass[p].at \notin {"idle", "done", "resolve"} /\ Live(p)
        /\ UNCHANGED <<queue, pc, outcome>>
    BY <1>2 DEF InsertAtomically, CheckTaken, InsertChecked, Retry, ReadRollup, WriteRollup, RollupFails,
       InsertFails, At, Live, reqVars, queueVars
  <2>2. /\ \A x \in Pass : x # p => pass'[x] = pass[x]
        /\ pass'[p].batch = pass[p].batch /\ pass'[p].proj = pass[p].proj /\ pass'[p].todo = pass[p].todo
        /\ pass'[p].at \notin {"idle", "done"}
    BY <1>1, <1>2 DEF InsertAtomically, CheckTaken, InsertChecked, Retry, ReadRollup, WriteRollup, RollupFails,
       InsertFails, AfterInsert, PassState
  <2>3. pass'[p].won \subseteq Group(p)
    BY <1>1, <1>2 DEF InsertAtomically, CheckTaken, InsertChecked, Retry, ReadRollup, WriteRollup, RollupFails,
       InsertFails, PassState, Carries
  <2>4. pass'[p].at = "merge" => pass'[p].seen = rollup'[pass[p].proj]
    BY <1>1, <1>2 DEF InsertAtomically, CheckTaken, InsertChecked, Retry, ReadRollup, WriteRollup, RollupFails,
       InsertFails, PassState, AfterInsert, storeVars
  <2>5. \/ rolled' = rolled
        \/ rolled' = rolled \cup pass[p].won /\ pass'[p].at = "resolve"
    BY <1>1, <1>2 DEF InsertAtomically, CheckTaken, InsertChecked, Retry, ReadRollup, WriteRollup, RollupFails,
       InsertFails, PassState, storeVars
  <2>6. pass[p].won \subseteq Group(p) /\ \A r \in Ahead(p) : r \notin rolled
    BY <1>1, <2>1 DEF Carries
  <2>7. /\ \A r \in rolled' : r \in rolled \/ r \in Group(p)
        /\ \A r \in Ahead(p) : r \in rolled' => pass'[p].at = "resolve" /\ r \in Group(p)
    BY <2>5, <2>6
  <2> QED BY <2>1, <2>2, <2>3, <2>4, <2>7, GroupGoesOn
<1>3. ASSUME Resolve(p) \/ (InsertFails(p) /\ pass[p].tries # 1) PROVE Accounted'
  <2>1. Live(p) /\ NextGroup(p) /\ UNCHANGED <<pc, rollup, rolled>>
    BY <1>3 DEF Resolve, InsertFails, At, Live, storeVars
  <2>2. \A r \in Req : IF r \in Group(p) THEN outcome'[r] # "none" ELSE outcome'[r] = outcome[r]
    BY <1>3 DEF Resolve, InsertFails
  <2> QED BY <2>1, <2>2, GroupSettles
<1>4. pass[p].tries = 1 \/ pass[p].tries # 1
  OBVIOUS
<1>5. CASE ReleaseSlot(p)
  BY <1>5, ReleaseCarriesNothing
<1> QED BY <1>2, <1>3, <1>4, <1>5 DEF PassStep

LEMMA AccountedStep == TypeInv /\ SingleFlusher /\ Accounted /\ [Next]_vars => Accounted'
<1> SUFFICES ASSUME TypeInv, SingleFlusher, Accounted, [Next]_vars PROVE Accounted'
  OBVIOUS
<1>1. ASSUME NEW r \in Req,
             \/ Arrive(r) \/ LookupHits(r) \/ LookupMisses(r) \/ PrepareFails(r) \/ QueueFull(r)
             \/ Settle(r) \/ FindWinner(r) \/ ChecksRun(r)
      PROVE  Accounted'
  <2>1. UNCHANGED <<queue, pass, rollup, rolled, outcome>>
    BY <1>1 DEF Arrive, LookupHits, LookupMisses, PrepareFails, QueueFull, Settle, FindWinner, ChecksRun,
       queueVars, passVars, storeVars
  <2>2. \A x \in Req : x # r => pc'[x] = pc[x]
    BY <1>1 DEF Arrive, LookupHits, LookupMisses, PrepareFails, QueueFull, Settle, FindWinner, ChecksRun,
       Goto, TypeInv, TypeOK
  <2>3. /\ pc[r] = "queued" /\ outcome[r] = "none" => pc'[r] = "queued"
        /\ pc'[r] = "queued" => pc[r] = "queued"
        /\ pc'[r] \in Entering => pc[r] \in Entering
    BY <1>1 DEF Arrive, LookupHits, LookupMisses, PrepareFails, QueueFull, Settle, FindWinner, ChecksRun,
       Goto, TypeInv, TypeOK, Entering
  <2>4. \A x \in Req : /\ Unfinished(x) <=> Unfinished(x)'
                       /\ pc'[x] \in Entering => pc[x] \in Entering /\ outcome'[x] = outcome[x]
    BY <2>1, <2>2, <2>3 DEF Unfinished
  <2> QED BY <2>1, <2>4, NothingQueuedMoves
<1>2. ASSUME TimerFires \/ WaiterResumes \/ DrainFlushes PROVE Accounted'
  <2>1. /\ UNCHANGED <<pc, outcome, rollup, rolled>>
        /\ \/ queue' = queue /\ pass' = pass
           \/ flushing = NoPass /\ queue # <<>> /\ Claim(queue)
    BY <1>2 DEF TimerFires, WaiterResumes, DrainFlushes, FlushNow, reqVars, storeVars, passVars
  <2> QED BY <2>1, FlusherKeepsCount
<1>3. ASSUME Sigterm \/ DrainStarts \/ Exit \/ UNCHANGED vars PROVE Accounted'
  <2>1. UNCHANGED <<queue, pass, rollup, rolled, outcome, pc>>
    BY <1>3 DEF Sigterm, DrainStarts, Exit, vars, reqVars, queueVars, passVars, storeVars
  <2>2. \A x \in Req : /\ Unfinished(x) <=> Unfinished(x)'
                       /\ pc'[x] \in Entering => pc[x] \in Entering /\ outcome'[x] = outcome[x]
    BY <2>1 DEF Unfinished
  <2> QED BY <2>1, <2>2, NothingQueuedMoves
<1> QED
  BY <1>1, <1>2, <1>3, EnqueueKeepsCount, PassKeepsCount, CrashForgetsAll
  DEF Next, HandlerStep, DrainStep, Quiescent

\* Every accepted span is queued or ahead of the one live pass until it settles,
\* and no delta is in the rollups before the group of its span is resolved.
THEOREM EverySpanAccounted == Spec => []Accounted
<1>1. TypeInv /\ SingleFlusher /\ Accounted /\ [Next]_vars => Accounted'
  BY AccountedStep
<1> QED BY <1>1, AccountedInit, TypeCorrect, OneFlusher, PTL DEF Spec

LEMMA WriteAddsTheDelta ==
    ASSUME TypeInv, Accounted, RollupsLoseNothing, NEW p \in Pass, WriteRollup(p)
    PROVE  RollupsLoseNothing'
<1> DEFINE j == pass[p].proj
           won == pass[p].won
           Of(k, S) == {r \in S : ProjOf[r] = k}
<1>1. /\ pass[p].at = "merge" /\ Carries(p) /\ pass[p].seen = rollup[j] /\ j \in Project
      /\ rollup \in [Project -> Nat] /\ rolled \subseteq Req
      /\ won \subseteq Group(p) /\ won \subseteq Req
  BY DEF WriteRollup, At, Accounted, Carries, TypeInv, TypeOK, PassWorks, PassState
<1>2. rollup' = [rollup EXCEPT ![j] = rollup[j] + Cardinality(won)] /\ rolled' = rolled \cup won
  BY <1>1 DEF WriteRollup
<1>3. won \cap rolled = {} /\ \A r \in won : ProjOf[r] = j
  BY <1>1 DEF Carries, Ahead, AheadOf, Group
<1>4. Of(j, rolled') = Of(j, rolled) \cup won /\ Of(j, rolled) \cap won = {}
  BY <1>2, <1>3
<1>5. IsFiniteSet(Of(j, rolled)) /\ IsFiniteSet(won)
  BY <1>1, ReqAssumption, FS_Subset
<1>6. Cardinality(Of(j, rolled')) = Cardinality(Of(j, rolled)) + Cardinality(won)
  <2>1. /\ Cardinality({}) = 0 /\ Cardinality(Of(j, rolled)) \in Nat /\ Cardinality(won) \in Nat
    BY <1>5, FS_EmptySet, FS_CardinalityType
  <2>2. Cardinality(Of(j, rolled) \cup won) =
            Cardinality(Of(j, rolled)) + Cardinality(won) - Cardinality(Of(j, rolled) \cap won)
    BY <1>5, FS_Union
  <2>3. Cardinality(Of(j, rolled')) = Cardinality(Of(j, rolled) \cup won)
    BY <1>4
  <2>4. Cardinality(Of(j, rolled) \cap won) = 0
    BY <1>4, <2>1
  <2> HIDE DEF Of, won, j
  <2> QED BY <2>1, <2>2, <2>3, <2>4
<1>7. \A k \in Project : k # j => Of(k, rolled') = Of(k, rolled) /\ rollup'[k] = rollup[k]
  BY <1>1, <1>2, <1>3
<1>8. rollup'[j] = rollup[j] + Cardinality(won) /\ rollup[j] = Cardinality(Of(j, rolled))
  BY <1>1, <1>2 DEF RollupsLoseNothing
<1>9. rollup'[j] = Cardinality(Of(j, rolled'))
  BY <1>6, <1>8
<1>10. \A k \in Project : rollup'[k] = Cardinality(Of(k, rolled'))
  <2>1. ASSUME NEW k \in Project PROVE rollup'[k] = Cardinality(Of(k, rolled'))
    <3>1. CASE k = j
      BY <1>9, <3>1
    <3>2. CASE k # j
      BY <1>7, <3>2 DEF RollupsLoseNothing
    <3> QED BY <3>1, <3>2
  <2> QED BY <2>1
<1> QED BY <1>10 DEF RollupsLoseNothing

\* The read and the write of a rollup are apart, yet no delta is lost or counted
\* twice: only the pass that holds the slot writes, and it writes a group once.
THEOREM RollupsAreKept == Spec => []RollupsLoseNothing
<1>1. Init => RollupsLoseNothing
  BY FS_EmptySet DEF Init, RollupsLoseNothing
<1>2. TypeInv /\ Accounted /\ RollupsLoseNothing /\ [Next]_vars => RollupsLoseNothing'
  <2> SUFFICES ASSUME TypeInv, Accounted, RollupsLoseNothing, [Next]_vars PROVE RollupsLoseNothing'
    OBVIOUS
  <2>1. (\E p \in Pass : WriteRollup(p)) \/ UNCHANGED <<rollup, rolled>>
    BY DEF Next, HandlerStep, DrainStep, Quiescent, PassStep, Arrive, LookupHits, LookupMisses,
       PrepareFails, QueueFull, Enqueue, Settle, FindWinner, ChecksRun, TimerFires, WaiterResumes,
       InsertAtomically, CheckTaken, InsertChecked, InsertFails, Retry, ReadRollup, RollupFails,
       Resolve, ReleaseSlot, Sigterm, DrainStarts, DrainFlushes, Exit, Crash, vars, storeVars
  <2>2. CASE UNCHANGED <<rollup, rolled>>
    BY <2>2 DEF RollupsLoseNothing
  <2> QED BY <2>1, <2>2, WriteAddsTheDelta
<1> QED BY <1>1, <1>2, TypeCorrect, EverySpanAccounted, PTL DEF Spec

-----------------------------------------------------------------------------
(* The drain. *)

Settled == \A r \in owed : outcome[r] # "none"

DrainInv ==
    /\ \A r \in owed : outcome[r] = "none" => pc[r] = "queued"
    /\ life = "drainpass" => \A p \in Pass : pass[p].at = "done" => Settled
    /\ DrainSettlesWhatItFound

\* What a step may do to the promises
PromisesStand ==
    \A r \in Req : /\ outcome[r] # "none" => outcome'[r] # "none"
                   /\ Unfinished(r) => pc'[r] = "queued"

LEMMA DrainQuiet ==
    ASSUME TypeInv, DrainInv, PromisesStand, UNCHANGED owed,
           life' = life \/ life' \in {"serving", "closing", "draining"},
           life' = "drainpass" => \A p \in Pass : pass'[p].at = "done" => pass[p].at = "done" \/ Settled'
    PROVE  DrainInv'
<1>1. owed \subseteq Req
  BY DEF TypeInv, TypeOK
<1>2. Settled => Settled'
  BY <1>1 DEF Settled, PromisesStand
<1>3. \A r \in owed' : outcome'[r] = "none" => pc'[r] = "queued"
  BY <1>1 DEF DrainInv, PromisesStand, Unfinished
<1>4. DrainSettlesWhatItFound'
  BY <1>2 DEF DrainInv, DrainSettlesWhatItFound, Settled
<1> QED BY <1>2, <1>3, <1>4 DEF DrainInv

LEMMA ClaimInserts ==
    ASSUME TypeInv, NEW q \in Seq(Req), q # <<>>, Claim(q)
    PROVE  \A p \in Pass : pass'[p].at = "done" => pass[p].at = "done"
<1>1. PICK x \in Pass : pass' = [pass EXCEPT ![x] = Splice(q)]
  BY DEF Claim
<1>2. \A p \in Pass : pass'[p] = IF p = x THEN Splice(q) ELSE pass[p]
  BY <1>1 DEF TypeInv, TypeOK
<1> QED BY <1>2, SpliceType

LEMMA FlushNowInserts ==
    ASSUME TypeInv, NEW q \in Seq(Req), FlushNow(q)
    PROVE  \A p \in Pass : pass'[p].at = "done" => pass[p].at = "done"
<1>1. CASE UNCHANGED pass
  BY <1>1
<1>2. CASE q # <<>> /\ Claim(q)
  BY <1>2, ClaimInserts
<1> QED BY <1>1, <1>2 DEF FlushNow, passVars

LEMMA HandlersOweNothing ==
    ASSUME TypeInv, Accounted, DrainInv, NEW r \in Req, Arrive(r) \/ HandlerStep(r) \/ PrepareFails(r)
    PROVE  DrainInv'
<1>1. UNCHANGED <<owed, life, outcome>>
  BY DEF HandlerStep, Arrive, LookupHits, LookupMisses, PrepareFails, QueueFull, Enqueue, Settle,
     FindWinner, ChecksRun, envVars
<1>2. /\ \A x \in Req : x # r => pc'[x] = pc[x]
      /\ Unfinished(r) => pc'[r] = "queued"
  BY DEF HandlerStep, Arrive, LookupHits, LookupMisses, PrepareFails, QueueFull, Enqueue, Settle,
     FindWinner, ChecksRun, Goto, Unfinished, TypeInv, TypeOK
<1>3. \A p \in Pass : pass'[p].at = "done" => pass[p].at = "done"
  <2>1. CASE Enqueue(r)
    <3>1. Append(queue, r) \in Seq(Req)
      BY AppendProperties DEF TypeInv, TypeOK
    <3> QED BY <2>1, <3>1, FlushNowInserts DEF Enqueue, passVars
  <2>2. CASE ~Enqueue(r)
    <3>1. UNCHANGED pass
      BY <2>2 DEF HandlerStep, Arrive, LookupHits, LookupMisses, PrepareFails, QueueFull, Settle,
         FindWinner, ChecksRun, passVars
    <3> QED BY <3>1
  <2> QED BY <2>1, <2>2
<1>4. PromisesStand
  BY <1>1, <1>2 DEF PromisesStand, Unfinished
<1> QED BY <1>1, <1>3, <1>4, DrainQuiet

\* A pass ends with nothing unsettled
LEMMA PassEndsSettled ==
    ASSUME TypeInv, SingleFlusher, Accounted, Accounted', DrainInv, NEW p \in Pass, Live(p), NextGroup(p),
           UNCHANGED <<pc, owed>>, PromisesStand, pass'[p].at = "done"
    PROVE  Settled'
<1>1. \A x \in Pass : x # p => Ahead(x) = {}
  BY OthersCarryNothing
<1>2. /\ pass'[p].batch = <<>> /\ queue' = <<>> /\ \A x \in Pass : x # p => pass'[x] = pass[x]
  BY NextGroupDropsGroup
<1>3. Members(queue') = {} /\ \A x \in Pass : Ahead(x)' = {}
  BY <1>1, <1>2, NobodyInEmpty DEF Ahead, AheadOf
<1>4. \A r \in Req : ~Unfinished(r)'
  BY <1>3 DEF Accounted
<1>5. \A r \in owed : outcome[r] = "none" => pc[r] = "queued"
  BY DEF DrainInv
<1>6. \A r \in owed' : outcome'[r] # "none"
  <2>1. ASSUME NEW r \in owed, outcome'[r] = "none" PROVE FALSE
    <3>1. r \in Req /\ pc[r] # "queued"
      BY <1>4, <2>1 DEF Unfinished, TypeInv, TypeOK
    <3>2. outcome[r] # "none"
      BY <1>5, <2>1, <3>1
    <3> QED BY <2>1, <3>1, <3>2 DEF PromisesStand
  <2> QED BY <2>1
<1> QED BY <1>6 DEF Settled

LEMMA PassOwesLess ==
    ASSUME TypeInv, SingleFlusher, Accounted, Accounted', DrainInv, NEW p \in Pass, PassStep(p), ~ReleaseSlot(p)
    PROVE  DrainInv'
<1>1. UNCHANGED <<owed, life, pc>>
  BY DEF PassStep, InsertAtomically, CheckTaken, InsertChecked, InsertFails, Retry, ReadRollup,
     WriteRollup, RollupFails, Resolve, reqVars, envVars
<1>2. PromisesStand
  <2>1. \A r \in Req : outcome'[r] = outcome[r] \/ outcome'[r] # "none"
    BY DEF PassStep, InsertAtomically, CheckTaken, InsertChecked, InsertFails, Retry, ReadRollup,
       WriteRollup, RollupFails, Resolve, reqVars
  <2> QED BY <1>1, <2>1 DEF PromisesStand, Unfinished
<1>3. ASSUME NEW x \in Pass, pass'[x].at = "done" PROVE pass[x].at = "done" \/ Settled'
  <2>1. CASE NextGroup(p) /\ Live(p)
    <3>1. \A y \in Pass : y # p => pass'[y] = pass[y]
      BY <2>1, NextGroupDropsGroup
    <3> QED BY <1>1, <1>2, <1>3, <2>1, <3>1, PassEndsSettled
  <2>2. CASE ~(NextGroup(p) /\ Live(p))
    <3>1. pass'[x] = pass[x] \/ pass'[x].at # "done"
      BY <2>2 DEF PassStep, InsertAtomically, CheckTaken, InsertChecked, InsertFails, Retry, ReadRollup,
         WriteRollup, RollupFails, Resolve, AfterInsert, At, Live, TypeInv, TypeOK, PassState
    <3> QED BY <1>3, <3>1
  <2> QED BY <2>1, <2>2
<1> QED BY <1>1, <1>2, <1>3, DrainQuiet

\* With the slot free and nothing queued, nothing is unsettled
LEMMA RestIsSettled ==
    ASSUME TypeInv, SingleFlusher, Accounted, DrainInv, flushing = NoPass, queue = <<>>
    PROVE  Settled
<1>1. \A x \in Pass : Ahead(x) = {}
  BY PassAssumption, NobodyInEmpty DEF SingleFlusher, Live, Accounted, Carries, Ahead, AheadOf
<1>2. Members(queue) = {}
  BY NobodyInEmpty
<1>3. \A r \in Req : ~Unfinished(r)
  BY <1>1, <1>2 DEF Accounted
<1> QED BY <1>3 DEF Settled, DrainInv, Unfinished, TypeInv, TypeOK

LEMMA DrainInvStep == TypeInv /\ SingleFlusher /\ Accounted /\ DrainInv /\ [Next]_vars => DrainInv'
<1> SUFFICES ASSUME TypeInv, SingleFlusher, Accounted, DrainInv, [Next]_vars PROVE DrainInv'
  OBVIOUS
<1>0. queue \in Seq(Req) /\ Accounted'
  BY AccountedStep DEF TypeInv, TypeOK
<1>1. ASSUME TimerFires \/ WaiterResumes PROVE DrainInv'
  <2>1. UNCHANGED <<owed, life, outcome, pc>>
    BY <1>1 DEF TimerFires, WaiterResumes, reqVars, envVars
  <2>2. \A p \in Pass : pass'[p].at = "done" => pass[p].at = "done"
    BY <1>0, <1>1, FlushNowInserts, ClaimInserts DEF TimerFires, WaiterResumes, passVars
  <2>3. PromisesStand
    BY <2>1 DEF PromisesStand, Unfinished
  <2> QED BY <2>1, <2>2, <2>3, DrainQuiet
<1>2. ASSUME Sigterm \/ UNCHANGED vars PROVE DrainInv'
  <2>1. UNCHANGED <<owed, outcome, pc, pass>> /\ (life' = life \/ life' = "closing")
    BY <1>2 DEF Sigterm, vars, reqVars, passVars, envVars
  <2>2. PromisesStand
    BY <2>1 DEF PromisesStand, Unfinished
  <2> QED BY <2>1, <2>2, DrainQuiet
<1>3. ASSUME DrainStarts PROVE DrainInv'
  <2>1. /\ life' = "draining" /\ UNCHANGED <<outcome, pc>>
        /\ owed' = {r \in Req : pc[r] = "queued" /\ outcome[r] = "none"}
    BY <1>3 DEF DrainStarts, reqVars
  <2> QED BY <2>1 DEF DrainInv, DrainSettlesWhatItFound
<1>4. ASSUME DrainFlushes PROVE DrainInv'
  <2>1. flushing = NoPass /\ UNCHANGED <<owed, outcome, pc>>
    BY <1>4 DEF DrainFlushes, reqVars
  <2>2. \A r \in owed' : outcome'[r] = "none" => pc'[r] = "queued"
    BY <2>1 DEF DrainInv
  <2>3. CASE queue = <<>> /\ life' = "drained"
    <3>1. Settled'
      BY <2>1, <2>3, RestIsSettled DEF Settled
    <3> QED BY <2>2, <2>3, <3>1 DEF DrainInv, DrainSettlesWhatItFound, Settled
  <2>4. CASE queue # <<>> /\ Claim(queue) /\ life' = "drainpass"
    <3>1. \A p \in Pass : pass'[p].at # "done"
      <4>1. \A p \in Pass : pass[p].at = "idle"
        BY <2>1, PassAssumption DEF SingleFlusher, Live
      <4> QED BY <1>0, <2>4, <4>1, ClaimInserts
    <3> QED BY <2>2, <2>4, <3>1 DEF DrainInv, DrainSettlesWhatItFound
  <2> QED BY <1>4, <2>3, <2>4 DEF DrainFlushes
<1>5. ASSUME Exit PROVE DrainInv'
  <2>1. life = "drained" /\ life' = "exited" /\ UNCHANGED <<owed, outcome, pc>>
    BY <1>5 DEF Exit, reqVars
  <2> QED BY <2>1 DEF DrainInv, DrainSettlesWhatItFound
<1>6. ASSUME Crash PROVE DrainInv'
  <2>1. life' = "serving" /\ owed' = {}
    BY <1>6 DEF Crash
  <2> QED BY <2>1 DEF DrainInv, DrainSettlesWhatItFound
<1>7. ASSUME NEW p \in Pass, ReleaseSlot(p) PROVE DrainInv'
  <2>1. /\ pass[p].at = "done" /\ UNCHANGED <<owed, outcome, pc>>
        /\ life' = IF life = "drainpass" THEN "drained" ELSE life
    BY <1>7 DEF ReleaseSlot, At, reqVars
  <2>2. life' \in {"drained", "exited"} => Settled
    BY <2>1 DEF DrainInv, DrainSettlesWhatItFound, Settled
  <2> QED BY <2>1, <2>2 DEF DrainInv, DrainSettlesWhatItFound, Settled
<1>8. ASSUME NEW p \in Pass, PassStep(p), ~ReleaseSlot(p) PROVE DrainInv'
  BY <1>0, <1>8, PassOwesLess
<1> QED
  BY <1>1, <1>2, <1>3, <1>4, <1>5, <1>6, <1>7, <1>8, HandlersOweNothing
  DEF Next, DrainStep, Quiescent

\* When the process may exit, every span it had accepted when the drain began has
\* its answer, also those another pass had taken.
THEOREM DrainIsComplete == Spec => []DrainSettlesWhatItFound
<1>1. Init => DrainInv
  BY DEF Init, DrainInv, DrainSettlesWhatItFound
<1>2. TypeInv /\ SingleFlusher /\ Accounted /\ DrainInv /\ [Next]_vars => DrainInv'
  BY DrainInvStep
<1>3. DrainInv => DrainSettlesWhatItFound
  BY DEF DrainInv
<1> QED BY <1>1, <1>2, <1>3, TypeCorrect, OneFlusher, EverySpanAccounted, PTL DEF Spec

=============================================================================
