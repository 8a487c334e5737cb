------------------------- MODULE SessionSweepProofs -------------------------
(***************************************************************************)
(* Proofs about SessionSweep, for any number of replicas, sweeps, traces   *)
(* and projects: its types, one sweep per project and process, the lease,  *)
(* the daily budget across crashes and midnights, and that a process does  *)
(* not pay twice for the same spans of a session.                          *)
(***************************************************************************)
EXTENDS SessionSweep, FiniteSetTheorems, SequenceTheorems, TLAPS

ScoreType == [read : Nat, at : Nat, by : Replica \cup Rerun \cup {Nobody}]

-----------------------------------------------------------------------------
(* Types: what the updates of the records keep. *)

LEMMA EmptyListing == NoLoop.cands \in Listing
<1>1. NoLoop.cands \in [{} -> Nat]
  BY DEF NoLoop
<1> QED BY <1>1 DEF Listing

LEMMA NoLoopTyped == NoLoop \in Loop
<1>1. NoLoop = [NoLoop EXCEPT !.cands = NoLoop.cands] /\ <<>> \in Seq(Project)
  BY DEF NoLoop
<1> QED BY <1>1, EmptyListing DEF NoLoop, Loop

LEMMA NewListing ==
    ASSUME activity \in [Pair -> Nat], quiet \subseteq Pair, NEW j
    PROVE  [p \in Listed(j) |-> activity[p]] \in Listing
<1>1. Listed(j) \subseteq Pair
  BY DEF Listed
<1>2. [p \in Listed(j) |-> activity[p]] \in [Listed(j) -> Nat]
  BY <1>1
<1> QED BY <1>1, <1>2 DEF Listing

LEMMA ShorterListing ==
    ASSUME NEW f \in Listing, NEW x PROVE Without(f, x) \in Listing
<1>1. PICK S \in SUBSET Pair : f \in [S -> Nat]
  BY DEF Listing
<1>2. Without(f, x) \in [S \ {x} -> Nat]
  BY <1>1 DEF Without
<1>3. S \ {x} \in SUBSET Pair
  OBVIOUS
<1> QED BY <1>2, <1>3 DEF Listing

LEMMA LoopTakesCands ==
    ASSUME loop \in [Sweep -> Loop], NEW w \in Sweep, NEW c \in Listing,
           loop' = [loop EXCEPT ![w].cands = c]
    PROVE  /\ loop' \in [Sweep -> Loop]
           /\ \A v \in Sweep : loop'[v].todo = loop[v].todo
<1>1. [loop[w] EXCEPT !.cands = c] \in Loop /\ [loop[w] EXCEPT !.cands = c].todo = loop[w].todo
  BY DEF Loop
<1> QED BY <1>1

\* The rotation is a sequence of projects
LEMMA RotatedIsSeq == ASSUME NEW k \in 0 .. Len(ProjectRows) PROVE Rotated(k) \in Seq(Project)
<1>1. ProjectRows \in Seq(Project) /\ Len(ProjectRows) \in Nat
  BY NumberAssumption
<1>2. SubSeq(ProjectRows, k + 1, Len(ProjectRows)) \in Seq(Project)
  BY <1>1, SubSeqProperties
<1>3. SubSeq(ProjectRows, 1, k) \in Seq(Project)
  BY <1>1, SubSeqProperties
<1> QED BY <1>2, <1>3, ConcatProperties DEF Rotated

LEMMA TypeInit == Init => TypeOK
<1> SUFFICES ASSUME Init PROVE TypeOK
  OBVIOUS
<1>1. SessionsTyped
  BY DEF Init, SessionsTyped, NoScore
<1>2. MemoryTyped
  BY NumberAssumption DEF Init, MemoryTyped
<1>3. BudgetTyped
  BY DEF Init, BudgetTyped
<1>4. LoopsTyped
  <2>1. NoLoop \in Loop
    BY NoLoopTyped
  <2>2. NoJob \in Job /\ NoJob.spent = 0
    BY DEF NoJob, Job
  <2> QED BY <2>1, <2>2, ProcessAssumption DEF Init, LoopsTyped, Place, Actor, Judges
<1> QED BY <1>1, <1>2, <1>3, <1>4 DEF TypeOK

\* Time, ingest and retention touch the sessions only
LEMMA TypeSession ==
    ASSUME TypeOK, NEW p \in Pair, Grow(p) \/ Prune(p) \/ FallsQuiet(p) \/ LeavesWindow(p) PROVE TypeOK'
<1> USE DEF TypeOK, SessionsTyped, memoryVars, budgetVars, leaseVars, boundVars
<1>1. SessionsTyped'
  <2>1. CASE Grow(p)
    BY <2>1 DEF Grow
  <2>2. CASE Prune(p)
    BY <2>2 DEF Prune
  <2>3. CASE FallsQuiet(p) \/ LeavesWindow(p)
    BY <2>3 DEF FallsQuiet, LeavesWindow
  <2> QED BY <2>1, <2>2, <2>3
<1>2. UNCHANGED <<memoryVars, budgetVars, leaseVars, pc, loop, job>>
  BY DEF Grow, Prune, FallsQuiet, LeavesWindow
<1> QED BY <1>1, <1>2 DEF MemoryTyped, BudgetTyped, LoopsTyped, Judges

\* Who sweeps
LEMMA TypeElection ==
    ASSUME TypeOK, NEW w \in Sweep, TickFires(w) \/ Claim(w) \/ ManualSweep(w) \/ EndSweep(w)
    PROVE  TypeOK'
<1> USE DEF TypeOK, memoryVars, budgetVars, leaseVars, boundVars, sessionVars
<1>0. At[w] \in Replica /\ ScopeOf[w] \in Project \cup {Global}
  BY ProcessAssumption
<1>1. UNCHANGED <<sessionVars, score, budgetVars, job, boundVars>>
  BY DEF TickFires, Claim, ManualSweep, EndSweep
<1>2. SessionsTyped' /\ BudgetTyped'
  BY <1>1 DEF SessionsTyped, BudgetTyped
<1>3. MemoryTyped'
  <2> USE DEF MemoryTyped
  <2>1. CASE TickFires(w)
    <3>1. backoff' \in [Replica -> [Pair -> 0 .. RetryTicks]]
      <4> DEFINE f == [p \in Pair |-> IF backoff[At[w]][p] = 0 THEN 0 ELSE backoff[At[w]][p] - 1]
      <4>1. \A p \in Pair : backoff[At[w]][p] \in 0 .. RetryTicks
        BY <1>0
      <4>2. f \in [Pair -> 0 .. RetryTicks]
        BY <4>1, NumberAssumption
      <4>3. backoff' = [backoff EXCEPT ![At[w]] = f]
        BY <2>1 DEF TickFires
      <4> HIDE DEF f
      <4> QED BY <1>0, <4>2, <4>3
    <3>2. UNCHANGED <<scopes, sweepTick, overran>> /\ lease' \in {lease, At[w]}
      BY <2>1 DEF TickFires
    <3> QED BY <1>0, <3>1, <3>2
  <2>2. CASE Claim(w)
    <3>1. sweepTick' \in [Replica -> 0 .. Len(ProjectRows)]
      <4>1. Len(ProjectRows) \in Nat /\ (ProjectRows # <<>> => Len(ProjectRows) > 0)
        BY NumberAssumption
      <4>2. \A n \in Nat \ {0} : \A k \in Nat : (k + 1) % n \in 0 .. n
        OBVIOUS
      <4>3. sweepTick[At[w]] \in 0 .. Len(ProjectRows)
        BY <1>0
      <4>4. (IF ProjectRows = <<>> THEN 0 ELSE (sweepTick[At[w]] + 1) % Len(ProjectRows)) \in 0 .. Len(ProjectRows)
        BY <4>1, <4>2, <4>3
      <4> QED BY <2>2, <4>4 DEF Claim
    <3>2. scopes' \in [Replica -> SUBSET (Project \cup {Global})]
      BY <1>0, <2>2 DEF Claim
    <3>3. UNCHANGED <<lease, backoff>> /\ overran' \subseteq overran
      BY <2>2 DEF Claim
    <3> QED BY <3>1, <3>2, <3>3
  <2>3. CASE ManualSweep(w)
    BY <1>0, <2>3 DEF ManualSweep
  <2>4. CASE EndSweep(w)
    BY <1>0, <2>4 DEF EndSweep
  <2> QED BY <2>1, <2>2, <2>3, <2>4
<1>4. LoopsTyped'
  <2> USE DEF LoopsTyped
  <2>1. /\ pc' \in [Actor -> Place] /\ \A a \in Actor : a # w => pc'[a] = pc[a]
        /\ pc[w] \in {"idle", "leased", "next"} /\ pc'[w] \in {"idle", "leased", "next"}
    <3> USE DEF Goto, Place, Actor
    <3>1. CASE TickFires(w)
      BY <3>1 DEF TickFires
    <3>2. CASE Claim(w)
      BY <3>2 DEF Claim
    <3>3. CASE ManualSweep(w)
      BY <3>3 DEF ManualSweep
    <3>4. CASE EndSweep(w)
      BY <3>4 DEF EndSweep
    <3> QED BY <3>1, <3>2, <3>3, <3>4
  <2>2. loop' \in [Sweep -> Loop] /\ \A v \in Sweep : v # w => loop'[v] = loop[v]
    <3>1. CASE TickFires(w)
      BY <3>1 DEF TickFires
    <3>2. \A q \in Seq(Project) : [NoLoop EXCEPT !.todo = q] \in Loop
      <4>1. NoLoop = [NoLoop EXCEPT !.cands = NoLoop.cands]
        BY DEF NoLoop
      <4> QED BY <4>1, EmptyListing DEF NoLoop, Loop
    <3>3. NoLoop \in Loop
      <4>1. NoLoop = [NoLoop EXCEPT !.todo = <<>>] /\ <<>> \in Seq(Project)
        BY DEF NoLoop
      <4> QED BY <3>2, <4>1
    <3>4. CASE Claim(w)
      <4>1. Rotated(sweepTick[At[w]]) \in Seq(Project)
        BY <1>0, RotatedIsSeq DEF MemoryTyped
      <4> QED BY <3>2, <3>4, <4>1 DEF Claim
    <3>5. CASE ManualSweep(w)
      <4>1. ScopeOf[w] \in Project
        BY <1>0, <3>5 DEF ManualSweep, Tick
      <4>2. <<ScopeOf[w]>> \in Seq(Project)
        BY <4>1
      <4> QED BY <3>2, <3>5, <4>2 DEF ManualSweep
    <3>6. CASE EndSweep(w)
      BY <3>3, <3>6 DEF EndSweep
    <3> QED BY <3>1, <3>4, <3>5, <3>6
  <2> QED BY <1>1, <2>1, <2>2, ProcessAssumption DEF Judges, Actor
<1> QED BY <1>2, <1>3, <1>4

\* A backoff of a pair is set or lifted
LEMMA BackoffTyped ==
    ASSUME backoff \in [Replica -> [Pair -> 0 .. RetryTicks]],
           NEW r \in Replica, NEW p \in Pair, NEW n \in 0 .. RetryTicks,
           backoff' = [backoff EXCEPT ![r][p] = n]
    PROVE  backoff' \in [Replica -> [Pair -> 0 .. RetryTicks]]
<1>1. [backoff[r] EXCEPT ![p] = n] \in [Pair -> 0 .. RetryTicks]
  OBVIOUS
<1> QED BY <1>1

\* A tick or a manual sweep goes through the sessions of a project
LEMMA TypeListing ==
    ASSUME TypeOK, NEW w \in Sweep,
           \/ EnterProject(w) \/ LeaveProject(w)
           \/ \E p \in Pair : Skip(w, p) \/ FindPruned(w, p) \/ Take(w, p)
    PROVE  TypeOK'
<1> USE DEF TypeOK, memoryVars, leaseVars
<1>0. At[w] \in Replica /\ w \in Actor /\ loop[w] \in Loop /\ loop[w].todo \in Seq(Project)
  BY ProcessAssumption DEF Actor, LoopsTyped, Loop
<1>1. UNCHANGED <<sessionVars, score, budgetVars, leaseVars, boundVars, scopes, sweepTick>>
  BY DEF EnterProject, LeaveProject, Skip, FindPruned, Take
<1>2. SessionsTyped' /\ BudgetTyped'
  BY <1>1 DEF SessionsTyped, BudgetTyped, sessionVars, budgetVars, boundVars
<1>3. MemoryTyped'
  <2>1. CASE UNCHANGED backoff
    BY <1>1, <2>1 DEF MemoryTyped
  <2>2. ASSUME NEW p \in Pair, FindPruned(w, p) PROVE MemoryTyped'
    <3>1. RetryTicks \in 0 .. RetryTicks
      BY NumberAssumption
    <3>2. backoff' \in [Replica -> [Pair -> 0 .. RetryTicks]]
      BY <1>0, <2>2, <3>1, BackoffTyped DEF FindPruned, RecordFailedAttempt, MemoryTyped
    <3> QED BY <1>1, <3>2 DEF MemoryTyped
  <2> QED BY <2>1, <2>2 DEF EnterProject, LeaveProject, Skip, Take
<1>4. LoopsTyped'
  <2> USE DEF LoopsTyped
  <2>1. CASE EnterProject(w)
    <3>1. CASE pc' = pc /\ loop' = [loop EXCEPT ![w].todo = Tail(@)]
      <4>1. Tail(loop[w].todo) \in Seq(Project) /\ pc[w] = "next"
        BY <1>0, <2>1, HeadTailProperties DEF EnterProject
      <4>2. [loop[w] EXCEPT !.todo = Tail(loop[w].todo)] \in Loop
        BY <1>0, <4>1 DEF Loop
      <4>3. loop' \in [Sweep -> Loop] /\ (\A v \in Sweep : v # w => loop'[v] = loop[v]) /\ job' = job
        BY <2>1, <3>1, <4>2 DEF EnterProject
      <4> QED BY <3>1, <4>1, <4>3 DEF Judges
    <3>2. CASE /\ loop' = [loop EXCEPT
                     ![w].cands = [p \in Listed(Head(loop[w].todo)) |-> activity[p]],
                     ![w].budgetGone = FALSE]
               /\ Goto(w, "sessions")
      <4> DEFINE c == [p \in Listed(Head(loop[w].todo)) |-> activity[p]]
      <4>1. c \in Listing
        BY NewListing DEF SessionsTyped
      <4>2. loop' = [loop EXCEPT ![w].cands = c, ![w].budgetGone = FALSE]
        BY <3>2
      <4> HIDE DEF c
      <4>3. /\ [loop[w] EXCEPT !.cands = c, !.budgetGone = FALSE] \in Loop
            /\ [loop[w] EXCEPT !.cands = c, !.budgetGone = FALSE].todo = loop[w].todo
        BY <1>0, <4>1 DEF Loop
      <4>4. loop' = [loop EXCEPT ![w] = [loop[w] EXCEPT !.cands = c, !.budgetGone = FALSE]]
        BY <4>2
      <4>5. loop' \in [Sweep -> Loop] /\ (\A v \in Sweep : loop'[v].todo = loop[v].todo)
        BY <4>3, <4>4
      <4>6. loop[w].todo # <<>> /\ pc[w] = "next" /\ job' = job
        BY <2>1 DEF EnterProject
      <4> QED BY <1>0, <3>2, <4>5, <4>6, ProcessAssumption DEF Goto, Place, Judges, Actor
    <3> QED BY <2>1, <3>1, <3>2 DEF EnterProject
  <2>2. CASE LeaveProject(w)
    <3>1. Tail(loop[w].todo) \in Seq(Project)
      <4>1. loop[w].todo # <<>>
        BY <2>2 DEF LeaveProject
      <4> QED BY <1>0, <4>1, HeadTailProperties
    <3>2. [loop[w] EXCEPT !.todo = Tail(loop[w].todo), !.cands = NoLoop.cands] \in Loop
      BY <1>0, <3>1, EmptyListing DEF Loop
    <3>3. loop' \in [Sweep -> Loop] /\ (\A v \in Sweep : v # w => loop'[v] = loop[v])
      BY <2>2, <3>2 DEF LeaveProject
    <3>4. pc[w] = "sessions" /\ pc' = [pc EXCEPT ![w] = "next"] /\ job' = job
      BY <2>2 DEF LeaveProject, Goto
    <3> QED BY <1>0, <3>3, <3>4, ProcessAssumption DEF Place, Judges, Actor
  <2>3. ASSUME NEW p \in Pair, Skip(w, p) \/ FindPruned(w, p) PROVE LoopsTyped'
    <3>1. Without(loop[w].cands, p) \in Listing
      BY <1>0, ShorterListing DEF Loop
    <3>2. loop' = [loop EXCEPT ![w].cands = Without(loop[w].cands, p)] /\ pc' = pc /\ job' = job
      BY <2>3 DEF Skip, FindPruned
    <3>3. loop' \in [Sweep -> Loop] /\ \A v \in Sweep : loop'[v].todo = loop[v].todo
      BY <3>1, <3>2, LoopTakesCands
    <3> QED BY <3>2, <3>3 DEF Judges
  <2>4. ASSUME NEW p \in Pair, Take(w, p) PROVE LoopsTyped'
    <3> DEFINE n == IF Panel[p] = 0 THEN 1 ELSE Panel[p]
               jb == [NoJob EXCEPT !.pair = p, !.read = spans[p], !.left = n]
               l == [loop[w] EXCEPT !.cands = Without(loop[w].cands, p), !.judged = loop[w].judged + Panel[p]]
    <3>1. Panel[p] \in Nat /\ n \in Nat \ {0} /\ (~IsGroup(p) => n = 1)
      BY PairAssumption DEF IsGroup
    <3>2. jb \in Job /\ jb.pair = p /\ jb.left = n /\ jb.spent = 0
      <4>1. spans[p] \in Nat
        BY DEF SessionsTyped
      <4> HIDE DEF n
      <4> QED BY <3>1, <4>1 DEF NoJob, Job
    <3>3. l \in Loop /\ l.todo = loop[w].todo
      <4>1. Without(loop[w].cands, p) \in Listing
        BY <1>0, ShorterListing DEF Loop
      <4>2. loop[w].judged + Panel[p] \in Nat
        BY <1>0, <3>1 DEF Loop
      <4> QED BY <1>0, <4>1, <4>2 DEF Loop
    <3>4. /\ loop' = [loop EXCEPT ![w] = l] /\ job' = [job EXCEPT ![w] = jb]
          /\ pc[w] = "sessions" /\ pc' = [pc EXCEPT ![w] = "reserving"]
      BY <2>4 DEF Take, Considers, Goto
    <3> HIDE DEF n, jb, l
    <3>5. loop' \in [Sweep -> Loop] /\ \A v \in Sweep : loop'[v].todo = loop[v].todo
      BY <3>3, <3>4
    <3>6. job' \in [Sweep \cup Rerun -> Job] /\ job'[w] = jb /\ \A a \in Sweep \cup Rerun : a # w => job'[a] = job[a]
      BY <3>2, <3>4
    <3>7. pc' \in [Actor -> Place] /\ pc'[w] = "reserving" /\ \A a \in Actor : a # w => pc'[a] = pc[a]
      BY <1>0, <3>4 DEF Place
    <3> QED BY <3>1, <3>2, <3>4, <3>5, <3>6, <3>7, ProcessAssumption DEF Judges, Actor
  <2> QED BY <2>1, <2>2, <2>3, <2>4
<1> QED BY <1>2, <1>3, <1>4

Bounds == growth \in Nat /\ pruned \in Nat /\ faults \in Nat /\ crashes \in Nat /\ midnights \in Nat

\* A failed write is counted, whatever else happens
LEMMA FaultsTyped ==
    ASSUME Bounds, UNCHANGED boundVars \/ Failing PROVE Bounds'
  BY DEF Bounds, boundVars, Failing

\* A score is of the spans its judge has read
LEMMA ScoreTyped ==
    ASSUME SessionsTyped, NEW jb \in Job, jb.pair \in Pair, NEW p \in Pair,
           NEW by \in Replica \cup Rerun, score' = [score EXCEPT ![p] = ScoreOf(jb, by)]
    PROVE  score' \in [Pair -> ScoreType]
<1>1. ScoreOf(jb, by) \in ScoreType
  BY DEF ScoreOf, ScoreType, SessionsTyped, Job
<1> QED BY <1>1 DEF SessionsTyped, ScoreType

\* An entry of a table of replicas and projects is written
LEMMA TableEntry ==
    ASSUME NEW T, NEW f \in [Replica -> [Project -> T]], NEW r \in Replica, NEW j \in Project,
           NEW x \in T
    PROVE  /\ [f EXCEPT ![r][j] = x] \in [Replica -> [Project -> T]]
           /\ \A q \in Replica : \A k \in Project :
                 [f EXCEPT ![r][j] = x][q][k] = IF q = r /\ k = j THEN x ELSE f[q][k]
<1>1. [f[r] EXCEPT ![j] = x] \in [Project -> T]
  OBVIOUS
<1> QED BY <1>1

\* The calls of a process: each is reserved, and recorded or lost
LEMMA CallsTyped ==
    ASSUME BudgetTyped, NEW r \in Replica, NEW j \in Project, NEW n \in Nat,
           ReserveCall(r, j) \/ RefuseCall(r, j) \/ RecordEvent(r, j) \/ LoseEvents(r, j, n)
    PROVE  BudgetTyped'
<1> USE DEF BudgetTyped, Counted, budgetVars
<1>1. CASE UNCHANGED budgetVars
  BY <1>1
<1>2. Used(r, j) \in Nat
  BY ProcessAssumption DEF Used
<1>3. CASE Cap # 0 /\ ReserveCall(r, j)
  <2>1. UNCHANGED <<events, lost>>
    BY <1>3 DEF ReserveCall
  <2>2. spend' \in [Replica -> [Project -> Nat \cup {Unseeded}]]
    <3>1. Used(r, j) + 1 \in Nat
      BY <1>2
    <3>2. spend' = [spend EXCEPT ![r][j] = Used(r, j) + 1] /\ Used(r, j) + 1 \in Nat \cup {Unseeded}
      BY <1>3, <3>1 DEF ReserveCall
    <3> QED BY <3>2, TableEntry
  <2>3. granted' \in [Replica -> [Project -> Nat]]
    <3>1. granted' = [granted EXCEPT ![r][j] = granted[r][j] + 1] /\ granted[r][j] + 1 \in Nat
      BY <1>3 DEF ReserveCall
    <3> QED BY <3>1, TableEntry
  <2>4. calls' \in [Replica -> [Project -> Int]]
    <3>1. calls' = [calls EXCEPT ![r][j] = calls[r][j] + 1] /\ calls[r][j] + 1 \in Int
      BY <1>3 DEF ReserveCall
    <3> QED BY <3>1, TableEntry
  <2> QED BY <2>1, <2>2, <2>3, <2>4
<1>4. CASE RefuseCall(r, j)
  <2>1. spend' = [spend EXCEPT ![r][j] = Used(r, j)] /\ Used(r, j) \in Nat \cup {Unseeded}
    BY <1>2, <1>4 DEF RefuseCall
  <2>2. spend' \in [Replica -> [Project -> Nat \cup {Unseeded}]]
    BY <2>1, TableEntry
  <2> QED BY <1>4, <2>2 DEF RefuseCall
<1>5. CASE Cap # 0 /\ RecordEvent(r, j)
  <2>1. UNCHANGED <<spend, granted, lost>>
    BY <1>5 DEF RecordEvent
  <2>2. events' \in [Project -> Nat]
    BY <1>5 DEF RecordEvent
  <2>3. calls' \in [Replica -> [Project -> Int]]
    <3>1. calls' = [calls EXCEPT ![r][j] = calls[r][j] - 1] /\ calls[r][j] - 1 \in Int
      BY <1>5 DEF RecordEvent
    <3> QED BY <3>1, TableEntry
  <2> QED BY <2>1, <2>2, <2>3
<1>6. CASE Cap # 0 /\ LoseEvents(r, j, n)
  <2>1. UNCHANGED <<events, spend, granted>>
    BY <1>6 DEF LoseEvents
  <2>2. lost' \in [Replica -> [Project -> Int]]
    <3>1. lost' = [lost EXCEPT ![r][j] = lost[r][j] + n] /\ lost[r][j] + n \in Int
      BY <1>6 DEF LoseEvents
    <3> QED BY <3>1, TableEntry
  <2>3. calls' \in [Replica -> [Project -> Int]]
    <3>1. calls' = [calls EXCEPT ![r][j] = calls[r][j] - n] /\ calls[r][j] - n \in Int
      BY <1>6 DEF LoseEvents
    <3> QED BY <3>1, TableEntry
  <2> QED BY <2>1, <2>2, <2>3
<1> QED BY <1>1, <1>3, <1>4, <1>5, <1>6 DEF ReserveCall, RecordEvent, LoseEvents

\* One sweep goes on, and its loop stays in the same project
LEMMA LoopsStay ==
    ASSUME LoopsTyped, NEW w \in Sweep, NEW s \in Place \ {"done"}, NEW jb \in Job,
           pc' = [pc EXCEPT ![w] = s],
           job' = [job EXCEPT ![w] = jb],
           loop' \in [Sweep -> Loop], \A v \in Sweep : loop'[v].todo = loop[v].todo,
           Judges(w),
           s = "reserving" => jb.left > 0,
           s \in {"reserving", "judging", "recording", "sessions"},
           IF s # "sessions" THEN jb.pair = job[w].pair /\ (~IsGroup(jb.pair) => jb.left + jb.spent <= 1)
           ELSE jb.spent = 0
    PROVE  LoopsTyped'
<1> USE DEF LoopsTyped
<1>1. pc' \in [Actor -> Place] /\ pc'[w] = s /\ \A a \in Actor : a # w => pc'[a] = pc[a]
  BY ProcessAssumption DEF Actor
<1>2. job' \in [Sweep \cup Rerun -> Job] /\ job'[w] = jb /\ \A a \in Sweep \cup Rerun : a # w => job'[a] = job[a]
  OBVIOUS
<1> QED BY <1>1, <1>2, ProcessAssumption DEF Judges, Actor

\* What every step of an attempt starts from
LEMMA Attempt ==
    ASSUME TypeOK, NEW w \in Sweep, Judges(w)
    PROVE  /\ At[w] \in Replica /\ job[w].pair \in Pair /\ ProjOf[job[w].pair] \in Project
           /\ job[w] \in Job /\ job[w].spent \in Nat /\ job[w].left \in Nat
           /\ NoJob \in Job /\ NoJob.spent = 0
<1>1. NoJob \in Job /\ NoJob.spent = 0
  BY DEF NoJob, Job
<1> QED BY <1>1, ProcessAssumption, PairAssumption DEF TypeOK, LoopsTyped, Job

\* A step of an attempt changes the job of its sweep and where it is
LEMMA AttemptEndTyped ==
    ASSUME TypeOK, NEW w \in Sweep, Judges(w), AttemptEnds(w),
           loop' \in [Sweep -> Loop], \A v \in Sweep : loop'[v].todo = loop[v].todo
    PROVE  LoopsTyped'
<1>1. job' = [job EXCEPT ![w] = NoJob] /\ pc' = [pc EXCEPT ![w] = "sessions"]
  BY DEF AttemptEnds, Goto
<1>2. "sessions" \in Place \ {"done"}
  BY DEF Place
<1> QED BY <1>1, <1>2, Attempt, LoopsStay DEF TypeOK

LEMMA LoopUnchanged == ASSUME LoopsTyped, UNCHANGED loop
                       PROVE  loop' \in [Sweep -> Loop] /\ \A v \in Sweep : loop'[v].todo = loop[v].todo
  BY DEF LoopsTyped

LEMMA TypeReserve == ASSUME TypeOK, NEW w \in Sweep, Reserve(w) PROVE TypeOK'
<1> USE DEF TypeOK
<1>1. Judges(w) /\ pc[w] = "reserving" /\ job[w].left > 0
  BY DEF Reserve, Judges, LoopsTyped
<1>2. SessionsTyped' /\ MemoryTyped'
  BY DEF Reserve, SessionsTyped, MemoryTyped, sessionVars, memoryVars, leaseVars, boundVars
<1>3. BudgetTyped'
  <2>1. 0 \in Nat
    OBVIOUS
  <2> QED BY <1>1, <2>1, Attempt, CallsTyped DEF Reserve
<1>4. LoopsTyped'
  <2> DEFINE p == job[w].pair  got == [job[w] EXCEPT !.left = job[w].left - 1, !.spent = job[w].spent + 1]
             not == [job[w] EXCEPT !.refused = TRUE, !.left = 0]
             n == IF IsGroup(p) THEN loop[w].judged ELSE loop[w].judged + 1
  <2>1. loop[w] \in Loop /\ loop[w].judged \in Nat
    BY DEF LoopsTyped, Loop
  <2>2. CASE /\ job' = [job EXCEPT ![w].left = @ - 1, ![w].spent = @ + 1]
             /\ loop' = [loop EXCEPT ![w].judged = IF IsGroup(p) THEN @ ELSE @ + 1]
             /\ Goto(w, "judging")
    <3>1. job' = [job EXCEPT ![w] = got]
      BY <2>2
    <3>2. got \in Job /\ got.pair = p /\ got.left + got.spent = job[w].left + job[w].spent
      <4>1. job[w] \in Job /\ job[w].left - 1 \in Nat /\ job[w].spent + 1 \in Nat
        BY <1>1, Attempt
      <4>2. got \in Job /\ got.pair = p /\ got.left = job[w].left - 1 /\ got.spent = job[w].spent + 1
        BY <4>1 DEF Job
      <4>3. job[w].left \in Nat /\ job[w].spent \in Nat
        BY <1>1, Attempt
      <4> HIDE DEF got
      <4> QED BY <4>2, <4>3
    <3>3. [loop[w] EXCEPT !.judged = n] \in Loop /\ [loop[w] EXCEPT !.judged = n].todo = loop[w].todo
      BY <2>1 DEF Loop
    <3>4. loop' = [loop EXCEPT ![w] = [loop[w] EXCEPT !.judged = n]]
      BY <2>2
    <3>5. loop' \in [Sweep -> Loop] /\ \A v \in Sweep : loop'[v].todo = loop[v].todo
      BY <3>3, <3>4 DEF LoopsTyped
    <3>6. pc' = [pc EXCEPT ![w] = "judging"] /\ "judging" \in Place \ {"done"}
      BY <2>2 DEF Goto, Place
    <3>7. ~IsGroup(p) => job[w].left + job[w].spent <= 1
      BY <1>1 DEF LoopsTyped
    <3> HIDE DEF got, n
    <3> QED BY <1>1, <3>1, <3>2, <3>5, <3>6, <3>7, LoopsStay
  <2>3. CASE loop' = [loop EXCEPT ![w].budgetGone = TRUE]
    <3>1. [loop[w] EXCEPT !.budgetGone = TRUE] \in Loop /\ [loop[w] EXCEPT !.budgetGone = TRUE].todo = loop[w].todo
      BY <2>1 DEF Loop
    <3>2. loop' \in [Sweep -> Loop] /\ \A v \in Sweep : loop'[v].todo = loop[v].todo
      BY <2>3, <3>1 DEF LoopsTyped
    <3>3. CASE AttemptEnds(w)
      BY <1>1, <3>2, <3>3, AttemptEndTyped
    <3>4. CASE /\ IsGroup(p) /\ Goto(w, "recording")
               /\ job' = [job EXCEPT ![w].refused = TRUE, ![w].left = 0]
      <4>1. job' = [job EXCEPT ![w] = not]
        BY <3>4
      <4>2. not \in Job /\ not.pair = p
        BY <1>1, Attempt DEF Job
      <4>3. pc' = [pc EXCEPT ![w] = "recording"] /\ "recording" \in Place \ {"done"}
        BY <3>4 DEF Goto, Place
      <4> HIDE DEF not
      <4> QED BY <1>1, <3>2, <3>4, <4>1, <4>2, <4>3, LoopsStay
    <3> QED BY <2>2, <2>3, <3>3, <3>4 DEF Reserve
  <2> QED BY <2>2, <2>3 DEF Reserve
<1> QED BY <1>2, <1>3, <1>4

LEMMA TypeJudgeAnswers == ASSUME TypeOK, NEW w \in Sweep, JudgeAnswers(w) PROVE TypeOK'
<1> USE DEF TypeOK
<1> DEFINE p == job[w].pair
<1>1. Judges(w) /\ pc[w] = "judging"
  BY DEF JudgeAnswers, Judges
<1>2. BudgetTyped'
  BY DEF JudgeAnswers, BudgetTyped, budgetVars
<1>3. \/ UNCHANGED <<score, backoff, boundVars>>
      \/ Store(w)
      \/ StoreFails(w)
  BY DEF JudgeAnswers
<1>4. UNCHANGED <<spans, activity, quiet, recent, scopes, sweepTick, lease, overran, loop>>
  BY DEF JudgeAnswers, sessionVars, leaseVars
<1>5. SessionsTyped'
  <2>1. score' \in [Pair -> ScoreType]
    <3>1. CASE Store(w)
      BY <1>1, <3>1, Attempt, ScoreTyped DEF Store
    <3>2. CASE score' = score
      BY <3>2 DEF SessionsTyped, ScoreType
    <3> QED BY <1>3, <3>1, <3>2 DEF StoreFails
  <2>2. Bounds'
    BY <1>3, FaultsTyped DEF Store, StoreFails, Bounds, SessionsTyped
  <2> QED BY <1>4, <2>1, <2>2 DEF SessionsTyped, Bounds, ScoreType
<1>6. MemoryTyped'
  <2>1. 0 \in 0 .. RetryTicks
    BY NumberAssumption
  <2>2. backoff' = backoff \/ backoff' = [backoff EXCEPT ![At[w]][p] = 0]
    BY <1>3 DEF Store, StoreFails
  <2>3. backoff' \in [Replica -> [Pair -> 0 .. RetryTicks]]
    BY <1>1, <2>1, <2>2, Attempt, BackoffTyped DEF MemoryTyped
  <2> QED BY <1>4, <2>3 DEF MemoryTyped
<1>7. LoopsTyped'
  <2> DEFINE s == IF job[w].left > 0 THEN "reserving" ELSE "recording"
  <2>1. pc' = [pc EXCEPT ![w] = s] /\ s \in Place \ {"done"}
    BY DEF JudgeAnswers, Goto, Place
  <2>2. ~IsGroup(p) => job[w].left + job[w].spent <= 1
    BY <1>1 DEF LoopsTyped
  <2>3. PICK jb \in Job : /\ job' = [job EXCEPT ![w] = jb]
                          /\ jb.pair = p /\ jb.left = job[w].left /\ jb.spent = job[w].spent
    <3>1. CASE job' = job
      BY <1>1, <3>1, Attempt DEF LoopsTyped
    <3>2. ASSUME NEW ok \in BOOLEAN, job' = [job EXCEPT ![w].good = @ \/ ok, ![w].failed = @ \/ ~ok]
          PROVE  \E jb \in Job : /\ job' = [job EXCEPT ![w] = jb]
                                 /\ jb.pair = p /\ jb.left = job[w].left /\ jb.spent = job[w].spent
      <4> DEFINE jb == [job[w] EXCEPT !.good = @ \/ ok, !.failed = @ \/ ~ok]
      <4>1. job' = [job EXCEPT ![w] = jb]
        BY <3>2
      <4>2. jb \in Job /\ jb.pair = p /\ jb.left = job[w].left /\ jb.spent = job[w].spent
        BY <1>1, Attempt DEF Job
      <4> QED BY <4>1, <4>2
    <3>3. CASE job' = [job EXCEPT ![w].failed = TRUE]
      <4> DEFINE jb == [job[w] EXCEPT !.failed = TRUE]
      <4>1. job' = [job EXCEPT ![w] = jb]
        BY <3>3
      <4>2. jb \in Job /\ jb.pair = p /\ jb.left = job[w].left /\ jb.spent = job[w].spent
        BY <1>1, Attempt DEF Job
      <4> QED BY <4>1, <4>2
    <3>4. Verdicts[p] \subseteq BOOLEAN
      BY <1>1, Attempt, PairAssumption
    <3> QED BY <3>1, <3>2, <3>3, <3>4 DEF JudgeAnswers
  <2> QED BY <1>1, <1>4, <2>1, <2>2, <2>3, LoopUnchanged, LoopsStay
<1> QED BY <1>2, <1>5, <1>6, <1>7

LEMMA TypeRecord == ASSUME TypeOK, NEW w \in Sweep, Record(w) \/ RecordFails(w) PROVE TypeOK'
<1> USE DEF TypeOK
<1> DEFINE p == job[w].pair
<1>1. Judges(w) /\ pc[w] = "recording" /\ job[w].spent > 0
  BY DEF Record, RecordFails, Judges
<1>2. UNCHANGED <<sessionVars, score, scopes, sweepTick, leaseVars, loop>>
  BY DEF Record, RecordFails
<1>3. UNCHANGED boundVars \/ Failing
  BY DEF Record, RecordFails
<1>4. SessionsTyped'
  <2>1. Bounds'
    BY <1>3, FaultsTyped DEF Bounds, SessionsTyped
  <2> QED BY <1>2, <2>1 DEF SessionsTyped, Bounds, sessionVars
<1>5. MemoryTyped'
  <2>1. backoff' = backoff \/ RecordFailedAttempt(At[w], p)
    BY DEF Record, RecordFails
  <2>2. RetryTicks \in 0 .. RetryTicks
    BY NumberAssumption
  <2>3. backoff' \in [Replica -> [Pair -> 0 .. RetryTicks]]
    BY <1>1, <2>1, <2>2, Attempt, BackoffTyped DEF MemoryTyped, RecordFailedAttempt
  <2> QED BY <1>2, <2>3 DEF MemoryTyped, leaseVars
<1>6. BudgetTyped'
  <2>1. CASE RecordEvent(At[w], ProjOf[p])
    BY <1>1, <2>1, Attempt, CallsTyped
  <2>2. CASE LoseEvents(At[w], ProjOf[p], job[w].spent)
    BY <1>1, <2>2, Attempt, CallsTyped
  <2> QED BY <2>1, <2>2 DEF Record, RecordFails
<1>7. LoopsTyped'
  <2>1. CASE AttemptEnds(w)
    BY <1>1, <1>2, <2>1, LoopUnchanged, AttemptEndTyped
  <2>2. CASE IsGroup(p) /\ job' = [job EXCEPT ![w].spent = @ - 1] /\ UNCHANGED pc
    <3> DEFINE jb == [job[w] EXCEPT !.spent = job[w].spent - 1]
    <3>1. job' = [job EXCEPT ![w] = jb]
      BY <2>2
    <3>2. jb \in Job /\ jb.pair = p
      <4>1. job[w] \in Job /\ job[w].spent - 1 \in Nat
        BY <1>1, Attempt
      <4> QED BY <4>1 DEF Job
    <3>3. pc' = [pc EXCEPT ![w] = "recording"] /\ "recording" \in Place \ {"done"}
      BY <1>1, <2>2 DEF LoopsTyped, Place
    <3> HIDE DEF jb
    <3> QED BY <1>1, <1>2, <2>2, <3>1, <3>2, <3>3, LoopUnchanged, LoopsStay
  <2> QED BY <2>1, <2>2 DEF Record, RecordFails
<1> QED BY <1>4, <1>5, <1>6, <1>7

LEMMA TypeAggregate == ASSUME TypeOK, NEW w \in Sweep, Aggregate(w) PROVE TypeOK'
<1> USE DEF TypeOK
<1> DEFINE p == job[w].pair
<1>1. Judges(w) /\ AttemptEnds(w)
  BY DEF Aggregate, Judges
<1>2. UNCHANGED <<sessionVars, scopes, sweepTick, budgetVars, leaseVars, loop>>
  BY DEF Aggregate
<1>3. /\ UNCHANGED boundVars \/ Failing
      /\ score' = score \/ score' = [score EXCEPT ![p] = ScoreOf(job[w], At[w])]
      /\ backoff' = [backoff EXCEPT ![At[w]][p] = 0] \/ backoff' = [backoff EXCEPT ![At[w]][p] = RetryTicks]
  BY DEF Aggregate, Store, RecordFailedAttempt
<1>4. SessionsTyped'
  <2>1. Bounds'
    BY <1>3, FaultsTyped DEF Bounds, SessionsTyped
  <2>2. score' \in [Pair -> ScoreType]
    <3>1. CASE score' = score
      BY <3>1 DEF SessionsTyped, ScoreType
    <3>2. CASE score' = [score EXCEPT ![p] = ScoreOf(job[w], At[w])]
      BY <1>1, <3>2, Attempt, ScoreTyped
    <3> QED BY <1>3, <3>1, <3>2
  <2> QED BY <1>2, <2>1, <2>2 DEF SessionsTyped, Bounds, sessionVars, ScoreType
<1>5. MemoryTyped'
  <2>1. 0 \in 0 .. RetryTicks /\ RetryTicks \in 0 .. RetryTicks
    BY NumberAssumption
  <2>2. backoff' \in [Replica -> [Pair -> 0 .. RetryTicks]]
    BY <1>1, <1>3, <2>1, Attempt, BackoffTyped DEF MemoryTyped
  <2> QED BY <1>2, <2>2 DEF MemoryTyped, leaseVars
<1>6. BudgetTyped'
  BY <1>2 DEF BudgetTyped, budgetVars
<1>7. LoopsTyped'
  BY <1>1, <1>2, LoopUnchanged, AttemptEndTyped
<1> QED BY <1>4, <1>5, <1>6, <1>7

LEMMA TypeTrace == ASSUME TypeOK, NEW t \in Trace, TraceStep(t) PROVE TypeOK'
<1> USE DEF TypeOK
<1>1. At[t] \in Replica /\ ProjOf[t] \in Project /\ t \in Actor /\ 1 \in Nat
  BY ProcessAssumption, PairAssumption DEF Actor
<1>2. UNCHANGED <<sessionVars, score, memoryVars, leaseVars, loop, job>> /\ (UNCHANGED boundVars \/ Failing)
  BY DEF TraceStep
<1>3. SessionsTyped'
  <2>1. Bounds'
    BY <1>2, FaultsTyped DEF Bounds, SessionsTyped
  <2> QED BY <1>2, <2>1 DEF SessionsTyped, Bounds, sessionVars
<1>4. MemoryTyped'
  BY <1>2 DEF MemoryTyped, memoryVars, leaseVars
<1>5. BudgetTyped'
  BY <1>1, CallsTyped DEF TraceStep
<1>6. LoopsTyped'
  <2>1. pc' = [pc EXCEPT ![t] = "judging"] \/ pc' = [pc EXCEPT ![t] = "done"]
    BY DEF TraceStep, Goto
  <2>2. pc' \in [Actor -> Place] /\ pc'[t] \in {"judging", "done"} /\ \A a \in Actor : a # t => pc'[a] = pc[a]
    BY <1>1, <2>1 DEF LoopsTyped, Place
  <2> QED BY <1>1, <1>2, <2>2, ProcessAssumption DEF LoopsTyped, Judges, Actor
<1> QED BY <1>3, <1>4, <1>5, <1>6

LEMMA TypeRerun == ASSUME TypeOK, NEW c \in Rerun, RerunReads(c) \/ RerunAnswers(c) PROVE TypeOK'
<1> USE DEF TypeOK
<1> DEFINE p == RerunOf[c]
<1>1. p \in Pair /\ c \in Actor
  BY PairAssumption DEF Actor
<1>2. UNCHANGED <<sessionVars, memoryVars, budgetVars, leaseVars, loop, boundVars>>
  BY DEF RerunReads, RerunAnswers
<1>3. MemoryTyped' /\ BudgetTyped'
  BY <1>2 DEF MemoryTyped, BudgetTyped, memoryVars, budgetVars, leaseVars
<1>4. SessionsTyped'
  <2>1. score' \in [Pair -> ScoreType]
    <3>1. CASE score' = score
      BY <3>1 DEF SessionsTyped, ScoreType
    <3>2. CASE pc[c] = "judging" /\ score' = [score EXCEPT ![p] = ScoreOf(job[c], c)]
      <4>1. job[c] \in Job /\ job[c].pair \in Pair
        BY <3>2 DEF LoopsTyped
      <4> QED BY <1>1, <3>2, <4>1, ScoreTyped
    <3> QED BY <3>1, <3>2 DEF RerunReads, RerunAnswers
  <2> QED BY <1>2, <2>1 DEF SessionsTyped, ScoreType, sessionVars, boundVars
<1>5. LoopsTyped'
  <2>1. PICK s \in {"judging", "done"} : pc' = [pc EXCEPT ![c] = s]
    BY DEF RerunReads, RerunAnswers, Goto
  <2>2. pc' \in [Actor -> Place] /\ pc'[c] = s /\ \A a \in Actor : a # c => pc'[a] = pc[a]
    BY <1>1, <2>1 DEF LoopsTyped, Place
  <2>3. PICK jb \in Job : job' = [job EXCEPT ![c] = jb] /\ (s = "judging" => jb.pair = p)
    <3>1. NoJob \in Job
      BY DEF NoJob, Job
    <3>2. CASE RerunAnswers(c)
      <4>1. s = "done"
        BY <1>1, <2>1, <3>2 DEF RerunAnswers, Goto, LoopsTyped
      <4> QED BY <3>1, <3>2, <4>1 DEF RerunAnswers
    <3>3. CASE job' = [job EXCEPT ![c] = [NoJob EXCEPT !.pair = p, !.read = spans[p]]]
      <4>1. [NoJob EXCEPT !.pair = p, !.read = spans[p]] \in Job
            /\ [NoJob EXCEPT !.pair = p, !.read = spans[p]].pair = p
        BY <1>1 DEF NoJob, Job, SessionsTyped
      <4> QED BY <3>3, <4>1
    <3>4. CASE job' = job /\ Goto(c, "done")
      <4>1. s = "done" /\ job[c] \in Job /\ job' = [job EXCEPT ![c] = job[c]]
        BY <1>1, <2>1, <3>4 DEF Goto, LoopsTyped
      <4> QED BY <4>1
    <3> QED BY <3>2, <3>3, <3>4 DEF RerunReads
  <2>4. job' \in [Sweep \cup Rerun -> Job] /\ job'[c] = jb /\ \A a \in Sweep \cup Rerun : a # c => job'[a] = job[a]
    BY <2>3 DEF LoopsTyped
  <2> QED BY <1>1, <1>2, <2>2, <2>3, <2>4, ProcessAssumption DEF LoopsTyped, Judges, Actor
<1> QED BY <1>3, <1>4, <1>5

\* What a crash does to who was running on the replica, and to nobody else
LEMMA CrashedActors ==
    ASSUME TypeOK, NEW r \in Replica, Crash(r)
    PROVE  /\ pc' \in [Actor -> Place] /\ loop' \in [Sweep -> Loop] /\ job' \in [Sweep \cup Rerun -> Job]
           /\ \A a \in Actor : At[a] # r => pc'[a] = pc[a]
           /\ \A w \in Sweep : IF At[w] = r THEN pc'[w] = "idle" /\ loop'[w] = NoLoop ELSE loop'[w] = loop[w]
           /\ \A a \in Sweep \cup Rerun : IF At[a] = r THEN job'[a] = NoJob ELSE job'[a] = job[a]
           /\ \A a \in Trace \cup Rerun : At[a] = r => pc'[a] = "done"
<1> USE DEF TypeOK, LoopsTyped
<1>1. /\ pc' = [a \in Actor |-> IF At[a] # r THEN pc[a] ELSE IF a \in Sweep THEN "idle" ELSE "done"]
      /\ loop' = [w \in Sweep |-> IF At[w] = r THEN NoLoop ELSE loop[w]]
      /\ job' = [a \in Sweep \cup Rerun |-> IF At[a] = r THEN NoJob ELSE job[a]]
  BY DEF Crash, Actor
<1>2. NoLoop \in Loop
  BY NoLoopTyped
<1>3. NoJob \in Job
  BY DEF NoJob, Job
<1>4. pc' \in [Actor -> Place]
  BY <1>1 DEF Place
<1>5. loop' \in [Sweep -> Loop] /\ job' \in [Sweep \cup Rerun -> Job]
  BY <1>1, <1>2, <1>3
<1> QED BY <1>1, <1>4, <1>5, ProcessAssumption DEF Actor

LEMMA TypeCrash == ASSUME TypeOK, NEW r \in Replica, Crash(r) PROVE TypeOK'
<1> USE DEF TypeOK
<1>1. SessionsTyped'
  BY DEF Crash, SessionsTyped, sessionVars
<1>2. MemoryTyped'
  <2>1. backoff' \in [Replica -> [Pair -> 0 .. RetryTicks]]
    <3> DEFINE none == [p \in Pair |-> 0]
    <3>1. none \in [Pair -> 0 .. RetryTicks]
      BY NumberAssumption
    <3>2. backoff' = [backoff EXCEPT ![r] = none]
      BY DEF Crash
    <3> HIDE DEF none
    <3> QED BY <3>1, <3>2 DEF MemoryTyped
  <2>2. sweepTick' \in [Replica -> 0 .. Len(ProjectRows)]
    BY NumberAssumption DEF Crash, MemoryTyped
  <2>3. scopes' \in [Replica -> SUBSET (Project \cup {Global})] /\ overran' \subseteq overran
        /\ lease' \in {lease, Departed}
    BY DEF Crash, MemoryTyped
  <2> QED BY <2>1, <2>2, <2>3 DEF MemoryTyped
<1>3. BudgetTyped'
  <2> DEFINE blank == [j \in Project |-> Unseeded]  zero == [j \in Project |-> 0]
             more == [j \in Project |-> lost[r][j] + calls[r][j]]
  <2>1. spend' = [spend EXCEPT ![r] = blank] /\ calls' = [calls EXCEPT ![r] = zero]
        /\ lost' = [lost EXCEPT ![r] = more] /\ UNCHANGED <<events, granted>>
    BY DEF Crash
  <2>2. blank \in [Project -> Nat \cup {Unseeded}] /\ zero \in [Project -> Int]
    OBVIOUS
  <2>3. more \in [Project -> Int]
    BY DEF BudgetTyped
  <2> HIDE DEF blank, zero, more
  <2> QED BY <2>1, <2>2, <2>3 DEF BudgetTyped
<1>4. LoopsTyped'
  <2>1. NoJob.spent = 0
    BY DEF NoJob
  <2> HIDE DEF TypeOK
  <2>2. LoopsTyped
    BY DEF TypeOK
  <2> QED BY <2>1, <2>2, CrashedActors, ProcessAssumption DEF LoopsTyped, Judges, Actor
<1> QED BY <1>1, <1>2, <1>3, <1>4

LEMMA TypeTime == ASSUME TypeOK, LeaseExpires \/ Midnight \/ UNCHANGED vars PROVE TypeOK'
<1> USE DEF TypeOK
<1>1. CASE LeaseExpires
  <2>1. MemoryTyped'
    BY <1>1 DEF LeaseExpires, MemoryTyped, memoryVars
  <2> QED BY <1>1, <2>1 DEF LeaseExpires, SessionsTyped, BudgetTyped, LoopsTyped, Judges,
                            sessionVars, budgetVars, boundVars
<1>2. CASE Midnight
  <2>1. BudgetTyped'
    BY <1>2 DEF Midnight, BudgetTyped
  <2> QED BY <1>2, <2>1 DEF Midnight, SessionsTyped, MemoryTyped, LoopsTyped, Judges,
                            sessionVars, memoryVars, leaseVars
<1>3. CASE UNCHANGED vars
  BY <1>3 DEF vars, SessionsTyped, MemoryTyped, BudgetTyped, LoopsTyped, Judges,
              sessionVars, memoryVars, budgetVars, leaseVars, boundVars
<1> QED BY <1>1, <1>2, <1>3

\* The types hold, with what each place of a sweep says of its loop and its job.
THEOREM TypeHolds == Spec => []TypeOK
<1>1. TypeOK /\ [Next]_vars => TypeOK'
  BY TypeSession, TypeElection, TypeListing, TypeReserve, TypeJudgeAnswers, TypeRecord, TypeAggregate,
     TypeTrace, TypeRerun, TypeCrash, TypeTime DEF Next, SweepStep
<1> QED BY <1>1, TypeInit, PTL DEF Spec

-----------------------------------------------------------------------------
(* Only some steps touch the scopes, the lease, and where a sweep is. *)

Started(w) == pc[w] # "idle"
Running(w) == pc[w] \notin {"idle", "leased"}
InProject(w) == pc[w] \notin {"idle", "leased", "next"}

LEMMA TodoStays ==
    ASSUME LoopsTyped, NEW w \in Sweep, NEW c, NEW n,
           \/ loop' = loop
           \/ loop' = [loop EXCEPT ![w].cands = c]
           \/ loop' = [loop EXCEPT ![w].cands = c, ![w].judged = n]
           \/ loop' = [loop EXCEPT ![w].judged = n]
           \/ loop' = [loop EXCEPT ![w].budgetGone = n]
    PROVE  \A v \in Sweep : loop'[v].todo = loop[v].todo
<1>1. loop[w] \in Loop
  BY DEF LoopsTyped
<1>2. /\ [loop[w] EXCEPT !.cands = c].todo = loop[w].todo
      /\ [loop[w] EXCEPT !.cands = c, !.judged = n].todo = loop[w].todo
      /\ [loop[w] EXCEPT !.judged = n].todo = loop[w].todo
      /\ [loop[w] EXCEPT !.budgetGone = n].todo = loop[w].todo
  BY <1>1 DEF Loop
<1> QED BY <1>2 DEF LoopsTyped

\* The steps that neither start, end nor move a sweep between projects
LEMMA SweepsGoOn ==
    ASSUME TypeOK, [Next]_vars
    PROVE  \/ \E w \in Sweep : TickFires(w) \/ Claim(w) \/ ManualSweep(w) \/ EndSweep(w)
                               \/ EnterProject(w) \/ LeaveProject(w)
           \/ \E r \in Replica : Crash(r)
           \/ LeaseExpires
           \/ /\ UNCHANGED <<scopes, lease, overran>>
              /\ \A w \in Sweep : /\ (Started(w)' <=> Started(w)) /\ (Running(w)' <=> Running(w)) /\ (InProject(w)' <=> InProject(w))
                                  /\ loop'[w].todo = loop[w].todo
<1> USE DEF Started, Running, InProject
<1> DEFINE Goes == /\ UNCHANGED <<scopes, lease, overran>>
                   /\ \A w \in Sweep : /\ (Started(w)' <=> Started(w)) /\ (Running(w)' <=> Running(w)) /\ (InProject(w)' <=> InProject(w))
                                       /\ loop'[w].todo = loop[w].todo
<1>1. ASSUME NEW p \in Pair, Grow(p) \/ Prune(p) \/ FallsQuiet(p) \/ LeavesWindow(p) PROVE Goes
  BY <1>1 DEF Grow, Prune, FallsQuiet, LeavesWindow, memoryVars, leaseVars
<1>2. ASSUME NEW w \in Sweep, NEW p \in Pair, Skip(w, p) \/ FindPruned(w, p) \/ Take(w, p) PROVE Goes
  <2>1. \A v \in Sweep : loop'[v].todo = loop[v].todo
    BY <1>2, TodoStays DEF Skip, FindPruned, Take, TypeOK
  <2>2. UNCHANGED <<scopes, lease, overran>>
    BY <1>2 DEF Skip, FindPruned, Take, memoryVars, leaseVars
  <2>3. pc' = pc \/ (pc[w] = "sessions" /\ pc' = [pc EXCEPT ![w] = "reserving"])
    BY <1>2 DEF Skip, FindPruned, Take, Considers, Goto
  <2> QED BY <2>1, <2>2, <2>3, ProcessAssumption DEF TypeOK, LoopsTyped, Actor
<1>3. ASSUME NEW w \in Sweep, Reserve(w) \/ JudgeAnswers(w) \/ Record(w) \/ RecordFails(w) \/ Aggregate(w)
      PROVE  Goes
  <2>1. \A v \in Sweep : loop'[v].todo = loop[v].todo
    BY <1>3, TodoStays DEF Reserve, JudgeAnswers, Record, RecordFails, Aggregate, TypeOK
  <2>2. UNCHANGED <<scopes, lease, overran>>
    BY <1>3 DEF Reserve, JudgeAnswers, Record, RecordFails, Aggregate, memoryVars, leaseVars
  <2>3. /\ Judges(w)
        /\ \E s \in {"reserving", "judging", "recording", "sessions"} : pc' = [pc EXCEPT ![w] = s]
    <3>1. pc' = pc => pc' = [pc EXCEPT ![w] = pc[w]]
      BY DEF TypeOK, LoopsTyped
    <3> QED BY <1>3, <3>1 DEF Reserve, JudgeAnswers, Record, RecordFails, Aggregate, AttemptEnds, Goto, Judges
  <2> QED BY <2>1, <2>2, <2>3 DEF TypeOK, LoopsTyped, Judges
<1>4. ASSUME NEW t \in Trace, TraceStep(t) PROVE Goes
  <2>1. UNCHANGED <<memoryVars, leaseVars, loop>> /\ \E s \in Place : pc' = [pc EXCEPT ![t] = s]
    BY <1>4 DEF TraceStep, Goto, Place
  <2> QED BY <2>1, ProcessAssumption DEF memoryVars, leaseVars, TypeOK, LoopsTyped, Actor
<1>5. ASSUME NEW c \in Rerun, RerunReads(c) \/ RerunAnswers(c) PROVE Goes
  <2>1. UNCHANGED <<memoryVars, leaseVars, loop>> /\ \E s \in Place : pc' = [pc EXCEPT ![c] = s]
    BY <1>5 DEF RerunReads, RerunAnswers, Goto, Place
  <2> QED BY <2>1, ProcessAssumption DEF memoryVars, leaseVars, TypeOK, LoopsTyped, Actor
<1>6. Midnight \/ UNCHANGED vars => Goes
  BY DEF Midnight, vars, memoryVars, leaseVars
<1> QED BY <1>1, <1>2, <1>3, <1>4, <1>5, <1>6 DEF Next, SweepStep

-----------------------------------------------------------------------------
(* One sweep per project *)

ScopesTaken == \A w \in Sweep : Running(w) => ScopeOf[w] \in scopes[At[w]]
ScopesDiffer ==
    \A v, w \in Sweep : v # w /\ At[v] = At[w] /\ Running(v) /\ Running(w) => ScopeOf[v] # ScopeOf[w]
ManualInScope ==
    \A w \in Sweep \ Tick : Running(w) => loop[w].todo \in {<<>>, <<ScopeOf[w]>>}
TicksPassOver ==
    \A v \in Sweep \ Tick : \A w \in Tick :
        At[v] = At[w] /\ Running(v) /\ InProject(w) => Head(loop[w].todo) # ScopeOf[v]
ScopeInv == ScopesTaken /\ ScopesDiffer /\ ManualInScope /\ TicksPassOver

\* Sweeps that go no further than they were, on scopes that are still taken
LEMMA ScopesKept ==
    ASSUME ScopeInv,
           \A w \in Sweep : pc'[w] \notin {"idle", "leased"} =>
               /\ pc[w] \notin {"idle", "leased"}
               /\ pc'[w] \notin {"idle", "leased", "next"} => pc[w] \notin {"idle", "leased", "next"}
               /\ loop'[w].todo = loop[w].todo
               /\ ScopeOf[w] \in scopes[At[w]] => ScopeOf[w] \in scopes'[At[w]]
    PROVE  ScopeInv'
<1> USE DEF ScopeInv, Running, InProject
<1>0. Tick \subseteq Sweep
  BY DEF Tick
<1>1. ScopesTaken'
  BY DEF ScopesTaken
<1>2. ScopesDiffer'
  BY DEF ScopesDiffer
<1>3. ManualInScope'
  BY DEF ManualInScope
<1>4. TicksPassOver'
  BY <1>0 DEF TicksPassOver
<1> QED BY <1>1, <1>2, <1>3, <1>4

LEMMA ScopeStep == TypeOK /\ ScopeInv /\ [Next]_vars => ScopeInv'
<1> SUFFICES ASSUME TypeOK, ScopeInv, [Next]_vars PROVE ScopeInv'
  OBVIOUS
<1>0. /\ \A w \in Sweep : At[w] \in Replica /\ w \in Actor
      /\ pc \in [Actor -> Place] /\ loop \in [Sweep -> Loop] /\ scopes \in [Replica -> SUBSET (Project \cup {Global})]
      /\ Tick \subseteq Sweep
  BY ProcessAssumption DEF Actor, TypeOK, LoopsTyped, MemoryTyped, Tick
<1> USE DEF Running, InProject
<1>1. ASSUME NEW w \in Sweep, TickFires(w) PROVE ScopeInv'
  <2>1. UNCHANGED <<scopes, loop>> /\ \A v \in Sweep : pc'[v] \notin {"idle", "leased"} => pc'[v] = pc[v]
    BY <1>0, <1>1 DEF TickFires, Goto
  <2> QED BY <2>1, ScopesKept
<1>2. ASSUME NEW w \in Sweep, Claim(w) PROVE ScopeInv'
  <2>1. CASE Goto(w, "idle") /\ UNCHANGED <<scopes, loop>>
    <3>1. \A v \in Sweep : pc'[v] \notin {"idle", "leased"} => pc'[v] = pc[v]
      BY <1>0, <2>1 DEF Goto
    <3> QED BY <2>1, <3>1, ScopesKept
  <2>2. CASE ~ScopeConflicts(At[w], Global) /\ Goto(w, "next") /\ pc[w] = "leased"
             /\ scopes' = [scopes EXCEPT ![At[w]] = @ \cup {Global}]
    <3>1. w \in Tick /\ ScopeOf[w] = Global /\ Global \notin scopes[At[w]]
      BY <1>2, <2>2 DEF Claim, Tick, ScopeConflicts
    <3>2. /\ \A v \in Sweep : v # w => pc'[v] = pc[v] /\ loop'[v] = loop[v]
          /\ pc'[w] = "next"
      BY <1>0, <1>2, <2>2 DEF Claim, Goto
    <3>3. /\ \A r \in Replica : scopes[r] \subseteq scopes'[r]
          /\ Global \in scopes'[At[w]]
      BY <1>0, <2>2
    <3>4. \A v \in Sweep : v # w /\ At[v] = At[w] /\ Running(v) => ScopeOf[v] # Global
      BY <3>1 DEF ScopeInv, ScopesTaken
    <3>5. ScopesTaken'
      BY <1>0, <3>1, <3>2, <3>3 DEF ScopeInv, ScopesTaken
    <3>6. ScopesDiffer'
      BY <3>1, <3>2, <3>4 DEF ScopeInv, ScopesDiffer
    <3>7. ManualInScope'
      BY <3>1, <3>2 DEF ScopeInv, ManualInScope
    <3>8. TicksPassOver'
      BY <1>0, <3>1, <3>2 DEF ScopeInv, TicksPassOver
    <3> QED BY <3>5, <3>6, <3>7, <3>8 DEF ScopeInv
  <2> QED BY <1>2, <2>1, <2>2 DEF Claim
<1>3. ASSUME NEW w \in Sweep, ManualSweep(w) PROVE ScopeInv'
  <2>1. w \notin Tick /\ Global \notin scopes[At[w]] /\ ScopeOf[w] \notin scopes[At[w]]
    BY <1>3 DEF ManualSweep, ScopeConflicts
  <2>2. /\ \A v \in Sweep : v # w => pc'[v] = pc[v] /\ loop'[v] = loop[v]
        /\ pc'[w] = "next" /\ loop'[w].todo = <<ScopeOf[w]>>
    BY <1>0, <1>3 DEF ManualSweep, Goto, NoLoop
  <2>3. /\ \A r \in Replica : scopes[r] \subseteq scopes'[r]
        /\ ScopeOf[w] \in scopes'[At[w]]
    BY <1>0, <1>3 DEF ManualSweep
  <2>4. \A v \in Sweep : v # w /\ At[v] = At[w] /\ Running(v) => ScopeOf[v] # ScopeOf[w] /\ v \notin Tick
    BY <2>1 DEF ScopeInv, ScopesTaken, Tick
  <2>6. ScopesTaken'
    BY <1>0, <2>2, <2>3 DEF ScopeInv, ScopesTaken
  <2>7. ScopesDiffer'
    BY <2>2, <2>4 DEF ScopeInv, ScopesDiffer
  <2>8. ManualInScope'
    BY <2>2 DEF ScopeInv, ManualInScope
  <2>9. TicksPassOver'
    BY <1>0, <2>1, <2>2, <2>4 DEF ScopeInv, TicksPassOver
  <2> QED BY <2>6, <2>7, <2>8, <2>9 DEF ScopeInv
<1>4. ASSUME NEW w \in Sweep, EndSweep(w) PROVE ScopeInv'
  <2>1. /\ \A v \in Sweep : v # w => pc'[v] = pc[v] /\ loop'[v] = loop[v]
        /\ pc'[w] = "idle" /\ pc[w] = "next"
    BY <1>0, <1>4 DEF EndSweep, Goto
  <2>2. \A r \in Replica : scopes'[r] = IF r = At[w] THEN scopes[r] \ {ScopeOf[w]} ELSE scopes[r]
    BY <1>0, <1>4 DEF EndSweep
  <2>3. \A v \in Sweep : v # w /\ At[v] = At[w] /\ Running(v) => ScopeOf[v] # ScopeOf[w]
    BY <2>1 DEF ScopeInv, ScopesDiffer
  <2> QED BY <1>0, <2>1, <2>2, <2>3, ScopesKept
<1>5. ASSUME NEW w \in Sweep, EnterProject(w) PROVE ScopeInv'
  <2>1. UNCHANGED scopes /\ pc[w] = "next" /\ loop[w].todo # <<>>
    BY <1>5 DEF EnterProject, memoryVars
  <2>2. \A v \in Sweep : v # w => pc'[v] = pc[v] /\ loop'[v] = loop[v]
    BY <1>0, <1>5 DEF EnterProject, Goto
  <2>3. CASE PassesOver(w, Head(loop[w].todo)) /\ pc' = pc
    <3>1. w \in Tick
      BY <2>3 DEF PassesOver
    <3>2. ScopesTaken' /\ ScopesDiffer'
      BY <2>1, <2>3 DEF ScopeInv, ScopesTaken, ScopesDiffer
    <3>3. ManualInScope'
      BY <2>2, <2>3, <3>1 DEF ScopeInv, ManualInScope
    <3>4. TicksPassOver'
      BY <1>0, <2>1, <2>2, <2>3 DEF ScopeInv, TicksPassOver
    <3> QED BY <3>2, <3>3, <3>4 DEF ScopeInv
  <2>4. CASE ~PassesOver(w, Head(loop[w].todo)) /\ Goto(w, "sessions")
             /\ loop' = [loop EXCEPT
                   ![w].cands = [p \in Listed(Head(loop[w].todo)) |-> activity[p]],
                   ![w].budgetGone = FALSE]
    <3>1. pc'[w] = "sessions"
      BY <1>0, <2>4 DEF Goto
    <3>2. loop'[w].todo = loop[w].todo
      <4> DEFINE c == [p \in Listed(Head(loop[w].todo)) |-> activity[p]]
      <4>1. loop' = [loop EXCEPT ![w] = [loop[w] EXCEPT !.cands = c, !.budgetGone = FALSE]]
        BY <2>4
      <4> HIDE DEF c
      <4>2. [loop[w] EXCEPT !.cands = c, !.budgetGone = FALSE].todo = loop[w].todo
        BY <1>0 DEF Loop
      <4> QED BY <1>0, <4>1, <4>2
    <3>3. w \in Tick => Head(loop[w].todo) \notin scopes[At[w]]
      BY <2>4 DEF PassesOver
    <3>4. w \in Tick => \A v \in Sweep : At[v] = At[w] /\ Running(v) => Head(loop[w].todo) # ScopeOf[v]
      BY <3>3 DEF ScopeInv, ScopesTaken
    <3>5. ScopesTaken' /\ ScopesDiffer'
      BY <2>1, <2>2 DEF ScopeInv, ScopesTaken, ScopesDiffer
    <3>6. ManualInScope'
      BY <2>1, <2>2, <3>2 DEF ScopeInv, ManualInScope
    <3>7. \A v \in Sweep : pc'[v] \notin {"idle", "leased"} => pc[v] \notin {"idle", "leased"}
      BY <2>1, <2>2
    <3>8. TicksPassOver'
      BY <1>0, <2>2, <3>2, <3>4, <3>7 DEF ScopeInv, TicksPassOver
    <3> QED BY <3>5, <3>6, <3>8 DEF ScopeInv
  <2> QED BY <1>5, <2>3, <2>4 DEF EnterProject
<1>6. ASSUME NEW w \in Sweep, LeaveProject(w) PROVE ScopeInv'
  <2>1. UNCHANGED scopes /\ pc[w] = "sessions" /\ pc'[w] = "next"
    BY <1>0, <1>6 DEF LeaveProject, memoryVars, Goto
  <2>2. \A v \in Sweep : v # w => pc'[v] = pc[v] /\ loop'[v] = loop[v]
    BY <1>0, <1>6 DEF LeaveProject, Goto
  <2>3. ScopesTaken' /\ ScopesDiffer'
    BY <2>1, <2>2 DEF ScopeInv, ScopesTaken, ScopesDiffer
  <2>4. ManualInScope'
    <3>1. CASE w \in Tick
      BY <2>2, <3>1 DEF ScopeInv, ManualInScope
    <3>2. CASE w \notin Tick
      <4>1. loop'[w].todo = <<>>
        <5>1. loop[w].todo = <<ScopeOf[w]>>
          BY <2>1, <3>2 DEF ScopeInv, ManualInScope, TypeOK, LoopsTyped
        <5>2. loop'[w].todo = Tail(loop[w].todo)
          <6>1. [loop[w] EXCEPT !.todo = Tail(loop[w].todo), !.cands = NoLoop.cands].todo = Tail(loop[w].todo)
            BY <1>0 DEF Loop
          <6> QED BY <1>0, <1>6, <6>1 DEF LeaveProject
        <5>3. Tail(<<ScopeOf[w]>>) = <<>>
          OBVIOUS
        <5> QED BY <5>1, <5>2, <5>3
      <4> QED BY <2>2, <4>1 DEF ScopeInv, ManualInScope
    <3> QED BY <3>1, <3>2
  <2>5. TicksPassOver'
    BY <1>0, <2>1, <2>2 DEF ScopeInv, TicksPassOver
  <2> QED BY <2>3, <2>4, <2>5 DEF ScopeInv
<1>7. ASSUME NEW r \in Replica, Crash(r) PROVE ScopeInv'
  <2>1. /\ \A w \in Sweep : At[w] = r => pc'[w] = "idle"
        /\ \A w \in Sweep : At[w] # r => pc'[w] = pc[w] /\ loop'[w] = loop[w]
    BY <1>0, <1>7, CrashedActors
  <2>2. \A q \in Replica : q # r => scopes'[q] = scopes[q]
    BY <1>0, <1>7 DEF Crash
  <2> QED BY <1>0, <2>1, <2>2, ScopesKept
<1>8. CASE LeaseExpires
  BY <1>8, ScopesKept DEF LeaseExpires, memoryVars
<1>9. ASSUME UNCHANGED scopes,
             \A w \in Sweep : /\ (Running(w)' <=> Running(w)) /\ (InProject(w)' <=> InProject(w))
                              /\ loop'[w].todo = loop[w].todo
      PROVE  ScopeInv'
  BY <1>9, ScopesKept
<1> QED BY <1>1, <1>2, <1>3, <1>4, <1>5, <1>6, <1>7, <1>8, <1>9, SweepsGoOn

\* In one process no two sweeps are in the same project, for any number of
\* ticks, manual requests and projects (sessionSweep.ts, sweepingScopes).
THEOREM OneSweepHolds == Spec => []OneSweepPerProject
<1>1. Init => ScopeInv
  BY DEF Init, ScopeInv, ScopesTaken, ScopesDiffer, ManualInScope, TicksPassOver, Running, InProject,
         Actor, Tick
<1>2. TypeOK /\ ScopeInv => OneSweepPerProject
  <2> SUFFICES ASSUME TypeOK, ScopeInv, NEW v \in Sweep, NEW w \in Sweep, NEW j \in Project,
                      v # w, At[v] = At[w], Holds(v, j), Holds(w, j)
               PROVE  FALSE
    BY DEF OneSweepPerProject
  <2> USE DEF Running, InProject, Holds
  <2>1. \A u \in Sweep : InProject(u) => loop[u].todo # <<>>
    BY DEF TypeOK, LoopsTyped, Judges, Place, Actor
  <2>2. \A u \in Sweep \ Tick : InProject(u) => Head(loop[u].todo) = ScopeOf[u]
    BY <2>1 DEF ScopeInv, ManualInScope
  <2>3. CASE v \in Tick /\ w \in Tick
    BY <2>3 DEF ScopeInv, ScopesDiffer, Tick
  <2>4. CASE v \notin Tick /\ w \notin Tick
    BY <2>2, <2>4 DEF ScopeInv, ScopesDiffer
  <2>5. CASE v \in Tick /\ w \notin Tick
    BY <2>2, <2>5 DEF ScopeInv, TicksPassOver
  <2>6. CASE v \notin Tick /\ w \in Tick
    BY <2>2, <2>6 DEF ScopeInv, TicksPassOver
  <2> QED BY <2>3, <2>4, <2>5, <2>6
<1> QED BY <1>1, <1>2, ScopeStep, TypeHolds, PTL DEF Spec

-----------------------------------------------------------------------------
(* The lease *)

LeaseInv == \A w \in Tick : pc[w] # "idle" /\ w \notin overran => lease = At[w]

LEMMA LeaseStep == TypeOK /\ LeaseInv /\ [Next]_vars => LeaseInv'
<1> SUFFICES ASSUME TypeOK, LeaseInv, [Next]_vars PROVE LeaseInv'
  OBVIOUS
<1> USE DEF LeaseInv
<1>0. /\ \A w \in Sweep : At[w] \in Replica /\ w \in Actor
      /\ pc \in [Actor -> Place] /\ Nobody \notin Replica /\ Tick \subseteq Sweep
  BY ProcessAssumption DEF Actor, TypeOK, LoopsTyped, Tick
<1>1. ASSUME NEW w \in Sweep, TickFires(w) PROVE LeaseInv'
  <2>1. CASE Acquires(At[w]) /\ lease' = At[w] /\ UNCHANGED overran
             /\ pc' = [pc EXCEPT ![w] = "leased"]
    BY <1>0, <2>1 DEF Acquires
  <2>2. CASE UNCHANGED <<lease, pc, overran>>
    BY <2>2
  <2> QED BY <1>1, <2>1, <2>2 DEF TickFires, Goto
<1>2. ASSUME NEW w \in Sweep, Claim(w) PROVE LeaseInv'
  <2>1. lease' = lease /\ pc[w] # "idle"
    BY <1>2 DEF Claim
  <2>2. CASE pc' = [pc EXCEPT ![w] = "idle"] /\ overran' = overran \ {w}
    BY <1>0, <2>1, <2>2
  <2>3. CASE pc' = [pc EXCEPT ![w] = "next"] /\ overran' = overran
    BY <1>0, <2>1, <2>3
  <2> QED BY <1>2, <2>2, <2>3 DEF Claim, Goto
<1>3. ASSUME NEW w \in Sweep, ManualSweep(w) PROVE LeaseInv'
  BY <1>0, <1>3 DEF ManualSweep, Goto, leaseVars, Tick
<1>4. ASSUME NEW w \in Sweep, EndSweep(w) PROVE LeaseInv'
  BY <1>0, <1>4 DEF EndSweep, Goto
<1>5. ASSUME NEW w \in Sweep, EnterProject(w) \/ LeaveProject(w) PROVE LeaseInv'
  <2>1. UNCHANGED <<lease, overran>> /\ pc[w] # "idle"
    BY <1>5 DEF EnterProject, LeaveProject, leaseVars
  <2>2. \A v \in Sweep : v # w => pc'[v] = pc[v]
    BY <1>0, <1>5 DEF EnterProject, LeaveProject, Goto
  <2> QED BY <1>0, <2>1, <2>2
<1>6. ASSUME NEW r \in Replica, Crash(r) PROVE LeaseInv'
  <2>1. \A w \in Sweep : IF At[w] = r THEN pc'[w] = "idle" ELSE pc'[w] = pc[w]
    BY <1>0, <1>6, CrashedActors
  <2>2. /\ lease' = IF lease = r THEN Departed ELSE lease
        /\ overran' = overran \ {a \in Actor : At[a] = r}
    BY <1>6 DEF Crash
  <2> QED BY <1>0, <2>1, <2>2
<1>7. CASE LeaseExpires
  BY <1>7 DEF LeaseExpires
<1>8. ASSUME UNCHANGED <<lease, overran>>, \A w \in Sweep : Started(w)' <=> Started(w) PROVE LeaseInv'
  BY <1>0, <1>8 DEF Started
<1> QED BY <1>1, <1>2, <1>3, <1>4, <1>5, <1>6, <1>7, <1>8, SweepsGoOn

\* Ticks of two replicas run side by side only when one of them outlived its
\* lease, for any number of replicas and through crashes (acquireSweepLease).
THEOREM LeaseHolds == Spec => []LeaseElectsOne
<1>1. Init => LeaseInv
  BY DEF Init, LeaseInv, Tick, Actor
<1>2. LeaseInv => LeaseElectsOne
  BY DEF LeaseInv, LeaseElectsOne, Ticking
<1> QED BY <1>1, <1>2, LeaseStep, TypeHolds, PTL DEF Spec

-----------------------------------------------------------------------------
(* The budget: every call under way is held by a job or a trace. *)

Asked(a) == IF a \in Sweep THEN job[a].spent ELSE IF pc[a] = "judging" THEN 1 ELSE 0
Payer(a) == IF a \in Sweep THEN ProjOf[job[a].pair] ELSE ProjOf[a]
UnderWay(r, j) == {x \in (Sweep \cup Trace) \X Nat :
                      At[x[1]] = r /\ x[2] \in 1 .. Asked(x[1]) /\ Payer(x[1]) = j}

CallsInv ==
    Cap > 0 => \A r \in Replica : \A j \in Project :
        IsFiniteSet(UnderWay(r, j)) /\ calls[r][j] = Cardinality(UnderWay(r, j))

LEMMA AskedIsNat == ASSUME TypeOK, NEW a \in Sweep \cup Trace PROVE Asked(a) \in Nat
<1>1. a \in Sweep => job[a].spent \in Nat
  BY DEF TypeOK, LoopsTyped, Job
<1> QED BY <1>1 DEF Asked

\* Nobody else's calls change when one actor's do
LEMMA OneAsks ==
    ASSUME TypeOK, TypeOK', NEW a \in Sweep \cup Trace, NEW r, NEW j,
           \A b \in Sweep \cup Trace : b # a => Asked(b)' = Asked(b) /\ Payer(b)' = Payer(b),
           \/ At[a] # r
           \/ Asked(a)' = Asked(a) /\ (Payer(a)' = Payer(a) \/ Asked(a) = 0)
           \/ (Payer(a) # j \/ Asked(a) = 0) /\ (Payer(a)' # j \/ Asked(a)' = 0)
    PROVE  UnderWay(r, j)' = UnderWay(r, j)
  BY DEF UnderWay

\* One more call is reserved
LEMMA OneMoreCall ==
    ASSUME TypeOK, TypeOK', CallsInv, Cap > 0, NEW a \in Sweep \cup Trace, NEW j \in Project,
           \A b \in Sweep \cup Trace : b # a => Asked(b)' = Asked(b) /\ Payer(b)' = Payer(b),
           Asked(a)' = Asked(a) + 1, Payer(a)' = j, Payer(a) = j \/ Asked(a) = 0,
           calls' = [calls EXCEPT ![At[a]][j] = calls[At[a]][j] + 1]
    PROVE  CallsInv'
<1> DEFINE n == Asked(a)  r == At[a]
<1>0. n \in Nat /\ r \in Replica
  BY AskedIsNat, ProcessAssumption
<1>1. \A q \in Replica : \A k \in Project :
         calls'[q][k] = IF q = r /\ k = j THEN calls[q][k] + 1 ELSE calls[q][k]
  <2>1. calls[r][j] + 1 \in Int /\ calls \in [Replica -> [Project -> Int]]
    BY <1>0 DEF TypeOK, BudgetTyped
  <2> QED BY <1>0, <2>1, TableEntry
<1>2. UnderWay(r, j)' = UnderWay(r, j) \cup {<<a, n + 1>>} /\ <<a, n + 1>> \notin UnderWay(r, j)
  BY <1>0 DEF UnderWay
<1>3. \A q \in Replica : \A k \in Project : ~(q = r /\ k = j) => UnderWay(q, k)' = UnderWay(q, k)
  BY <1>0, OneAsks
<1> HIDE DEF n, r
<1>4. IsFiniteSet(UnderWay(r, j)') /\ calls'[r][j] = Cardinality(UnderWay(r, j)')
  <2>1. IsFiniteSet(UnderWay(r, j)) /\ calls[r][j] = Cardinality(UnderWay(r, j))
    BY <1>0 DEF CallsInv
  <2>2. IsFiniteSet(UnderWay(r, j) \cup {<<a, n + 1>>})
        /\ Cardinality(UnderWay(r, j) \cup {<<a, n + 1>>}) = Cardinality(UnderWay(r, j)) + 1
    BY <1>2, <2>1, FS_AddElement
  <2> QED BY <1>0, <1>1, <1>2, <2>1, <2>2
<1> QED BY <1>1, <1>3, <1>4 DEF CallsInv

\* Calls that are over
LEMMA FewerCalls ==
    ASSUME TypeOK, TypeOK', CallsInv, Cap > 0, NEW a \in Sweep \cup Trace, NEW j \in Project, NEW n \in Nat,
           \A b \in Sweep \cup Trace : b # a => Asked(b)' = Asked(b) /\ Payer(b)' = Payer(b),
           n <= Asked(a), Asked(a)' = Asked(a) - n, Payer(a) = j, Payer(a)' = j \/ Asked(a)' = 0,
           calls' = [calls EXCEPT ![At[a]][j] = calls[At[a]][j] - n]
    PROVE  CallsInv'
<1> DEFINE m == Asked(a)  r == At[a]  over == (m - n + 1) .. m
<1>0. m \in Nat /\ r \in Replica
  BY AskedIsNat, ProcessAssumption
<1>1. \A q \in Replica : \A k \in Project :
         calls'[q][k] = IF q = r /\ k = j THEN calls[q][k] - n ELSE calls[q][k]
  <2>1. calls[r][j] - n \in Int /\ calls \in [Replica -> [Project -> Int]]
    BY <1>0 DEF TypeOK, BudgetTyped
  <2> QED BY <1>0, <2>1, TableEntry
<1>2. UnderWay(r, j)' = UnderWay(r, j) \ ({a} \X over) /\ UnderWay(r, j) \cap ({a} \X over) = {a} \X over
  BY <1>0 DEF UnderWay
<1>3. \A q \in Replica : \A k \in Project : ~(q = r /\ k = j) => UnderWay(q, k)' = UnderWay(q, k)
  BY <1>0, OneAsks
<1>4. IsFiniteSet({a} \X over) /\ Cardinality({a} \X over) = n
  <2>1. IsFiniteSet({a}) /\ Cardinality({a}) = 1
    BY FS_Singleton
  <2>2. IsFiniteSet(over) /\ Cardinality(over) = n
    <3>1. m \in Int /\ m - n + 1 \in Int
      BY <1>0
    <3> HIDE DEF m
    <3>2. IsFiniteSet(over) /\ Cardinality(over) = IF m - n + 1 > m THEN 0 ELSE m - (m - n + 1) + 1
      BY <3>1, FS_Interval
    <3> QED BY <1>0, <3>2
  <2>3. IsFiniteSet({a} \X over) /\ Cardinality({a} \X over) = Cardinality({a}) * Cardinality(over)
    BY <2>1, <2>2, FS_Product
  <2> QED BY <2>1, <2>2, <2>3
<1> HIDE DEF m, r, over
<1>5. IsFiniteSet(UnderWay(r, j)') /\ calls'[r][j] = Cardinality(UnderWay(r, j)')
  <2>1. IsFiniteSet(UnderWay(r, j)) /\ calls[r][j] = Cardinality(UnderWay(r, j))
    BY <1>0 DEF CallsInv
  <2>2. IsFiniteSet(UnderWay(r, j) \ ({a} \X over))
        /\ Cardinality(UnderWay(r, j) \ ({a} \X over)) =
              Cardinality(UnderWay(r, j)) - Cardinality(UnderWay(r, j) \cap ({a} \X over))
    BY <2>1, FS_Difference
  <2> QED BY <1>0, <1>1, <1>2, <1>4, <2>1, <2>2
<1> QED BY <1>1, <1>3, <1>5 DEF CallsInv

\* Who asks no more and no less leaves the calls as they are
LEMMA CallsSame ==
    ASSUME TypeOK, TypeOK', CallsInv, Cap > 0, calls' = calls,
           \A a \in Sweep \cup Trace : Asked(a)' = Asked(a) /\ (Payer(a)' = Payer(a) \/ Asked(a) = 0)
    PROVE  CallsInv'
<1>1. \A r \in Replica : \A j \in Project : UnderWay(r, j)' = UnderWay(r, j)
  BY DEF UnderWay
<1> QED BY <1>1 DEF CallsInv

\* A sweep asks for what its job says
LEMMA JobAsks ==
    ASSUME TypeOK, NEW w \in Sweep, NEW s, NEW jb,
           pc' = [pc EXCEPT ![w] = s], job' = [job EXCEPT ![w] = jb]
    PROVE  /\ \A b \in Sweep \cup Trace : b # w => Asked(b)' = Asked(b) /\ Payer(b)' = Payer(b)
           /\ Asked(w) = job[w].spent /\ Payer(w) = ProjOf[job[w].pair]
           /\ Asked(w)' = jb.spent /\ Payer(w)' = ProjOf[jb.pair]
<1>1. job'[w] = jb /\ \A b \in Sweep : b # w => job'[b] = job[b]
  BY DEF TypeOK, LoopsTyped
<1>2. \A b \in Trace : pc'[b] = pc[b] /\ b \notin Sweep
  BY ProcessAssumption DEF TypeOK, LoopsTyped, Actor
<1> QED BY <1>1, <1>2 DEF Asked, Payer

LEMMA CallsReserve ==
    ASSUME TypeOK, TypeOK', CallsInv, Cap > 0, NEW w \in Sweep, Reserve(w) PROVE CallsInv'
<1> DEFINE p == job[w].pair  j == ProjOf[p]  r == At[w]
<1>1. Judges(w) /\ pc[w] = "reserving" /\ job[w].left > 0
  BY DEF Reserve, Judges, TypeOK, LoopsTyped
<1>2. job[w] \in Job /\ job[w].spent \in Nat /\ job[w].left \in Nat /\ j \in Project
  BY <1>1, Attempt
<1>3. CASE /\ ReserveCall(r, j) /\ Goto(w, "judging")
           /\ job' = [job EXCEPT ![w].left = @ - 1, ![w].spent = @ + 1]
  <2> DEFINE jb == [job[w] EXCEPT !.left = job[w].left - 1, !.spent = job[w].spent + 1]
  <2>1. jb.spent = job[w].spent + 1 /\ jb.pair = p
    BY <1>2 DEF Job
  <2>2. job' = [job EXCEPT ![w] = jb] /\ pc' = [pc EXCEPT ![w] = "judging"]
    BY <1>3 DEF Goto
  <2>3. calls' = [calls EXCEPT ![r][j] = calls[r][j] + 1]
    BY <1>3 DEF ReserveCall, Counted
  <2> HIDE DEF jb
  <2>4. /\ \A b \in Sweep \cup Trace : b # w => Asked(b)' = Asked(b) /\ Payer(b)' = Payer(b)
        /\ Asked(w)' = Asked(w) + 1 /\ Payer(w)' = j /\ Payer(w) = j
    <3>1. /\ \A b \in Sweep \cup Trace : b # w => Asked(b)' = Asked(b) /\ Payer(b)' = Payer(b)
          /\ Asked(w) = job[w].spent /\ Payer(w) = ProjOf[job[w].pair]
          /\ Asked(w)' = jb.spent /\ Payer(w)' = ProjOf[jb.pair]
      BY <2>2, JobAsks
    <3> QED BY <3>1, <2>1
  <2>5. w \in Sweep \cup Trace /\ j \in Project
    BY <1>2
  <2> HIDE DEF j
  <2> QED BY <2>3, <2>4, <2>5, OneMoreCall
<1>4. CASE RefuseCall(r, j)
  <2>1. calls' = calls
    BY <1>4 DEF RefuseCall
  <2>2. CASE ~IsGroup(p) /\ AttemptEnds(w)
    <3>1. job[w].spent = 0
      BY <1>1, <1>2, <2>2 DEF TypeOK, LoopsTyped
    <3>2. job' = [job EXCEPT ![w] = NoJob] /\ pc' = [pc EXCEPT ![w] = "sessions"] /\ NoJob.spent = 0
      BY <2>2 DEF AttemptEnds, Goto, NoJob
    <3>3. \A a \in Sweep \cup Trace : Asked(a)' = Asked(a) /\ (Payer(a)' = Payer(a) \/ Asked(a) = 0)
      BY <3>1, <3>2, JobAsks
    <3> QED BY <2>1, <3>3, CallsSame
  <2>3. CASE job' = [job EXCEPT ![w].refused = TRUE, ![w].left = 0] /\ Goto(w, "recording")
    <3> DEFINE jb == [job[w] EXCEPT !.refused = TRUE, !.left = 0]
    <3>1. jb.spent = job[w].spent /\ jb.pair = p
      BY <1>2 DEF Job
    <3>2. job' = [job EXCEPT ![w] = jb] /\ pc' = [pc EXCEPT ![w] = "recording"]
      BY <2>3 DEF Goto
    <3> HIDE DEF jb
    <3>3. \A a \in Sweep \cup Trace : Asked(a)' = Asked(a) /\ (Payer(a)' = Payer(a) \/ Asked(a) = 0)
      <4>1. /\ \A b \in Sweep \cup Trace : b # w => Asked(b)' = Asked(b) /\ Payer(b)' = Payer(b)
            /\ Asked(w) = job[w].spent /\ Payer(w) = ProjOf[job[w].pair]
            /\ Asked(w)' = jb.spent /\ Payer(w)' = ProjOf[jb.pair]
        BY <3>2, JobAsks
      <4> QED BY <4>1, <3>1
    <3> QED BY <2>1, <3>3, CallsSame
  <2>4. \/ ~IsGroup(p) /\ AttemptEnds(w)
        \/ job' = [job EXCEPT ![w].refused = TRUE, ![w].left = 0] /\ Goto(w, "recording")
        \/ job' = [job EXCEPT ![w].left = @ - 1, ![w].spent = @ + 1] /\ ReserveCall(r, j) /\ Goto(w, "judging")
    BY DEF Reserve
  <2> QED BY <1>3, <2>2, <2>3, <2>4
<1> QED BY <1>3, <1>4 DEF Reserve

LEMMA CallsRecord ==
    ASSUME TypeOK, TypeOK', CallsInv, Cap > 0, NEW w \in Sweep, Record(w) \/ RecordFails(w) PROVE CallsInv'
<1> DEFINE p == job[w].pair  j == ProjOf[p]  r == At[w]
<1>1. Judges(w) /\ pc[w] = "recording" /\ job[w].spent > 0
  BY DEF Record, RecordFails, Judges
<1>2. job[w] \in Job /\ job[w].spent \in Nat /\ job[w].left \in Nat /\ j \in Project
  BY <1>1, Attempt
<1>3. PICK n \in Nat : /\ calls' = [calls EXCEPT ![r][j] = calls[r][j] - n]
                       /\ n <= job[w].spent
                       /\ \/ /\ n = job[w].spent
                             /\ job' = [job EXCEPT ![w] = NoJob] /\ pc' = [pc EXCEPT ![w] = "sessions"]
                          \/ /\ n = 1
                             /\ job' = [job EXCEPT ![w].spent = @ - 1] /\ pc' = pc
  <2>1. CASE Record(w) /\ IsGroup(p) /\ job' = [job EXCEPT ![w].spent = @ - 1] /\ UNCHANGED pc
    BY <1>1, <1>2, <2>1 DEF Record, RecordEvent, Counted
  <2>2. CASE Record(w) /\ ~IsGroup(p) /\ AttemptEnds(w)
    <3>1. job[w].spent = 1
      BY <1>1, <1>2, <2>2 DEF TypeOK, LoopsTyped
    <3>2. calls' = [calls EXCEPT ![r][j] = calls[r][j] - 1]
      BY <2>2 DEF Record, RecordEvent, Counted
    <3>3. job' = [job EXCEPT ![w] = NoJob] /\ pc' = [pc EXCEPT ![w] = "sessions"]
      BY <2>2 DEF AttemptEnds, Goto
    <3>4. 1 \in Nat /\ 1 <= job[w].spent
      BY <3>1
    <3> QED BY <3>1, <3>2, <3>3, <3>4
  <2>3. CASE RecordFails(w)
    BY <1>2, <2>3 DEF RecordFails, LoseEvents, Counted, AttemptEnds, Goto
  <2> QED BY <2>1, <2>2, <2>3 DEF Record
<1>4. CASE n = job[w].spent /\ job' = [job EXCEPT ![w] = NoJob] /\ pc' = [pc EXCEPT ![w] = "sessions"]
  <2>1. NoJob.spent = 0
    BY DEF NoJob
  <2>2. /\ \A b \in Sweep \cup Trace : b # w => Asked(b)' = Asked(b) /\ Payer(b)' = Payer(b)
        /\ n <= Asked(w) /\ Asked(w)' = Asked(w) - n /\ Payer(w) = j /\ (Payer(w)' = j \/ Asked(w)' = 0)
    <3>1. /\ \A b \in Sweep \cup Trace : b # w => Asked(b)' = Asked(b) /\ Payer(b)' = Payer(b)
          /\ Asked(w) = job[w].spent /\ Payer(w) = ProjOf[job[w].pair]
          /\ Asked(w)' = NoJob.spent /\ Payer(w)' = ProjOf[NoJob.pair]
      BY <1>4, JobAsks
    <3> QED BY <3>1, <1>2, <1>3, <1>4, <2>1
  <2>3. w \in Sweep \cup Trace /\ j \in Project /\ calls' = [calls EXCEPT ![At[w]][j] = calls[At[w]][j] - n]
    BY <1>2, <1>3
  <2> HIDE DEF j
  <2> QED BY <2>2, <2>3, FewerCalls
<1>5. CASE n = 1 /\ job' = [job EXCEPT ![w].spent = @ - 1] /\ pc' = pc
  <2> DEFINE jb == [job[w] EXCEPT !.spent = job[w].spent - 1]
  <2>1. jb.spent = job[w].spent - 1 /\ jb.pair = p
    BY <1>2 DEF Job
  <2>2. job' = [job EXCEPT ![w] = jb] /\ pc' = [pc EXCEPT ![w] = pc[w]]
    BY <1>5 DEF TypeOK, LoopsTyped
  <2> HIDE DEF jb
  <2>3. /\ \A b \in Sweep \cup Trace : b # w => Asked(b)' = Asked(b) /\ Payer(b)' = Payer(b)
        /\ n <= Asked(w) /\ Asked(w)' = Asked(w) - n /\ Payer(w) = j /\ (Payer(w)' = j \/ Asked(w)' = 0)
    <3>1. /\ \A b \in Sweep \cup Trace : b # w => Asked(b)' = Asked(b) /\ Payer(b)' = Payer(b)
          /\ Asked(w) = job[w].spent /\ Payer(w) = ProjOf[job[w].pair]
          /\ Asked(w)' = jb.spent /\ Payer(w)' = ProjOf[jb.pair]
      BY <2>2, JobAsks
    <3> QED BY <3>1, <1>2, <1>3, <1>5, <2>1
  <2>4. w \in Sweep \cup Trace /\ j \in Project /\ calls' = [calls EXCEPT ![At[w]][j] = calls[At[w]][j] - n]
    BY <1>2, <1>3
  <2> HIDE DEF j
  <2> QED BY <2>3, <2>4, FewerCalls
<1> QED BY <1>3, <1>4, <1>5

LEMMA CallsTrace ==
    ASSUME TypeOK, TypeOK', CallsInv, Cap > 0, NEW t \in Trace, TraceStep(t) PROVE CallsInv'
<1> DEFINE j == ProjOf[t]  r == At[t]
<1>0. t \notin Sweep /\ j \in Project
  BY ProcessAssumption, PairAssumption
<1>1. PICK s \in {"judging", "done"} :
        /\ pc' = [pc EXCEPT ![t] = s]
        /\ \/ s = "judging" /\ pc[t] = "idle" /\ ReserveCall(r, j)
           \/ s = "done" /\ pc[t] = "idle" /\ RefuseCall(r, j)
           \/ s = "done" /\ pc[t] = "judging" /\ (RecordEvent(r, j) \/ LoseEvents(r, j, 1))
  BY DEF TraceStep, Goto
<1>2. job' = job
  BY DEF TraceStep
<1>3. /\ \A b \in Sweep \cup Trace : b # t => Asked(b)' = Asked(b) /\ Payer(b)' = Payer(b)
      /\ Payer(t) = j /\ Payer(t)' = j
      /\ Asked(t) = (IF pc[t] = "judging" THEN 1 ELSE 0) /\ Asked(t)' = IF s = "judging" THEN 1 ELSE 0
  <2>1. t \in Actor /\ pc \in [Actor -> Place] /\ \A b \in Sweep \cup Trace : b \in Actor
    BY DEF TypeOK, LoopsTyped, Actor
  <2> QED BY <1>0, <1>1, <1>2, <2>1 DEF Asked, Payer
<1>4. CASE s = "judging" /\ pc[t] = "idle" /\ ReserveCall(r, j)
  <2>1. calls' = [calls EXCEPT ![r][j] = calls[r][j] + 1]
    BY <1>4 DEF ReserveCall, Counted
  <2>2. Asked(t)' = Asked(t) + 1 /\ Payer(t)' = j /\ Payer(t) = j /\ t \in Sweep \cup Trace /\ j \in Project
    BY <1>0, <1>3, <1>4
  <2> HIDE DEF j
  <2> QED BY <1>3, <2>1, <2>2, OneMoreCall
<1>5. CASE s = "done" /\ pc[t] = "idle" /\ RefuseCall(r, j)
  <2>1. calls' = calls
    BY <1>5 DEF RefuseCall
  <2> QED BY <1>3, <1>5, <2>1, CallsSame
<1>6. CASE s = "done" /\ pc[t] = "judging" /\ (RecordEvent(r, j) \/ LoseEvents(r, j, 1))
  <2>1. calls' = [calls EXCEPT ![r][j] = calls[r][j] - 1]
    BY <1>6 DEF RecordEvent, LoseEvents, Counted
  <2>2. /\ 1 <= Asked(t) /\ Asked(t)' = Asked(t) - 1 /\ Payer(t)' = j /\ Payer(t) = j
        /\ t \in Sweep \cup Trace /\ j \in Project /\ 1 \in Nat
    BY <1>0, <1>3, <1>6
  <2> HIDE DEF j
  <2> QED BY <1>3, <2>1, <2>2, FewerCalls
<1> QED BY <1>1, <1>4, <1>5, <1>6

\* Judging spends no call, and an attempt that ends has none left
LEMMA CallsJudge ==
    ASSUME TypeOK, TypeOK', CallsInv, Cap > 0, NEW w \in Sweep,
           JudgeAnswers(w) \/ Aggregate(w) \/ \E p \in Pair : Take(w, p)
    PROVE  CallsInv'
<1>1. calls' = calls
  BY DEF JudgeAnswers, Aggregate, Take, budgetVars
<1>2. job[w] \in Job
  BY DEF TypeOK, LoopsTyped
<1>3. \E s, jb : /\ pc' = [pc EXCEPT ![w] = s] /\ job' = [job EXCEPT ![w] = jb]
                 /\ jb.spent = job[w].spent /\ (jb.pair = job[w].pair \/ job[w].spent = 0)
  <2>1. CASE JudgeAnswers(w)
    <3>1. CASE job' = job
      <4>1. job' = [job EXCEPT ![w] = job[w]]
        BY <3>1 DEF TypeOK, LoopsTyped
      <4> QED BY <2>1, <4>1 DEF JudgeAnswers, Goto
    <3>2. ASSUME NEW ok, job' = [job EXCEPT ![w].good = @ \/ ok, ![w].failed = @ \/ ~ok]
          PROVE  \E jb : job' = [job EXCEPT ![w] = jb] /\ jb.spent = job[w].spent /\ jb.pair = job[w].pair
      <4> DEFINE jb == [job[w] EXCEPT !.good = @ \/ ok, !.failed = @ \/ ~ok]
      <4>1. job' = [job EXCEPT ![w] = jb]
        BY <3>2
      <4>2. jb.spent = job[w].spent /\ jb.pair = job[w].pair
        BY <1>2 DEF Job
      <4> HIDE DEF jb
      <4> QED BY <4>1, <4>2
    <3>3. CASE job' = [job EXCEPT ![w].failed = TRUE]
      <4> DEFINE jb == [job[w] EXCEPT !.failed = TRUE]
      <4>1. job' = [job EXCEPT ![w] = jb]
        BY <3>3
      <4>2. jb.spent = job[w].spent /\ jb.pair = job[w].pair
        BY <1>2 DEF Job
      <4> HIDE DEF jb
      <4> QED BY <2>1, <4>1, <4>2 DEF JudgeAnswers, Goto
    <3> QED BY <2>1, <3>1, <3>2, <3>3 DEF JudgeAnswers, Goto
  <2>2. CASE Aggregate(w)
    <3>1. job[w].spent = 0 /\ NoJob.spent = 0
      BY <2>2 DEF Aggregate, NoJob
    <3> QED BY <2>2, <3>1 DEF Aggregate, AttemptEnds, Goto
  <2>3. ASSUME NEW p \in Pair, Take(w, p)
        PROVE  \E s, jb : /\ pc' = [pc EXCEPT ![w] = s] /\ job' = [job EXCEPT ![w] = jb]
                          /\ jb.spent = job[w].spent /\ job[w].spent = 0
    <3> DEFINE n == IF Panel[p] = 0 THEN 1 ELSE Panel[p]
               jb == [NoJob EXCEPT !.pair = p, !.read = spans[p], !.left = n]
    <3>1. job[w].spent = 0
      BY <2>3 DEF Take, Considers, TypeOK, LoopsTyped, Judges
    <3>2. jb.spent = 0
      BY DEF NoJob
    <3>3. job' = [job EXCEPT ![w] = jb] /\ pc' = [pc EXCEPT ![w] = "reserving"]
      BY <2>3 DEF Take, Goto
    <3> HIDE DEF jb
    <3> QED BY <3>1, <3>2, <3>3
  <2> QED BY <2>1, <2>2, <2>3
<1>4. PICK s, jb : /\ pc' = [pc EXCEPT ![w] = s] /\ job' = [job EXCEPT ![w] = jb]
                   /\ jb.spent = job[w].spent /\ (jb.pair = job[w].pair \/ job[w].spent = 0)
  BY <1>3
<1>5. /\ \A b \in Sweep \cup Trace : b # w => Asked(b)' = Asked(b) /\ Payer(b)' = Payer(b)
      /\ Asked(w) = job[w].spent /\ Payer(w) = ProjOf[job[w].pair]
      /\ Asked(w)' = jb.spent /\ Payer(w)' = ProjOf[jb.pair]
  BY <1>4, JobAsks
<1>6. \A a \in Sweep \cup Trace : Asked(a)' = Asked(a) /\ (Payer(a)' = Payer(a) \/ Asked(a) = 0)
  BY <1>4, <1>5
<1> QED BY <1>1, <1>6, CallsSame

\* Who neither asks nor answers
LEMMA CallsRest ==
    ASSUME TypeOK, TypeOK', CallsInv, Cap > 0,
           \/ \E p \in Pair : Grow(p) \/ Prune(p) \/ FallsQuiet(p) \/ LeavesWindow(p)
           \/ \E w \in Sweep : \/ TickFires(w) \/ ManualSweep(w) \/ Claim(w) \/ EndSweep(w)
                               \/ EnterProject(w) \/ LeaveProject(w)
                               \/ \E p \in Pair : Skip(w, p) \/ FindPruned(w, p)
           \/ \E c \in Rerun : RerunReads(c) \/ RerunAnswers(c)
           \/ LeaseExpires \/ Midnight \/ UNCHANGED vars
    PROVE  CallsInv'
<1>1. calls' = calls
  BY DEF Grow, Prune, FallsQuiet, LeavesWindow, TickFires, ManualSweep, Claim, EndSweep, EnterProject, LeaveProject, Skip,
         FindPruned, RerunReads, RerunAnswers, LeaseExpires, Midnight, vars, budgetVars
<1>2. \A w \in Sweep : job'[w] = job[w]
  <2>1. CASE \E c \in Rerun : RerunReads(c) \/ RerunAnswers(c)
    BY <2>1, ProcessAssumption DEF RerunReads, RerunAnswers, TypeOK, LoopsTyped
  <2> QED BY <2>1 DEF Grow, Prune, FallsQuiet, LeavesWindow, TickFires, ManualSweep, Claim, EndSweep, EnterProject,
                      LeaveProject, Skip, FindPruned, LeaseExpires, Midnight, vars
<1>3. \A t \in Trace : pc'[t] = pc[t]
  <2>1. \/ pc' = pc
        \/ \E a \in Sweep \cup Rerun : \E s \in Place : pc' = [pc EXCEPT ![a] = s]
    BY DEF Grow, Prune, FallsQuiet, LeavesWindow, TickFires, ManualSweep, Claim, EndSweep, EnterProject, LeaveProject, Skip,
           FindPruned, RerunReads, RerunAnswers, LeaseExpires, Midnight, vars, Goto, Place
  <2> QED BY <2>1, ProcessAssumption DEF TypeOK, LoopsTyped, Actor
<1>4. \A a \in Sweep \cup Trace : Asked(a)' = Asked(a) /\ Payer(a)' = Payer(a)
  BY <1>2, <1>3, ProcessAssumption DEF Asked, Payer
<1> QED BY <1>1, <1>4, CallsSame

LEMMA CallsCrash ==
    ASSUME TypeOK, TypeOK', CallsInv, Cap > 0, NEW r \in Replica, Crash(r) PROVE CallsInv'
<1>1. \A q \in Replica : \A j \in Project : calls'[q][j] = IF q = r THEN 0 ELSE calls[q][j]
  BY DEF Crash, TypeOK, BudgetTyped
<1>2. \A a \in Sweep \cup Trace : At[a] = r => Asked(a)' = 0
  BY CrashedActors, ProcessAssumption DEF Asked, NoJob
<1>3. \A a \in Sweep \cup Trace : At[a] # r => Asked(a)' = Asked(a) /\ Payer(a)' = Payer(a)
  BY CrashedActors DEF Asked, Payer, Actor
<1>4. \A j \in Project : UnderWay(r, j)' = {}
  BY <1>2 DEF UnderWay
<1>5. \A q \in Replica \ {r} : \A j \in Project : UnderWay(q, j)' = UnderWay(q, j)
  BY <1>3 DEF UnderWay
<1>6. ASSUME NEW q \in Replica, NEW j \in Project
      PROVE  IsFiniteSet(UnderWay(q, j)') /\ calls'[q][j] = Cardinality(UnderWay(q, j)')
  <2>1. CASE q = r
    BY <1>1, <1>4, <2>1, FS_EmptySet
  <2>2. CASE q # r
    BY <1>1, <1>5, <2>2 DEF CallsInv
  <2> QED BY <2>1, <2>2
<1> QED BY <1>6 DEF CallsInv

LEMMA CallsStep == TypeOK /\ TypeOK' /\ CallsInv /\ [Next]_vars => CallsInv'
<1> SUFFICES ASSUME TypeOK, TypeOK', CallsInv, [Next]_vars, Cap > 0 PROVE CallsInv'
  BY DEF CallsInv
<1> QED BY CallsReserve, CallsRecord, CallsTrace, CallsJudge, CallsRest, CallsCrash DEF Next, SweepStep

GrantInv ==
    Cap > 0 => \A r \in Replica : \A j \in Project :
        /\ granted[r][j] <= lost[r][j] + calls[r][j] + events[j]
        /\ granted[r][j] <= lost[r][j] + Used(r, j)
        /\ granted[r][j] <= lost[r][j] + Cap

LEMMA UsedIsNat == ASSUME BudgetTyped, NEW r \in Replica, NEW j \in Project PROVE Used(r, j) \in Nat
  BY ProcessAssumption DEF Used, BudgetTyped

\* What one judge call of replica r for project j changes in the counts of replica q for project k:
\* a grant, a refusal, a recorded event or n lost ones; elsewhere only the shared events move.
CountsMove(r, j, n, q, k) ==
    IF q = r /\ k = j
    THEN \/ /\ Used(q, k) < Cap
            /\ granted'[q][k] = granted[q][k] + 1 /\ calls'[q][k] = calls[q][k] + 1
            /\ Used(q, k)' = Used(q, k) + 1
            /\ events'[k] = events[k] /\ lost'[q][k] = lost[q][k]
         \/ /\ Used(q, k)' = Used(q, k)
            /\ granted'[q][k] = granted[q][k] /\ calls'[q][k] = calls[q][k]
            /\ events'[k] = events[k] /\ lost'[q][k] = lost[q][k]
         \/ /\ Used(q, k)' \in {Used(q, k), Used(q, k) + 1}
            /\ granted'[q][k] = granted[q][k] /\ calls'[q][k] = calls[q][k] - 1
            /\ events'[k] = events[k] + 1 /\ lost'[q][k] = lost[q][k]
         \/ /\ Used(q, k)' = Used(q, k)
            /\ granted'[q][k] = granted[q][k] /\ calls'[q][k] = calls[q][k] - n
            /\ events'[k] = events[k] /\ lost'[q][k] = lost[q][k] + n
    ELSE /\ Used(q, k)' \in {Used(q, k), Used(q, k) + 1}
         /\ granted'[q][k] = granted[q][k] /\ calls'[q][k] = calls[q][k]
         /\ events'[k] \in {events[k], events[k] + 1} /\ lost'[q][k] = lost[q][k]

\* What a call of the budget does to each replica and project
LEMMA BudgetEffect ==
    ASSUME BudgetTyped, Cap > 0, NEW r \in Replica, NEW j \in Project, NEW n \in Nat,
           ReserveCall(r, j) \/ RefuseCall(r, j) \/ RecordEvent(r, j) \/ LoseEvents(r, j, n)
    PROVE  \A q \in Replica : \A k \in Project : CountsMove(r, j, n, q, k)
<1> USE DEF BudgetTyped, CountsMove
<1>1. Used(r, j) \in Nat /\ Cap # 0
  BY UsedIsNat, NumberAssumption
<1>2. CASE ReserveCall(r, j)
  <2>1. /\ Used(r, j) < Cap /\ UNCHANGED <<events, lost>>
        /\ spend' = [spend EXCEPT ![r][j] = Used(r, j) + 1] /\ Used(r, j) + 1 \in Nat \cup {Unseeded}
        /\ granted' = [granted EXCEPT ![r][j] = granted[r][j] + 1] /\ granted[r][j] + 1 \in Nat
        /\ calls' = [calls EXCEPT ![r][j] = calls[r][j] + 1] /\ calls[r][j] + 1 \in Int
    BY <1>1, <1>2 DEF ReserveCall, Counted
  <2>2. \A q \in Replica : \A k \in Project :
           /\ spend'[q][k] = IF q = r /\ k = j THEN Used(r, j) + 1 ELSE spend[q][k]
           /\ granted'[q][k] = IF q = r /\ k = j THEN granted[r][j] + 1 ELSE granted[q][k]
           /\ calls'[q][k] = IF q = r /\ k = j THEN calls[r][j] + 1 ELSE calls[q][k]
    BY <2>1, TableEntry
  <2>3. Used(r, j)' = Used(r, j) + 1 /\ \A q \in Replica : \A k \in Project :
           ~(q = r /\ k = j) => Used(q, k)' = Used(q, k)
    <3>1. Used(r, j) + 1 # Unseeded
      BY <1>1, ProcessAssumption
    <3>2. Used(r, j)' = Used(r, j) + 1
      <4>1. spend'[r][j] = Used(r, j) + 1
        BY <2>2
      <4>2. Used(r, j)' = IF spend'[r][j] = Unseeded THEN events'[j] ELSE spend'[r][j]
        BY DEF Used
      <4> QED BY <3>1, <4>1, <4>2
    <3> QED BY <2>1, <2>2, <3>2 DEF Used
  <2> QED BY <2>1, <2>2, <2>3
<1>3. CASE RefuseCall(r, j)
  <2>1. /\ UNCHANGED <<events, granted, calls, lost>>
        /\ spend' = [spend EXCEPT ![r][j] = Used(r, j)] /\ Used(r, j) \in Nat \cup {Unseeded}
    BY <1>1, <1>3 DEF RefuseCall
  <2>2. \A q \in Replica : \A k \in Project :
           spend'[q][k] = IF q = r /\ k = j THEN Used(r, j) ELSE spend[q][k]
    BY <2>1, TableEntry
  <2>3. \A q \in Replica : \A k \in Project : Used(q, k)' = Used(q, k)
    <3>1. Used(r, j) # Unseeded
      BY <1>1, ProcessAssumption
    <3>2. Used(r, j)' = Used(r, j)
      <4>1. spend'[r][j] = Used(r, j)
        BY <2>2
      <4>2. Used(r, j)' = IF spend'[r][j] = Unseeded THEN events'[j] ELSE spend'[r][j]
        BY DEF Used
      <4> QED BY <3>1, <4>1, <4>2
    <3> QED BY <2>1, <2>2, <3>2 DEF Used
  <2> QED BY <2>1, <2>3
<1>4. CASE RecordEvent(r, j)
  <2>1. /\ UNCHANGED <<spend, granted, lost>> /\ events' = [events EXCEPT ![j] = events[j] + 1]
        /\ calls' = [calls EXCEPT ![r][j] = calls[r][j] - 1] /\ calls[r][j] - 1 \in Int
    BY <1>1, <1>4 DEF RecordEvent, Counted
  <2>2. \A q \in Replica : \A k \in Project :
           calls'[q][k] = IF q = r /\ k = j THEN calls[r][j] - 1 ELSE calls[q][k]
    BY <2>1, TableEntry
  <2>3. \A k \in Project : events'[k] = IF k = j THEN events[k] + 1 ELSE events[k]
    BY <2>1
  <2>4. \A q \in Replica : \A k \in Project : Used(q, k)' \in {Used(q, k), Used(q, k) + 1}
    BY <2>1, <2>3 DEF Used
  <2> QED BY <2>1, <2>2, <2>3, <2>4
<1>5. CASE LoseEvents(r, j, n)
  <2>1. /\ UNCHANGED <<events, spend, granted>>
        /\ calls' = [calls EXCEPT ![r][j] = calls[r][j] - n] /\ calls[r][j] - n \in Int
        /\ lost' = [lost EXCEPT ![r][j] = lost[r][j] + n] /\ lost[r][j] + n \in Int
    BY <1>1, <1>5 DEF LoseEvents, Counted
  <2>2. \A q \in Replica : \A k \in Project :
           /\ calls'[q][k] = IF q = r /\ k = j THEN calls[r][j] - n ELSE calls[q][k]
           /\ lost'[q][k] = IF q = r /\ k = j THEN lost[r][j] + n ELSE lost[q][k]
    BY <2>1, TableEntry
  <2>3. \A q \in Replica : \A k \in Project : Used(q, k)' = Used(q, k)
    BY <2>1 DEF Used
  <2> QED BY <2>1, <2>2, <2>3
<1> QED BY <1>2, <1>3, <1>4, <1>5

\* So what it grants is covered
LEMMA GrantCall ==
    ASSUME BudgetTyped, BudgetTyped', GrantInv, NEW r \in Replica, NEW j \in Project, NEW n \in Nat,
           ReserveCall(r, j) \/ RefuseCall(r, j) \/ RecordEvent(r, j) \/ LoseEvents(r, j, n)
    PROVE  GrantInv'
<1> SUFFICES ASSUME Cap > 0, NEW q \in Replica, NEW k \in Project
             PROVE  /\ granted'[q][k] <= lost'[q][k] + calls'[q][k] + events'[k]
                    /\ granted'[q][k] <= lost'[q][k] + Used(q, k)'
                    /\ granted'[q][k] <= lost'[q][k] + Cap
  BY DEF GrantInv
<1>1. /\ granted[q][k] \in Nat /\ lost[q][k] \in Int /\ calls[q][k] \in Int /\ events[k] \in Nat
      /\ Used(q, k) \in Nat /\ Cap \in Nat
  BY UsedIsNat, NumberAssumption DEF BudgetTyped
<1>2. /\ granted[q][k] <= lost[q][k] + calls[q][k] + events[k]
      /\ granted[q][k] <= lost[q][k] + Used(q, k) /\ granted[q][k] <= lost[q][k] + Cap
  BY DEF GrantInv
<1>3. CountsMove(r, j, n, q, k)
  BY BudgetEffect
<1> QED BY <1>1, <1>2, <1>3 DEF CountsMove

LEMMA GrantStep == TypeOK /\ TypeOK' /\ CallsInv /\ GrantInv /\ [Next]_vars => GrantInv'
<1> SUFFICES ASSUME TypeOK, TypeOK', CallsInv, GrantInv, [Next]_vars PROVE GrantInv'
  OBVIOUS
<1>0. BudgetTyped /\ BudgetTyped' /\ 1 \in Nat
  BY DEF TypeOK
<1>1. ASSUME UNCHANGED budgetVars PROVE GrantInv'
  <2>1. \A r \in Replica : \A j \in Project : Used(r, j)' = Used(r, j)
    BY <1>1 DEF Used, budgetVars
  <2> QED BY <1>1, <2>1 DEF GrantInv, budgetVars
<1>2. ASSUME NEW w \in Sweep, Reserve(w) \/ Record(w) \/ RecordFails(w) PROVE GrantInv'
  <2>1. Judges(w)
    BY <1>2 DEF Reserve, Record, RecordFails, Judges
  <2>2. At[w] \in Replica /\ ProjOf[job[w].pair] \in Project /\ job[w].spent \in Nat
    BY <2>1, Attempt
  <2> QED BY <1>0, <1>2, <2>2, GrantCall DEF Reserve, Record, RecordFails
<1>3. ASSUME NEW t \in Trace, TraceStep(t) PROVE GrantInv'
  <2>1. At[t] \in Replica /\ ProjOf[t] \in Project
    BY ProcessAssumption, PairAssumption
  <2> QED BY <1>0, <1>3, <2>1, GrantCall DEF TraceStep
<1>4. ASSUME NEW r \in Replica, Crash(r) PROVE GrantInv'
  <2> SUFFICES ASSUME Cap > 0, NEW q \in Replica, NEW k \in Project
               PROVE  /\ granted'[q][k] <= lost'[q][k] + calls'[q][k] + events'[k]
                      /\ granted'[q][k] <= lost'[q][k] + Used(q, k)'
                      /\ granted'[q][k] <= lost'[q][k] + Cap
    BY DEF GrantInv
  <2>1. /\ granted[q][k] \in Nat /\ lost[q][k] \in Int /\ calls[q][k] \in Nat /\ events[k] \in Nat
        /\ Used(q, k) \in Nat /\ Cap \in Nat
    BY <1>0, UsedIsNat, NumberAssumption, FS_CardinalityType DEF BudgetTyped, CallsInv
  <2>2. /\ granted[q][k] <= lost[q][k] + calls[q][k] + events[k]
        /\ granted[q][k] <= lost[q][k] + Used(q, k) /\ granted[q][k] <= lost[q][k] + Cap
    BY DEF GrantInv
  <2>3. /\ granted'[q][k] = granted[q][k] /\ events'[k] = events[k]
        /\ IF q = r THEN /\ calls'[q][k] = 0 /\ lost'[q][k] = lost[q][k] + calls[q][k]
                         /\ spend'[q][k] = Unseeded
           ELSE /\ calls'[q][k] = calls[q][k] /\ lost'[q][k] = lost[q][k] /\ spend'[q][k] = spend[q][k]
    BY <1>0, <1>4 DEF Crash, BudgetTyped
  <2>4. Used(q, k)' = IF q = r THEN events[k] ELSE Used(q, k)
    BY <2>3 DEF Used
  <2> QED BY <2>1, <2>2, <2>3, <2>4
<1>5. CASE Midnight
  <2> SUFFICES ASSUME Cap > 0, NEW q \in Replica, NEW k \in Project
               PROVE  /\ granted'[q][k] <= lost'[q][k] + calls'[q][k] + events'[k]
                      /\ granted'[q][k] <= lost'[q][k] + Used(q, k)'
                      /\ granted'[q][k] <= lost'[q][k] + Cap
    BY DEF GrantInv
  <2>1. calls[q][k] \in Nat /\ Cap \in Nat
    BY NumberAssumption, FS_CardinalityType DEF CallsInv
  <2>2. /\ granted'[q][k] = 0 /\ lost'[q][k] = 0 /\ events'[k] = 0 /\ calls'[q][k] = calls[q][k]
        /\ Used(q, k)' = 0
    BY <1>5 DEF Midnight, Used
  <2> QED BY <2>1, <2>2
<1>6. CASE UNCHANGED budgetVars
  BY <1>1, <1>6
<1>7. \/ UNCHANGED budgetVars
      \/ \E w \in Sweep : Reserve(w) \/ Record(w) \/ RecordFails(w)
      \/ \E t \in Trace : TraceStep(t)
      \/ \E r \in Replica : Crash(r)
      \/ Midnight
  <2>1. ASSUME NEW p \in Pair, Grow(p) \/ Prune(p) \/ FallsQuiet(p) \/ LeavesWindow(p) PROVE UNCHANGED budgetVars
    BY <2>1 DEF Grow, Prune, FallsQuiet, LeavesWindow
  <2>2. ASSUME NEW w \in Sweep, TickFires(w) \/ ManualSweep(w) \/ Claim(w) \/ EndSweep(w)
        PROVE  UNCHANGED budgetVars
    BY <2>2 DEF TickFires, ManualSweep, Claim, EndSweep
  <2>3. ASSUME NEW w \in Sweep, NEW p \in Pair,
               Skip(w, p) \/ FindPruned(w, p) \/ Take(w, p)
        PROVE  UNCHANGED budgetVars
    BY <2>3 DEF Skip, FindPruned, Take
  <2>4. ASSUME NEW w \in Sweep, JudgeAnswers(w) \/ Aggregate(w) PROVE UNCHANGED budgetVars
    BY <2>4 DEF JudgeAnswers, Aggregate
  <2>5. ASSUME NEW c \in Rerun, RerunReads(c) \/ RerunAnswers(c) PROVE UNCHANGED budgetVars
    BY <2>5 DEF RerunReads, RerunAnswers
  <2>6. LeaseExpires \/ UNCHANGED vars => UNCHANGED budgetVars
    BY DEF LeaseExpires, vars
  <2>7. ASSUME NEW w \in Sweep, EnterProject(w) \/ LeaveProject(w) PROVE UNCHANGED budgetVars
    BY <2>7 DEF EnterProject, LeaveProject
  <2> QED BY <2>1, <2>2, <2>3, <2>4, <2>5, <2>6, <2>7 DEF Next, SweepStep
<1> QED BY <1>2, <1>3, <1>4, <1>5, <1>6, <1>7

\* Across crashes and midnights a replica makes at most Cap judge calls a day
\* for a project, and one more for each that left no event, for any number of
\* replicas, sweeps and traces (reserveOnlineJudgeCall).
THEOREM BudgetIsKept == Spec => []BudgetHolds
<1>1. Init => CallsInv /\ GrantInv
  <2> SUFFICES ASSUME Init PROVE CallsInv /\ GrantInv
    OBVIOUS
  <2>1. \A a \in Sweep \cup Trace : Asked(a) = 0
    BY DEF Init, Asked, NoJob, Actor
  <2>2. \A r \in Replica : \A j \in Project : UnderWay(r, j) = {}
    BY <2>1 DEF UnderWay
  <2>3. CallsInv
    BY <2>2, FS_EmptySet DEF CallsInv, Init
  <2>4. GrantInv
    <3>1. \A r \in Replica : \A j \in Project :
             /\ granted[r][j] = 0 /\ lost[r][j] = 0 /\ calls[r][j] = 0 /\ events[j] = 0 /\ Used(r, j) = 0
      BY DEF Init, Used
    <3>2. Cap \in Nat
      BY NumberAssumption
    <3> QED BY <3>1, <3>2 DEF GrantInv
  <2> QED BY <2>3, <2>4
<1>2. TypeOK /\ GrantInv => BudgetHolds
  <2> SUFFICES ASSUME TypeOK, GrantInv, Cap > 0, NEW r \in Replica, NEW j \in Project
               PROVE  granted[r][j] <= Cap + lost[r][j]
    BY DEF BudgetHolds
  <2>1. granted[r][j] <= lost[r][j] + Cap
    BY DEF GrantInv
  <2>2. granted[r][j] \in Nat /\ lost[r][j] \in Int /\ Cap \in Nat
    BY NumberAssumption DEF TypeOK, BudgetTyped
  <2> QED BY <2>1, <2>2
<1> QED BY <1>1, <1>2, CallsStep, GrantStep, TypeHolds, PTL DEF Spec

-----------------------------------------------------------------------------
(* Freshness: a process does not pay twice for the same spans of a session. *)
(*                                                                          *)
(* What has arrived since a score was stored is more than the score had     *)
(* read (ScoresLag), so a sweep that finds a session unscored since its     *)
(* last activity reads more than the last score did.  Knows says that this  *)
(* stays true while the judge works: of the sweeps of its process no other  *)
(* is in the same project.                                                  *)

\* A score has read no span that arrived with a later activity
ScoresLag ==
    \A p \in Pair :
        /\ score[p].at <= activity[p]
        /\ spans[p] # 0 => score[p].read + (activity[p] - score[p].at) <= spans[p]

InSession(a) == spans[job[a].pair] # 0 => job[a].read <= spans[job[a].pair]

\* What a sweep knows of the sessions it has listed and of the one it judges
Knows(w) ==
    /\ InProject(w) => \A p \in DOMAIN loop[w].cands :
          p \in Pair /\ ProjOf[p] = Head(loop[w].todo) /\ loop[w].cands[p] <= activity[p]
    /\ Judges(w) => ProjOf[job[w].pair] = Head(loop[w].todo) /\ InSession(w)
    /\ pc[w] = "judging" => job[w].spent > 0
    /\ pc[w] \in {"reserving", "judging"} /\ score[job[w].pair].by = At[w] =>
          score[job[w].pair].read < job[w].read

KnowsRerun(c) == pc[c] = "judging" => job[c].pair = RerunOf[c] /\ InSession(c)

FreshInv == ScoresLag /\ (\A w \in Sweep : Knows(w)) /\ (\A c \in Rerun : KnowsRerun(c))

\* Sessions grow or are gone
WorldGoesOn ==
    \A p \in Pair : /\ activity[p] <= activity'[p]
                    /\ spans'[p] # 0 => spans[p] # 0 /\ spans[p] <= spans'[p]

-----------------------------------------------------------------------------
(* Who is left alone by a step *)

\* A sweep that a step leaves alone knows what it knew, unless its process
\* stores a score of the session it judges
LEMMA KnowsOn ==
    ASSUME TypeOK, TypeOK', NEW w \in Sweep, Knows(w), WorldGoesOn,
           pc'[w] = pc[w], loop'[w] = loop[w], job'[w] = job[w],
           pc[w] \in {"reserving", "judging"} =>
               \/ score'[job[w].pair] = score[job[w].pair]
               \/ score'[job[w].pair].by # At[w]
    PROVE  Knows(w)'
<1> USE DEF Knows, InProject, Judges, InSession, WorldGoesOn
<1>1. loop[w] \in Loop /\ job[w] \in Job
  BY DEF TypeOK, LoopsTyped
<1>2. ASSUME InProject(w), NEW p \in DOMAIN loop[w].cands
      PROVE  p \in Pair /\ ProjOf[p] = Head(loop[w].todo) /\ loop[w].cands[p] <= activity'[p]
  <2>1. p \in Pair /\ ProjOf[p] = Head(loop[w].todo) /\ loop[w].cands[p] <= activity[p]
    BY <1>2
  <2>2. loop[w].cands[p] \in Nat
    BY <1>1 DEF Loop, Listing
  <2>3. activity[p] \in Nat /\ activity'[p] \in Nat /\ activity[p] <= activity'[p]
    BY <2>1 DEF TypeOK, SessionsTyped
  <2> QED BY <2>1, <2>2, <2>3
<1>3. ASSUME Judges(w)
      PROVE  spans'[job[w].pair] # 0 => job[w].read <= spans'[job[w].pair]
  <2>1. job[w].pair \in Pair /\ job[w].read \in Nat
    BY <1>1, <1>3 DEF TypeOK, LoopsTyped, Job
  <2>2. spans[job[w].pair] \in Nat /\ spans'[job[w].pair] \in Nat
    BY <2>1 DEF TypeOK, SessionsTyped
  <2>3. spans'[job[w].pair] # 0 => spans[job[w].pair] # 0 /\ spans[job[w].pair] <= spans'[job[w].pair]
    BY <2>1
  <2>4. spans[job[w].pair] # 0 => job[w].read <= spans[job[w].pair]
    BY <1>3
  <2> QED BY <2>1, <2>2, <2>3, <2>4
<1>4. pc[w] \in {"reserving", "judging"} /\ score'[job[w].pair].by = At[w] =>
          score'[job[w].pair].read < job[w].read
  OBVIOUS
<1> QED BY <1>2, <1>3, <1>4

LEMMA KnowsRerunOn ==
    ASSUME TypeOK, TypeOK', NEW c \in Rerun, KnowsRerun(c), WorldGoesOn,
           pc'[c] = pc[c], job'[c] = job[c]
    PROVE  KnowsRerun(c)'
<1> USE DEF KnowsRerun, InSession, WorldGoesOn
<1> SUFFICES ASSUME pc[c] = "judging", spans'[job[c].pair] # 0 PROVE job[c].read <= spans'[job[c].pair]
  OBVIOUS
<1>1. job[c].pair \in Pair /\ job[c].read \in Nat
  BY DEF TypeOK, LoopsTyped, Job
<1>2. spans[job[c].pair] \in Nat /\ spans'[job[c].pair] \in Nat
  BY <1>1 DEF TypeOK, SessionsTyped
<1>3. spans[job[c].pair] # 0 /\ spans[job[c].pair] <= spans'[job[c].pair]
  BY <1>1
<1> QED BY <1>1, <1>2, <1>3

\* Without an event in the sessions
LEMMA SameWorld ==
    ASSUME TypeOK, UNCHANGED <<spans, activity>> PROVE WorldGoesOn
  BY DEF WorldGoesOn, TypeOK, SessionsTyped

\* A step of one sweep that stores no score
LEMMA OneSweepMoves ==
    ASSUME TypeOK, TypeOK', FreshInv, NEW w \in Sweep, UNCHANGED <<spans, activity, score>>,
           \A v \in Sweep : v # w => pc'[v] = pc[v] /\ loop'[v] = loop[v] /\ job'[v] = job[v],
           \A c \in Rerun : pc'[c] = pc[c] /\ job'[c] = job[c],
           Knows(w)'
    PROVE  FreshInv'
<1>1. WorldGoesOn
  BY SameWorld
<1>2. ScoresLag'
  BY DEF FreshInv, ScoresLag
<1>3. \A v \in Sweep : v # w => Knows(v)'
  BY <1>1, KnowsOn DEF FreshInv
<1>4. \A c \in Rerun : KnowsRerun(c)'
  BY <1>1, KnowsRerunOn DEF FreshInv
<1> QED BY <1>2, <1>3, <1>4 DEF FreshInv

-----------------------------------------------------------------------------
(* Sessions and time *)

LEMMA FreshSession ==
    ASSUME TypeOK, TypeOK', FreshInv, NEW q \in Pair, Grow(q) \/ Prune(q) \/ FallsQuiet(q) \/ LeavesWindow(q)
    PROVE  FreshInv'
<1>0. /\ UNCHANGED <<score, pc, loop, job>>
      /\ \A p \in Pair : spans[p] \in Nat /\ activity[p] \in Nat
      /\ \A p \in Pair : score[p].read \in Nat /\ score[p].at \in Nat
  BY DEF Grow, Prune, FallsQuiet, LeavesWindow, TypeOK, SessionsTyped
<1>1. \A p \in Pair :
         /\ activity'[p] \in {activity[p], activity[p] + 1}
         /\ \/ spans'[p] = 0
            \/ spans'[p] = spans[p] /\ activity'[p] = activity[p]
            \/ spans[p] # 0 /\ spans'[p] = spans[p] + 1
  BY DEF Grow, Prune, FallsQuiet, LeavesWindow, TypeOK, SessionsTyped
<1>2. WorldGoesOn
  BY <1>0, <1>1 DEF WorldGoesOn
<1>3. ASSUME NEW p \in Pair
      PROVE  /\ score[p].at <= activity'[p]
             /\ spans'[p] # 0 => score[p].read + (activity'[p] - score[p].at) <= spans'[p]
  <2>1. score[p].at <= activity[p]
        /\ (spans[p] # 0 => score[p].read + (activity[p] - score[p].at) <= spans[p])
    BY DEF FreshInv, ScoresLag
  <2> QED BY <1>0, <1>1, <2>1
<1>4. ScoresLag'
  BY <1>0, <1>3 DEF ScoresLag
<1>5. \A w \in Sweep : Knows(w)'
  BY <1>0, <1>2, KnowsOn DEF FreshInv
<1>6. \A c \in Rerun : KnowsRerun(c)'
  BY <1>0, <1>2, KnowsRerunOn DEF FreshInv
<1> QED BY <1>4, <1>5, <1>6 DEF FreshInv

LEMMA FreshRest ==
    ASSUME TypeOK, TypeOK', FreshInv,
           LeaseExpires \/ Midnight \/ UNCHANGED vars \/ (\E t \in Trace : TraceStep(t))
    PROVE  FreshInv'
<1>1. /\ UNCHANGED <<spans, activity, score, loop, job>>
      /\ \A a \in Sweep \cup Rerun : pc'[a] = pc[a]
  <2>1. pc \in [Actor -> Place] /\ (Sweep \cup Rerun) \subseteq Actor /\ Trace \cap (Sweep \cup Rerun) = {}
    BY ProcessAssumption DEF TypeOK, LoopsTyped, Actor
  <2>2. CASE LeaseExpires \/ Midnight \/ UNCHANGED vars
    BY <2>2 DEF LeaseExpires, Midnight, vars, sessionVars
  <2>3. CASE \E t \in Trace : TraceStep(t)
    <3>1. PICK t \in Trace : TraceStep(t)
      BY <2>3
    <3>2. /\ UNCHANGED <<spans, activity, score, loop, job>>
          /\ \E s \in {"judging", "done"} : pc' = [pc EXCEPT ![t] = s]
      BY <3>1 DEF TraceStep, sessionVars, Goto
    <3> QED BY <2>1, <3>2
  <2> QED BY <2>2, <2>3
<1>2. WorldGoesOn
  BY <1>1, SameWorld
<1>3. ScoresLag'
  BY <1>1 DEF FreshInv, ScoresLag
<1>4. \A w \in Sweep : Knows(w)'
  BY <1>1, <1>2, KnowsOn DEF FreshInv
<1>5. \A c \in Rerun : KnowsRerun(c)'
  BY <1>1, <1>2, KnowsRerunOn DEF FreshInv
<1> QED BY <1>3, <1>4, <1>5 DEF FreshInv

LEMMA FreshCrash ==
    ASSUME TypeOK, TypeOK', FreshInv, NEW r \in Replica, Crash(r) PROVE FreshInv'
<1>0. UNCHANGED <<spans, activity, score>>
  BY DEF Crash, sessionVars
<1>1. WorldGoesOn
  BY <1>0, SameWorld
<1>2. ScoresLag'
  BY <1>0 DEF FreshInv, ScoresLag
<1>3. ASSUME NEW w \in Sweep PROVE Knows(w)'
  <2>1. CASE At[w] = r
    <3>1. pc'[w] = "idle"
      BY <2>1, CrashedActors
    <3> QED BY <3>1 DEF Knows, InProject, Judges
  <2>2. CASE At[w] # r
    <3>1. pc'[w] = pc[w] /\ loop'[w] = loop[w] /\ job'[w] = job[w]
      BY <2>2, CrashedActors DEF Actor
    <3> QED BY <1>0, <1>1, <3>1, KnowsOn DEF FreshInv
  <2> QED BY <2>1, <2>2
<1>4. ASSUME NEW c \in Rerun PROVE KnowsRerun(c)'
  <2>1. CASE At[c] = r
    <3>1. pc'[c] = "done"
      BY <2>1, CrashedActors
    <3> QED BY <3>1 DEF KnowsRerun
  <2>2. CASE At[c] # r
    <3>1. pc'[c] = pc[c] /\ job'[c] = job[c]
      BY <2>2, CrashedActors DEF Actor
    <3> QED BY <1>1, <3>1, KnowsRerunOn DEF FreshInv
  <2> QED BY <2>1, <2>2
<1> QED BY <1>2, <1>3, <1>4 DEF FreshInv

-----------------------------------------------------------------------------
(* The sweep and its listing *)

LEMMA OthersStand ==
    ASSUME TypeOK, NEW w \in Sweep, NEW l, NEW s, loop' = [loop EXCEPT ![w] = l],
           pc' = pc \/ pc' = [pc EXCEPT ![w] = s]
    PROVE  /\ \A v \in Sweep : v # w => pc'[v] = pc[v] /\ loop'[v] = loop[v]
           /\ \A c \in Rerun : pc'[c] = pc[c]
           /\ loop'[w] = l /\ pc'[w] \in {s, pc[w]}
<1>1. pc \in [Actor -> Place] /\ loop \in [Sweep -> Loop] /\ w \notin Rerun
      /\ w \in Actor /\ Sweep \subseteq Actor /\ Rerun \subseteq Actor
  BY ProcessAssumption DEF TypeOK, LoopsTyped, Actor
<1> QED BY <1>1

LEMMA FreshElection ==
    ASSUME TypeOK, TypeOK', FreshInv, NEW w \in Sweep,
           TickFires(w) \/ Claim(w) \/ ManualSweep(w) \/ EndSweep(w) \/ LeaveProject(w)
    PROVE  FreshInv'
<1>1. UNCHANGED <<spans, activity, score, job>>
  BY DEF TickFires, Claim, ManualSweep, EndSweep, LeaveProject, sessionVars
<1>2. ASSUME NEW l, NEW s \in {"idle", "leased", "next"}, loop' = [loop EXCEPT ![w] = l],
             (pc' = pc /\ pc[w] = s) \/ pc' = [pc EXCEPT ![w] = s]
      PROVE  FreshInv'
  <2>1. /\ \A v \in Sweep : v # w => pc'[v] = pc[v] /\ loop'[v] = loop[v]
        /\ \A c \in Rerun : pc'[c] = pc[c]
        /\ pc'[w] = s
    <3>1. pc' = pc \/ pc' = [pc EXCEPT ![w] = s]
      BY <1>2
    <3>2. w \in DOMAIN pc
      BY DEF TypeOK, LoopsTyped, Actor
    <3> QED BY <1>2, <3>1, <3>2, OthersStand
  <2>2. Knows(w)'
    BY <2>1 DEF Knows, InProject, Judges
  <2> QED BY <1>1, <2>1, <2>2, OneSweepMoves
<1>3. loop = [loop EXCEPT ![w] = loop[w]]
  BY DEF TypeOK, LoopsTyped
<1>4. CASE TickFires(w)
  <2>1. loop' = loop /\ ((pc' = pc /\ pc[w] = "idle") \/ pc' = [pc EXCEPT ![w] = "leased"])
    BY <1>4 DEF TickFires, Goto
  <2> QED BY <1>2, <1>3, <2>1
<1>5. CASE Claim(w)
  <2>1. \/ loop' = loop /\ pc' = [pc EXCEPT ![w] = "idle"]
        \/ /\ loop' = [loop EXCEPT ![w] = [NoLoop EXCEPT !.todo = Rotated(sweepTick[At[w]])]]
           /\ pc' = [pc EXCEPT ![w] = "next"]
    BY <1>5 DEF Claim, Goto
  <2> QED BY <1>2, <1>3, <2>1
<1>6. CASE ManualSweep(w)
  <2>1. loop' = [loop EXCEPT ![w] = [NoLoop EXCEPT !.todo = <<ScopeOf[w]>>]]
        /\ pc' = [pc EXCEPT ![w] = "next"]
    BY <1>6 DEF ManualSweep, Goto
  <2> QED BY <1>2, <2>1
<1>7. CASE EndSweep(w)
  <2>1. loop' = [loop EXCEPT ![w] = NoLoop] /\ pc' = [pc EXCEPT ![w] = "idle"]
    BY <1>7 DEF EndSweep, Goto
  <2> QED BY <1>2, <2>1
<1>8. CASE LeaveProject(w)
  <2>1. loop' = [loop EXCEPT ![w] = [loop[w] EXCEPT !.todo = Tail(loop[w].todo), !.cands = NoLoop.cands]]
        /\ pc' = [pc EXCEPT ![w] = "next"]
    BY <1>8 DEF LeaveProject, Goto
  <2> QED BY <1>2, <2>1
<1> QED BY <1>4, <1>5, <1>6, <1>7, <1>8

LEMMA FreshEnter ==
    ASSUME TypeOK, TypeOK', FreshInv, NEW w \in Sweep, EnterProject(w) PROVE FreshInv'
<1>0. loop[w] \in Loop /\ pc[w] = "next" /\ pc \in [Actor -> Place] /\ loop \in [Sweep -> Loop] /\ w \in Actor
  BY DEF TypeOK, LoopsTyped, EnterProject, Actor
<1>1. UNCHANGED <<spans, activity, score, job>>
  BY DEF EnterProject, sessionVars
<1>2. /\ \A v \in Sweep : v # w => pc'[v] = pc[v] /\ loop'[v] = loop[v]
      /\ \A c \in Rerun : pc'[c] = pc[c]
  <2>1. CASE PassesOver(w, Head(loop[w].todo))
    <3>1. loop' = [loop EXCEPT ![w] = [loop[w] EXCEPT !.todo = Tail(loop[w].todo)]] /\ pc' = pc
      BY <2>1 DEF EnterProject
    <3> QED BY <3>1, OthersStand
  <2>2. CASE ~PassesOver(w, Head(loop[w].todo))
    <3> DEFINE c == [p \in Listed(Head(loop[w].todo)) |-> activity[p]]
    <3>1. loop' = [loop EXCEPT ![w] = [loop[w] EXCEPT !.cands = c, !.budgetGone = FALSE]]
          /\ pc' = [pc EXCEPT ![w] = "sessions"]
      BY <2>2 DEF EnterProject, Goto
    <3> HIDE DEF c
    <3> QED BY <3>1, OthersStand
  <2> QED BY <2>1, <2>2
<1>4. Knows(w)'
  <2>1. CASE pc' = pc
    BY <1>0, <2>1 DEF Knows, InProject, Judges
  <2>2. CASE /\ loop' = [loop EXCEPT
                   ![w].cands = [p \in Listed(Head(loop[w].todo)) |-> activity[p]],
                   ![w].budgetGone = FALSE]
             /\ Goto(w, "sessions")
    <3> DEFINE c == [p \in Listed(Head(loop[w].todo)) |-> activity[p]]
    <3>1. loop' = [loop EXCEPT ![w] = [loop[w] EXCEPT !.cands = c, !.budgetGone = FALSE]]
      BY <2>2
    <3>2. \A p \in DOMAIN c : p \in Pair /\ ProjOf[p] = Head(loop[w].todo) /\ c[p] = activity[p] /\ activity[p] \in Nat
      BY DEF TypeOK, SessionsTyped, Listed
    <3> HIDE DEF c
    <3>3. [loop[w] EXCEPT !.cands = c, !.budgetGone = FALSE].cands = c
          /\ [loop[w] EXCEPT !.cands = c, !.budgetGone = FALSE].todo = loop[w].todo
      BY <1>0 DEF Loop
    <3>4. loop'[w].cands = c /\ loop'[w].todo = loop[w].todo
      BY <1>0, <3>1, <3>3
    <3>5. pc'[w] = "sessions"
      BY <1>0, <2>2 DEF Goto
    <3>6. \A p \in DOMAIN c : c[p] <= activity[p]
      BY <3>2
    <3> QED BY <1>1, <3>2, <3>4, <3>5, <3>6 DEF Knows, Judges
  <2> QED BY <2>1, <2>2 DEF EnterProject
<1> QED BY <1>1, <1>2, <1>4, OneSweepMoves

\* A pair is taken off the list
LEMMA FewerListed ==
    ASSUME NEW f \in Listing, NEW x
    PROVE  /\ DOMAIN Without(f, x) \subseteq DOMAIN f
           /\ \A p \in DOMAIN Without(f, x) : Without(f, x)[p] = f[p]
  BY DEF Without

LEMMA FreshSkip ==
    ASSUME TypeOK, TypeOK', FreshInv, NEW w \in Sweep, NEW p \in Pair, Skip(w, p) \/ FindPruned(w, p)
    PROVE  FreshInv'
<1> DEFINE c == Without(loop[w].cands, p)
<1>0. loop[w] \in Loop /\ loop \in [Sweep -> Loop] /\ loop[w].cands \in Listing
  BY DEF TypeOK, LoopsTyped, Loop
<1>1. UNCHANGED <<spans, activity, score, job, pc>> /\ pc[w] = "sessions"
      /\ loop' = [loop EXCEPT ![w].cands = c]
  BY DEF Skip, FindPruned, Considers, sessionVars
<1>2. DOMAIN c \subseteq DOMAIN loop[w].cands /\ \A q \in DOMAIN c : c[q] = loop[w].cands[q]
  BY <1>0, FewerListed
<1> HIDE DEF c
<1>3. [loop[w] EXCEPT !.cands = c].cands = c /\ [loop[w] EXCEPT !.cands = c].todo = loop[w].todo
  BY <1>0 DEF Loop
<1>4. loop'[w].cands = c /\ loop'[w].todo = loop[w].todo /\ \A v \in Sweep : v # w => loop'[v] = loop[v]
  BY <1>0, <1>1, <1>3
<1>5. Knows(w)'
  BY <1>1, <1>2, <1>4 DEF Knows, InProject, Judges, FreshInv
<1> QED BY <1>1, <1>4, <1>5, OneSweepMoves

LEMMA FreshTake ==
    ASSUME TypeOK, TypeOK', FreshInv, NEW w \in Sweep, NEW p \in Pair, Take(w, p) PROVE FreshInv'
<1> DEFINE n == IF Panel[p] = 0 THEN 1 ELSE Panel[p]
           jb == [NoJob EXCEPT !.pair = p, !.read = spans[p], !.left = n]
           c == Without(loop[w].cands, p)
           l == [loop[w] EXCEPT !.cands = c, !.judged = loop[w].judged + Panel[p]]
<1>0. loop[w] \in Loop /\ loop \in [Sweep -> Loop] /\ loop[w].cands \in Listing
      /\ job \in [Sweep \cup Rerun -> Job] /\ pc \in [Actor -> Place] /\ w \in Actor
  BY DEF TypeOK, LoopsTyped, Loop, Actor
<1>1. /\ UNCHANGED <<spans, activity, score>> /\ pc[w] = "sessions" /\ p \in DOMAIN loop[w].cands
      /\ ~Scored(p, loop[w].cands[p]) /\ spans[p] > 0
      /\ job' = [job EXCEPT ![w] = jb] /\ loop' = [loop EXCEPT ![w] = l] /\ pc' = [pc EXCEPT ![w] = "reserving"]
  BY DEF Take, Considers, sessionVars, Goto
<1>2. DOMAIN c \subseteq DOMAIN loop[w].cands /\ \A q \in DOMAIN c : c[q] = loop[w].cands[q]
  BY <1>0, FewerListed
<1>3. jb.pair = p /\ jb.read = spans[p]
  BY DEF NoJob
<1>4. l.cands = c /\ l.todo = loop[w].todo
  BY <1>0 DEF Loop
<1> HIDE DEF n, jb, c, l
<1>5. /\ job'[w] = jb /\ loop'[w] = l /\ pc'[w] = "reserving"
      /\ \A v \in Sweep : v # w => pc'[v] = pc[v] /\ loop'[v] = loop[v] /\ job'[v] = job[v]
      /\ \A a \in Rerun : pc'[a] = pc[a] /\ job'[a] = job[a]
  BY <1>0, <1>1, ProcessAssumption DEF Actor
<1>6. \A q \in DOMAIN loop[w].cands :
         q \in Pair /\ ProjOf[q] = Head(loop[w].todo) /\ loop[w].cands[q] <= activity[q]
  BY <1>1 DEF FreshInv, Knows, InProject
<1>7. score[p].read < spans[p]
  <2>1. loop[w].cands[p] <= activity[p] /\ ~(score[p].at >= loop[w].cands[p])
    BY <1>1, <1>6 DEF Scored
  <2>2. loop[w].cands[p] \in Nat
    BY <1>0, <1>1 DEF Listing
  <2>3. spans[p] \in Nat /\ activity[p] \in Nat /\ score[p].read \in Nat /\ score[p].at \in Nat
    BY DEF TypeOK, SessionsTyped
  <2>4. score[p].read + (activity[p] - score[p].at) <= spans[p]
    BY <1>1, <2>3 DEF FreshInv, ScoresLag
  <2> QED BY <2>1, <2>2, <2>3, <2>4
<1>8. spans[p] \in Nat
  BY DEF TypeOK, SessionsTyped
<1>9. Knows(w)'
  BY <1>1, <1>2, <1>3, <1>4, <1>5, <1>6, <1>7, <1>8 DEF Knows, InProject, Judges, InSession
<1> QED BY <1>1, <1>5, <1>9, OneSweepMoves

-----------------------------------------------------------------------------
(* One attempt *)

\* A sweep in an attempt that goes on, or ends, about the same pair
LEMMA SamePair ==
    ASSUME TypeOK, FreshInv, NEW w \in Sweep, Judges(w), NEW jb \in Job,
           job' = [job EXCEPT ![w] = jb], UNCHANGED <<spans, activity>>,
           pc'[w] = "sessions" \/ (jb.pair = job[w].pair /\ jb.read = job[w].read),
           pc'[w] \in {"reserving", "judging", "recording", "sessions"},
           pc'[w] = "judging" => jb.spent > 0,
           pc'[w] \in {"reserving", "judging"} =>
               pc[w] \in {"reserving", "judging"} /\ score'[job[w].pair] = score[job[w].pair],
           loop'[w].todo = loop[w].todo, loop'[w].cands = loop[w].cands
    PROVE  Knows(w)'
<1>1. job'[w] = jb
  BY DEF TypeOK, LoopsTyped
<1>2. Knows(w) /\ InProject(w)
  BY DEF FreshInv, Judges, InProject
<1> QED BY <1>1, <1>2 DEF Knows, InProject, Judges, InSession

\* What a step of an attempt leaves of the loop
LEMMA CandsStay ==
    ASSUME LoopsTyped, NEW w \in Sweep, NEW n,
           \/ loop' = loop
           \/ loop' = [loop EXCEPT ![w].judged = n]
           \/ loop' = [loop EXCEPT ![w].budgetGone = n]
    PROVE  /\ loop'[w].todo = loop[w].todo /\ loop'[w].cands = loop[w].cands
           /\ \A v \in Sweep : v # w => loop'[v] = loop[v]
<1>1. loop[w] \in Loop /\ loop \in [Sweep -> Loop]
  BY DEF LoopsTyped
<1>2. /\ [loop[w] EXCEPT !.judged = n].todo = loop[w].todo
      /\ [loop[w] EXCEPT !.judged = n].cands = loop[w].cands
      /\ [loop[w] EXCEPT !.budgetGone = n].todo = loop[w].todo
      /\ [loop[w] EXCEPT !.budgetGone = n].cands = loop[w].cands
  BY <1>1 DEF Loop
<1> QED BY <1>1, <1>2

\* What a step of an attempt does to its sweep and to nobody else
LEMMA AttemptEffect ==
    ASSUME TypeOK, FreshInv, NEW w \in Sweep,
           Reserve(w) \/ JudgeAnswers(w) \/ Record(w) \/ RecordFails(w) \/ Aggregate(w)
    PROVE  /\ Judges(w) /\ UNCHANGED <<spans, activity>>
           /\ loop'[w].todo = loop[w].todo /\ loop'[w].cands = loop[w].cands
           /\ \A v \in Sweep : v # w => loop'[v] = loop[v] /\ pc'[v] = pc[v] /\ job'[v] = job[v]
           /\ \A c \in Rerun : pc'[c] = pc[c] /\ job'[c] = job[c]
           /\ \E jb \in Job :
                 /\ job' = [job EXCEPT ![w] = jb]
                 /\ pc'[w] = "sessions" \/ (jb.pair = job[w].pair /\ jb.read = job[w].read)
                 /\ pc'[w] = "judging" => jb.spent > 0
           /\ pc'[w] \in {"reserving", "judging", "recording", "sessions"}
           /\ pc'[w] \in {"reserving", "judging"} => pc[w] \in {"reserving", "judging"}
<1>0. /\ LoopsTyped /\ job[w] \in Job /\ job \in [Sweep \cup Rerun -> Job] /\ pc \in [Actor -> Place]
      /\ w \in Actor /\ NoJob \in Job /\ job[w].spent \in Nat /\ job[w].left \in Nat
  BY DEF TypeOK, LoopsTyped, Actor, NoJob, Job
<1>1. Judges(w) /\ UNCHANGED <<spans, activity>>
  BY DEF Reserve, JudgeAnswers, Record, RecordFails, Aggregate, Judges, sessionVars
<1>2. /\ loop'[w].todo = loop[w].todo /\ loop'[w].cands = loop[w].cands
      /\ \A v \in Sweep : v # w => loop'[v] = loop[v]
  BY <1>0, CandsStay DEF Reserve, JudgeAnswers, Record, RecordFails, Aggregate
<1> DEFINE Becomes(jb) ==
      /\ job' = [job EXCEPT ![w] = jb]
      /\ pc'[w] = "sessions" \/ (jb.pair = job[w].pair /\ jb.read = job[w].read)
      /\ pc'[w] = "judging" => jb.spent > 0
    At_(s) == pc' = [pc EXCEPT ![w] = s]
<1>3. ASSUME AttemptEnds(w) PROVE At_("sessions") /\ \E jb \in Job : Becomes(jb)
  <2>1. job' = [job EXCEPT ![w] = NoJob] /\ At_("sessions") /\ pc'[w] = "sessions"
    BY <1>0, <1>3 DEF AttemptEnds, Goto
  <2> QED BY <1>0, <2>1
<1>4. ASSUME Reserve(w)
      PROVE  (\E s \in {"judging", "recording", "sessions"} : At_(s)) /\ pc[w] = "reserving"
             /\ \E jb \in Job : Becomes(jb)
  <2>1. pc[w] = "reserving" /\ job[w].left > 0
    BY <1>0, <1>4 DEF Reserve, LoopsTyped
  <2>2. CASE job' = [job EXCEPT ![w].left = @ - 1, ![w].spent = @ + 1] /\ At_("judging")
    <3> DEFINE jb == [job[w] EXCEPT !.left = job[w].left - 1, !.spent = job[w].spent + 1]
    <3>1. job' = [job EXCEPT ![w] = jb]
      BY <2>2
    <3>2. job[w].left - 1 \in Nat /\ job[w].spent + 1 \in Nat /\ job[w].spent + 1 > 0
      BY <1>0, <2>1
    <3>3. jb \in Job /\ jb.pair = job[w].pair /\ jb.read = job[w].read /\ jb.spent = job[w].spent + 1
      BY <1>0, <3>2 DEF Job
    <3> HIDE DEF jb
    <3>4. Becomes(jb)
      BY <3>1, <3>2, <3>3
    <3> QED BY <2>1, <2>2, <3>3, <3>4
  <2>3. CASE job' = [job EXCEPT ![w].refused = TRUE, ![w].left = 0] /\ At_("recording")
    <3> DEFINE jb == [job[w] EXCEPT !.refused = TRUE, !.left = 0]
    <3>1. job' = [job EXCEPT ![w] = jb] /\ pc'[w] = "recording"
      BY <1>0, <2>3
    <3>2. jb \in Job /\ jb.pair = job[w].pair /\ jb.read = job[w].read
      BY <1>0 DEF Job
    <3> HIDE DEF jb
    <3>3. Becomes(jb)
      BY <3>1, <3>2
    <3> QED BY <2>1, <2>3, <3>2, <3>3
  <2>4. CASE AttemptEnds(w)
    BY <1>3, <2>1, <2>4
  <2> QED BY <1>4, <2>2, <2>3, <2>4 DEF Reserve, Goto
<1>5. ASSUME JudgeAnswers(w)
      PROVE  (\E s \in {"reserving", "recording"} : At_(s)) /\ pc[w] = "judging" /\ \E jb \in Job : Becomes(jb)
  <2>1. pc[w] = "judging" /\ \E s \in {"reserving", "recording"} : At_(s)
    BY <1>5 DEF JudgeAnswers, Goto
  <2>2. pc'[w] # "judging"
    BY <1>0, <2>1
  <2>3. ASSUME NEW ok \in BOOLEAN, job' = [job EXCEPT ![w].good = @ \/ ok, ![w].failed = @ \/ ~ok]
        PROVE  \E jb \in Job : Becomes(jb)
    <3> DEFINE jb == [job[w] EXCEPT !.good = @ \/ ok, !.failed = @ \/ ~ok]
    <3>1. job' = [job EXCEPT ![w] = jb]
      BY <2>3
    <3>2. jb \in Job /\ jb.pair = job[w].pair /\ jb.read = job[w].read
      BY <1>0 DEF Job
    <3> HIDE DEF jb
    <3>3. Becomes(jb)
      BY <2>2, <3>1, <3>2
    <3> QED BY <3>2, <3>3
  <2>4. ASSUME job' = job PROVE \E jb \in Job : Becomes(jb)
    <3>1. job' = [job EXCEPT ![w] = job[w]]
      BY <1>0, <2>4
    <3>2. Becomes(job[w])
      BY <2>2, <3>1
    <3> QED BY <1>0, <3>2
  <2>5. ASSUME job' = [job EXCEPT ![w].failed = TRUE] PROVE \E jb \in Job : Becomes(jb)
    <3> DEFINE jb == [job[w] EXCEPT !.failed = TRUE]
    <3>1. job' = [job EXCEPT ![w] = jb]
      BY <2>5
    <3>2. jb \in Job /\ jb.pair = job[w].pair /\ jb.read = job[w].read
      BY <1>0 DEF Job
    <3> HIDE DEF jb
    <3>3. Becomes(jb)
      BY <2>2, <3>1, <3>2
    <3> QED BY <3>2, <3>3
  <2>6. Verdicts[job[w].pair] \subseteq BOOLEAN
    BY <1>1, Attempt, PairAssumption
  <2>7. \E jb \in Job : Becomes(jb)
    <3> QED BY <1>5, <2>3, <2>4, <2>5, <2>6 DEF JudgeAnswers
  <2> QED BY <2>1, <2>7
<1>6. ASSUME Record(w) \/ RecordFails(w) \/ Aggregate(w)
      PROVE  (\E s \in {"recording", "sessions"} : At_(s)) /\ \E jb \in Job : Becomes(jb)
  <2>1. pc[w] = "recording"
    BY <1>6 DEF Record, RecordFails, Aggregate
  <2>2. CASE AttemptEnds(w)
    BY <1>3, <2>2
  <2>3. CASE job' = [job EXCEPT ![w].spent = @ - 1] /\ pc' = pc /\ job[w].spent > 0
    <3> DEFINE jb == [job[w] EXCEPT !.spent = job[w].spent - 1]
    <3>1. job' = [job EXCEPT ![w] = jb] /\ At_("recording") /\ pc'[w] = "recording"
      BY <1>0, <2>1, <2>3
    <3>2. job[w].spent - 1 \in Nat
      BY <1>0, <2>3
    <3>3. jb \in Job /\ jb.pair = job[w].pair /\ jb.read = job[w].read
      BY <1>0, <3>2 DEF Job
    <3> HIDE DEF jb
    <3>4. Becomes(jb)
      BY <3>1, <3>3
    <3> QED BY <3>1, <3>3, <3>4
  <2> QED BY <1>6, <2>2, <2>3 DEF Record, RecordFails, Aggregate
<1>7. (\E jb \in Job : Becomes(jb)) /\ \E s \in {"reserving", "judging", "recording", "sessions"} :
          At_(s) /\ (s \in {"reserving", "judging"} => pc[w] \in {"reserving", "judging"})
  <2> HIDE DEF Becomes
  <2> QED BY <1>4, <1>5, <1>6
<1>8. \A v \in Sweep : v # w => pc'[v] = pc[v] /\ job'[v] = job[v]
  BY <1>0, <1>7 DEF Actor
<1>9. \A c \in Rerun : pc'[c] = pc[c] /\ job'[c] = job[c]
  BY <1>0, <1>7, ProcessAssumption DEF Actor
<1>10. /\ pc'[w] \in {"reserving", "judging", "recording", "sessions"}
       /\ pc'[w] \in {"reserving", "judging"} => pc[w] \in {"reserving", "judging"}
  BY <1>0, <1>7
<1> QED BY <1>1, <1>2, <1>7, <1>8, <1>9, <1>10

\* A score that is stored now has seen everything that is later than itself
LEMMA StoredScore ==
    ASSUME TypeOK, TypeOK', ScoresLag, NEW a \in Sweep \cup Rerun, NEW p \in Pair, job[a].pair = p, NEW by,
           InSession(a), UNCHANGED <<spans, activity>>,
           score' = [score EXCEPT ![p] = ScoreOf(job[a], by)]
    PROVE  ScoresLag'
<1>1. score'[p].read = job[a].read /\ score'[p].at = activity[p] /\ \A q \in Pair : q # p => score'[q] = score[q]
  BY DEF TypeOK, SessionsTyped, ScoreOf
<1>2. job[a].read \in Nat /\ activity[p] \in Nat /\ spans[p] \in Nat
  BY DEF TypeOK, SessionsTyped, LoopsTyped, Job
<1>3. score'[p].at <= activity[p] /\ (spans[p] # 0 => score'[p].read + (activity[p] - score'[p].at) <= spans[p])
  BY <1>1, <1>2 DEF InSession
<1> QED BY <1>1, <1>3 DEF ScoresLag

LEMMA FreshAttempt ==
    ASSUME TypeOK, TypeOK', FreshInv, OneSweepPerProject, NEW w \in Sweep,
           Reserve(w) \/ JudgeAnswers(w) \/ Record(w) \/ RecordFails(w) \/ Aggregate(w)
    PROVE  FreshInv'
<1> DEFINE p == job[w].pair
<1>0. Judges(w) /\ p \in Pair /\ At[w] \in Replica
  BY AttemptEffect, Attempt
<1>1. UNCHANGED <<spans, activity>>
  BY AttemptEffect
<1>2. /\ \A v \in Sweep : v # w => loop'[v] = loop[v] /\ pc'[v] = pc[v] /\ job'[v] = job[v]
      /\ \A c \in Rerun : pc'[c] = pc[c] /\ job'[c] = job[c]
  BY AttemptEffect
<1>3. \/ score' = score
      \/ score' = [score EXCEPT ![p] = ScoreOf(job[w], At[w])] /\ pc'[w] \notin {"reserving", "judging"}
  <2>1. CASE Reserve(w) \/ Record(w) \/ RecordFails(w)
    BY <2>1 DEF Reserve, Record, RecordFails
  <2>2. CASE JudgeAnswers(w)
    <3>1. pc[w] = "judging" /\ pc \in [Actor -> Place] /\ w \in Actor
          /\ pc' = [pc EXCEPT ![w] = IF job[w].left > 0 THEN "reserving" ELSE "recording"]
      BY <2>2 DEF JudgeAnswers, Goto, TypeOK, LoopsTyped, Actor
    <3>2. CASE score' # score
      <4>1. ~IsGroup(p) /\ score' = [score EXCEPT ![p] = ScoreOf(job[w], At[w])]
        BY <2>2, <3>2 DEF JudgeAnswers, Store, StoreFails
      <4>2. job[w].left + job[w].spent <= 1 /\ job[w].left \in Nat /\ job[w].spent \in Nat
        BY <1>0, <4>1 DEF TypeOK, LoopsTyped, Job
      <4>3. job[w].spent > 0
        BY <3>1 DEF FreshInv, Knows
      <4>4. ~(job[w].left > 0)
        BY <4>2, <4>3
      <4> QED BY <3>1, <4>1, <4>4
    <3> QED BY <3>2
  <2>3. CASE Aggregate(w)
    <3>1. pc'[w] = "sessions"
      BY <2>3 DEF Aggregate, AttemptEnds, Goto, TypeOK, LoopsTyped, Actor
    <3> QED BY <2>3, <3>1 DEF Aggregate, Store
  <2> QED BY <2>1, <2>2, <2>3
<1>4. Knows(w)'
  <2>1. PICK jb \in Job :
           /\ job' = [job EXCEPT ![w] = jb]
           /\ pc'[w] = "sessions" \/ (jb.pair = job[w].pair /\ jb.read = job[w].read)
           /\ pc'[w] = "judging" => jb.spent > 0
    BY AttemptEffect
  <2>2. /\ pc'[w] \in {"reserving", "judging", "recording", "sessions"}
        /\ pc'[w] \in {"reserving", "judging"} =>
              pc[w] \in {"reserving", "judging"} /\ score'[job[w].pair] = score[job[w].pair]
    BY <1>3, AttemptEffect
  <2>3. loop'[w].todo = loop[w].todo /\ loop'[w].cands = loop[w].cands
    BY AttemptEffect
  <2> QED BY <1>0, <1>1, <2>1, <2>2, <2>3, SamePair
<1>5. WorldGoesOn
  BY <1>1, SameWorld
<1>6. ASSUME NEW v \in Sweep, v # w PROVE Knows(v)'
  <2>1. ASSUME pc[v] \in {"reserving", "judging"}
        PROVE  score'[job[v].pair] = score[job[v].pair] \/ score'[job[v].pair].by # At[v]
    <3>1. job[v].pair \in Pair
      BY <2>1 DEF TypeOK, LoopsTyped, Judges
    <3>2. CASE job[v].pair # p
      BY <1>3, <3>1, <3>2 DEF TypeOK, SessionsTyped
    <3>3. CASE job[v].pair = p
      <4>1. Head(loop[v].todo) = ProjOf[p] /\ Head(loop[w].todo) = ProjOf[p]
        BY <1>0, <2>1, <3>3 DEF FreshInv, Knows, Judges
      <4>2. Holds(v, ProjOf[p]) /\ Holds(w, ProjOf[p]) /\ ProjOf[p] \in Project
        BY <1>0, <2>1, <4>1, PairAssumption DEF Holds, Judges
      <4>3. At[v] # At[w]
        BY <1>6, <4>2 DEF OneSweepPerProject
      <4>4. score'[p] = score[p] \/ score'[p].by = At[w]
        BY <1>0, <1>3 DEF TypeOK, SessionsTyped, ScoreOf
      <4> QED BY <3>3, <4>3, <4>4
    <3> QED BY <3>2, <3>3
  <2> QED BY <1>2, <1>5, <1>6, <2>1, KnowsOn DEF FreshInv
<1>7. \A c \in Rerun : KnowsRerun(c)'
  BY <1>2, <1>5, KnowsRerunOn DEF FreshInv
<1>8. ScoresLag'
  <2>1. CASE score' = score
    BY <1>1, <2>1 DEF FreshInv, ScoresLag
  <2>2. CASE score' = [score EXCEPT ![p] = ScoreOf(job[w], At[w])]
    <3>1. InSession(w) /\ ScoresLag
      BY <1>0 DEF FreshInv, Knows
    <3> QED BY <1>0, <1>1, <2>2, <3>1, StoredScore
  <2> QED BY <1>3, <2>1, <2>2
<1> QED BY <1>4, <1>6, <1>7, <1>8 DEF FreshInv

-----------------------------------------------------------------------------
(* Re-run *)

LEMMA FreshRerun ==
    ASSUME TypeOK, TypeOK', FreshInv, NEW c \in Rerun, RerunReads(c) \/ RerunAnswers(c) PROVE FreshInv'
<1> DEFINE p == RerunOf[c]
<1>0. /\ p \in Pair /\ c \in Actor /\ pc \in [Actor -> Place] /\ job \in [Sweep \cup Rerun -> Job]
      /\ spans[p] \in Nat /\ c \notin Replica
  BY PairAssumption, ProcessAssumption DEF TypeOK, LoopsTyped, SessionsTyped, Actor
<1>1. UNCHANGED <<spans, activity, loop>>
  BY DEF RerunReads, RerunAnswers, sessionVars
<1>2. WorldGoesOn
  BY <1>1, SameWorld
<1>3. /\ \A a \in Actor : a # c => pc'[a] = pc[a]
      /\ \A a \in Sweep \cup Rerun : a # c => job'[a] = job[a]
  BY <1>0 DEF RerunReads, RerunAnswers, Goto
<1>4. score' = score \/ (RerunAnswers(c) /\ pc[c] = "judging" /\ score' = [score EXCEPT ![p] = ScoreOf(job[c], c)])
  BY DEF RerunReads, RerunAnswers
<1>5. ScoresLag'
  <2>1. CASE score' = score
    BY <1>1, <2>1 DEF FreshInv, ScoresLag
  <2>2. CASE pc[c] = "judging" /\ score' = [score EXCEPT ![p] = ScoreOf(job[c], c)]
    <3>1. ScoresLag /\ job[c].pair = p /\ InSession(c)
      BY <2>2 DEF FreshInv, KnowsRerun
    <3> QED BY <1>0, <1>1, <2>2, <3>1, StoredScore
  <2> QED BY <1>4, <2>1, <2>2
<1>6. ASSUME NEW w \in Sweep PROVE Knows(w)'
  <2>1. w # c /\ w \in Actor /\ At[w] \in Replica
    BY ProcessAssumption DEF Actor
  <2>2. ASSUME pc[w] \in {"reserving", "judging"}
        PROVE  score'[job[w].pair] = score[job[w].pair] \/ score'[job[w].pair].by # At[w]
    <3>1. job[w].pair \in Pair
      BY <2>2 DEF TypeOK, LoopsTyped, Judges
    <3>2. score'[job[w].pair] = score[job[w].pair] \/ score'[job[w].pair].by = c
      BY <1>4, <3>1 DEF TypeOK, SessionsTyped, ScoreOf
    <3> QED BY <1>0, <2>1, <3>2
  <2>3. pc'[w] = pc[w] /\ loop'[w] = loop[w] /\ job'[w] = job[w] /\ Knows(w)
    BY <1>1, <1>3, <2>1 DEF FreshInv
  <2> QED BY <1>2, <2>2, <2>3, KnowsOn
<1>7. ASSUME NEW d \in Rerun, d # c PROVE KnowsRerun(d)'
  BY <1>2, <1>3, <1>7, KnowsRerunOn DEF FreshInv, Actor
<1>8. KnowsRerun(c)'
  <2>1. CASE pc'[c] # "judging"
    BY <2>1 DEF KnowsRerun
  <2>2. CASE pc'[c] = "judging"
    <3>1. pc[c] = "idle" /\ job' = [job EXCEPT ![c] = [NoJob EXCEPT !.pair = p, !.read = spans[p]]]
      BY <1>0, <2>2 DEF RerunReads, RerunAnswers, Goto
    <3>2. job'[c].pair = p /\ job'[c].read = spans[p]
      BY <1>0, <3>1 DEF NoJob
    <3> QED BY <1>0, <1>1, <3>2 DEF KnowsRerun, InSession
  <2> QED BY <2>1, <2>2
<1> QED BY <1>5, <1>6, <1>7, <1>8 DEF FreshInv

-----------------------------------------------------------------------------
LEMMA FreshInit == Init => FreshInv
<1> SUFFICES ASSUME Init PROVE FreshInv
  OBVIOUS
<1> USE DEF Init, Actor
<1>1. ScoresLag
  BY DEF ScoresLag, NoScore
<1>2. \A w \in Sweep : pc[w] = "idle"
  OBVIOUS
<1>3. \A c \in Rerun : pc[c] = "idle"
  OBVIOUS
<1>4. (\A w \in Sweep : Knows(w)) /\ (\A c \in Rerun : KnowsRerun(c))
  BY <1>2, <1>3 DEF Knows, KnowsRerun, InProject, Judges
<1> QED BY <1>1, <1>4 DEF FreshInv

LEMMA FreshStep ==
    TypeOK /\ TypeOK' /\ OneSweepPerProject /\ FreshInv /\ [Next]_vars => FreshInv'
<1> SUFFICES ASSUME TypeOK, TypeOK', OneSweepPerProject, FreshInv, [Next]_vars PROVE FreshInv'
  OBVIOUS
<1> QED BY FreshSession, FreshRest, FreshCrash, FreshElection, FreshEnter, FreshSkip, FreshTake,
           FreshAttempt, FreshRerun DEF Next, SweepStep

\* A process does not pay twice for the same spans: what it judges has more of
\* them than its own last score had seen, whoever else judges the session and
\* however often it grows meanwhile (sessionSweep.ts, the freshness check).
THEOREM NeverRejudgedHolds == Spec => []NeverRejudged
<1>1. FreshInv => NeverRejudged
  BY DEF FreshInv, Knows, NeverRejudged
<1>2. Spec => []FreshInv
  BY FreshInit, FreshStep, TypeHolds, OneSweepHolds, PTL DEF Spec
<1> QED BY <1>1, <1>2, PTL
=============================================================================
