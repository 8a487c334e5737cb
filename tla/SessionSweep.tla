---------------------------- MODULE SessionSweep ----------------------------
(***************************************************************************)
(* The idle-session sweep (core/monitor/sessionSweep.ts), the lease that   *)
(* elects one replica per tick (core/shared/sweepLease.ts), the daily      *)
(* budget of judge calls it shares with the judging of single traces       *)
(* (core/monitor/onlineEvaluators.ts) and the on-demand verdict of the     *)
(* session view.                                                           *)
(*                                                                         *)
(* A pair is a session and one scorer of it, here each of its own session. *)
(* Only sessions that match the scorer's agents and sample are considered, *)
(* so those filters hold of every pair; two turns of it must have begun in *)
(* the candidate window, which time takes from a session.  Instants are    *)
(* compared, never shown: the last activity of a session is the number of  *)
(* growths that moved it, and the createdAt of a score is the last         *)
(* activity at the time it was stored.  The sweep takes sessions most      *)
(* recent first, here in any order.                                        *)
(***************************************************************************)
EXTENDS Integers, Sequences, FiniteSets

CONSTANTS
    Replica,       \* engine processes that share the database
    Sweep,         \* sweeps: interval ticks and manual requests
    At,            \* [Sweep \cup Trace \cup Rerun -> Replica]
    ScopeOf,       \* [Sweep -> Project \cup {Global}]; Global for a tick
    Global,        \* GLOBAL_SWEEP
    Project,
    ProjectRows,   \* the projects as listProjectRows returns them
    Pair,
    ProjOf,        \* [Pair \cup Trace -> Project]
    Panel,         \* [Pair -> Nat]: judge members of a group, 0: an evaluator
    Verdicts,      \* [Pair -> SUBSET BOOLEAN]: what its judge may come to
    Trace,         \* ingested traces with one trace-scoped evaluator
    Rerun,         \* clicks on "Re-run" or imports that judge a session
    RerunOf,       \* [Rerun -> Pair]
    NoPair, Nobody, Unseeded,
    Departed,      \* the holder id of a process that ended
    MaxJudged,     \* MAX_JUDGED_PER_SWEEP
    RetryTicks,    \* RETRY_BACKOFF_MS in ticks of SWEEP_INTERVAL_MS
    Cap,           \* AGENTX_QUOTA_ONLINE_JUDGE_CALLS_PER_DAY, 0: none
    Lively,        \* bound: the pairs whose session grows, ages or is pruned
    MaxGrowth,     \* bound: spans that arrive
    MaxPruned,     \* bound: sessions that retention prunes
    MaxFaults,     \* bound: failed writes
    MaxCrashes,    \* bound: replicas that end
    MaxMidnights   \* bound: days that end

ASSUME ProcessAssumption ==
    /\ At \in [Sweep \cup Trace \cup Rerun -> Replica]
    /\ ScopeOf \in [Sweep -> Project \cup {Global}]
    /\ Global \notin Project
    /\ {Nobody, Departed} \cap (Replica \cup Rerun) = {}
    /\ Nobody # Departed /\ Replica \cap Rerun = {}
    /\ Sweep \cap (Trace \cup Rerun) = {} /\ Trace \cap Rerun = {}
    /\ Unseeded \notin Nat
ASSUME PairAssumption ==
    /\ ProjOf \in [Pair \cup Trace -> Project]
    /\ Panel \in [Pair -> Nat]
    /\ Verdicts \in [Pair -> (SUBSET BOOLEAN) \ {{}}]
    /\ RerunOf \in [Rerun -> Pair]
    /\ Lively \subseteq Pair
    /\ NoPair \notin Pair
ASSUME NumberAssumption ==
    /\ ProjectRows \in Seq(Project)
    /\ {MaxJudged, RetryTicks, Cap} \subseteq Nat
    /\ {MaxGrowth, MaxPruned, MaxFaults, MaxCrashes, MaxMidnights} \subseteq Nat

VARIABLES
    spans,     \* stored spans of the session of each pair; 0 once pruned
    activity,  \* growths that moved its last activity
    quiet,     \* pairs whose session has been idle for idleSeconds
    recent,    \* pairs whose session has two turns in the candidate window
    score,     \* the latest score of each pair
    lease,     \* the lease row of the sweep: its holder while it lives
    scopes,    \* sweepingScopes of each replica
    backoff,   \* failedAttempts: ticks until each pair may be tried again
    sweepTick, \* the rotation cursor, modulo the projects
    events,    \* judge calls in monitor_events since midnight, per project
    spend,     \* onlineJudgeSpend of each replica, or Unseeded
    pc,        \* where each sweep, trace and rerun is
    loop,      \* the loop variables of each sweep
    job,       \* the pair a sweep or a rerun is judging
    granted,   \* history: calls each replica made since midnight, per project
    calls,     \* history: those under way
    lost,      \* history: those that ended without an event
    overran,   \* history: ticks whose lease ran out under them
    growth, pruned, faults, crashes, midnights

sessionVars == <<spans, activity, quiet, recent>>
memoryVars  == <<scopes, backoff, sweepTick>>
budgetVars  == <<events, spend, granted, calls, lost>>
leaseVars   == <<lease, overran>>
boundVars   == <<growth, pruned, faults, crashes, midnights>>
vars == <<sessionVars, score, memoryVars, budgetVars, leaseVars, pc, loop, job, boundVars>>

Tick == {w \in Sweep : ScopeOf[w] = Global}
Actor == Sweep \cup Trace \cup Rerun
NoScore == [read |-> 0, at |-> 0, by |-> Nobody]
\* todo: the projects left, the current one first; cands: the last activity of
\* the pairs left in it, as listSessions saw them; judged: charged to the tick
NoLoop == [todo |-> <<>>, cands |-> [p \in {} |-> 0], judged |-> 0, budgetGone |-> FALSE]
\* read: spans the judge sees; left: members not asked; spent: calls without event
NoJob == [pair |-> NoPair, read |-> 0, left |-> 0, spent |-> 0,
          good |-> FALSE, failed |-> FALSE, refused |-> FALSE]

Init ==
    /\ spans = [p \in Pair |-> 1]
    /\ activity = [p \in Pair |-> 1]
    /\ quiet = Pair /\ recent = Pair
    /\ score = [p \in Pair |-> NoScore]
    /\ lease = Nobody
    /\ scopes = [r \in Replica |-> {}]
    /\ backoff = [r \in Replica |-> [p \in Pair |-> 0]]
    /\ sweepTick = [r \in Replica |-> 0]
    /\ events = [j \in Project |-> 0]
    /\ spend = [r \in Replica |-> [j \in Project |-> Unseeded]]
    /\ pc = [a \in Actor |-> "idle"]
    /\ loop = [w \in Sweep |-> NoLoop]
    /\ job = [a \in Sweep \cup Rerun |-> NoJob]
    /\ granted = [r \in Replica |-> [j \in Project |-> 0]]
    /\ calls = [r \in Replica |-> [j \in Project |-> 0]]
    /\ lost = [r \in Replica |-> [j \in Project |-> 0]]
    /\ overran = {}
    /\ growth = 0 /\ pruned = 0 /\ faults = 0 /\ crashes = 0 /\ midnights = 0

Goto(a, s) == pc' = [pc EXCEPT ![a] = s]
Failing == faults < MaxFaults /\ faults' = faults + 1
           /\ UNCHANGED <<growth, pruned, crashes, midnights>>

-----------------------------------------------------------------------------
(* Sessions: what ingest, retention and time do to them. *)

\* A span arrives; one that started before the last activity does not move it.
\* A session may have two turns in the window again
Grow(p) ==
    /\ p \in Lively
    /\ growth < MaxGrowth /\ growth' = growth + 1
    /\ UNCHANGED <<pruned, faults, crashes, midnights>>
    /\ spans[p] > 0
    /\ spans' = [spans EXCEPT ![p] = @ + 1]
    /\ \/ UNCHANGED <<activity, quiet>>
       \/ /\ activity' = [activity EXCEPT ![p] = @ + 1]
          /\ quiet' = quiet \ {p}
    /\ recent' \in {recent, recent \cup {p}}
    /\ UNCHANGED <<score, memoryVars, budgetVars, leaseVars, pc, loop, job>>

Prune(p) ==
    /\ p \in Lively
    /\ pruned < MaxPruned /\ pruned' = pruned + 1
    /\ UNCHANGED <<growth, faults, crashes, midnights>>
    /\ spans' = [spans EXCEPT ![p] = 0]
    /\ quiet' = quiet \ {p} /\ recent' = recent \ {p}
    /\ UNCHANGED <<activity, score, memoryVars, budgetVars, leaseVars, pc, loop, job>>

FallsQuiet(p) ==
    /\ spans[p] > 0 /\ p \notin quiet
    /\ quiet' = quiet \cup {p}
    /\ UNCHANGED <<spans, activity, recent, score, memoryVars, budgetVars, leaseVars, pc, loop, job, boundVars>>

\* Time passes and fewer than two of its turns are left in the window
LeavesWindow(p) ==
    /\ p \in Lively \cap recent
    /\ recent' = recent \ {p}
    /\ UNCHANGED <<spans, activity, quiet, score, memoryVars, budgetVars, leaseVars, pc, loop, job, boundVars>>

-----------------------------------------------------------------------------
(* Who sweeps: the interval, the lease and the scopes. *)

\* Mutant: the upsert overwrites whoever holds the row
Overwrites(r) == TRUE

\* The upsert succeeds when the row is free, expired or ours
Acquires(r) == lease \in {Nobody, r}

ScopeConflicts(r, scope) == {Global, scope} \cap scopes[r] # {}

\* A minute is over: the interval fires and asks for the lease
TickFires(w) ==
    LET r == At[w] IN
    /\ w \in Tick /\ pc[w] = "idle"
    /\ backoff' = [backoff EXCEPT ![r] = [p \in Pair |-> IF @[p] = 0 THEN 0 ELSE @[p] - 1]]
    /\ \/ /\ ~ScopeConflicts(r, Global)
          /\ Acquires(r)
          /\ lease' = r
          /\ Goto(w, "leased")
       \/ /\ ScopeConflicts(r, Global) \/ ~Acquires(r)
          /\ UNCHANGED <<lease, pc>>
    /\ UNCHANGED <<sessionVars, score, scopes, sweepTick, budgetVars, overran, loop, job, boundVars>>

LeaseExpires ==
    /\ lease # Nobody
    /\ lease' = Nobody
    /\ overran' = overran \cup {w \in Tick : At[w] = lease /\ pc[w] # "idle"}
    /\ UNCHANGED <<sessionVars, score, memoryVars, budgetVars, pc, loop, job, boundVars>>


Rotated(k) == SubSeq(ProjectRows, k + 1, Len(ProjectRows)) \o SubSeq(ProjectRows, 1, k)

\* The tick that won the lease claims the instance, unless another just did
Claim(w) ==
    LET r == At[w] IN
    /\ w \in Tick /\ pc[w] = "leased"
    /\ \/ /\ ScopeConflicts(r, Global)
          /\ Goto(w, "idle")
          /\ overran' = overran \ {w}
          /\ UNCHANGED <<scopes, sweepTick, loop>>
       \/ /\ ~ScopeConflicts(r, Global)
          /\ scopes' = [scopes EXCEPT ![r] = @ \cup {Global}]
          /\ sweepTick' = [sweepTick EXCEPT ![r] =
                IF ProjectRows = <<>> THEN 0 ELSE (@ + 1) % Len(ProjectRows)]
          /\ loop' = [loop EXCEPT ![w] = [NoLoop EXCEPT !.todo = Rotated(sweepTick[r])]]
          /\ Goto(w, "next")
          /\ UNCHANGED overran
    /\ UNCHANGED <<sessionVars, score, backoff, budgetVars, lease, job, boundVars>>

\* runManualSweep of one project; on a conflict it answers "skipped"
ManualSweep(w) ==
    LET r == At[w] IN
    /\ w \in Sweep \ Tick /\ pc[w] = "idle"
    /\ ~ScopeConflicts(r, ScopeOf[w])
    /\ scopes' = [scopes EXCEPT ![r] = @ \cup {ScopeOf[w]}]
    /\ loop' = [loop EXCEPT ![w] = [NoLoop EXCEPT !.todo = <<ScopeOf[w]>>]]
    /\ Goto(w, "next")
    /\ UNCHANGED <<sessionVars, score, backoff, sweepTick, budgetVars, leaseVars, job, boundVars>>

-----------------------------------------------------------------------------
(* sweepSessionsOnce. *)

Spent(w) == loop[w].judged >= MaxJudged

EndSweep(w) ==
    /\ pc[w] = "next"
    /\ loop[w].todo = <<>> \/ Spent(w)
    /\ scopes' = [scopes EXCEPT ![At[w]] = @ \ {ScopeOf[w]}]
    /\ loop' = [loop EXCEPT ![w] = NoLoop]
    /\ overran' = overran \ {w}
    /\ Goto(w, "idle")
    /\ UNCHANGED <<sessionVars, score, backoff, sweepTick, budgetVars, lease, job, boundVars>>

\* Mutant: it does not
PassesNone(w, j) == FALSE

\* A tick passes over the projects that a manual sweep is in
PassesOver(w, j) == w \in Tick /\ j \in scopes[At[w]]

\* What listSessions returns of a project, without the sessions that are not idle
Listed(j) == {p \in quiet \cap recent : ProjOf[p] = j}

EnterProject(w) ==
    /\ pc[w] = "next"
    /\ loop[w].todo # <<>> /\ ~Spent(w)
    /\ LET j == Head(loop[w].todo) IN
       \/ /\ PassesOver(w, j)
          /\ loop' = [loop EXCEPT ![w].todo = Tail(@)]
          /\ UNCHANGED pc
       \/ /\ ~PassesOver(w, j)
          /\ loop' = [loop EXCEPT
                ![w].cands = [p \in Listed(j) |-> activity[p]],
                ![w].budgetGone = FALSE]
          /\ Goto(w, "sessions")
    /\ UNCHANGED <<sessionVars, score, memoryVars, budgetVars, leaseVars, job, boundVars>>

LeaveProject(w) ==
    /\ pc[w] = "sessions"
    /\ DOMAIN loop[w].cands = {} \/ Spent(w) \/ loop[w].budgetGone
    /\ loop' = [loop EXCEPT ![w].todo = Tail(@), ![w].cands = NoLoop.cands]
    /\ Goto(w, "next")
    /\ UNCHANGED <<sessionVars, score, memoryVars, budgetVars, leaseVars, job, boundVars>>

Considers(w, p) ==
    /\ pc[w] = "sessions"
    /\ p \in DOMAIN loop[w].cands
    /\ ~Spent(w) /\ ~loop[w].budgetGone

Without(f, x) == [y \in DOMAIN f \ {x} |-> f[y]]

\* Mutant: a score as old as the last activity does not count
ScoredLater(p, lastActivity) == score[p].at > lastActivity

\* Scored since its last activity, as listed
Scored(p, lastActivity) == score[p].at >= lastActivity
InBackoff(r, p) == backoff[r][p] > 0

RecordFailedAttempt(r, p) == backoff' = [backoff EXCEPT ![r][p] = RetryTicks]

Skip(w, p) ==
    /\ Considers(w, p)
    /\ Scored(p, loop[w].cands[p]) \/ InBackoff(At[w], p)
    /\ loop' = [loop EXCEPT ![w].cands = Without(@, p)]
    /\ UNCHANGED <<sessionVars, score, memoryVars, budgetVars, leaseVars, pc, job, boundVars>>

\* A session pruned since the listing costs no slot, only a later retry
FindPruned(w, p) ==
    /\ Considers(w, p)
    /\ ~Scored(p, loop[w].cands[p]) /\ ~InBackoff(At[w], p)
    /\ spans[p] = 0
    /\ RecordFailedAttempt(At[w], p)
    /\ loop' = [loop EXCEPT ![w].cands = Without(@, p)]
    /\ UNCHANGED <<sessionVars, score, scopes, sweepTick, budgetVars, leaseVars, pc, job, boundVars>>

\* The spans are read; a group charges the tick for all its judge members
Take(w, p) ==
    /\ Considers(w, p)
    /\ ~Scored(p, loop[w].cands[p]) /\ ~InBackoff(At[w], p)
    /\ spans[p] > 0
    /\ job' = [job EXCEPT ![w] = [NoJob EXCEPT !.pair = p, !.read = spans[p],
                                  !.left = IF Panel[p] = 0 THEN 1 ELSE Panel[p]]]
    /\ loop' = [loop EXCEPT ![w].cands = Without(@, p), ![w].judged = @ + Panel[p]]
    /\ Goto(w, "reserving")
    /\ UNCHANGED <<sessionVars, score, memoryVars, budgetVars, leaseVars, boundVars>>

-----------------------------------------------------------------------------
(* reserveOnlineJudgeCall.  Reservations run one after the other, so the   *)
(* seed and the grant are one step.                                        *)

\* Mutant: a new process starts its day with the whole budget
UsedSinceBoot(r, j) == IF spend[r][j] = Unseeded THEN 0 ELSE spend[r][j]

Used(r, j) == IF spend[r][j] = Unseeded THEN events[j] ELSE spend[r][j]

\* Without a cap nothing is counted
Counted(A) == IF Cap = 0 THEN UNCHANGED budgetVars ELSE A

ReserveCall(r, j) == Counted(
    /\ Used(r, j) < Cap
    /\ spend' = [spend EXCEPT ![r][j] = Used(r, j) + 1]
    /\ granted' = [granted EXCEPT ![r][j] = @ + 1]
    /\ calls' = [calls EXCEPT ![r][j] = @ + 1]
    /\ UNCHANGED <<events, lost>>)

RefuseCall(r, j) ==
    /\ Cap > 0 /\ Used(r, j) >= Cap
    /\ spend' = [spend EXCEPT ![r][j] = Used(r, j)]
    /\ UNCHANGED <<events, granted, calls, lost>>

\* One event per call made, whatever came of it
RecordEvent(r, j) == Counted(
    /\ events' = [events EXCEPT ![j] = @ + 1]
    /\ calls' = [calls EXCEPT ![r][j] = @ - 1]
    /\ UNCHANGED <<spend, granted, lost>>)

LoseEvents(r, j, n) == Counted(
    /\ calls' = [calls EXCEPT ![r][j] = @ - n]
    /\ lost' = [lost EXCEPT ![r][j] = @ + n]
    /\ UNCHANGED <<events, spend, granted>>)

-----------------------------------------------------------------------------
(* One attempt to judge a pair: an evaluator, or a panel of judges.        *)

IsGroup(p) == Panel[p] > 0
AttemptEnds(w) == job' = [job EXCEPT ![w] = NoJob] /\ Goto(w, "sessions")

Reserve(w) ==
    LET r == At[w]  p == job[w].pair  j == ProjOf[p] IN
    /\ pc[w] = "reserving"
    /\ \/ /\ ReserveCall(r, j)
          /\ job' = [job EXCEPT ![w].left = @ - 1, ![w].spent = @ + 1]
          /\ loop' = [loop EXCEPT ![w].judged = IF IsGroup(p) THEN @ ELSE @ + 1]
          /\ Goto(w, "judging")
       \/ /\ RefuseCall(r, j)
          /\ loop' = [loop EXCEPT ![w].budgetGone = TRUE]
          /\ \/ ~IsGroup(p) /\ AttemptEnds(w)
             \/ /\ IsGroup(p)
                /\ job' = [job EXCEPT ![w].refused = TRUE, ![w].left = 0]
                /\ Goto(w, "recording")
    /\ UNCHANGED <<sessionVars, score, memoryVars, leaseVars, boundVars>>

\* insertSessionScore: the score says it is of now
ScoreOf(jb, who) == [read |-> jb.read, at |-> activity[jb.pair], by |-> who]

Store(w) ==
    LET r == At[w]  p == job[w].pair IN
    /\ score' = [score EXCEPT ![p] = ScoreOf(job[w], r)]
    /\ backoff' = [backoff EXCEPT ![r][p] = 0]
    /\ UNCHANGED boundVars

\* The backoff is lifted before the score is written
StoreFails(w) ==
    /\ Failing
    /\ backoff' = [backoff EXCEPT ![At[w]][job[w].pair] = 0]
    /\ UNCHANGED score

\* A verdict of an evaluator is stored at once, a member's joins the panel's
JudgeAnswers(w) ==
    LET p == job[w].pair  Works == TRUE \in Verdicts[p] /\ ~IsGroup(p) IN
    /\ pc[w] = "judging"
    /\ \/ \E ok \in Verdicts[p] :
             /\ IsGroup(p) \/ ~ok
             /\ job' = [job EXCEPT ![w].good = @ \/ ok, ![w].failed = @ \/ ~ok]
             /\ UNCHANGED <<score, backoff, boundVars>>
       \/ Works /\ Store(w) /\ UNCHANGED job
       \/ Works /\ StoreFails(w) /\ job' = [job EXCEPT ![w].failed = TRUE]
    /\ Goto(w, IF job[w].left > 0 THEN "reserving" ELSE "recording")
    /\ UNCHANGED <<sessionVars, scopes, sweepTick, budgetVars, leaseVars, loop>>

\* An evaluator's event comes last, a group's events of its members first.  The
\* signal of a low score may fail: then the pair backs off although scored
Record(w) ==
    LET r == At[w]  p == job[w].pair IN
    /\ pc[w] = "recording" /\ job[w].spent > 0
    /\ RecordEvent(r, ProjOf[p])
    /\ \/ /\ IsGroup(p)
          /\ job' = [job EXCEPT ![w].spent = @ - 1]
          /\ UNCHANGED <<pc, backoff, boundVars>>
       \/ /\ ~IsGroup(p)
          /\ AttemptEnds(w)
          /\ \/ job[w].failed /\ RecordFailedAttempt(r, p) /\ UNCHANGED boundVars
             \/ ~job[w].failed /\ UNCHANGED <<backoff, boundVars>>
             \/ ~job[w].failed /\ RecordFailedAttempt(r, p) /\ Failing
    /\ UNCHANGED <<sessionVars, score, scopes, sweepTick, leaseVars, loop>>

\* The write of an event fails, and so does that of the failure event
RecordFails(w) ==
    LET r == At[w]  p == job[w].pair IN
    /\ pc[w] = "recording" /\ job[w].spent > 0
    /\ Failing
    /\ LoseEvents(r, ProjOf[p], job[w].spent)
    /\ RecordFailedAttempt(r, p)
    /\ AttemptEnds(w)
    /\ UNCHANGED <<sessionVars, score, scopes, sweepTick, leaseVars, loop>>

\* aggregateGroupScore: none from a truncated panel, a failed gate or no verdict
MayScore(jb) == jb.good /\ ~jb.refused
MayNotScore(jb) == jb.failed \/ jb.refused

Aggregate(w) ==
    /\ pc[w] = "recording" /\ job[w].spent = 0
    /\ \/ MayScore(job[w]) /\ Store(w)
       \/ /\ Failing
          /\ RecordFailedAttempt(At[w], job[w].pair)
          /\ \/ UNCHANGED score
             \/ /\ MayScore(job[w])
                /\ score' = [score EXCEPT ![job[w].pair] = ScoreOf(job[w], At[w])]
       \/ /\ MayNotScore(job[w])
          /\ RecordFailedAttempt(At[w], job[w].pair)
          /\ UNCHANGED <<score, boundVars>>
    /\ AttemptEnds(w)
    /\ UNCHANGED <<sessionVars, scopes, sweepTick, budgetVars, leaseVars, loop>>

-----------------------------------------------------------------------------
(* Who else judges: traces at ingest, and the session view.                *)

\* runOnlineEvaluators, with one evaluator
TraceStep(t) ==
    LET r == At[t]  j == ProjOf[t] IN
    /\ \/ /\ pc[t] = "idle"
          /\ \/ ReserveCall(r, j) /\ Goto(t, "judging")
             \/ RefuseCall(r, j) /\ Goto(t, "done")
          /\ UNCHANGED boundVars
       \/ /\ pc[t] = "judging"
          /\ Goto(t, "done")
          /\ \/ RecordEvent(r, j) /\ UNCHANGED boundVars
             \/ LoseEvents(r, j, 1) /\ Failing
    /\ UNCHANGED <<sessionVars, score, memoryVars, leaseVars, loop, job>>

\* The judge route: with ifStale a fresh score is left alone, and no call is
\* reserved or recorded
RerunReads(c) ==
    LET p == RerunOf[c] IN
    /\ pc[c] = "idle"
    /\ \/ /\ spans[p] > 0
          /\ job' = [job EXCEPT ![c] = [NoJob EXCEPT !.pair = p, !.read = spans[p]]]
          /\ Goto(c, "judging")
       \/ /\ spans[p] = 0 \/ Scored(p, activity[p])
          /\ Goto(c, "done")
          /\ UNCHANGED job
    /\ UNCHANGED <<sessionVars, score, memoryVars, budgetVars, leaseVars, loop, boundVars>>

RerunAnswers(c) ==
    /\ pc[c] = "judging"
    /\ \E ok \in Verdicts[RerunOf[c]] :
          score' = IF ok THEN [score EXCEPT ![RerunOf[c]] = ScoreOf(job[c], c)] ELSE score
    /\ job' = [job EXCEPT ![c] = NoJob]
    /\ Goto(c, "done")
    /\ UNCHANGED <<sessionVars, memoryVars, budgetVars, leaseVars, loop, boundVars>>

-----------------------------------------------------------------------------
(* The process ends and is started again; a day ends.                      *)

Crash(r) ==
    LET gone == {a \in Actor : At[a] = r} IN
    /\ crashes < MaxCrashes
    /\ crashes' = crashes + 1
    /\ pc' = [a \in Actor |-> IF a \notin gone THEN pc[a]
                              ELSE IF a \in Sweep THEN "idle" ELSE "done"]
    /\ loop' = [w \in Sweep |-> IF w \in gone THEN NoLoop ELSE loop[w]]
    /\ job' = [a \in Sweep \cup Rerun |-> IF a \in gone THEN NoJob ELSE job[a]]
    /\ scopes' = [scopes EXCEPT ![r] = {}]
    /\ backoff' = [backoff EXCEPT ![r] = [p \in Pair |-> 0]]
    /\ sweepTick' = [sweepTick EXCEPT ![r] = 0]
    /\ spend' = [spend EXCEPT ![r] = [j \in Project |-> Unseeded]]
    /\ calls' = [calls EXCEPT ![r] = [j \in Project |-> 0]]
    /\ lost' = [lost EXCEPT ![r] = [j \in Project |-> @[j] + calls[r][j]]]
    /\ lease' = IF lease = r THEN Departed ELSE lease
    /\ overran' = overran \ gone
    /\ UNCHANGED <<sessionVars, score, events, granted, growth, pruned, faults, midnights>>

Midnight ==
    /\ midnights < MaxMidnights
    /\ midnights' = midnights + 1
    /\ events' = [j \in Project |-> 0]
    /\ spend' = [r \in Replica |-> [j \in Project |-> Unseeded]]
    /\ granted' = [r \in Replica |-> [j \in Project |-> 0]]
    /\ lost' = [r \in Replica |-> [j \in Project |-> 0]]
    /\ UNCHANGED <<sessionVars, score, memoryVars, calls, leaseVars, pc, loop, job,
                   growth, pruned, faults, crashes>>

-----------------------------------------------------------------------------
SweepStep(w) ==
    \/ Claim(w) \/ EndSweep(w) \/ EnterProject(w) \/ LeaveProject(w)
    \/ \E p \in Pair : Skip(w, p) \/ FindPruned(w, p) \/ Take(w, p)
    \/ Reserve(w) \/ JudgeAnswers(w) \/ Record(w) \/ Aggregate(w)

Next ==
    \/ \E p \in Pair : Grow(p) \/ Prune(p) \/ FallsQuiet(p) \/ LeavesWindow(p)
    \/ \E w \in Sweep : TickFires(w) \/ ManualSweep(w) \/ SweepStep(w) \/ RecordFails(w)
    \/ \E t \in Trace : TraceStep(t)
    \/ \E c \in Rerun : RerunReads(c) \/ RerunAnswers(c)
    \/ \E r \in Replica : Crash(r)
    \/ LeaseExpires \/ Midnight

Spec == Init /\ [][Next]_vars

\* The interval keeps firing, and what a sweep awaits answers
FairSpec == Spec /\ \A w \in Sweep : WF_vars(TickFires(w)) /\ WF_vars(SweepStep(w))

-----------------------------------------------------------------------------
(* Properties. *)

Place == {"idle", "leased", "next", "sessions", "reserving", "judging", "recording", "done"}
Listing == UNION {[S -> Nat] : S \in SUBSET Pair}
Loop == [todo : Seq(Project), cands : Listing, judged : Nat, budgetGone : BOOLEAN]
Job == [pair : Pair \cup {NoPair}, read : Nat, left : Nat, spent : Nat,
        good : BOOLEAN, failed : BOOLEAN, refused : BOOLEAN]

SessionsTyped ==
    /\ spans \in [Pair -> Nat] /\ activity \in [Pair -> Nat]
    /\ quiet \subseteq Pair /\ recent \subseteq Pair
    /\ score \in [Pair -> [read : Nat, at : Nat, by : Replica \cup Rerun \cup {Nobody}]]
    /\ growth \in Nat /\ pruned \in Nat /\ faults \in Nat /\ crashes \in Nat /\ midnights \in Nat

MemoryTyped ==
    /\ lease \in Replica \cup {Nobody, Departed} /\ overran \subseteq Tick
    /\ scopes \in [Replica -> SUBSET (Project \cup {Global})]
    /\ backoff \in [Replica -> [Pair -> 0 .. RetryTicks]]
    /\ sweepTick \in [Replica -> 0 .. Len(ProjectRows)]

\* calls and lost are counted down or up by what the jobs hold
BudgetTyped ==
    /\ events \in [Project -> Nat] /\ granted \in [Replica -> [Project -> Nat]]
    /\ spend \in [Replica -> [Project -> Nat \cup {Unseeded}]]
    /\ calls \in [Replica -> [Project -> Int]] /\ lost \in [Replica -> [Project -> Int]]

Judges(w) == pc[w] \in {"reserving", "judging", "recording"}

LoopsTyped ==
    /\ pc \in [Actor -> Place] /\ loop \in [Sweep -> Loop] /\ job \in [Sweep \cup Rerun -> Job]
    /\ \A w \in Sweep :
          /\ pc[w] # "done"
          /\ pc[w] = "sessions" \/ Judges(w) => loop[w].todo # <<>>
          /\ pc[w] = "reserving" => job[w].left > 0
          /\ IF Judges(w) THEN job[w].pair \in Pair /\ (~IsGroup(job[w].pair) => job[w].left + job[w].spent <= 1)
             ELSE job[w].spent = 0
    /\ \A t \in Trace : pc[t] \in {"idle", "judging", "done"}
    /\ \A c \in Rerun : pc[c] = "judging" => job[c].pair \in Pair

TypeOK == SessionsTyped /\ MemoryTyped /\ BudgetTyped /\ LoopsTyped

Holds(w, j) == pc[w] \notin {"idle", "leased", "next"} /\ Head(loop[w].todo) = j

\* In one process no two sweeps are in the same project: a tick passes over the
\* project of a manual sweep, and nobody starts on one while a tick runs
\* (sessionSweep.ts:972-976).
OneSweepPerProject ==
    \A v, w \in Sweep : \A j \in Project :
        v # w /\ At[v] = At[w] => ~(Holds(v, j) /\ Holds(w, j))

Ticking(w) == w \in Tick /\ pc[w] # "idle"

\* Ticks of two replicas run side by side only when one of them outlived its
\* lease (sweepLease.ts:5-13).
LeaseElectsOne ==
    \A v, w \in Tick :
        Ticking(v) /\ Ticking(w) /\ At[v] # At[w] => v \in overran \/ w \in overran

\* A process does not pay twice for the same spans of a session: what it is
\* judging has more of them than its own last score had seen.  Only another
\* replica or a click may have judged the session in the meantime
\* (sessionSweep.ts:45-47).
NeverRejudged ==
    \A w \in Sweep : pc[w] \in {"reserving", "judging"} =>
        LET last == score[job[w].pair] IN last.by = At[w] => last.read < job[w].read

\* Across crashes a replica makes at most Cap judge calls a day for a project,
\* and a call more for each that was under way in a crash or could not be
\* recorded (onlineEvaluators.ts:313-318).
BudgetHolds ==
    Cap > 0 => \A r \in Replica, j \in Project : granted[r][j] <= Cap + lost[r][j]

\* What the next sweep would see of p when it lists the sessions
Fresh(p) == score[p].at >= activity[p]

Charge(p) == IF IsGroup(p) THEN Panel[p] ELSE 1

\* What the pairs of a project that may fail are charged in one backoff is less
\* than the ticks that start with that project are allowed in the meantime
LeavesRoom(j) ==
    LET unsure == {p \in Pair : ProjOf[p] = j /\ Verdicts[p] # {TRUE}} IN
    Cardinality(UNION {{p} \X (1 .. Charge(p)) : p \in unsure}) * Len(ProjectRows) < MaxJudged * RetryTicks

=============================================================================
