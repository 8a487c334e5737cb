---------------------------- MODULE IngestQueue ----------------------------
(***************************************************************************)
(* The ingest micro-batcher of the engine (core/trace/ingestQueue.ts), the *)
(* request handlers that feed it and wait on it (beginIngestTraceQueued in *)
(* core/trace/ingest.ts, POST /traces in routes/ingest.ts), the span store *)
(* it writes to and the per-minute rollups it maintains.                   *)
(*                                                                         *)
(* A request delivers one span.  Spans with the same (project, span id)    *)
(* are redeliveries of one another.  A step is the code one task runs      *)
(* between two awaits, so everything a handler does synchronously (enqueue, *)
(* then perhaps claim the flush slot and splice a batch) is one action.    *)
(***************************************************************************)
EXTENDS Naturals, Sequences, FiniteSets

CONSTANTS
    Req,          \* deliveries of a span: one HTTP request each
    Project,      \* projects the requests belong to
    ProjOf,       \* [Req -> Project]
    Span,         \* client-supplied span ids
    NoSpan,       \* a delivery without a span id: it has no idempotency key
    SpanOf,       \* [Req -> Span \cup {NoSpan}]
    NoProject,    \* the project of a pass that works on no group
    Pass,         \* identities of flush passes
    NoPass,       \* the value of `flushing` when no pass runs
    FlushSize,    \* FLUSH_SIZE
    QueueMax,     \* QUEUE_MAX
    UniqueIndex,  \* TRUE: a store with the (project_id, span_id) unique index;
                  \* FALSE: check-then-insert (ClickHouse, partitioned Postgres)
    MaxFaults,    \* bound: storage calls that fail, over a whole behaviour
    LostAcks,     \* TRUE: a failing insert may have committed
    MaxCrashes,   \* bound: process crashes
    MayStop,      \* TRUE: a SIGTERM may arrive
    ForcedClose   \* TRUE: closeAllConnections may fire with handlers running

ASSUME ReqAssumption ==
    /\ IsFiniteSet(Req)
    /\ ProjOf \in [Req -> Project]
    /\ NoSpan \notin Span
    /\ SpanOf \in [Req -> Span \cup {NoSpan}]
ASSUME PassAssumption == NoPass \notin Pass /\ NoProject \notin Project
\* envInt never answers less than 1
ASSUME SizeAssumption ==
    /\ FlushSize \in Nat \ {0}
    /\ QueueMax \in Nat \ {0}
ASSUME FaultAssumption ==
    /\ MaxFaults \in Nat
    /\ MaxCrashes \in Nat
    /\ {UniqueIndex, LostAcks, MayStop, ForcedClose} \subseteq BOOLEAN

VARIABLES
    pc,        \* where the handler of each request is
    outcome,   \* the SpanOutcome each queued span's promise resolved to
    checks,    \* the detached post-ingest pipeline of each request
    queue,     \* the bounded queue
    timer,     \* flushTimer is armed
    waiters,   \* flushNow calls suspended on `await flushing`
    flushing,  \* the pass that holds the slot, or NoPass
    pass,      \* the state of each pass
    copies,    \* rows each request's span has in the store
    rollup,    \* the stored rollup of each project
    rolled,    \* spans whose delta a committed rollup write carried
    life,      \* life of the process
    owed,      \* history: spans accepted and unresolved when the drain began
    faults, crashes

reqVars   == <<pc, outcome, checks>>
queueVars == <<queue, timer, waiters>>
passVars  == <<flushing, pass>>
storeVars == <<copies, rollup, rolled>>
envVars   == <<life, owed, faults, crashes>>
vars == <<reqVars, queueVars, passVars, storeVars, envVars>>

-----------------------------------------------------------------------------
(* Handlers and passes. *)

Answered == {"ok", "replay", "busy", "unavailable", "error", "cut"}
InFlight == {"looking", "preparing", "queued", "settling"}
PcStates == {"idle"} \cup InFlight \cup Answered

PassStages ==
    {"idle", "insert", "write", "backoff", "rollup", "merge", "resolve", "done"}

PassState ==
    [at : PassStages,
     batch : Seq(Req),                 \* the spliced batch
     proj : Project \cup {NoProject},  \* whose group is being inserted
     todo : SUBSET Project,            \* whose groups come after it
     tries : 1..2, won : SUBSET Req, seen : Nat]

IdlePass == [at |-> "idle", batch |-> <<>>, proj |-> NoProject, todo |-> {},
             tries |-> 1, won |-> {}, seen |-> 0]

Live(p) == pass[p].at # "idle"

Members(s) == {s[i] : i \in DOMAIN s}

\* Spans of one project with the same id: the idempotency key
SameSpan(r, q) ==
    /\ SpanOf[r] # NoSpan
    /\ SpanOf[r] = SpanOf[q]
    /\ ProjOf[r] = ProjOf[q]

Stored(r) == copies[r] > 0
Held(r) == \E q \in Req : SameSpan(r, q) /\ Stored(q)

-----------------------------------------------------------------------------
(* Batches: byProject groups a batch, in order of first occurrence. *)

\* The group insertBatch is working on
Group(p) == {r \in Members(pass[p].batch) : ProjOf[r] = pass[p].proj}

\* No earlier row of the statement has r's key
FirstOfItsSpan(r, batch) ==
    \E j \in DOMAIN batch :
        batch[j] = r /\ \A i \in 1 .. j - 1 : ~SameSpan(r, batch[i])

\* Mutant: the batch is deduplicated but the store is not consulted
WinnersInBatchOnly(p) == {r \in Group(p) : FirstOfItsSpan(r, pass[p].batch)}

\* filterSpanIdWinners, and what ON CONFLICT DO NOTHING keeps: a span whose key
\* is neither in the store nor earlier in the same statement.  The row id is a
\* primary key only where the unique index exists too.
Winners(p) ==
    {r \in Group(p) :
        /\ FirstOfItsSpan(r, pass[p].batch)
        /\ ~Held(r)
        /\ UniqueIndex => ~Stored(r)}

Landed(won) == [r \in Req |-> IF r \in won THEN copies[r] + 1 ELSE copies[r]]

\* The pass state that starts inserting the group of batch[i]
StartGroup(batch, i, todo) ==
    [at |-> "insert", batch |-> batch, proj |-> ProjOf[batch[i]],
     todo |-> todo \ {ProjOf[batch[i]]}, tries |-> 1, won |-> {}, seen |-> 0]

\* queue.splice(0, FLUSH_SIZE), and its first group
Splice(q) ==
    LET n == IF Len(q) < FlushSize THEN Len(q) ELSE FlushSize
        b == SubSeq(q, 1, n)
    IN  StartGroup(b, 1, {ProjOf[r] : r \in Members(b)})

Remaining(q) ==
    IF Len(q) < FlushSize THEN <<>> ELSE SubSeq(q, FlushSize + 1, Len(q))

\* The synchronous part of flushNow(), with q queued: wait for the slot, return
\* at once when nothing is queued, or claim the slot and splice the first batch.
Claim(q) ==
    \E p \in Pass :
        /\ ~Live(p)
        /\ flushing' = p
        /\ pass' = [pass EXCEPT ![p] = Splice(q)]
        /\ queue' = Remaining(q)

\* Mutant: a call that finds a pass running returns instead of waiting for it
FlushNowOrReturn(q) ==
    \/ /\ flushing # NoPass \/ q = <<>>
       /\ queue' = q
       /\ UNCHANGED <<waiters, passVars>>
    \/ /\ flushing = NoPass
       /\ q # <<>>
       /\ Claim(q)
       /\ UNCHANGED waiters

FlushNow(q) ==
    \/ /\ flushing # NoPass
       /\ waiters' = waiters + 1
       /\ queue' = q
       /\ UNCHANGED passVars
    \/ /\ flushing = NoPass
       /\ q = <<>>
       /\ queue' = q
       /\ UNCHANGED <<waiters, passVars>>
    \/ /\ flushing = NoPass
       /\ q # <<>>
       /\ Claim(q)
       /\ UNCHANGED waiters

-----------------------------------------------------------------------------
(* The request handler: beginIngestTraceQueued and POST /traces. *)

Init ==
    /\ pc = [r \in Req |-> "idle"]
    /\ outcome = [r \in Req |-> "none"]
    /\ checks = [r \in Req |-> "none"]
    /\ queue = <<>>
    /\ timer = FALSE
    /\ waiters = 0
    /\ flushing = NoPass
    /\ pass = [p \in Pass |-> IdlePass]
    /\ copies = [r \in Req |-> 0]
    /\ rollup = [j \in Project |-> 0]
    /\ rolled = {}
    /\ life = "serving"
    /\ owed = {}
    /\ faults = 0
    /\ crashes = 0

Running == life # "exited"
CanFail == faults < MaxFaults
Fault == CanFail /\ faults' = faults + 1

Goto(r, s) == pc' = [pc EXCEPT ![r] = s]

\* A delivery reaches the route; only a span id buys the fast-path lookup
Arrive(r) ==
    /\ life = "serving"
    /\ pc[r] = "idle"
    /\ Goto(r, IF SpanOf[r] = NoSpan THEN "preparing" ELSE "looking")
    /\ UNCHANGED <<outcome, checks, queueVars, passVars, storeVars, envVars>>

\* findTraceBySpanId(...).catch(() => null): a hit answers the replay at once,
\* a miss and a failed lookup both proceed
LookupHits(r) ==
    /\ Running
    /\ pc[r] = "looking"
    /\ Held(r)
    /\ Goto(r, "replay")
    /\ UNCHANGED <<outcome, checks, queueVars, passVars, storeVars, envVars>>

LookupMisses(r) ==
    /\ Running
    /\ pc[r] = "looking"
    /\ \/ ~Held(r) /\ UNCHANGED faults
       \/ Held(r) /\ Fault
    /\ Goto(r, "preparing")
    /\ UNCHANGED <<outcome, checks, queueVars, passVars, storeVars, life, owed, crashes>>

\* prepareSpanRow throws (resolveAgentId reads and writes the control plane)
PrepareFails(r) ==
    /\ Running
    /\ pc[r] = "preparing"
    /\ Fault
    /\ Goto(r, "error")
    /\ UNCHANGED <<outcome, checks, queueVars, passVars, storeVars, life, owed, crashes>>

Full == Len(queue) >= QueueMax

\* enqueueSpan refuses: the route answers 429
QueueFull(r) ==
    /\ Running
    /\ pc[r] = "preparing"
    /\ Full
    /\ Goto(r, "busy")
    /\ UNCHANGED <<outcome, checks, queueVars, passVars, storeVars, envVars>>

\* enqueueSpan accepts and scheduleFlush runs: a full batch flushes now, else
\* the timer is armed unless it already is
Enqueue(r) ==
    LET q == Append(queue, r) IN
    /\ Running
    /\ pc[r] = "preparing"
    /\ ~Full
    /\ Goto(r, "queued")
    /\ \/ /\ Len(q) >= FlushSize
          /\ FlushNow(q)
          /\ UNCHANGED timer
       \/ /\ Len(q) < FlushSize
          /\ queue' = q
          /\ timer' = TRUE
          /\ UNCHANGED <<waiters, passVars>>
    /\ UNCHANGED <<outcome, checks, storeVars, envVars>>

\* The promise resolved: 200 and the detached pipeline in the same turn, 503,
\* or (a span that lost the conflict) a lookup of the winner
Settle(r) ==
    /\ Running
    /\ pc[r] = "queued"
    /\ \/ /\ outcome[r] = "stored"
          /\ Goto(r, "ok")
          /\ checks' = [checks EXCEPT ![r] = "running"]
       \/ /\ outcome[r] = "dropped"
          /\ Goto(r, "unavailable")
          /\ UNCHANGED checks
       \/ /\ outcome[r] = "deduped"
          /\ Goto(r, IF SpanOf[r] = NoSpan THEN "replay" ELSE "settling")
          /\ UNCHANGED checks
    /\ UNCHANGED <<outcome, queueVars, passVars, storeVars, envVars>>

\* The winner lookup has no catch: a failure surfaces as a 500
FindWinner(r) ==
    /\ Running
    /\ pc[r] = "settling"
    /\ \/ Goto(r, "replay") /\ UNCHANGED faults
       \/ Goto(r, "error") /\ Fault
    /\ UNCHANGED <<outcome, checks, queueVars, passVars, storeVars, life, owed, crashes>>

\* Detection, judges, rules and topics finish for a stored span
ChecksRun(r) ==
    /\ Running
    /\ checks[r] = "running"
    /\ checks' = [checks EXCEPT ![r] = "done"]
    /\ UNCHANGED <<pc, outcome, queueVars, passVars, storeVars, envVars>>

-----------------------------------------------------------------------------
(* The flush: timer, waiters, and the steps of a pass. *)

TimerFires ==
    /\ Running
    /\ timer
    /\ timer' = FALSE
    /\ FlushNow(queue)
    /\ UNCHANGED <<reqVars, storeVars, envVars>>

\* Mutant: `if (flushing) await flushing` in place of the loop
WaiterResumesWithoutRecheck ==
    /\ Running
    /\ waiters > 0
    /\ waiters' = waiters - 1
    /\ \/ queue # <<>> /\ Claim(queue)
       \/ queue = <<>> /\ UNCHANGED <<queue, passVars>>
    /\ UNCHANGED <<timer, reqVars, storeVars, envVars>>

\* A flushNow suspended on an earlier pass re-checks the slot: it claims it or
\* finds the queue already emptied.  It goes on waiting while a pass runs.
WaiterResumes ==
    /\ Running
    /\ waiters > 0
    /\ flushing = NoPass
    /\ waiters' = waiters - 1
    /\ \/ queue # <<>> /\ Claim(queue)
       \/ queue = <<>> /\ UNCHANGED <<queue, passVars>>
    /\ UNCHANGED <<timer, reqVars, storeVars, envVars>>

\* The pass turns to the group of the next project of its batch, to the next
\* batch, or ends
NextGroup(p) ==
    LET batch == pass[p].batch
        todo == pass[p].todo
    IN
    \/ \E i \in DOMAIN batch :
          /\ ProjOf[batch[i]] \in todo
          /\ \A j \in 1 .. i - 1 : ProjOf[batch[j]] \notin todo
          /\ pass' = [pass EXCEPT ![p] = StartGroup(batch, i, todo)]
          /\ UNCHANGED queue
    \/ /\ todo = {}
       /\ queue # <<>>
       /\ pass' = [pass EXCEPT ![p] = Splice(queue)]
       /\ queue' = Remaining(queue)
    \/ /\ todo = {}
       /\ queue = <<>>
       /\ pass' = [pass EXCEPT ![p] = [IdlePass EXCEPT !.at = "done"]]
       /\ UNCHANGED queue

At(p, stage) == Running /\ pass[p].at = stage

AfterInsert(won) == IF won = {} THEN "resolve" ELSE "rollup"

\* One INSERT ... ON CONFLICT DO NOTHING under the unique index
InsertAtomically(p) ==
    /\ UniqueIndex
    /\ At(p, "insert")
    /\ copies' = Landed(Winners(p))
    /\ pass' = [pass EXCEPT ![p].at = AfterInsert(Winners(p)), ![p].won = Winners(p)]
    /\ UNCHANGED <<reqVars, queueVars, flushing, rollup, rolled, envVars>>

\* Check-then-insert: read which span ids are taken, then insert the rest
CheckTaken(p) ==
    /\ ~UniqueIndex
    /\ At(p, "insert")
    /\ pass' = [pass EXCEPT ![p].at = IF Winners(p) = {} THEN "resolve" ELSE "write",
                            ![p].won = Winners(p)]
    /\ UNCHANGED <<reqVars, queueVars, flushing, storeVars, envVars>>

InsertChecked(p) ==
    /\ At(p, "write")
    /\ copies' = Landed(pass[p].won)
    /\ pass' = [pass EXCEPT ![p].at = "rollup"]
    /\ UNCHANGED <<reqVars, queueVars, flushing, rollup, rolled, envVars>>

\* insertSpans throws.  An acknowledgement lost on the way back looks the same
\* to the caller as an insert that never happened.
MayHaveCommitted(p) ==
    \/ UNCHANGED copies
    \/ /\ LostAcks
       /\ UniqueIndex \/ pass[p].at = "write"
       /\ copies' = Landed(IF UniqueIndex THEN Winners(p) ELSE pass[p].won)

\* Mutant: a batch that failed its retry is reported "deduped"
InsertFailsAsDeduped(p) ==
    /\ At(p, "insert") \/ At(p, "write")
    /\ Fault
    /\ MayHaveCommitted(p)
    /\ outcome' = [r \in Req |-> IF r \in Group(p) THEN "deduped" ELSE outcome[r]]
    /\ NextGroup(p)
    /\ UNCHANGED <<pc, checks, timer, waiters, flushing, rollup, rolled, life, owed, crashes>>

InsertFails(p) ==
    /\ At(p, "insert") \/ At(p, "write")
    /\ Fault
    /\ MayHaveCommitted(p)
    /\ \/ /\ pass[p].tries = 1
          /\ pass' = [pass EXCEPT ![p].at = "backoff", ![p].won = {}]
          /\ UNCHANGED <<outcome, queue>>
       \/ /\ pass[p].tries = 2
          /\ outcome' = [r \in Req |-> IF r \in Group(p) THEN "dropped" ELSE outcome[r]]
          /\ NextGroup(p)
    /\ UNCHANGED <<pc, checks, timer, waiters, flushing, rollup, rolled, life, owed, crashes>>

\* 250 ms later, the one retry
Retry(p) ==
    /\ At(p, "backoff")
    /\ pass' = [pass EXCEPT ![p].at = "insert", ![p].tries = 2]
    /\ UNCHANGED <<reqVars, queueVars, flushing, storeVars, envVars>>

\* applyRollups: read the project's rollup, then write it back merged.  A minute
\* that has no row yet is inserted ON CONFLICT DO NOTHING.
ReadRollup(p) ==
    /\ At(p, "rollup")
    /\ pass' = [pass EXCEPT ![p].at = "merge", ![p].seen = rollup[pass[p].proj]]
    /\ UNCHANGED <<reqVars, queueVars, flushing, storeVars, envVars>>

WriteRollup(p) ==
    LET j == pass[p].proj
        conflict == pass[p].seen = 0 /\ rollup[j] # 0
    IN
    /\ At(p, "merge")
    /\ rollup' = IF conflict THEN rollup
                 ELSE [rollup EXCEPT ![j] = pass[p].seen + Cardinality(pass[p].won)]
    /\ rolled' = rolled \cup pass[p].won
    /\ pass' = [pass EXCEPT ![p].at = "resolve"]
    /\ UNCHANGED <<reqVars, queueVars, flushing, copies, envVars>>

\* Mutant: the error escapes applyRollups and ends the pass
RollupFailureEndsPass(p) ==
    /\ At(p, "rollup") \/ At(p, "merge")
    /\ Fault
    /\ pass' = [pass EXCEPT ![p].at = "done"]
    /\ UNCHANGED <<reqVars, queueVars, flushing, storeVars, life, owed, crashes>>

\* applyRollups swallows every error: the flush goes on without the delta
RollupFails(p) ==
    /\ At(p, "rollup") \/ At(p, "merge")
    /\ Fault
    /\ pass' = [pass EXCEPT ![p].at = "resolve"]
    /\ UNCHANGED <<reqVars, queueVars, flushing, storeVars, life, owed, crashes>>

\* Mutant: every row of a batch that did not fail resolves "stored"
ResolveAllStored(p) ==
    /\ At(p, "resolve")
    /\ outcome' = [r \in Req |-> IF r \in Group(p) THEN "stored" ELSE outcome[r]]
    /\ NextGroup(p)
    /\ UNCHANGED <<pc, checks, timer, waiters, flushing, storeVars, envVars>>

Resolve(p) ==
    /\ At(p, "resolve")
    /\ outcome' = [r \in Req |->
                      IF r \notin Group(p) THEN outcome[r]
                      ELSE IF r \in pass[p].won THEN "stored" ELSE "deduped"]
    /\ NextGroup(p)
    /\ UNCHANGED <<pc, checks, timer, waiters, flushing, storeVars, envVars>>

\* flushNow's finally: the slot is given up in a later turn than the one in
\* which the pass saw an empty queue.  A drain that ran this pass returns.
ReleaseSlot(p) ==
    /\ At(p, "done")
    /\ pass' = [pass EXCEPT ![p] = IdlePass]
    /\ flushing' = IF flushing = p THEN NoPass ELSE flushing
    /\ life' = IF life = "drainpass" THEN "drained" ELSE life
    /\ UNCHANGED <<reqVars, queueVars, storeVars, owed, faults, crashes>>

-----------------------------------------------------------------------------
(* Shutdown and crashes (index.ts). *)

Sigterm ==
    /\ MayStop
    /\ life = "serving"
    /\ life' = "closing"
    /\ UNCHANGED <<reqVars, queueVars, passVars, storeVars, owed, faults, crashes>>

\* server.close calls back once every connection is closed.  Its handler has
\* answered, or (ForcedClose) its socket went first.  drainIngestQueue disarms
\* the timer and calls flushNow.
DrainStarts ==
    /\ life = "closing"
    /\ ForcedClose \/ \A r \in Req : pc[r] \notin InFlight
    /\ timer' = FALSE
    /\ life' = "draining"
    /\ owed' = {r \in Req : pc[r] = "queued" /\ outcome[r] = "none"}
    /\ UNCHANGED <<reqVars, queue, waiters, passVars, storeVars, faults, crashes>>

\* Mutant: the drain does not wait for the pass in progress
DrainLooksAtQueueOnly ==
    /\ life = "draining"
    /\ queue = <<>>
    /\ life' = "drained"
    /\ UNCHANGED <<reqVars, queueVars, passVars, storeVars, owed, faults, crashes>>

\* The drain's flushNow, once no pass holds the slot
DrainFlushes ==
    /\ life = "draining"
    /\ flushing = NoPass
    /\ \/ /\ queue = <<>>
          /\ life' = "drained"
          /\ UNCHANGED <<queue, passVars>>
       \/ /\ queue # <<>>
          /\ Claim(queue)
          /\ life' = "drainpass"
    /\ UNCHANGED <<reqVars, timer, waiters, storeVars, owed, faults, crashes>>

Exit ==
    /\ life = "drained"
    /\ life' = "exited"
    /\ UNCHANGED <<reqVars, queueVars, passVars, storeVars, owed, faults, crashes>>

\* The process dies and a fresh one serves the same store
Crash ==
    /\ Running
    /\ crashes < MaxCrashes
    /\ crashes' = crashes + 1
    /\ life' = "serving"
    /\ pc' = [r \in Req |-> IF pc[r] \in InFlight THEN "cut" ELSE pc[r]]
    /\ checks' = [r \in Req |-> IF checks[r] = "running" THEN "lost" ELSE checks[r]]
    /\ queue' = <<>>
    /\ timer' = FALSE
    /\ waiters' = 0
    /\ flushing' = NoPass
    /\ pass' = [p \in Pass |-> IdlePass]
    /\ owed' = {}
    /\ UNCHANGED <<outcome, storeVars, faults>>

\* Nothing is left to do: every delivery was answered and checked, and the
\* flusher is at rest; or the process has exited
Quiescent ==
    /\ \/ life = "exited"
       \/ /\ \A r \in Req : pc[r] \in Answered /\ checks[r] # "running"
          /\ ~timer /\ waiters = 0 /\ flushing = NoPass
    /\ UNCHANGED vars

HandlerStep(r) ==
    \/ LookupHits(r) \/ LookupMisses(r) \/ QueueFull(r) \/ Enqueue(r)
    \/ Settle(r) \/ FindWinner(r) \/ ChecksRun(r)

PassStep(p) ==
    \/ InsertAtomically(p) \/ CheckTaken(p) \/ InsertChecked(p)
    \/ InsertFails(p) \/ Retry(p)
    \/ ReadRollup(p) \/ WriteRollup(p) \/ RollupFails(p)
    \/ Resolve(p) \/ ReleaseSlot(p)

DrainStep == DrainStarts \/ DrainFlushes \/ Exit

Next ==
    \/ \E r \in Req : Arrive(r) \/ HandlerStep(r) \/ PrepareFails(r)
    \/ \E p \in Pass : PassStep(p)
    \/ TimerFires \/ WaiterResumes
    \/ Sigterm \/ DrainStep
    \/ Crash
    \/ Quiescent

Spec == Init /\ [][Next]_vars

\* The event loop runs every ready task, an armed timer fires, and a storage
\* call returns.  Clients, signals, failures and crashes owe nothing.
Fairness ==
    /\ \A r \in Req : WF_vars(HandlerStep(r))
    /\ \A p \in Pass : WF_vars(PassStep(p))
    /\ WF_vars(TimerFires)
    /\ WF_vars(WaiterResumes)
    /\ WF_vars(DrainStep)

FairSpec == Spec /\ Fairness

-----------------------------------------------------------------------------
(* Properties. *)

TypeOK ==
    /\ pc \in [Req -> PcStates]
    /\ outcome \in [Req -> {"none", "stored", "deduped", "dropped"}]
    /\ checks \in [Req -> {"none", "running", "done", "lost"}]
    /\ queue \in Seq(Req)
    /\ Len(queue) <= QueueMax
    /\ timer \in BOOLEAN
    /\ waiters \in Nat
    /\ flushing \in Pass \cup {NoPass}
    /\ pass \in [Pass -> PassState]
    /\ copies \in [Req -> Nat]
    /\ rollup \in [Project -> Nat]
    /\ rolled \subseteq Req
    /\ owed \subseteq Req
    /\ life \in {"serving", "closing", "draining", "drainpass", "drained", "exited"}
    /\ faults \in Nat
    /\ crashes \in Nat

\* "At most one pass runs at a time", whoever called flushNow and in whatever
\* order the waiters wake (ingestQueue.ts, flushNow).
SingleFlusher == \A p \in Pass : Live(p) <=> flushing = p

\* No accepted span is stranded: while the process serves, a queued span has an
\* armed timer, a suspended flushNow or a running pass that will reach it
\* (scheduleFlush and flushNow).
NoStrandedSpan ==
    queue # <<>> /\ life \in {"serving", "closing"} =>
        \/ timer
        \/ waiters > 0
        \/ \E p \in Pass : Live(p) /\ pass[p].at # "done"

\* The ack means "durably stored": a 200 finds the span in the store, be it
\* this delivery's row or the row of the one it replays (ADR-0005).
AckIsDurable ==
    \A r \in Req :
        /\ pc[r] = "ok" => Stored(r)
        /\ pc[r] = "replay" => Stored(r) \/ Held(r)

\* The idempotency key holds on every backend: a (project, span id) has at most
\* one row, also where the store only checks and then inserts.
OneRowPerSpan ==
    \A r, q \in Req :
        SameSpan(r, q) /\ Stored(r) /\ Stored(q) => r = q /\ copies[r] = 1

\* A replay never runs the pipeline again: judges cannot double-bill on a
\* replay race, and a span that was not answered 200 is never checked.
CheckedOncePerSpan ==
    \A r, q \in Req :
        /\ checks[r] # "none" => Stored(r)
        /\ SameSpan(r, q) /\ checks[r] # "none" /\ checks[q] # "none" => r = q

\* The rollup read-modify-write loses no delta: each project's stored rollup
\* counts exactly the spans whose delta was written.
RollupsLoseNothing ==
    \A j \in Project : rollup[j] = Cardinality({r \in rolled : ProjOf[r] = j})

\* drainIngestQueue settles every span that was accepted before it was called,
\* also the ones a pass had already taken or that another flushNow waited for.
DrainSettlesWhatItFound ==
    life \in {"drained", "exited"} => \A r \in owed : outcome[r] # "none"

\* Every span enqueueSpan accepts settles: its request is answered.
EveryAcceptedSettles ==
    \A r \in Req : (pc[r] = "queued") ~> (pc[r] \in Answered)

\* The row of r landed, and its batch was told that the insert failed
Unheard(r) ==
    /\ Stored(r)
    /\ \/ outcome[r] = "dropped"
       \/ \E p \in Pass : pass[p].at = "backoff" /\ r \in Group(p)

\* A crash took the request of r, or its pipeline
Cut(r) == pc[r] = "cut" \/ checks[r] = "lost"

\* Every span that lands is checked by its own delivery's pipeline, but for a row
\* whose insert was not acknowledged, which its retry takes for another's
\* (ingestQueue.ts, insertBatch), and for a crash before the checks are through
\* (routes/ingest.ts, POST /traces): nothing makes up for either.
EveryStoredIsChecked ==
    \A r \in Req : <>Stored(r) => <>(checks[r] = "done" \/ Unheard(r) \/ Cut(r))

-----------------------------------------------------------------------------
(* The batcher implements what ingest promises. *)

RowsHeld == {r \in Req : Stored(r)}
ChecksStarted == {r \in Req : checks[r] # "none"}
AnswerGiven ==
    [r \in Req |-> CASE pc[r] \in {"idle"} \cup InFlight -> "none"
                     [] pc[r] = "ok" -> "stored"
                     [] pc[r] = "replay" -> "replayed"
                     [] OTHER -> "refused"]

Delivery == INSTANCE SpanDelivery WITH
    SameKey <- SameSpan, rows <- RowsHeld, answer <- AnswerGiven, checked <- ChecksStarted

\* Batching, retries, lost acknowledgements and crashes are invisible to a
\* client: every step is one of SpanDelivery, or changes nothing it can see.
ImplementsDelivery == Delivery!Spec

=============================================================================
