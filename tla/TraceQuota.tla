----------------------------- MODULE TraceQuota -----------------------------
(***************************************************************************)
(* The daily root-trace quota (core/shared/traceQuota.ts) and the two      *)
(* routes that spend it: the OTLP export (routes/otlp.ts), which hands     *)
(* back what it did not store, and the SDK's POST /traces                  *)
(* (routes/ingest.ts), which never does.                                   *)
(*                                                                         *)
(* One process and one project.  Reservations and releases run one after   *)
(* the other on reservationChain; only the read that seeds the counter     *)
(* leaves the event loop.  A root is charged to the day the clock shows    *)
(* and counted, by the read that seeds the counter, on the day its client  *)
(* says it started: the two days differ for a late or an imported span.    *)
(* How a span gets from the queue into the store is IngestQueue's subject: *)
(* here it lands, dedupes, is shed or dropped.                             *)
(***************************************************************************)
EXTENDS Naturals, Sequences, FiniteSets

CONSTANTS
    Export,        \* requests that carry root spans
    Sdk,           \* the exports that come through POST /traces
    Root,          \* root spans, each with an idempotency key
    RootsOf,       \* [Export -> SUBSET Root]; a redelivery repeats roots
    Started,       \* [Root -> day its client says it started, or NoDay]
    Quota,         \* AGENTX_QUOTA_TRACES_PER_DAY
    FirstDay,      \* the day on which the process comes up; days count from 1
    LastDay,       \* bound: the clock shows the days FirstDay .. LastDay
    MaxFaults,     \* bound: storage calls that fail
    MaxCrashes     \* bound: process crashes

ASSUME RootAssumption ==
    /\ IsFiniteSet(Root)
    /\ IsFiniteSet(Export)
    /\ RootsOf \in [Export -> SUBSET Root]
    /\ \A e \in Export : RootsOf[e] # {}
    /\ \A e \in Sdk : Cardinality(RootsOf[e]) = 1
    /\ Started \in [Root -> Nat]
ASSUME BoundAssumption ==
    /\ Quota \in Nat \ {0}
    /\ FirstDay \in Nat \ {0}
    /\ LastDay \in Nat
    /\ FirstDay <= LastDay
    /\ MaxFaults \in Nat
    /\ MaxCrashes \in Nat

VARIABLES
    day,      \* the UTC day the clock shows
    entry,    \* rootSpend of the project; NoEntry when it has none
    chain,    \* reservationChain: tasks in order, the first one running
    read,     \* what countRoots answered the running reservation
    pc,       \* where each request is
    fate,     \* what became of each root of each request
    stamp,    \* the day in the createdAt of each prepared row
    rows,     \* the store: the day in the createdAt of each root, or NoDay
    charged,  \* history: the day each granted request was charged to, or NoDay
    carried,  \* history: requests under way, or with a queued root, at a midnight
    faults, crashes

requestVars == <<pc, fate, stamp>>
quotaVars   == <<entry, chain, read, charged>>
envVars     == <<day, carried, faults, crashes>>
vars == <<requestVars, quotaVars, rows, envVars>>

Days == FirstDay .. LastDay
NoDay == 0
NoEntry == [day |-> NoDay, count |-> 0]

Size(e) == Cardinality(RootsOf[e])
\* What countRoots(midnight of d) counts: no row is too new for it
RowsSince(d) == {x \in Root : rows[x] # NoDay /\ rows[x] >= d}

\* createdAt is the client's start, unless there is none or it is more than a
\* minute ahead of the clock: tomorrow is, or is not, within that minute
CreatedOn(x) ==
    IF Started[x] \in 1 .. day THEN {Started[x]}
    ELSE {day} \cup ({Started[x]} \cap {day + 1})

\* "error": the reservation threw; "failed": the handler did, after it
Answered == {"answered", "over", "error", "failed", "cut"}
\* "refused": shed at the full queue, or schema-invalid; "replayed": a hit of
\* the fast-path lookup; "deduped": lost the conflict at the insert;
\* "unacknowledged": lost it to its own row, which the route cannot tell apart
Settled == {"stored", "replayed", "deduped", "unacknowledged", "dropped", "refused"}

Init ==
    /\ day = FirstDay
    /\ entry = NoEntry
    /\ chain = <<>>
    /\ read = NoEntry
    /\ pc = [e \in Export |-> "idle"]
    /\ fate = [e \in Export |-> [x \in Root |-> "none"]]
    /\ stamp = [e \in Export |-> [x \in Root |-> NoDay]]
    /\ rows = [x \in Root |-> NoDay]
    /\ charged = [e \in Export |-> NoDay]
    /\ carried = {}
    /\ faults = 0
    /\ crashes = 0

Fault == faults < MaxFaults /\ faults' = faults + 1
Goto(e, s) == pc' = [pc EXCEPT ![e] = s]
Becomes(e, x, f) == fate' = [fate EXCEPT ![e][x] = f]

\* Mutant: a 429 or 503 hands the whole reservation back
WholeReservation(e) == RootsOf[e]

\* Roots of e that are not new rows: what the route hands back
Unused(e) == {x \in RootsOf[e] : fate[e][x] # "stored"}

-----------------------------------------------------------------------------
(* reservationChain. *)

\* A request reaches the quota check and chains its reservation
Arrive(e) ==
    /\ pc[e] = "idle"
    /\ Goto(e, "reserving")
    /\ chain' = Append(chain, e)
    /\ UNCHANGED <<fate, stamp, entry, read, charged, rows, envVars>>

Runs(e, s) == chain # <<>> /\ Head(chain) = e /\ pc[e] = s

\* Mutant: the quota is compared before the roots are added
GrantWhileBelow(e, d, used) ==
    /\ chain' = Tail(chain)
    /\ \/ /\ used >= Quota
          /\ entry' = [day |-> d, count |-> used]
          /\ Goto(e, "over")
          /\ UNCHANGED charged
       \/ /\ used < Quota
          /\ entry' = [day |-> d, count |-> used + Size(e)]
          /\ Goto(e, "ingesting")
          /\ charged' = [charged EXCEPT ![e] = d]

\* entry.count + roots > quota: the 429; else the roots are charged
Grant(e, d, used) ==
    /\ chain' = Tail(chain)
    /\ \/ /\ used + Size(e) > Quota
          /\ entry' = [day |-> d, count |-> used]
          /\ Goto(e, "over")
          /\ UNCHANGED charged
       \/ /\ used + Size(e) <= Quota
          /\ entry' = [day |-> d, count |-> used + Size(e)]
          /\ Goto(e, "ingesting")
          /\ charged' = [charged EXCEPT ![e] = d]

Reserve(e) ==
    /\ Runs(e, "reserving")
    /\ entry.day = day
    /\ Grant(e, day, entry.count)
    /\ UNCHANGED <<fate, stamp, read, rows, envVars>>

\* The first reservation of a day counts the roots the store holds for it; the
\* day is the one the clock showed when the task began
SeedRead(e) ==
    /\ Runs(e, "reserving")
    /\ entry.day # day
    /\ read' = [day |-> day, count |-> Cardinality(RowsSince(day))]
    /\ Goto(e, "seeding")
    /\ UNCHANGED <<fate, stamp, entry, chain, charged, rows, envVars>>

SeedSet(e) ==
    /\ Runs(e, "seeding")
    /\ Grant(e, read.day, read.count)
    /\ read' = NoEntry
    /\ UNCHANGED <<fate, stamp, rows, envVars>>

\* Mutant: the rejected link is not settled, so the chain never moves on
SeedFailureWedges(e) ==
    /\ Runs(e, "seeding")
    /\ Fault
    /\ Goto(e, "error")
    /\ read' = NoEntry
    /\ UNCHANGED <<fate, stamp, entry, chain, charged, rows, day, carried, crashes>>

\* countRoots throws: this request fails, the next link runs all the same
SeedFails(e) ==
    /\ Runs(e, "seeding")
    /\ Fault
    /\ Goto(e, "error")
    /\ chain' = Tail(chain)
    /\ read' = NoEntry
    /\ UNCHANGED <<fate, stamp, entry, charged, rows, day, carried, crashes>>

\* releaseTraceRoots: a no-op when the counter is of another day than the clock
Release(e) ==
    /\ Runs(e, "releasing")
    /\ chain' = Tail(chain)
    /\ LET back == Cardinality(Unused(e))
           left == IF back > entry.count THEN 0 ELSE entry.count - back
       IN  entry' = IF entry.day = day THEN [entry EXCEPT !.count = left] ELSE entry
    /\ Goto(e, "answered")
    /\ UNCHANGED <<fate, stamp, read, charged, rows, envVars>>

-----------------------------------------------------------------------------
(* Ingest of the roots that were charged. *)

\* The fast-path lookup finds the root in the store
ReplayHit(e, x) ==
    /\ pc[e] = "ingesting" /\ x \in RootsOf[e] /\ fate[e][x] = "none"
    /\ rows[x] # NoDay
    /\ Becomes(e, x, "replayed")
    /\ UNCHANGED <<pc, stamp, quotaVars, rows, envVars>>

Refuse(e, x) ==
    /\ pc[e] = "ingesting" /\ x \in RootsOf[e] /\ fate[e][x] = "none"
    /\ Becomes(e, x, "refused")
    /\ UNCHANGED <<pc, stamp, quotaVars, rows, envVars>>

\* prepareSpanRow stamps the row, which is queued.  A failed lookup queues a span
\* that the store already holds.
Enqueue(e, x) ==
    /\ pc[e] = "ingesting" /\ x \in RootsOf[e] /\ fate[e][x] = "none"
    /\ \/ rows[x] = NoDay /\ UNCHANGED faults
       \/ rows[x] # NoDay /\ Fault
    /\ Becomes(e, x, "queued")
    /\ \E d \in CreatedOn(x) : stamp' = [stamp EXCEPT ![e][x] = d]
    /\ UNCHANGED <<pc, quotaVars, rows, day, carried, crashes>>

\* The flush inserts the row, whether or not its request still waits
Land(e, x) ==
    /\ fate[e][x] = "queued"
    /\ \/ /\ rows[x] = NoDay
          /\ rows' = [rows EXCEPT ![x] = stamp[e][x]]
          /\ Becomes(e, x, "stored")
       \/ /\ rows[x] # NoDay
          /\ Becomes(e, x, "deduped")
          /\ UNCHANGED rows
    /\ UNCHANGED <<pc, stamp, quotaVars, envVars>>

Drop(e, x) ==
    /\ fate[e][x] = "queued"
    /\ Fault
    /\ Becomes(e, x, "dropped")
    /\ UNCHANGED <<pc, stamp, quotaVars, rows, day, carried, crashes>>

\* The insert commits, its acknowledgement is lost, and the retry meets the row
LandUnacknowledged(e, x) ==
    /\ fate[e][x] = "queued"
    /\ Fault
    /\ rows[x] = NoDay
    /\ rows' = [rows EXCEPT ![x] = stamp[e][x]]
    /\ Becomes(e, x, "unacknowledged")
    /\ UNCHANGED <<pc, stamp, quotaVars, day, carried, crashes>>

\* prepareSpanRow throws between two enqueues, or the lookup of the winner of a
\* conflict throws: the route answers 500 and skips its release
Throw(e) ==
    /\ pc[e] = "ingesting"
    /\ \E x \in RootsOf[e] : fate[e][x] \in {"none", "deduped", "unacknowledged"}
    /\ Fault
    /\ Goto(e, "failed")
    /\ UNCHANGED <<fate, stamp, quotaVars, rows, day, carried, crashes>>

\* Mutant: dedupes of an export that succeeds are not handed back
FinishKeepsDedupes(e) ==
    /\ pc[e] = "ingesting"
    /\ \A x \in RootsOf[e] : fate[e][x] \in Settled
    /\ \/ /\ e \notin Sdk
          /\ \E x \in RootsOf[e] : fate[e][x] \in {"refused", "dropped"}
          /\ Goto(e, "releasing")
          /\ chain' = Append(chain, e)
       \/ /\ e \in Sdk \/ \A x \in RootsOf[e] : fate[e][x] \notin {"refused", "dropped"}
          /\ Goto(e, "answered")
          /\ UNCHANGED chain
    /\ UNCHANGED <<fate, stamp, entry, read, charged, rows, envVars>>

\* Every root has settled.  The OTLP route releases what it did not store.
Finish(e) ==
    /\ pc[e] = "ingesting"
    /\ \A x \in RootsOf[e] : fate[e][x] \in Settled
    /\ \/ /\ e \notin Sdk /\ Unused(e) # {}
          /\ Goto(e, "releasing")
          /\ chain' = Append(chain, e)
       \/ /\ e \in Sdk \/ Unused(e) = {}
          /\ Goto(e, "answered")
          /\ UNCHANGED chain
    /\ UNCHANGED <<fate, stamp, entry, read, charged, rows, envVars>>

-----------------------------------------------------------------------------

\* Midnight, UTC
DayEnds ==
    /\ day < LastDay
    /\ day' = day + 1
    /\ carried' = carried \cup
           {e \in Export : \/ pc[e] \in {"seeding", "ingesting", "releasing"}
                            \/ \E x \in Root : fate[e][x] = "queued"}
    /\ UNCHANGED <<requestVars, quotaVars, rows, faults, crashes>>

Crash ==
    /\ crashes < MaxCrashes
    /\ crashes' = crashes + 1
    /\ entry' = NoEntry
    /\ chain' = <<>>
    /\ read' = NoEntry
    /\ pc' = [e \in Export |-> IF pc[e] \in Answered \cup {"idle"} THEN pc[e] ELSE "cut"]
    /\ fate' = [e \in Export |-> [x \in Root |->
                   IF fate[e][x] = "queued" THEN "lost" ELSE fate[e][x]]]
    /\ UNCHANGED <<stamp, charged, rows, day, carried, faults>>

Quiescent ==
    /\ \A e \in Export : pc[e] \in Answered /\ \A x \in Root : fate[e][x] # "queued"
    /\ UNCHANGED vars

ChainStep(e) == Reserve(e) \/ SeedRead(e) \/ SeedSet(e) \/ SeedFails(e) \/ Release(e)

RootStep(e, x) ==
    \/ ReplayHit(e, x) \/ Refuse(e, x) \/ Enqueue(e, x)
    \/ Land(e, x) \/ Drop(e, x) \/ LandUnacknowledged(e, x)

Next ==
    \/ \E e \in Export : Arrive(e) \/ ChainStep(e) \/ Finish(e) \/ Throw(e)
    \/ \E e \in Export, x \in Root : RootStep(e, x)
    \/ DayEnds \/ Crash \/ Quiescent

Spec == Init /\ [][Next]_vars

\* Links run, storage calls return, and a handler reaches its end
HandlerStep(e) == Finish(e) \/ \E x \in Root : RootStep(e, x)

Fairness ==
    /\ WF_vars(\E e \in Export : ChainStep(e))
    /\ \A e \in Export : WF_vars(HandlerStep(e))

FairSpec == Spec /\ Fairness

-----------------------------------------------------------------------------
(* Properties. *)

TypeOK ==
    /\ day \in Days
    /\ entry \in [day : Days \cup {NoDay}, count : Nat]
    /\ read \in [day : Days \cup {NoDay}, count : Nat]
    /\ chain \in Seq(Export)
    /\ pc \in [Export -> {"idle", "reserving", "seeding", "ingesting", "releasing"} \cup Answered]
    /\ fate \in [Export -> [Root -> Settled \cup {"none", "queued", "lost"}]]
    /\ stamp \in [Export -> [Root -> Nat]]
    /\ rows \in [Root -> Nat]
    /\ charged \in [Export -> Days \cup {NoDay}]
    /\ carried \subseteq Export
    /\ faults \in Nat
    /\ crashes \in Nat

\* Roots of requests, each request with each of its roots
Spend == Export \X Root
InStore == {"stored", "unacknowledged"}

\* The roots that the reservations of a day let into the store, whatever day their
\* rows bear
Admitted(d) == {p \in Spend : charged[p[1]] = d /\ fate[p[1]][p[2]] \in InStore}

\* The roots of the requests that a midnight found under way: they are credited to,
\* or land in, a day that did not charge them
Late == {p \in Spend : p[1] \in carried /\ p[2] \in RootsOf[p[1]]}

\* A restart counts the rows of a day again, and misses the roots that the day let
\* in under an earlier start
Forgotten(d) ==
    IF crashes = 0 THEN {}
    ELSE {p \in Admitted(d) : fate[p[1]][p[2]] = "stored" /\ rows[p[2]] < d}

\* The roots stored without an answer, which their request hands back
Unacknowledged == {p \in Spend : fate[p[1]][p[2]] = "unacknowledged"}

\* "Never more": the reservations of a day let no more roots in than the cap and
\* the roots whose request a midnight found under way, those stored without an
\* answer, and those a restart forgets because their client dates them earlier;
\* without them the cap holds (traceQuota.ts, reserveTraceRoots).
OverrunIsBounded ==
    \A d \in Days :
        Cardinality(Admitted(d)) <=
            Quota + Cardinality(Late) + Cardinality(Admitted(d) \cap Unacknowledged)
                  + Cardinality(Forgotten(d))

\* "The counter can never go under what the store actually holds for the day", a
\* restart and rows dated ahead included, but for the roots of a request that a
\* midnight found under way and those stored without an answer (traceQuota.ts,
\* releaseTraceRoots).
CounterCoversStore ==
    entry.day = day =>
        entry.count + Cardinality(Late)
              + Cardinality({p \in Unacknowledged : rows[p[2]] >= day})
            >= Cardinality(RowsSince(day))

\* The roots that are charged and not in the store: their request is under way, or
\* it never hands them back
Unstored ==
    {p \in Spend :
        /\ p[2] \in Unused(p[1])
        /\ \/ pc[p[1]] \in {"ingesting", "releasing", "failed"}
           \/ p[1] \in Sdk /\ pc[p[1]] = "answered"}

\* Until the counter is seeded again, every charged root is in the store under
\* whatever date, in flight, or handed back, but for those an SDK request or a
\* handler that threw left unused: "release exactly what was reserved but NOT newly
\* stored" (routes/otlp.ts, the export handler).
CreditIsAccountedFor ==
    entry.day = FirstDay /\ day = FirstDay /\ crashes = 0 =>
        entry.count + Cardinality(Unacknowledged) =
            Cardinality(RowsSince(NoDay)) + Cardinality(Unstored)

\* A failed or refused reservation never holds up the ones chained behind it, and
\* every export is answered (traceQuota.ts, reservationChain).
Resting == \A e \in Export : pc[e] \in Answered \cup {"idle"}
EveryExportAnswered == ~Resting ~> Resting
=============================================================================
