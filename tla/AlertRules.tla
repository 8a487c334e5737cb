----------------------------- MODULE AlertRules -----------------------------
(***************************************************************************)
(* One KPI alert rule (core/monitor/alertRules.ts), the evaluations that   *)
(* drive its lifecycle (alertSweep.ts) and the requests that edit it.      *)
(*                                                                         *)
(* An evaluation reads the row, measures the metric, commits its verdict   *)
(* with a compare-and-set and only then pages.  Evaluations overlap: the   *)
(* manual route takes no lease, and a lease can be overrun.  A request     *)
(* reads the row, may page, and then writes the columns it names.          *)
(*                                                                         *)
(* The receiver keeps one incident open per key; the key of an episode is  *)
(* the rule's lastFiredAt.  The history rows of recordAlertEvent are left  *)
(* out: nothing reads them back to decide anything.                        *)
(***************************************************************************)
EXTENDS Naturals, FiniteSets

CONSTANTS
    Sweep,      \* evaluations that may overlap: interval, manual, replicas
    Edit,       \* requests that may overlap
    Kinds,      \* what a request asks for
    Def,        \* definitions: metric, operator, threshold, window, agent
    MaxOpen,    \* bound: with this many incidents open no new one is provoked
    MaxDeaths,  \* bound: evaluations and requests cut off by a crash
    MaxLost     \* bound: deliveries that fail

ASSUME KindAssumption == Kinds \subseteq {"rename", "redefine", "pause", "enable", "delete"}
ASSUME DefAssumption == Def # {}
ASSUME ActorAssumption == IsFiniteSet(Sweep) /\ IsFiniteSet(Edit)
ASSUME BoundAssumption == MaxOpen \in Nat /\ MaxDeaths \in Nat /\ MaxLost \in Nat

VARIABLES
    rule,      \* the row: definition, enabled, state, lastNotifiedAt, lastFiredAt
    deleted,   \* the row is gone
    breaching, \* the definitions the metric breaches now
    cooled,    \* cooldownMinutes have passed since rule.notified
    sweep,     \* where each evaluation is
    edit,      \* where each request is
    open,      \* the keys of the incidents open at the receiver
    episode,   \* history: a trigger was committed and nothing ended it since
    crossed,   \* history: a page was on its way when another could change it
    deaths, lost

ruleVars == <<rule, deleted, episode>>
worldVars == <<breaching, cooled>>
vars == <<ruleVars, worldVars, sweep, edit, open, crossed, deaths, lost>>

\* The null time stamp.  Stamps are compared within their column only, so a new
\* one is a small number that nothing holds.
Null == 0

Row == [def : Def, enabled : BOOLEAN, state : {"ok", "firing"},
        notified : Nat, fired : Nat]

\* createAlertRule
Created == [def |-> CHOOSE d \in Def : TRUE, enabled |-> TRUE, state |-> "ok",
            notified |-> Null, fired |-> Null]

Asleep == [at |-> "idle", row |-> Created, breach |-> FALSE, page |-> "none"]
NoRequest == [at |-> "idle", kind |-> "none", def |-> Created.def, resets |-> FALSE, key |-> Null]

Init ==
    /\ rule = Created
    /\ deleted = FALSE
    /\ episode = FALSE
    /\ breaching = {}
    /\ cooled = FALSE
    /\ sweep = [s \in Sweep |-> Asleep]
    /\ edit = [e \in Edit |-> NoRequest]
    /\ open = {}
    /\ crossed = FALSE
    /\ deaths = 0 /\ lost = 0

Unused(held) == CHOOSE n \in 0 .. Cardinality(held) : n \notin held
Now == Unused({Null, rule.notified} \cup {sweep[s].row.notified : s \in Sweep})
NewKey == Unused({Null, rule.fired} \cup open \cup {sweep[s].row.fired : s \in Sweep}
                 \cup {edit[e].key : e \in Edit})

\* A verdict is committed and its page is not out yet; a request that will reset
\* the lifecycle is under way
Paging(s) == sweep[s].at = "page"
Resetting(e) == edit[e].at # "idle" /\ edit[e].resets

\* What a notification does to the receiver.  A failed delivery is recorded in
\* the history and not tried again.
Deliver(page, key) ==
    \/ /\ open' = IF page = "resolved" THEN open \ {key} ELSE open \cup {key}
       /\ UNCHANGED lost
    \/ /\ lost < MaxLost
       /\ lost' = lost + 1
       /\ UNCHANGED open

-----------------------------------------------------------------------------
(* Evaluations *)

\* The pass lists the enabled rules.  lastFiredAt matters for a firing one only.
Load(s) ==
    /\ sweep[s].at = "idle"
    /\ ~deleted /\ rule.enabled
    /\ LET key == IF rule.state = "firing" THEN rule.fired ELSE Null IN
       sweep' = [sweep EXCEPT ![s] = [Asleep EXCEPT !.at = "loaded",
                                        !.row = [rule EXCEPT !.fired = key]]]
    /\ UNCHANGED <<ruleVars, worldVars, edit, open, crossed, deaths, lost>>

\* The metric, for the definition that was listed
Measure(s) ==
    /\ sweep[s].at = "loaded"
    /\ sweep' = [sweep EXCEPT ![s].at = "measured",
                              ![s].breach = sweep[s].row.def \in breaching]
    /\ UNCHANGED <<ruleVars, worldVars, edit, open, crossed, deaths, lost>>

\* The cooldown counts from the clock the evaluation read
Elapsed(row) == cooled \/ row.notified # rule.notified

\* Mutant: a page that got lost is never followed by another one
VerdictWithoutRepeats(s) ==
    LET row == sweep[s].row IN
    CASE sweep[s].breach /\ row.state = "ok" -> "triggered"
      [] ~sweep[s].breach /\ row.state = "firing" -> "resolved"
      [] OTHER -> "none"

Verdict(s) ==
    LET row == sweep[s].row IN
    CASE sweep[s].breach /\ row.state = "ok" -> "triggered"
      [] sweep[s].breach /\ row.state = "firing" /\ Elapsed(row) -> "repeat"
      [] ~sweep[s].breach /\ row.state = "firing" -> "resolved"
      [] OTHER -> "none"

\* Mutant: the verdict is written whatever happened to the row since
StillThere(row) == ~deleted

\* Mutant: the compare-and-set looks at the state alone
SameState(row) == ~deleted /\ rule.state = row.state

\* The row still has the state and the notification clock that were read
Unraced(row) == ~deleted /\ rule.state = row.state /\ rule.notified = row.notified

\* The row after the verdict
Committed(page) ==
    [rule EXCEPT !.state = IF page = "resolved" THEN "ok" ELSE "firing",
                 !.notified = Now,
                 !.fired = IF page = "triggered" THEN NewKey ELSE @]

\* Mutant: the page is made from the row as it was listed
ListedKey(page, row) == row.fired

\* The page is made from the listed row with the committed columns
PageKey(page, row) == IF page = "triggered" THEN NewKey ELSE row.fired

\* The verdict is committed before its page goes out
Commit(s) ==
    LET page == Verdict(s)
        row == sweep[s].row
    IN
    /\ sweep[s].at = "measured"
    /\ Unraced(row)
    /\ page # "none"
    /\ rule' = Committed(page)
    /\ cooled' = FALSE
    /\ episode' = (page # "resolved")
    /\ sweep' = [sweep EXCEPT ![s] = [Asleep EXCEPT !.at = "page", !.page = page,
                                                   !.row.fired = PageKey(page, row)]]
    /\ crossed' = (crossed \/ (\E t \in Sweep : Paging(t)) \/ (\E e \in Edit : Resetting(e)))
    /\ UNCHANGED <<deleted, breaching, edit, open, deaths, lost>>

\* Nothing to notify, or another evaluation or request got there first
Skip(s) ==
    /\ sweep[s].at = "measured"
    /\ Verdict(s) = "none" \/ ~Unraced(sweep[s].row)
    /\ sweep' = [sweep EXCEPT ![s] = Asleep]
    /\ UNCHANGED <<ruleVars, worldVars, edit, open, crossed, deaths, lost>>

Page(s) ==
    /\ sweep[s].at = "page"
    /\ Deliver(sweep[s].page, sweep[s].row.fired)
    /\ sweep' = [sweep EXCEPT ![s] = Asleep]
    /\ UNCHANGED <<ruleVars, worldVars, edit, crossed, deaths>>

-----------------------------------------------------------------------------
(* Requests: updateAlertRule and deleteAlertRule *)

\* The request reads the row.  Another definition, or pausing an enabled rule,
\* starts the lifecycle again; a firing rule that is reset or deleted owes its
\* channels a resolve first.
ReadRow(e) ==
    /\ edit[e].at = "idle"
    /\ ~deleted
    /\ Cardinality(open) < MaxOpen
    /\ \E kind \in Kinds, d \in Def :
          LET resets == kind = "redefine" \/ (kind = "pause" /\ rule.enabled)
              owes == rule.state = "firing" /\ (resets \/ kind = "delete")
          IN  /\ (d # rule.def) = (kind = "redefine")
              /\ edit' = [edit EXCEPT ![e] =
                     [at |-> IF owes THEN "resolve" ELSE "write", kind |-> kind, def |-> d,
                      resets |-> resets, key |-> IF owes THEN rule.fired ELSE Null]]
              /\ crossed' = (crossed \/ (resets /\ \E s \in Sweep : Paging(s)))
    /\ UNCHANGED <<ruleVars, worldVars, sweep, open, deaths, lost>>

ResolveFirst(e) ==
    /\ edit[e].at = "resolve"
    /\ Deliver("resolved", edit[e].key)
    /\ edit' = [edit EXCEPT ![e].at = "write", ![e].key = Null]
    /\ UNCHANGED <<ruleVars, worldVars, sweep, crossed, deaths>>

\* The sparse write: the columns the request names and the lifecycle if it resets.
\* A row that was deleted meanwhile stays deleted.
Write(e) ==
    LET asked == edit[e] IN
    /\ asked.at = "write"
    /\ asked.kind # "delete"
    /\ rule' = IF deleted THEN rule ELSE
           [rule EXCEPT !.def = IF asked.kind = "redefine" THEN asked.def ELSE @,
                        !.enabled = (asked.kind = "enable" \/ (asked.kind # "pause" /\ @)),
                        !.state = IF asked.resets THEN "ok" ELSE @,
                        !.notified = IF asked.resets THEN Null ELSE @]
    /\ episode' = (episode /\ ~asked.resets)
    /\ edit' = [edit EXCEPT ![e] = NoRequest]
    /\ UNCHANGED <<deleted, worldVars, sweep, open, crossed, deaths, lost>>

Remove(e) ==
    /\ edit[e].at = "write"
    /\ edit[e].kind = "delete"
    /\ deleted' = TRUE
    /\ episode' = FALSE
    /\ edit' = [edit EXCEPT ![e] = NoRequest]
    /\ UNCHANGED <<rule, worldVars, sweep, open, crossed, deaths, lost>>

-----------------------------------------------------------------------------
(* The metric, time and crashes *)

MetricMoves ==
    /\ breaching' \in (SUBSET Def) \ {breaching}
    /\ Cardinality(open) < MaxOpen
    /\ UNCHANGED <<ruleVars, cooled, sweep, edit, open, crossed, deaths, lost>>

CooldownElapses ==
    /\ rule.notified # Null /\ ~cooled
    /\ cooled' = TRUE
    /\ UNCHANGED <<ruleVars, breaching, sweep, edit, open, crossed, deaths, lost>>

\* Someone closes an incident that no episode of the rule holds; only at the bound
StrayIsClosed ==
    /\ Cardinality(open) >= MaxOpen
    /\ \E key \in open \ {rule.fired} : open' = open \ {key}
    /\ UNCHANGED <<ruleVars, worldVars, sweep, edit, crossed, deaths, lost>>

SweepDies(s) ==
    /\ sweep[s].at # "idle"
    /\ deaths < MaxDeaths
    /\ deaths' = deaths + 1
    /\ sweep' = [sweep EXCEPT ![s] = Asleep]
    /\ UNCHANGED <<ruleVars, worldVars, edit, open, crossed, lost>>

EditDies(e) ==
    /\ edit[e].at # "idle"
    /\ deaths < MaxDeaths
    /\ deaths' = deaths + 1
    /\ edit' = [edit EXCEPT ![e] = NoRequest]
    /\ UNCHANGED <<ruleVars, worldVars, sweep, open, crossed, lost>>

SweepStep(s) == Load(s) \/ Measure(s) \/ Commit(s) \/ Skip(s) \/ Page(s)
EditStep(e) == ResolveFirst(e) \/ Write(e) \/ Remove(e)

Next ==
    \/ \E s \in Sweep : SweepStep(s) \/ SweepDies(s)
    \/ \E e \in Edit : ReadRow(e) \/ EditStep(e) \/ EditDies(e)
    \/ MetricMoves \/ CooldownElapses \/ StrayIsClosed

Spec == Init /\ [][Next]_vars

\* The interval keeps evaluating, a request that began goes on, and time passes
FairSpec ==
    /\ Spec
    /\ \A s \in Sweep : WF_vars(SweepStep(s))
    /\ \A e \in Edit : WF_vars(EditStep(e))
    /\ WF_vars(CooldownElapses)

-----------------------------------------------------------------------------
(* Properties *)

\* Every variable has its type, and a firing rule knows when it fired and when it
\* last paged (alertRules.ts, evaluateRule).
TypeOK ==
    /\ rule \in Row
    /\ rule.state = "firing" => rule.notified # Null /\ rule.fired # Null
    /\ deleted \in BOOLEAN /\ cooled \in BOOLEAN /\ episode \in BOOLEAN
    /\ breaching \subseteq Def
    /\ open \subseteq Nat \ {Null} /\ IsFiniteSet(open)
    /\ sweep \in [Sweep -> [at : {"idle", "loaded", "measured", "page"}, row : Row,
                            breach : BOOLEAN,
                            page : {"none", "triggered", "repeat", "resolved"}]]
    /\ edit \in [Edit -> [at : {"idle", "resolve", "write"}, kind : Kinds \cup {"none"},
                          def : Def, resets : BOOLEAN, key : Nat]]
    /\ crossed \in BOOLEAN
    /\ deaths \in 0 .. MaxDeaths /\ lost \in 0 .. MaxLost

Triggers(s) ==
    sweep[s].at = "measured" /\ sweep'[s].at = "page" /\ sweep'[s].page = "triggered"
TriggersOutsideEpisodes == (\E s \in Sweep : Triggers(s)) => ~episode

\* An episode is announced once: while it lasts no evaluation commits another
\* trigger, however evaluations and requests overlap (the compare-and-set of
\* evaluateRule and the sparse write of updateAlertRule).
EpisodeTriggersOnce == [][TriggersOutsideEpisodes]_vars

\* Two evaluations never page the same repeat: the notification clock of a rule
\* that stays firing moves only after a cooldown (evaluateRule).
RepeatsKeepCooldown ==
    [][rule.state = "firing" /\ rule'.state = "firing" /\ rule'.notified # rule.notified
          => cooled]_vars

Quiet == (\A s \in Sweep : sweep[s].at # "page") /\ (\A e \in Edit : edit[e].at = "idle")

\* With nothing on its way, lost or cut off, the receiver holds the incident of a
\* firing rule and no other, whoever evaluates and edits (notificationFor's key,
\* evaluateRule, updateAlertRule): unless a page met another one, or a request
\* that resets, between its commit and its delivery.
ReceiverMatchesRule ==
    Quiet /\ ~deleted /\ deaths = 0 /\ lost = 0 /\ ~crossed =>
        open = IF rule.state = "firing" THEN {rule.fired} ELSE {}

Breached == ~deleted /\ rule.enabled /\ rule.def \in breaching

\* A breach that lasts ends up with its incident open at the receiver, although
\* pages get lost and evaluations die: the repeats make up for them.
LastingBreachIsPaged == <>[]Breached => <>[](rule.fired \in open)
=============================================================================
