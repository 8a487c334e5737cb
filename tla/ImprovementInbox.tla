-------------------------- MODULE ImprovementInbox --------------------------
(***************************************************************************)
(* The improvement inbox (core/evaluate/improvementSweep.ts) on top of one *)
(* record of the registry: sweeps that find the record in need of a new    *)
(* version and queue a proposal, and the requests of a human that dismiss  *)
(* a proposal or publish it with VersionRegistry's publish.                *)
(*                                                                         *)
(* A sweep queues at most one proposal for the record, so a proposal goes  *)
(* by its sweep.  What the judge proposes and how it validates is left     *)
(* out: the evidence is there or not, and the judge answers or does not.   *)
(***************************************************************************)
EXTENDS VersionRegistry

CONSTANTS
    Sweep,      \* rounds of the sweep
    Manual,     \* those started by the route, past the flag and the lease
    Approval,   \* publish requests that come from the inbox
    Dismissal,  \* requests that dismiss a proposal
    NoProposal

ASSUME InboxAssumption ==
    /\ Manual \subseteq Sweep
    /\ Approval \subseteq Publisher \ Adopter
    /\ Dismissal \cap Approval = {}
    /\ NoProposal \notin Sweep

VARIABLES
    inbox,   \* status of the proposal of each sweep
    cooling, \* proposals younger than TARGET_COOLDOWN_MS
    sweep,   \* where each sweep is
    prior,   \* history: proposals in the inbox when each sweep read it
    soon,    \* history: proposals that were cooling when each sweep queued
    hand,    \* where each approval and dismissal is
    of,      \* the proposal it is about
    answered \* history: approvals that were answered when each one began

inboxVars == <<inbox, cooling, sweep, prior, soon, hand, of, answered>>
allVars == <<vars, inboxVars>>

Hand == Approval \cup Dismissal
Queued == {w \in Sweep : inbox[w] # "none"}

InboxInit ==
    /\ Init
    /\ inbox = [w \in Sweep |-> "none"]
    /\ cooling = {}
    /\ sweep = [w \in Sweep |-> "idle"]
    /\ prior = [w \in Sweep |-> {}]
    /\ soon = [w \in Sweep |-> {}]
    /\ hand = [h \in Hand |-> "idle"]
    /\ of = [h \in Hand |-> NoProposal]
    /\ answered = [p \in Approval |-> {}]

-----------------------------------------------------------------------------
(* sweepImprovementsOnce *)

\* Mutant: a pending proposal blocks only as long as it cools
BlockedByCooldown == cooling # {}

\* targetBlocked: one is pending, or the last one is too recent
TargetBlocked == cooling # {} \/ \E w \in Sweep : inbox[w] = "pending"

\* The interval of a process never stacks two sweeps; the route goes past the flag.
\* One process only: rounds of two replicas overlap once the lease of 15 minutes
\* runs out under its holder, as those of SessionSweep do
MayStart(w) == w \in Manual \/ \A v \in Sweep \ Manual : sweep[v] # "proposing"

SweepReads(w) ==
    /\ sweep[w] = "idle"
    /\ MayStart(w)
    /\ row
    /\ prior' = [prior EXCEPT ![w] = Queued]
    /\ sweep' = [sweep EXCEPT ![w] = IF TargetBlocked THEN "done" ELSE "proposing"]
    /\ UNCHANGED <<vars, inbox, cooling, soon, hand, of, answered>>

\* The judge has answered and the proposal is validated, or not at all
SweepQueues(w) ==
    /\ sweep[w] = "proposing"
    /\ sweep' = [sweep EXCEPT ![w] = "done"]
    /\ \/ /\ inbox' = [inbox EXCEPT ![w] = "pending"]
          /\ soon' = [soon EXCEPT ![w] = cooling]
          /\ cooling' = cooling \cup {w}
       \/ UNCHANGED <<inbox, soon, cooling>>
    /\ UNCHANGED <<vars, prior, hand, of, answered>>

CooldownElapses(w) ==
    /\ w \in cooling
    /\ cooling' = cooling \ {w}
    /\ UNCHANGED <<vars, inbox, sweep, prior, soon, hand, of, answered>>

-----------------------------------------------------------------------------
(* publishImprovementProposal and dismissImprovementProposal *)

\* Mutant: any proposal in the inbox may be published
IsQueued(w) == TRUE

IsPending(w) == inbox[w] = "pending"

ReadProposal(h) ==
    /\ hand[h] = "idle"
    /\ \E w \in Queued :
          /\ of' = [of EXCEPT ![h] = w]
          /\ hand' = [hand EXCEPT ![h] = IF IsPending(w) THEN "holding" ELSE "answered"]
    /\ answered' = IF h \in Approval
                   THEN [answered EXCEPT ![h] = {p \in Approval : hand[p] = "answered"}]
                   ELSE answered
    /\ UNCHANGED <<vars, inbox, cooling, sweep, prior, soon>>

\* Mutant: what the registry answers is not looked at
PublishedAnyhow(p) == pub[p].at \in {"ok", "gone", "refused"}

Published(p) == pub[p].at = "ok"

\* setStatus, whatever the status has become
Mark(h, status) ==
    /\ hand[h] = "holding"
    /\ hand' = [hand EXCEPT ![h] = "answered"]
    /\ inbox' = [inbox EXCEPT ![of[h]] = status]
    /\ UNCHANGED <<vars, cooling, sweep, prior, soon, of, answered>>

MarkPublished(p) == p \in Approval /\ Published(p) /\ Mark(p, "published")
MarkDismissed(h) == h \in Dismissal /\ Mark(h, "dismissed")

\* No record to publish to, or a 409
Return(p) ==
    /\ hand[p] = "holding"
    /\ pub[p].at \in {"gone", "refused"}
    /\ hand' = [hand EXCEPT ![p] = "answered"]
    /\ UNCHANGED <<vars, inbox, cooling, sweep, prior, soon, of, answered>>

\* The process ends between the publish and the mark
MarkIsLost(p) ==
    /\ hand[p] = "holding"
    /\ pub[p].at = "ok"
    /\ crashes < MaxCrashes
    /\ crashes' = crashes + 1
    /\ hand' = [hand EXCEPT ![p] = "dead"]
    /\ UNCHANGED <<row, current, resolved, versions, maker, pub, outraced, deleter,
                   inbox, cooling, sweep, prior, soon, of, answered>>

-----------------------------------------------------------------------------
\* The registry's steps; a publish of the inbox begins once it holds a proposal
RegistryStep ==
    /\ \/ CreateRecord \/ CreateFirst
       \/ \E p \in Publisher :
             /\ p \in Approval => hand[p] = "holding"
             /\ PublishStep(p) \/ PublisherCrashes(p)
       \/ DeleteStep
    /\ UNCHANGED inboxVars

InboxNext ==
    \/ RegistryStep
    \/ \E w \in Sweep : SweepReads(w) \/ SweepQueues(w) \/ CooldownElapses(w)
    \/ \E h \in Hand : ReadProposal(h) \/ MarkPublished(h) \/ MarkDismissed(h)
    \/ \E p \in Approval : Return(p) \/ MarkIsLost(p)

InboxSpec == InboxInit /\ [][InboxNext]_allVars

-----------------------------------------------------------------------------
(* Properties *)

\* A sweep spends nothing on a record that already had a proposal pending or
\* cooling when it looked: only a sweep that was under way then may have queued
\* another, and of two such sweeps one came through the route.  It is for one
\* process: rounds of two replicas that overlap, once the lease of 15 minutes runs
\* out under its holder, may queue two (improvementSweep.ts:30-35, 164-165, 314-326).
ProposalsAreSpaced ==
    \A v, w \in Queued : v # w =>
        /\ v \in prior[w] => inbox[v] # "pending" /\ v \notin soon[w]
        /\ v \in prior[w] \/ w \in prior[v] \/ {v, w} \cap Manual # {}

VersionsOf(w) == {v \in versions : v.by \in Approval /\ of[v.by] = w}

\* A proposal that says it is published has its version in the log until the
\* record is deleted, whatever the registry answered (improvementSweep.ts:132-152).
PublishedIsInLog ==
    \A w \in Sweep : inbox[w] = "published" /\ deleter \in {"start", "versions"}
        => VersionsOf(w) # {}

\* An approval that began after another of the same proposal was answered with
\* success publishes no second version (improvementSweep.ts:123).
PublishedOnce ==
    \A w \in Sweep : \A u, v \in VersionsOf(w) : u.by \notin answered[v.by]
=============================================================================
