----------------------- MODULE ImprovementInboxProofs -----------------------
(***************************************************************************)
(* Proofs about ImprovementInbox, for any number of sweeps, approvals,     *)
(* dismissals and other publishes: proposals are spaced, a published one   *)
(* has its version, and an approval after an answered one publishes none.  *)
(*                                                                         *)
(* The registry's invariant is carried along: what the registry knows of a *)
(* publish is what the inbox concludes from its answer.  The inbox adds    *)
(* what a sweep knows of the proposals it saw (Looked, Rounds) and what a  *)
(* publish of a proposal knows of the earlier ones (Authors, Closed,       *)
(* NoneBefore).  At the end: under the inbox the registry still implements *)
(* VersionLog and keeps its other promises.                                *)
(***************************************************************************)
EXTENDS ImprovementInbox, VersionRegistryProofs

InboxTypes ==
    /\ inbox \in [Sweep -> {"none", "pending", "published", "dismissed"}]
    /\ cooling \subseteq Sweep
    /\ sweep \in [Sweep -> {"idle", "proposing", "done"}]
    /\ prior \in [Sweep -> SUBSET Sweep]
    /\ soon \in [Sweep -> SUBSET Sweep]
    /\ hand \in [Hand -> {"idle", "holding", "answered", "dead"}]
    /\ of \in [Hand -> Sweep \cup {NoProposal}]
    /\ answered \in [Approval -> SUBSET Approval]

-----------------------------------------------------------------------------
(* The sweeps *)

\* A proposal is queued by a sweep that has ended, and only once
Ended == \A w \in Sweep : inbox[w] # "none" => sweep[w] = "done"

\* What a sweep saw in the inbox was resolved and had cooled down, and is still
Looked ==
    \A w \in Sweep : sweep[w] = "proposing" \/ inbox[w] # "none" =>
        \A v \in prior[w] :
            /\ inbox[v] \notin {"none", "pending"} /\ v \notin cooling
            /\ inbox[w] # "none" => v \notin soon[w]

\* Of two rounds of the interval the later one saw the proposal of the earlier
Rounds ==
    \A v, w \in Sweep \ Manual : v # w =>
        /\ sweep[w] = "proposing" => sweep[v] # "proposing"
        /\ sweep[w] = "proposing" /\ inbox[v] # "none" => v \in prior[w]
        /\ inbox[v] # "none" /\ inbox[w] # "none" => v \in prior[w] \/ w \in prior[v]

SweepInv == InboxTypes /\ Ended /\ Looked /\ Rounds

-----------------------------------------------------------------------------
(* The publishes *)

\* A request is about a proposal that was queued, and publishes only for that
Named ==
    /\ \A h \in Hand : hand[h] # "idle" => of[h] \in Sweep /\ inbox[of[h]] # "none"
    /\ \A p \in Approval : hand[p] = "idle" => pub[p].at = "idle"

\* An approval that was answered and has a version has resolved its proposal
Closed ==
    \A p \in Approval : hand[p] = "answered" /\ Publishes(p) => inbox[of[p]] # "pending"

\* An approval that may publish began when no answered one had published the same
NoneBefore ==
    \A p \in Approval : hand[p] = "holding" \/ pub[p].at # "idle" =>
        \A q \in answered[p] : hand[q] = "answered" /\ (of[q] = of[p] => ~Publishes(q))

\* A proposal that is published has its version until the log is deleted
Logged ==
    \A w \in Sweep : inbox[w] = "published" /\ deleter \in {"start", "versions"} =>
        \E p \in Approval : hand[p] # "idle" /\ of[p] = w /\ Publishes(p)

PublishInv == Authors /\ Named /\ Closed /\ NoneBefore /\ Logged

InboxInv == IInv /\ SweepInv /\ PublishInv

-----------------------------------------------------------------------------
(* The steps of the sweeps *)

LEMMA SweepReadsStep ==
    ASSUME SweepInv, NEW w \in Sweep, SweepReads(w) PROVE SweepInv'
<1> USE DEF SweepReads, SweepInv
<1>1. sweep[w] = "idle" /\ inbox[w] = "none"
  BY DEF Ended, InboxTypes
<1>2. CASE TargetBlocked
  <2>1. \A v \in Sweep : sweep'[v] = IF v = w THEN "done" ELSE sweep[v]
    BY <1>2 DEF InboxTypes
  <2>2. \A v \in Sweep : prior'[v] = IF v = w THEN Queued ELSE prior[v]
    BY DEF InboxTypes
  <2>3. InboxTypes'
    BY <1>2 DEF InboxTypes, Queued
  <2>4. Ended' /\ Looked'
    BY <1>1, <2>1, <2>2 DEF Ended, Looked
  <2>5. Rounds'
    BY <1>1, <2>1, <2>2 DEF Rounds
  <2> QED BY <2>3, <2>4, <2>5
<1>3. CASE ~TargetBlocked
  <2>1. \A v \in Sweep : sweep'[v] = IF v = w THEN "proposing" ELSE sweep[v]
    BY <1>3 DEF InboxTypes
  <2>2. \A v \in Sweep : prior'[v] = IF v = w THEN Queued ELSE prior[v]
    BY DEF InboxTypes
  <2>3. InboxTypes'
    BY <1>3 DEF InboxTypes, Queued
  <2>4. Ended'
    BY <1>1, <2>1 DEF Ended
  <2>5. cooling = {} /\ \A v \in Sweep : inbox[v] # "pending"
    BY <1>3 DEF TargetBlocked
  <2>6. \A v \in prior'[w] : inbox[v] \notin {"none", "pending"} /\ v \notin cooling
    <3>1. prior'[w] = Queued
      BY <2>2
    <3>2. \A v \in Queued : v \in Sweep /\ inbox[v] # "none"
      BY DEF Queued
    <3> QED BY <2>5, <3>1, <3>2
  <2>7. Looked'
    BY <1>1, <2>1, <2>2, <2>6 DEF Looked
  <2>8. w \notin Manual => \A v \in Sweep \ Manual : sweep[v] # "proposing"
    BY DEF MayStart
  <2>9. ASSUME NEW v \in Sweep, inbox[v] # "none" PROVE v \in prior'[w]
    <3>1. v \in Queued
      BY <2>9 DEF Queued
    <3> QED BY <2>2, <3>1
  <2>10. Rounds'
    BY <1>1, <2>1, <2>2, <2>8, <2>9 DEF Rounds
  <2> QED BY <2>3, <2>4, <2>7, <2>10
<1> QED BY <1>2, <1>3

LEMMA SweepQueuesStep ==
    ASSUME SweepInv, NEW w \in Sweep, SweepQueues(w) PROVE SweepInv'
<1> USE DEF SweepQueues, SweepInv
<1>1. sweep[w] = "proposing" /\ inbox[w] = "none"
  BY DEF Ended, InboxTypes
<1>2. \A v \in Sweep : sweep'[v] = IF v = w THEN "done" ELSE sweep[v]
  BY DEF InboxTypes
<1>3. CASE UNCHANGED <<inbox, soon, cooling>>
  <2>1. InboxTypes'
    BY <1>3 DEF InboxTypes
  <2>2. Ended' /\ Looked'
    BY <1>2, <1>3 DEF Ended, Looked
  <2>3. Rounds'
    BY <1>2, <1>3 DEF Rounds
  <2> QED BY <2>1, <2>2, <2>3
<1>4. CASE inbox' = [inbox EXCEPT ![w] = "pending"] /\ soon' = [soon EXCEPT ![w] = cooling]
           /\ cooling' = cooling \cup {w}
  <2>1. \A v \in Sweep : /\ inbox'[v] = IF v = w THEN "pending" ELSE inbox[v]
                         /\ soon'[v] = IF v = w THEN cooling ELSE soon[v]
    BY <1>4 DEF InboxTypes
  <2>2. InboxTypes'
    BY <1>4 DEF InboxTypes
  <2>3. Ended'
    BY <1>2, <2>1 DEF Ended
  <2>4. ASSUME NEW x \in Sweep, sweep'[x] = "proposing" \/ inbox'[x] # "none", NEW v \in prior'[x]
        PROVE  /\ inbox'[v] \notin {"none", "pending"} /\ v \notin cooling'
               /\ inbox'[x] # "none" => v \notin soon'[x]
    <3>1. v \in Sweep /\ v \in prior[x]
      BY <2>4 DEF InboxTypes
    <3>2. sweep[x] = "proposing" \/ inbox[x] # "none"
      BY <1>1, <1>2, <2>1, <2>4
    <3>3. inbox[v] \notin {"none", "pending"} /\ v \notin cooling
          /\ (inbox[x] # "none" => v \notin soon[x])
      BY <3>1, <3>2 DEF Looked
    <3>4. v # w
      BY <1>1, <3>3
    <3> QED BY <1>4, <2>1, <3>1, <3>3, <3>4
  <2>5. Looked'
    BY <2>4 DEF Looked
  <2>6. Rounds'
    BY <1>1, <1>2, <2>1 DEF Rounds
  <2> QED BY <2>2, <2>3, <2>5, <2>6
<1> QED BY <1>3, <1>4

LEMMA CooldownStep ==
    ASSUME SweepInv, NEW w \in Sweep, CooldownElapses(w) PROVE SweepInv'
<1> USE DEF CooldownElapses, SweepInv
<1>1. InboxTypes' /\ Ended'
  BY DEF InboxTypes, Ended
<1>2. Looked' /\ Rounds'
  BY DEF Looked, Rounds
<1> QED BY <1>1, <1>2

\* A request resolves at most one proposal, which was queued
LEMMA ResolvedStep ==
    ASSUME SweepInv, InboxTypes', UNCHANGED <<cooling, sweep, prior, soon>>,
           \A w \in Sweep : inbox'[w] = inbox[w] \/ (inbox[w] # "none" /\ inbox'[w] \in {"published", "dismissed"})
    PROVE  SweepInv'
<1> USE DEF SweepInv
<1>1. \A w \in Sweep : /\ inbox'[w] = "none" <=> inbox[w] = "none"
                       /\ inbox'[w] = "pending" => inbox[w] = "pending"
  OBVIOUS
<1>2. Ended'
  BY <1>1 DEF Ended
<1>3. Rounds'
  BY <1>1 DEF Rounds
<1>4. ASSUME NEW x \in Sweep, sweep'[x] = "proposing" \/ inbox'[x] # "none", NEW v \in prior'[x]
      PROVE  /\ inbox'[v] \notin {"none", "pending"} /\ v \notin cooling'
             /\ inbox'[x] # "none" => v \notin soon'[x]
  <2>1. v \in Sweep /\ v \in prior[x]
    BY <1>4 DEF InboxTypes
  <2>2. sweep[x] = "proposing" \/ inbox[x] # "none"
    BY <1>1, <1>4
  <2>3. inbox[v] \notin {"none", "pending"} /\ v \notin cooling
        /\ (inbox[x] # "none" => v \notin soon[x])
    BY <2>1, <2>2 DEF Looked
  <2> QED BY <1>1, <2>1, <2>3
<1>5. Looked'
  BY <1>4 DEF Looked
<1> QED BY <1>2, <1>3, <1>5

-----------------------------------------------------------------------------
(* What the registry's steps do to the publishes of the inbox *)

LEMMA PublishersMove ==
    ASSUME IInv, NEW p \in Publisher, PublishStep(p) \/ PublisherCrashes(p)
    PROVE  /\ \A q \in Publisher : q # p => pub'[q] = pub[q]
           /\ pub[p].at \in Landed => pub'[p].at \in Landed
           /\ versions \subseteq versions' /\ deleter' = deleter
           /\ \A v \in versions' : v \in versions \/ (v.by = p /\ pub'[p].at \in Landed)
<1>1. pub \in [Publisher -> Publish]
  BY DEF IInv, TypeOK
<1>2. CASE ReadRecord(p)
  BY <1>1, <1>2 DEF ReadRecord, Landed, Publish
<1>3. CASE Scan(p)
  BY <1>1, <1>3 DEF Scan, Landed, Publish
<1>4. CASE Claim(p)
  BY <1>1, <1>4 DEF Claim, Landed, Publish
<1>5. CASE Retry(p)
  BY <1>1, <1>5 DEF Retry, Landed, Publish
<1>6. CASE Forward(p)
  BY <1>1, <1>6 DEF Forward, Landed, Publish
<1>7. CASE Merge(p)
  BY <1>1, <1>7 DEF Merge, Landed, Publish
<1>8. CASE PublisherCrashes(p)
  BY <1>1, <1>8 DEF PublisherCrashes, Landed, Publish
<1> QED BY <1>2, <1>3, <1>4, <1>5, <1>6, <1>7, <1>8 DEF PublishStep

\* The publishes of the inbox that do not hold a proposal stand still
Still == \A p \in Approval : hand[p] # "holding" =>
            pub'[p] = pub[p] /\ (Publishes(p)' => Publishes(p))

Keeps == deleter' \in {"start", "versions"} =>
            deleter \in {"start", "versions"} /\ versions \subseteq versions'

LEMMA RegistryEffect ==
    ASSUME IInv, Authors, RegistryStep
    PROVE  UNCHANGED inboxVars /\ Authors' /\ Still /\ Keeps
<1>1. UNCHANGED inboxVars
  BY DEF RegistryStep
<1>2. ASSUME NEW p \in Publisher, p \in Approval => hand[p] = "holding",
             PublishStep(p) \/ PublisherCrashes(p)
      PROVE  Authors' /\ Still /\ Keeps
  <2>1. /\ \A q \in Publisher : q # p => pub'[q] = pub[q]
        /\ pub[p].at \in Landed => pub'[p].at \in Landed
        /\ versions \subseteq versions' /\ deleter' = deleter
        /\ \A v \in versions' : v \in versions \/ (v.by = p /\ pub'[p].at \in Landed)
    BY <1>2, PublishersMove
  <2>2. Authors'
    BY <2>1 DEF Authors, Publishes
  <2>3. Approval \subseteq Publisher
    BY InboxAssumption
  <2>4. Still
    BY <1>2, <2>1, <2>3 DEF Still, Publishes
  <2>5. Keeps
    BY <2>1 DEF Keeps
  <2> QED BY <2>2, <2>4, <2>5
<1>3. ASSUME CreateRecord \/ CreateFirst \/ DeleteStep PROVE Authors' /\ Still /\ Keeps
  <2>1. pub' = pub /\ Keeps /\ \A v \in versions' : v \in versions \/ v.by = Creator
    BY <1>3 DEF CreateRecord, CreateFirst, DeleteStep, ReadToDelete, DeleteVersions, DeleteRecord, Keeps
  <2>2. \A p \in Publisher : Publishes(p)' => Publishes(p)
    BY <2>1, PublisherAssumption DEF Publishes
  <2>3. Approval \subseteq Publisher
    BY InboxAssumption
  <2> QED BY <2>1, <2>2, <2>3 DEF Authors, Still
<1>4. Authors' /\ Still /\ Keeps
  BY <1>2, <1>3 DEF RegistryStep
<1> QED BY <1>1, <1>4

LEMMA RegistryKeepsPublishInv ==
    ASSUME InboxTypes, PublishInv, UNCHANGED <<inbox, hand, of, answered>>, Authors', Still, Keeps
    PROVE  PublishInv'
<1> USE DEF PublishInv
<1>1. Approval \subseteq Hand /\ Approval \subseteq Publisher
  BY InboxAssumption DEF Hand
<1>2. Named'
  BY <1>1 DEF Named, Still
<1>3. Closed'
  BY <1>1 DEF Closed, Still
<1>4. NoneBefore'
  <2> SUFFICES ASSUME NEW p \in Approval, hand[p] = "holding" \/ pub'[p].at # "idle",
                      NEW q \in answered[p]
               PROVE  hand[q] = "answered" /\ (of[q] = of[p] => ~Publishes(q)')
    BY DEF NoneBefore
  <2>1. hand[p] = "holding" \/ pub[p].at # "idle"
    BY DEF Still
  <2>2. hand[q] = "answered" /\ (of[q] = of[p] => ~Publishes(q)) /\ q \in Approval
    BY <2>1 DEF NoneBefore, InboxTypes
  <2> QED BY <2>2 DEF Still
<1>5. Logged'
  BY DEF Logged, Keeps, Publishes
<1> QED BY <1>2, <1>3, <1>4, <1>5

-----------------------------------------------------------------------------
(* The other steps *)

LEMMA HandsAreApart == Approval \subseteq Hand /\ Approval \subseteq Publisher /\ Manual \subseteq Sweep
  BY InboxAssumption DEF Hand

LEMMA SweepsKeepPublishInv ==
    ASSUME SweepInv, PublishInv, NEW w \in Sweep, SweepReads(w) \/ SweepQueues(w) \/ CooldownElapses(w)
    PROVE  PublishInv'
<1> USE DEF SweepInv, PublishInv
<1>1. UNCHANGED <<versions, pub, deleter, hand, of, answered>>
  BY DEF SweepReads, SweepQueues, CooldownElapses, vars
<1>2. inbox' = inbox \/ (inbox[w] = "none" /\ inbox' = [inbox EXCEPT ![w] = "pending"])
  BY DEF SweepReads, SweepQueues, CooldownElapses, Ended, InboxTypes
<1>3. \A v \in Sweep : inbox[v] # "none" => inbox'[v] = inbox[v]
  BY <1>2 DEF InboxTypes
<1>4. Authors' /\ NoneBefore'
  BY <1>1 DEF Authors, NoneBefore, Publishes
<1>5. Named'
  BY <1>1, <1>3 DEF Named
<1>6. \A p \in Approval : hand[p] = "answered" => inbox'[of[p]] = inbox[of[p]]
  BY <1>3, HandsAreApart DEF Named
<1>7. Closed'
  BY <1>1, <1>6 DEF Closed, Publishes
<1>8. \A v \in Sweep : inbox'[v] = "published" => inbox[v] = "published"
  BY <1>2 DEF InboxTypes
<1>9. Logged'
  BY <1>1, <1>8 DEF Logged, Publishes
<1> QED BY <1>4, <1>5, <1>7, <1>9

LEMMA ReadProposalStep ==
    ASSUME SweepInv, PublishInv, NEW h \in Hand, ReadProposal(h) PROVE SweepInv' /\ PublishInv'
<1> USE DEF SweepInv, PublishInv
<1>0. /\ hand[h] = "idle" /\ h \in Approval => pub[h].at = "idle"
      /\ UNCHANGED <<versions, pub, deleter, inbox, cooling, sweep, prior, soon>>
  BY DEF ReadProposal, vars, Named
<1>1. PICK w \in Queued :
          /\ of' = [of EXCEPT ![h] = w]
          /\ hand' = [hand EXCEPT ![h] = IF IsPending(w) THEN "holding" ELSE "answered"]
  BY DEF ReadProposal
<1>2. w \in Sweep /\ inbox[w] # "none"
  BY DEF Queued
<1>3. hand[h] = "idle"
  BY DEF ReadProposal
<1>4. \A g \in Hand : /\ g # h => of'[g] = of[g] /\ hand'[g] = hand[g]
                      /\ g = h => of'[g] = w /\ hand'[g] \in {"holding", "answered"}
  BY <1>1 DEF InboxTypes
<1>5. hand'[h] = "holding" => inbox[w] = "pending"
  BY <1>1 DEF InboxTypes, IsPending
<1>6. h \in Approval => answered' = [answered EXCEPT ![h] = {p \in Approval : hand[p] = "answered"}]
  BY DEF ReadProposal
<1>7. h \notin Approval => answered' = answered
  BY DEF ReadProposal
<1>8. InboxTypes'
  <2>1. of' \in [Hand -> Sweep \cup {NoProposal}] /\ hand' \in [Hand -> {"idle", "holding", "answered", "dead"}]
    BY <1>1, <1>2 DEF InboxTypes
  <2>2. answered' \in [Approval -> SUBSET Approval]
    BY <1>6, <1>7 DEF InboxTypes
  <2> QED BY <1>0, <2>1, <2>2 DEF InboxTypes
<1>9. SweepInv'
  BY <1>0, <1>8 DEF Ended, Looked, Rounds
<1>10. Authors' /\ Named'
  BY <1>0, <1>2, <1>3, <1>4, HandsAreApart DEF Authors, Named, Publishes
<1>11. h \in Approval => ~Publishes(h)
  BY <1>0, <1>3, HandsAreApart DEF Authors, Landed
<1>12. Closed'
  BY <1>0, <1>4, <1>11, HandsAreApart DEF Closed, Publishes
<1>13. NoneBefore'
  <2> SUFFICES ASSUME NEW p \in Approval, hand'[p] = "holding" \/ pub[p].at # "idle",
                      NEW q \in answered'[p]
               PROVE  hand'[q] = "answered" /\ (of'[q] = of'[p] => ~Publishes(q))
    BY <1>0 DEF NoneBefore, Publishes
  <2>1. CASE p = h
    <3>1. q \in Approval /\ hand[q] = "answered"
      BY <1>6, <2>1 DEF InboxTypes
    <3>2. q # h /\ hand'[q] = "answered" /\ of'[q] = of[q] /\ of'[p] = w
      BY <1>3, <1>4, <2>1, <3>1, HandsAreApart
    <3>3. inbox[w] = "pending"
      BY <1>0, <1>3, <1>5, <2>1
    <3>4. Publishes(q) => inbox[of[q]] # "pending"
      BY <3>1 DEF Closed
    <3> QED BY <3>2, <3>3, <3>4
  <2>2. CASE p # h
    <3>1. hand'[p] = hand[p] /\ of'[p] = of[p] /\ answered'[p] = answered[p]
      BY <1>4, <1>6, <1>7, <2>2, HandsAreApart DEF InboxTypes
    <3>2. q \in Approval /\ hand[q] = "answered" /\ (of[q] = of[p] => ~Publishes(q))
      BY <3>1 DEF NoneBefore, InboxTypes
    <3>3. q # h
      BY <1>3, <3>2
    <3> QED BY <1>4, <3>1, <3>2, <3>3, HandsAreApart
  <2> QED BY <2>1, <2>2
<1>14. Logged'
  BY <1>0, <1>3, <1>4, HandsAreApart DEF Logged, Publishes
<1> QED BY <1>9, <1>10, <1>12, <1>13, <1>14

\* A request that is through with its proposal, and may have resolved it
LEMMA AnsweredStep ==
    ASSUME SweepInv, PublishInv, NEW h \in Hand, hand[h] = "holding",
           NEW place \in {"answered", "dead"}, hand' = [hand EXCEPT ![h] = place],
           NEW status \in {"none", "published", "dismissed"},
           inbox' = IF status = "none" THEN inbox ELSE [inbox EXCEPT ![of[h]] = status],
           UNCHANGED <<versions, pub, deleter, cooling, sweep, prior, soon, of, answered>>,
           h \in Approval /\ status = "none" /\ place = "answered" => ~Publishes(h),
           status = "published" =>
               h \in Approval /\ (deleter \in {"start", "versions"} => Publishes(h))
    PROVE  SweepInv' /\ PublishInv'
<1> USE DEF SweepInv, PublishInv
<1>1. of[h] \in Sweep /\ inbox[of[h]] # "none"
  BY DEF Named
<1>2. \A g \in Hand : hand'[g] = IF g = h THEN place ELSE hand[g]
  BY DEF InboxTypes
<1>3. \A w \in Sweep : inbox'[w] = IF status # "none" /\ w = of[h] THEN status ELSE inbox[w]
  BY DEF InboxTypes
<1>4. InboxTypes'
  BY <1>1 DEF InboxTypes
<1>5. \A w \in Sweep : inbox'[w] = inbox[w] \/ (inbox[w] # "none" /\ inbox'[w] \in {"published", "dismissed"})
  BY <1>1, <1>3
<1>6. SweepInv'
  BY <1>4, <1>5, ResolvedStep
<1>7. Authors'
  BY DEF Authors, Publishes
<1>8. Named'
  BY <1>2, <1>5, HandsAreApart DEF Named
<1>9. Closed'
  <2> SUFFICES ASSUME NEW p \in Approval, hand'[p] = "answered", Publishes(p)
               PROVE  inbox'[of[p]] # "pending"
    BY DEF Closed, Publishes
  <2>1. CASE p = h
    BY <1>1, <1>2, <1>3, <2>1
  <2>2. CASE p # h
    <3>1. hand[p] = "answered" /\ of[p] \in Sweep /\ inbox[of[p]] # "pending"
      BY <1>2, <2>2, HandsAreApart DEF Closed, Named
    <3> QED BY <1>5, <3>1
  <2> QED BY <2>1, <2>2
<1>10. NoneBefore'
  <2> SUFFICES ASSUME NEW p \in Approval, hand'[p] = "holding" \/ pub[p].at # "idle",
                      NEW q \in answered[p]
               PROVE  hand'[q] = "answered" /\ (of[q] = of[p] => ~Publishes(q))
    BY DEF NoneBefore, Publishes
  <2>1. hand[p] = "holding" \/ pub[p].at # "idle"
    BY <1>2, HandsAreApart
  <2>2. q \in Approval /\ hand[q] = "answered" /\ (of[q] = of[p] => ~Publishes(q))
    BY <2>1 DEF NoneBefore, InboxTypes
  <2> QED BY <1>2, <2>2, HandsAreApart
<1>11. Logged'
  <2> SUFFICES ASSUME NEW w \in Sweep, inbox'[w] = "published", deleter \in {"start", "versions"}
               PROVE  \E p \in Approval : hand'[p] # "idle" /\ of[p] = w /\ Publishes(p)
    BY DEF Logged, Publishes
  <2>1. CASE status = "published" /\ w = of[h]
    BY <1>2, <2>1
  <2>2. CASE inbox[w] = "published"
    <3>1. PICK p \in Approval : hand[p] # "idle" /\ of[p] = w /\ Publishes(p)
      BY <2>2 DEF Logged
    <3> QED BY <1>2, <3>1, HandsAreApart
  <2> QED BY <1>3, <2>1, <2>2
<1> QED BY <1>6, <1>7, <1>8, <1>9, <1>10, <1>11

LEMMA HandSteps ==
    ASSUME IInv, SweepInv, PublishInv, NEW h \in Hand,
           MarkPublished(h) \/ MarkDismissed(h) \/ (h \in Approval /\ (Return(h) \/ MarkIsLost(h)))
    PROVE  SweepInv' /\ PublishInv'
<1>0. Stored /\ Authors
  BY DEF IInv, PublishInv
<1>1. CASE MarkPublished(h)
  <2>1. hand[h] = "holding" /\ hand' = [hand EXCEPT ![h] = "answered"]
        /\ inbox' = [inbox EXCEPT ![of[h]] = "published"]
        /\ UNCHANGED <<versions, pub, deleter, cooling, sweep, prior, soon, of, answered>>
    BY <1>1 DEF MarkPublished, Mark, vars
  <2>2. h \in Approval /\ (deleter \in {"start", "versions"} => Publishes(h))
    BY <1>0, <1>1, HandsAreApart DEF MarkPublished, Published, Stored, Publishes
  <2> QED BY <2>1, <2>2, AnsweredStep
<1>2. CASE MarkDismissed(h)
  <2>1. hand[h] = "holding" /\ hand' = [hand EXCEPT ![h] = "answered"]
        /\ inbox' = [inbox EXCEPT ![of[h]] = "dismissed"]
        /\ UNCHANGED <<versions, pub, deleter, cooling, sweep, prior, soon, of, answered>>
    BY <1>2 DEF MarkDismissed, Mark, vars
  <2> QED BY <2>1, AnsweredStep
<1>3. CASE h \in Approval /\ Return(h)
  <2>1. hand[h] = "holding" /\ hand' = [hand EXCEPT ![h] = "answered"] /\ inbox' = inbox
        /\ UNCHANGED <<versions, pub, deleter, cooling, sweep, prior, soon, of, answered>>
    BY <1>3 DEF Return, vars
  <2>2. ~Publishes(h)
    BY <1>0, <1>3, HandsAreApart DEF Return, Authors, Landed
  <2> QED BY <2>1, <2>2, AnsweredStep
<1>4. CASE h \in Approval /\ MarkIsLost(h)
  <2>1. hand[h] = "holding" /\ hand' = [hand EXCEPT ![h] = "dead"] /\ inbox' = inbox
        /\ UNCHANGED <<versions, pub, deleter, cooling, sweep, prior, soon, of, answered>>
    BY <1>4 DEF MarkIsLost
  <2> QED BY <2>1, AnsweredStep
<1> QED BY <1>1, <1>2, <1>3, <1>4

\* What the inbox does to the registry is its own step, none, or a crash
LEMMA RegistryGoesOn ==
    ASSUME IInv, [InboxNext]_allVars PROVE IInv'
<1>1. CASE RegistryStep \/ UNCHANGED allVars
  <2>1. [Next]_vars
    BY <1>1 DEF RegistryStep, Next, allVars
  <2> QED BY <2>1, StepIInv
<1>2. ASSUME UNCHANGED vars PROVE IInv'
  <2>1. [Next]_vars
    BY <1>2
  <2> QED BY <2>1, StepIInv
<1>3. ASSUME NEW p \in Approval, MarkIsLost(p) PROVE IInv'
  <2>1. crashes' = crashes + 1 /\ UNCHANGED Registry
    BY <1>3 DEF MarkIsLost, Registry
  <2> USE <2>1 DEF IInv, Registry
  <2>2. TypeOK' /\ crashes' # 0
    BY DEF TypeOK
  <2>3. HasNewest' /\ NumbersAreUnique' /\ Begun'
    BY DEF HasNewest, NumbersAreUnique, Begun
  <2>4. Stored' /\ Counted'
    BY DEF Stored, Counted, Numbers
  <2>5. Caught'
    BY <2>2 DEF Caught, Numbers
  <2> QED BY <2>2, <2>3, <2>4, <2>5
<1>4. ASSUME NEW w \in Sweep, SweepReads(w) \/ SweepQueues(w) \/ CooldownElapses(w) PROVE IInv'
  BY <1>2, <1>4 DEF SweepReads, SweepQueues, CooldownElapses
<1>5. ASSUME NEW h \in Hand, ReadProposal(h) \/ MarkPublished(h) \/ MarkDismissed(h) PROVE IInv'
  BY <1>2, <1>5 DEF ReadProposal, MarkPublished, MarkDismissed, Mark
<1>6. ASSUME NEW p \in Approval, Return(p) PROVE IInv'
  BY <1>2, <1>6 DEF Return
<1> QED BY <1>1, <1>3, <1>4, <1>5, <1>6 DEF InboxNext

LEMMA InboxStep == InboxInv /\ [InboxNext]_allVars => InboxInv'
<1> SUFFICES ASSUME InboxInv, [InboxNext]_allVars PROVE InboxInv'
  OBVIOUS
<1>0. IInv /\ SweepInv /\ PublishInv
  BY DEF InboxInv
<1>1. IInv'
  BY <1>0, RegistryGoesOn
<1>2. CASE UNCHANGED allVars
  <2>1. UNCHANGED <<row, versions, pub, deleter, inbox, cooling, sweep, prior, soon, hand, of, answered>>
    BY <1>2 DEF allVars, vars, inboxVars
  <2>2. SweepInv'
    BY <1>0, <2>1 DEF SweepInv, InboxTypes, Ended, Looked, Rounds
  <2>3. PublishInv'
    BY <1>0, <2>1 DEF PublishInv, Authors, Named, Closed, NoneBefore, Logged, Publishes
  <2> QED BY <1>1, <2>2, <2>3 DEF InboxInv
<1>3. CASE RegistryStep
  <2>1. Authors /\ InboxTypes
    BY <1>0 DEF PublishInv, SweepInv
  <2>2. UNCHANGED inboxVars /\ Authors' /\ Still /\ Keeps
    BY <1>0, <1>3, <2>1, RegistryEffect
  <2>3. UNCHANGED <<inbox, hand, of, answered, cooling, sweep, prior, soon>>
    BY <2>2 DEF inboxVars
  <2>4. PublishInv'
    BY <1>0, <2>1, <2>2, <2>3, RegistryKeepsPublishInv
  <2>5. SweepInv'
    BY <1>0, <2>3 DEF SweepInv, InboxTypes, Ended, Looked, Rounds
  <2> QED BY <1>1, <2>4, <2>5 DEF InboxInv
<1>4. ASSUME NEW w \in Sweep, SweepReads(w) \/ SweepQueues(w) \/ CooldownElapses(w) PROVE InboxInv'
  <2>1. SweepInv'
    BY <1>0, <1>4, SweepReadsStep, SweepQueuesStep, CooldownStep
  <2>2. PublishInv'
    BY <1>0, <1>4, SweepsKeepPublishInv
  <2> QED BY <1>1, <2>1, <2>2 DEF InboxInv
<1>5. ASSUME NEW h \in Hand, ReadProposal(h) PROVE InboxInv'
  BY <1>0, <1>1, <1>5, ReadProposalStep DEF InboxInv
<1>6. ASSUME NEW h \in Hand, MarkPublished(h) \/ MarkDismissed(h) PROVE InboxInv'
  BY <1>0, <1>1, <1>6, HandSteps DEF InboxInv
<1>7. ASSUME NEW p \in Approval, Return(p) \/ MarkIsLost(p) PROVE InboxInv'
  BY <1>0, <1>1, <1>7, HandSteps, HandsAreApart DEF InboxInv
<1> QED BY <1>2, <1>3, <1>4, <1>5, <1>6, <1>7 DEF InboxNext

LEMMA InboxStart == InboxInit => InboxInv
<1> SUFFICES ASSUME InboxInit PROVE InboxInv
  OBVIOUS
<1> USE DEF InboxInit
<1>1. IInv
  BY InitIInv
<1>2. InboxTypes
  BY DEF InboxTypes
<1>3. Ended /\ Looked /\ Rounds
  BY HandsAreApart DEF Ended, Looked, Rounds
<1>4. versions = {} /\ \A p \in Publisher : pub[p].at = "idle"
  BY DEF Init
<1>5. Authors /\ Named /\ Closed
  BY <1>4, HandsAreApart DEF Authors, Named, Closed, Publishes
<1>6. NoneBefore /\ Logged
  BY <1>4, HandsAreApart DEF NoneBefore, Logged, Publishes
<1> QED BY <1>1, <1>2, <1>3, <1>5, <1>6 DEF InboxInv, SweepInv, PublishInv

\* What a sweep and an approval know of the proposals that were there before
\* them holds in every state, with the registry's invariant below it
\* (improvementSweep.ts, sweepImprovementsOnce and publishImprovementProposal).
THEOREM InboxInvHolds == InboxSpec => []InboxInv
  BY InboxStart, InboxStep, PTL DEF InboxSpec

-----------------------------------------------------------------------------
(* The theorems *)

\* No sweep queues a proposal for a record that had one pending or cooling when
\* it looked, and of two that did not see each other one came through the route.
\* The rounds of the interval are those of one process: where two replicas run
\* them, a lease that runs out under its holder lets two rounds overlap
\* (improvementSweep.ts, targetBlocked).
THEOREM SpacingHolds == InboxSpec => []ProposalsAreSpaced
<1>1. InboxInv => ProposalsAreSpaced
  <2> SUFFICES ASSUME InboxInv, NEW v \in Queued, NEW w \in Queued, v # w
               PROVE  /\ v \in prior[w] => inbox[v] # "pending" /\ v \notin soon[w]
                      /\ v \in prior[w] \/ w \in prior[v] \/ {v, w} \cap Manual # {}
    BY DEF ProposalsAreSpaced
  <2>1. v \in Sweep /\ w \in Sweep /\ inbox[v] # "none" /\ inbox[w] # "none"
    BY DEF Queued
  <2>2. v \in prior[w] => inbox[v] # "pending" /\ v \notin soon[w]
    BY <2>1 DEF InboxInv, SweepInv, Looked
  <2>3. v \in Sweep \ Manual /\ w \in Sweep \ Manual => v \in prior[w] \/ w \in prior[v]
    BY <2>1 DEF InboxInv, SweepInv, Rounds
  <2> QED BY <2>1, <2>2, <2>3
<1> QED BY <1>1, InboxInvHolds, PTL

\* A proposal that says it is published has its version in the log until the
\* record is deleted (publishImprovementProposal).
THEOREM PublishedHolds == InboxSpec => []PublishedIsInLog
<1>1. InboxInv => PublishedIsInLog
  <2> SUFFICES ASSUME InboxInv, NEW w \in Sweep, inbox[w] = "published",
                      deleter \in {"start", "versions"}
               PROVE  VersionsOf(w) # {}
    BY DEF PublishedIsInLog
  <2>1. PICK p \in Approval : of[p] = w /\ Publishes(p)
    BY DEF InboxInv, PublishInv, Logged
  <2>2. PICK v \in versions : v.by = p
    BY <2>1 DEF Publishes
  <2>3. v \in VersionsOf(w)
    BY <2>1, <2>2 DEF VersionsOf
  <2> QED BY <2>3
<1> QED BY <1>1, InboxInvHolds, PTL

\* An approval that began after another of its proposal was answered with
\* success publishes no second version (publishImprovementProposal's check).
THEOREM PublishedOnceHolds == InboxSpec => []PublishedOnce
<1>1. InboxInv => PublishedOnce
  <2> SUFFICES ASSUME InboxInv, NEW w \in Sweep, NEW u \in VersionsOf(w), NEW v \in VersionsOf(w),
                      u.by \in answered[v.by]
               PROVE  FALSE
    BY DEF PublishedOnce
  <2>1. /\ u \in versions /\ u.by \in Approval /\ of[u.by] = w
        /\ v \in versions /\ v.by \in Approval /\ of[v.by] = w
    BY DEF VersionsOf
  <2>2. Publishes(u.by) /\ Publishes(v.by)
    BY <2>1 DEF Publishes
  <2>3. pub[v.by].at # "idle"
    BY <2>1, <2>2, HandsAreApart DEF InboxInv, PublishInv, Authors, Landed
  <2>4. of[u.by] = of[v.by] => ~Publishes(u.by)
    BY <2>1, <2>3 DEF InboxInv, PublishInv, NoneBefore
  <2> QED BY <2>1, <2>2, <2>4
<1> QED BY <1>1, InboxInvHolds, PTL

-----------------------------------------------------------------------------
(* The composition *)

\* Under the inbox the registry takes its own steps, or none
LEMMA RegistryBelow == [InboxNext]_allVars => [Next]_Registry
<1> SUFFICES ASSUME [InboxNext]_allVars PROVE [Next]_Registry
  OBVIOUS
<1>1. CASE RegistryStep
  BY <1>1 DEF RegistryStep, Next
<1>2. ASSUME UNCHANGED vars PROVE [Next]_Registry
  BY <1>2 DEF vars, Registry
<1>3. CASE UNCHANGED allVars
  BY <1>2, <1>3 DEF allVars
<1>4. ASSUME NEW w \in Sweep, SweepReads(w) \/ SweepQueues(w) \/ CooldownElapses(w) PROVE [Next]_Registry
  BY <1>2, <1>4 DEF SweepReads, SweepQueues, CooldownElapses
<1>5. ASSUME NEW h \in Hand, ReadProposal(h) \/ MarkPublished(h) \/ MarkDismissed(h) PROVE [Next]_Registry
  BY <1>2, <1>5 DEF ReadProposal, MarkPublished, MarkDismissed, Mark
<1>6. ASSUME NEW p \in Approval, Return(p) PROVE [Next]_Registry
  BY <1>2, <1>6 DEF Return
<1>7. ASSUME NEW p \in Approval, MarkIsLost(p) PROVE [Next]_Registry
  BY <1>7 DEF MarkIsLost, Registry
<1> QED BY <1>1, <1>3, <1>4, <1>5, <1>6, <1>7 DEF InboxNext

\* Sweeps, approvals, dismissals and lost marks change nothing for the clients of
\* the registry: under the inbox it still implements VersionLog
\* (publishImprovementProposal calls publishPromptVersion and nothing else).
THEOREM InboxImplementsLog == InboxSpec => ImplementsLog
<1>1. InboxInv => IInv
  BY DEF InboxInv
<1>2. InboxInit => Init
  BY DEF InboxInit
<1>3. InboxSpec => []LogInv
  BY <1>1, <1>2, LogStart, LogStep, RegistryBelow, InboxInvHolds, PTL DEF InboxSpec
<1> QED BY <1>1, <1>2, <1>3, InitIsLog, StepIsLog, RegistryBelow, InboxInvHolds, PTL
        DEF InboxSpec, ImplementsLog, Log!Spec

\* What the registry promises on its own it promises under the inbox: what was
\* answered is stored, refusals are earned and the record is at the newest version
\* (prompts.ts, publishPromptVersion).
RegistryPromises == AnsweredIsStored /\ RefusedOnlyWhenOutraced /\ CurrentIsNewest

\* For any number of sweeps, approvals and dismissals, and any crash among them
THEOREM PromisesCarryOver == InboxSpec => []RegistryPromises
<1>1. InboxInv => IInv
  BY DEF InboxInv
<1>2. IInv => AnsweredIsStored
  BY DEF IInv, Stored, AnsweredIsStored, Answered
<1>3. IInv => RefusedOnlyWhenOutraced
  BY AttemptAssumption DEF IInv, Counted, TypeOK, RefusedOnlyWhenOutraced
<1>4. IInv => CurrentIsNewest
  BY DEF IInv, Caught, CurrentIsNewest, Settled
<1> QED BY <1>1, <1>2, <1>3, <1>4, InboxInvHolds, PTL DEF RegistryPromises
=============================================================================
