-------------------------- MODULE AlertRulesProofs --------------------------
(***************************************************************************)
(* Proofs about AlertRules, for any number of evaluations and requests: an *)
(* episode is announced once, repeats keep the cooldown, and the receiver  *)
(* holds the incident of the rule.                                         *)
(*                                                                         *)
(* Two inductive invariants.  EpisodeIsFiring ties the history variable to *)
(* the row: an episode lasts only while the row says "firing".             *)
(* ReceiverInv says where the receiver is while one page, or some resets,  *)
(* are on their way; it rests on the time stamps being new, for a listed   *)
(* row names the right incident exactly while the notification clock has   *)
(* not moved.                                                              *)
(***************************************************************************)
EXTENDS AlertRules, FiniteSetTheorems, TLAPS

\* The row and the evaluations are a record and a function of the kind they began as
Shape ==
    /\ rule = [def |-> rule.def, enabled |-> rule.enabled, state |-> rule.state,
               notified |-> rule.notified, fired |-> rule.fired]
    /\ sweep = [s \in Sweep |-> sweep[s]]
    /\ episode \in BOOLEAN

\* The inductive invariant
EpisodeIsFiring == Shape /\ (episode => rule.state = "firing")

\* A page is committed only for the row that was read
LEMMA CommitReadsTheRow ==
    ASSUME NEW s \in Sweep, Commit(s)
    PROVE  /\ sweep[s].row.state = rule.state
           /\ sweep[s].row.notified = rule.notified
           /\ Verdict(s) = "triggered" => rule.state = "ok"
           /\ Verdict(s) = "repeat" => cooled
           /\ Verdict(s) \in {"triggered", "repeat", "resolved"}
  BY DEF Commit, Unraced, Verdict, Elapsed

\* What a commit does to the row
LEMMA CommitMarksTheRow ==
    ASSUME NEW s \in Sweep, Commit(s), Shape
    PROVE  /\ rule' = [def |-> rule.def, enabled |-> rule.enabled,
                       state |-> rule'.state, notified |-> rule'.notified, fired |-> rule'.fired]
           /\ rule'.def = rule.def /\ rule'.enabled = rule.enabled
           /\ rule'.state = IF Verdict(s) = "resolved" THEN "ok" ELSE "firing"
           /\ episode' = (Verdict(s) # "resolved")
  BY DEF Commit, Committed, Shape

\* What the write of a request does to the row
LEMMA WriteMarksTheRow ==
    ASSUME NEW e \in Edit, Write(e), Shape
    PROVE  /\ rule' = [def |-> rule'.def, enabled |-> rule'.enabled,
                       state |-> rule'.state, notified |-> rule'.notified, fired |-> rule'.fired]
           /\ episode' => episode
           /\ episode' => rule'.state = rule.state
           /\ rule'.state = "firing" => rule'.notified = rule.notified
  BY DEF Write, Shape

\* Evaluations step from one place to the next, and only a commit gets one that
\* has measured to its page
LEMMA OnlyCommitsPage ==
    ASSUME NEW s \in Sweep, NEW t \in Sweep, Shape,
           Load(s) \/ Measure(s) \/ Skip(s) \/ Page(s) \/ SweepDies(s)
    PROVE  /\ UNCHANGED <<rule, episode>>
           /\ sweep' = [x \in Sweep |-> sweep'[x]]
           /\ sweep[t].at = "measured" => sweep'[t].at # "page"
<1>1. CASE Load(s)
  BY <1>1 DEF Load, Shape, ruleVars, Asleep
<1>2. CASE Measure(s)
  BY <1>2 DEF Measure, Shape, ruleVars
<1>3. CASE Skip(s)
  BY <1>3 DEF Skip, Shape, ruleVars, Asleep
<1>4. CASE Page(s)
  BY <1>4 DEF Page, Shape, ruleVars, Asleep
<1>5. CASE SweepDies(s)
  BY <1>5 DEF SweepDies, Shape, ruleVars, Asleep
<1> QED BY <1>1, <1>2, <1>3, <1>4, <1>5

\* The other steps leave the evaluations alone
LEMMA OthersLeaveSweeps ==
    ASSUME \/ \E e \in Edit : ReadRow(e) \/ EditStep(e) \/ EditDies(e)
           \/ MetricMoves \/ CooldownElapses \/ StrayIsClosed
    PROVE  UNCHANGED sweep
  BY DEF ReadRow, EditStep, ResolveFirst, Write, Remove, EditDies, MetricMoves,
         CooldownElapses, StrayIsClosed

\* The steps of requests and of the world that leave the row and the episode alone
LEMMA OthersLeaveRow ==
    ASSUME \/ \E e \in Edit : ReadRow(e) \/ ResolveFirst(e) \/ EditDies(e)
           \/ MetricMoves \/ CooldownElapses \/ StrayIsClosed
    PROVE  UNCHANGED <<rule, episode>>
  BY DEF ReadRow, ResolveFirst, EditDies, MetricMoves, CooldownElapses, StrayIsClosed, ruleVars

-----------------------------------------------------------------------------

LEMMA EpisodeIsFiringInit == Init => EpisodeIsFiring
  BY DEF Init, EpisodeIsFiring, Shape, Created

LEMMA EpisodeIsFiringStep == EpisodeIsFiring /\ [Next]_vars => EpisodeIsFiring'
<1> SUFFICES ASSUME EpisodeIsFiring, [Next]_vars PROVE EpisodeIsFiring'
  OBVIOUS
<1> USE DEF EpisodeIsFiring
<1>1. CASE UNCHANGED vars
  BY <1>1 DEF vars, ruleVars, Shape
<1>2. ASSUME NEW s \in Sweep, Load(s) \/ Measure(s) \/ Skip(s) \/ Page(s) \/ SweepDies(s)
      PROVE  EpisodeIsFiring'
  BY <1>2, OnlyCommitsPage DEF Shape
<1>3. ASSUME NEW s \in Sweep, Commit(s) PROVE EpisodeIsFiring'
  <2>1. sweep' = [x \in Sweep |-> sweep'[x]]
    BY <1>3 DEF Commit, Shape
  <2>2. rule' = [def |-> rule'.def, enabled |-> rule'.enabled, state |-> rule'.state,
                 notified |-> rule'.notified, fired |-> rule'.fired]
    BY <1>3, CommitMarksTheRow
  <2>3. episode' \in BOOLEAN /\ (episode' => rule'.state = "firing")
    BY <1>3, CommitMarksTheRow
  <2> QED BY <2>1, <2>2, <2>3 DEF Shape
<1>4. ASSUME NEW e \in Edit, ReadRow(e) \/ ResolveFirst(e) \/ EditDies(e) PROVE EpisodeIsFiring'
  BY <1>4, OthersLeaveRow, OthersLeaveSweeps DEF Shape, EditStep
<1>5. ASSUME NEW e \in Edit, Write(e) PROVE EpisodeIsFiring'
  <2>1. UNCHANGED sweep
    BY <1>5, OthersLeaveSweeps DEF EditStep
  <2>2. episode' \in BOOLEAN
    BY <1>5 DEF Write
  <2> QED BY <1>5, <2>1, <2>2, WriteMarksTheRow DEF Shape
<1>6. ASSUME NEW e \in Edit, Remove(e) PROVE EpisodeIsFiring'
  BY <1>6 DEF Remove, Shape
<1>7. CASE MetricMoves \/ CooldownElapses \/ StrayIsClosed
  BY <1>7, OthersLeaveRow, OthersLeaveSweeps DEF Shape
<1> QED BY <1>1, <1>2, <1>3, <1>4, <1>5, <1>6, <1>7 DEF Next, SweepStep, EditStep

\* The history variable says "in an episode" only while the row says "firing"
THEOREM EpisodeHolds == Spec => []EpisodeIsFiring
  BY EpisodeIsFiringInit, EpisodeIsFiringStep, PTL DEF Spec

-----------------------------------------------------------------------------

\* Every episode is announced once, whoever evaluates, edits and crashes: a
\* trigger is committed only on a row that is "ok", hence outside every episode
\* (evaluateRule's compare-and-set).
THEOREM EpisodesTriggerOnce == Spec => EpisodeTriggersOnce
<1>1. EpisodeIsFiring /\ [Next]_vars => TriggersOutsideEpisodes
  <2> SUFFICES ASSUME EpisodeIsFiring, [Next]_vars, NEW t \in Sweep, Triggers(t)
               PROVE  ~episode
    BY DEF TriggersOutsideEpisodes
  <2> USE DEF Triggers
  <2>1. CASE UNCHANGED vars
    BY <2>1 DEF vars
  <2>2. ASSUME NEW s \in Sweep, Load(s) \/ Measure(s) \/ Skip(s) \/ Page(s) \/ SweepDies(s)
        PROVE  FALSE
    BY <2>2, OnlyCommitsPage DEF EpisodeIsFiring
  <2>3. ASSUME NEW s \in Sweep, Commit(s) PROVE ~episode
    <3>1. s = t
      BY <2>3 DEF Commit, EpisodeIsFiring, Shape
    <3>2. sweep'[s].page = Verdict(s)
      <4>1. sweep'[s] = [at |-> "page", row |-> [Created EXCEPT !.fired = PageKey(Verdict(s), sweep[s].row)],
                         breach |-> FALSE, page |-> Verdict(s)]
        BY <2>3 DEF Commit, EpisodeIsFiring, Shape, Asleep
      <4> QED BY <4>1
    <3> QED BY <2>3, <3>1, <3>2, CommitReadsTheRow DEF EpisodeIsFiring
  <2>4. CASE UNCHANGED sweep
    BY <2>4
  <2> QED BY <2>1, <2>2, <2>3, <2>4, OthersLeaveSweeps DEF Next, SweepStep, EditStep
<1> QED BY <1>1, EpisodeHolds, PTL DEF Spec, EpisodeTriggersOnce

\* While a rule stays firing its notification clock moves only after a cooldown,
\* so of two evaluations that both saw the cooldown run out one repeats the page
\* (evaluateRule's compare-and-set).
THEOREM RepeatsAreSpaced == Spec => RepeatsKeepCooldown
<1>1. ASSUME EpisodeIsFiring, [Next]_vars, rule.state = "firing", rule'.state = "firing",
             rule'.notified # rule.notified
      PROVE  cooled
  <2> USE <1>1
  <2>1. CASE UNCHANGED rule
    BY <2>1
  <2>2. ASSUME NEW s \in Sweep, Commit(s) PROVE cooled
    BY <2>2, CommitReadsTheRow, CommitMarksTheRow DEF EpisodeIsFiring
  <2>3. ASSUME NEW e \in Edit, Write(e) PROVE cooled
    BY <2>3, WriteMarksTheRow DEF EpisodeIsFiring
  <2>4. ASSUME NEW e \in Edit, Remove(e) PROVE UNCHANGED rule
    BY <2>4 DEF Remove
  <2>5. ASSUME NEW s \in Sweep, Load(s) \/ Measure(s) \/ Skip(s) \/ Page(s) \/ SweepDies(s)
        PROVE  UNCHANGED rule
    BY <2>5, OnlyCommitsPage DEF EpisodeIsFiring
  <2>6. CASE UNCHANGED vars
    BY <2>6 DEF vars, ruleVars
  <2> QED BY <2>1, <2>2, <2>3, <2>4, <2>5, <2>6, OthersLeaveRow DEF Next, SweepStep, EditStep
<1> QED BY <1>1, EpisodeHolds, PTL DEF Spec, RepeatsKeepCooldown

-----------------------------------------------------------------------------
(* Types *)

\* A number that nothing holds is to be had
LEMMA UnusedIsFree ==
    ASSUME NEW held, IsFiniteSet(held)
    PROVE  Unused(held) \in Nat /\ Unused(held) \notin held
<1> DEFINE n == Cardinality(held)
<1>1. n \in Nat
  BY FS_CardinalityType
<1>2. ~(0 .. n \subseteq held)
  <2>1. IsFiniteSet(0 .. n) /\ Cardinality(0 .. n) = n + 1
    BY <1>1, FS_Interval
  <2>2. ASSUME 0 .. n \subseteq held PROVE Cardinality(0 .. n) <= n
    BY <2>2, FS_Subset
  <2> QED BY <1>1, <2>1, <2>2
<1>3. \E k \in 0 .. n : k \notin held
  BY <1>2
<1>4. Unused(held) \in 0 .. n /\ Unused(held) \notin held
  BY <1>3 DEF Unused
<1> QED BY <1>1, <1>4

LEMMA ImageIsFinite ==
    ASSUME NEW S, IsFiniteSet(S), NEW f, f = [s \in S |-> f[s]]
    PROVE  IsFiniteSet({f[s] : s \in S})
<1>1. f \in Surjection(S, {f[s] : s \in S})
  BY DEF Surjection
<1> QED BY <1>1, FS_Surjection

\* A new time stamp of either column is one that neither the row, nor a listed
\* row, nor the receiver holds
LEMMA StampsAreNew ==
    ASSUME IsFiniteSet(open)
    PROVE  /\ Now \in Nat \ {Null}
           /\ \A s \in Sweep : sweep[s].row.notified # Now
           /\ NewKey \in Nat \ {Null}
<1> DEFINE f == [s \in Sweep |-> sweep[s].row.notified]
           g == [s \in Sweep |-> sweep[s].row.fired]
           h == [e \in Edit |-> edit[e].key]
<1>1. IsFiniteSet({f[s] : s \in Sweep})
  BY ActorAssumption, ImageIsFinite
<1>2. IsFiniteSet({g[s] : s \in Sweep})
  BY ActorAssumption, ImageIsFinite
<1>3. IsFiniteSet({h[e] : e \in Edit})
  BY ActorAssumption, ImageIsFinite
<1>4. /\ {f[s] : s \in Sweep} = {sweep[s].row.notified : s \in Sweep}
      /\ {g[s] : s \in Sweep} = {sweep[s].row.fired : s \in Sweep}
      /\ {h[e] : e \in Edit} = {edit[e].key : e \in Edit}
  OBVIOUS
<1> HIDE DEF f, g, h
<1>5. IsFiniteSet({Null, rule.notified}) /\ IsFiniteSet({Null, rule.fired})
  <2>1. /\ {Null, rule.notified} = {Null} \cup {rule.notified}
        /\ {Null, rule.fired} = {Null} \cup {rule.fired}
    OBVIOUS
  <2>2. IsFiniteSet({Null})
    BY FS_Singleton
  <2> QED BY <2>1, <2>2, FS_AddElement
<1>6. IsFiniteSet({Null, rule.notified} \cup {sweep[s].row.notified : s \in Sweep})
  BY <1>1, <1>4, <1>5, FS_Union
<1>7. IsFiniteSet({Null, rule.fired} \cup open \cup {sweep[s].row.fired : s \in Sweep}
                  \cup {edit[e].key : e \in Edit})
  BY <1>2, <1>3, <1>4, <1>5, FS_Union
<1> QED BY <1>6, <1>7, UnusedIsFree DEF Now, NewKey

Places == {"idle", "loaded", "measured", "page"}
Pages == {"none", "triggered", "repeat", "resolved"}
SweepType == [at : Places, row : Row, breach : BOOLEAN, page : Pages]
EditType == [at : {"idle", "resolve", "write"}, kind : Kinds \cup {"none"},
             def : Def, resets : BOOLEAN, key : Nat]

\* A page that opens an incident names it, and so does a listed row that fires;
\* only a reset or a deletion resolves before it writes
Named ==
    /\ \A s \in Sweep :
          /\ Paging(s) /\ sweep[s].page # "resolved" => sweep[s].row.fired # Null
          /\ sweep[s].at \in {"loaded", "measured"} /\ sweep[s].row.state = "firing" =>
                sweep[s].row.fired # Null
    /\ \A e \in Edit : edit[e].at = "resolve" => edit[e].resets \/ edit[e].kind = "delete"

TypeInv == TypeOK /\ Named

LEMMA Forms ==
    ASSUME TypeOK
    PROVE  sweep \in [Sweep -> SweepType] /\ edit \in [Edit -> EditType]
  BY DEF TypeOK, SweepType, EditType, Places, Pages

LEMMA StartsTyped == Created \in Row /\ Asleep \in SweepType /\ NoRequest \in EditType
<1>1. Created \in Row
  BY DefAssumption DEF Created, Row, Null
<1> QED BY <1>1 DEF Asleep, NoRequest, SweepType, EditType, Places, Pages, Null, Row

LEMMA TypeInit == Init => TypeInv
<1> SUFFICES ASSUME Init PROVE TypeInv
  OBVIOUS
<1>1. IsFiniteSet({})
  BY FS_EmptySet
<1>2. sweep \in [Sweep -> SweepType] /\ edit \in [Edit -> EditType] /\ rule \in Row
  BY StartsTyped DEF Init
<1>3. Named /\ rule.state = "ok"
  BY DEF Init, Named, Asleep, NoRequest, Created, Paging
<1>4. deaths \in 0 .. MaxDeaths /\ lost \in 0 .. MaxLost
  BY BoundAssumption DEF Init
<1>5. deleted \in BOOLEAN /\ cooled \in BOOLEAN /\ episode \in BOOLEAN /\ crossed \in BOOLEAN
  BY DEF Init
<1>6. breaching \subseteq Def /\ open \subseteq Nat \ {Null} /\ IsFiniteSet(open)
  BY <1>1 DEF Init
<1> QED BY <1>2, <1>3, <1>4, <1>5, <1>6
        DEF TypeInv, TypeOK, SweepType, EditType, Places, Pages

\* One evaluation steps: what has to be shown of its new record
LEMMA SweepTyped ==
    ASSUME TypeInv, NEW s \in Sweep, NEW v \in SweepType,
           sweep' = [sweep EXCEPT ![s] = v],
           v.at = "page" /\ v.page # "resolved" => v.row.fired # Null,
           v.at \in {"loaded", "measured"} /\ v.row.state = "firing" => v.row.fired # Null,
           UNCHANGED edit
    PROVE  sweep' \in [Sweep -> SweepType] /\ edit' \in [Edit -> EditType] /\ Named'
<1>1. sweep \in [Sweep -> SweepType] /\ edit \in [Edit -> EditType]
  BY Forms DEF TypeInv
<1>2. sweep' \in [Sweep -> SweepType]
  BY <1>1
<1>3. \A t \in Sweep : sweep'[t] = IF t = s THEN v ELSE sweep[t]
  BY <1>1
<1> QED BY <1>1, <1>2, <1>3 DEF TypeInv, Named, Paging

LEMMA EditTyped ==
    ASSUME TypeInv, NEW e \in Edit, NEW v \in EditType,
           edit' = [edit EXCEPT ![e] = v],
           v.at = "resolve" => v.resets \/ v.kind = "delete",
           UNCHANGED sweep
    PROVE  sweep' \in [Sweep -> SweepType] /\ edit' \in [Edit -> EditType] /\ Named'
<1>1. sweep \in [Sweep -> SweepType] /\ edit \in [Edit -> EditType]
  BY Forms DEF TypeInv
<1>2. edit' \in [Edit -> EditType]
  BY <1>1
<1>3. \A f \in Edit : edit'[f] = IF f = e THEN v ELSE edit[f]
  BY <1>1
<1> QED BY <1>1, <1>2, <1>3 DEF TypeInv, Named, Paging

\* A delivery opens or closes the incident it names
LEMMA DeliverTyped ==
    ASSUME TypeInv, NEW page, NEW key \in Nat, Deliver(page, key), page # "resolved" => key # Null
    PROVE  open' \subseteq Nat \ {Null} /\ IsFiniteSet(open') /\ lost' \in 0 .. MaxLost
<1>1. IsFiniteSet(open \ {key}) /\ IsFiniteSet(open \cup {key})
  BY FS_AddElement, FS_RemoveElement DEF TypeInv, TypeOK
<1>2. open \subseteq Nat \ {Null} /\ IsFiniteSet(open) /\ lost \in 0 .. MaxLost
  BY DEF TypeInv, TypeOK
<1>3. CASE open' = IF page = "resolved" THEN open \ {key} ELSE open \cup {key}
  <2>1. open' \subseteq Nat \ {Null} /\ IsFiniteSet(open')
    BY <1>1, <1>2, <1>3
  <2>2. lost' \in 0 .. MaxLost
    BY <1>2, BoundAssumption DEF Deliver
  <2> QED BY <2>1, <2>2
<1>4. CASE UNCHANGED open
  BY <1>2, <1>4, BoundAssumption DEF Deliver
<1> QED BY <1>3, <1>4 DEF Deliver

\* What an evaluation and a request know after a step
LEMMA Loads ==
    ASSUME TypeInv, NEW s \in Sweep, Load(s)
    PROVE  \E v \in SweepType :
              /\ sweep' = [sweep EXCEPT ![s] = v]
              /\ v.at = "loaded" /\ v.page = "none"
              /\ v.row.state = rule.state /\ v.row.notified = rule.notified
              /\ v.row.fired = IF rule.state = "firing" THEN rule.fired ELSE Null
<1> DEFINE key == IF rule.state = "firing" THEN rule.fired ELSE Null
           r == [rule EXCEPT !.fired = key]
           v == [Asleep EXCEPT !.at = "loaded", !.row = r]
<1>1. r \in Row /\ r.state = rule.state /\ r.notified = rule.notified /\ r.fired = key
  BY DEF TypeInv, TypeOK, Row, Null
<1> HIDE DEF r
<1>2. v \in SweepType /\ v.at = "loaded" /\ v.page = "none" /\ v.row = r
  <2>1. Asleep \in SweepType /\ Asleep.page = "none"
    BY StartsTyped DEF Asleep
  <2> QED BY <1>1, <2>1 DEF SweepType, Places, Pages
<1>3. sweep' = [sweep EXCEPT ![s] = v]
  BY DEF Load, r
<1> QED BY <1>1, <1>2, <1>3

LEMMA Measures ==
    ASSUME TypeInv, NEW s \in Sweep, Measure(s)
    PROVE  \E v \in SweepType :
              /\ sweep' = [sweep EXCEPT ![s] = v]
              /\ v.at = "measured" /\ v.row = sweep[s].row /\ v.page = sweep[s].page
<1> DEFINE b == sweep[s].row.def \in breaching
           v == [sweep[s] EXCEPT !.at = "measured", !.breach = b]
<1>1. sweep \in [Sweep -> SweepType]
  BY Forms DEF TypeInv
<1>0. b \in BOOLEAN
  OBVIOUS
<1> HIDE DEF b
<1>2. v \in SweepType /\ v.at = "measured" /\ v.row = sweep[s].row /\ v.page = sweep[s].page
  BY <1>0, <1>1 DEF SweepType, Places, Pages
<1>3. sweep' = [sweep EXCEPT ![s] = v]
  BY <1>1 DEF Measure, b
<1> QED BY <1>2, <1>3

\* A commit, with the key that its page will name
LEMMA Commits ==
    ASSUME TypeInv, NEW s \in Sweep, Commit(s)
    PROVE  /\ PageKey(Verdict(s), sweep[s].row) \in Nat
           /\ Verdict(s) # "resolved" => PageKey(Verdict(s), sweep[s].row) # Null
           /\ \E v \in SweepType :
                 /\ sweep' = [sweep EXCEPT ![s] = v]
                 /\ v.at = "page" /\ v.page = Verdict(s)
                 /\ v.row.fired = PageKey(Verdict(s), sweep[s].row)
<1> DEFINE key == PageKey(Verdict(s), sweep[s].row)
           page == Verdict(s)
           v == [Asleep EXCEPT !.at = "page", !.page = page, !.row.fired = key]
<1>1. sweep[s] \in SweepType /\ sweep[s].row \in Row
  BY Forms DEF TypeInv, SweepType
<1>2. page \in {"triggered", "repeat", "resolved"} /\ (page = "repeat" => sweep[s].row.state = "firing")
  BY CommitReadsTheRow DEF Verdict
<1>3. key \in Nat /\ (page # "resolved" => key # Null)
  BY <1>1, <1>2, StampsAreNew DEF PageKey, Commit, TypeInv, TypeOK, Named, Row
<1> HIDE DEF key, page
<1>4. v \in SweepType /\ v.at = "page" /\ v.page = page /\ v.row.fired = key
  <2>1. Asleep \in SweepType
    BY StartsTyped
  <2> QED BY <1>2, <1>3, <2>1 DEF SweepType, Places, Pages, Row
<1>5. sweep' = [sweep EXCEPT ![s] = v]
  BY DEF Commit, key, page
<1> QED BY <1>3, <1>4, <1>5 DEF key, page

LEMMA Reads ==
    ASSUME TypeInv, NEW e \in Edit, ReadRow(e)
    PROVE  \E v \in EditType :
              /\ edit' = [edit EXCEPT ![e] = v]
              /\ v.at \in {"resolve", "write"}
              /\ v.at = "resolve" => v.resets \/ v.kind = "delete"
              /\ v.at = "write" /\ v.resets => rule.state # "firing"
              /\ v.at = "resolve" => v.key = rule.fired
              /\ crossed' = (crossed \/ (v.resets /\ \E s \in Sweep : Paging(s)))
<1>1. PICK kind \in Kinds, d \in Def :
          LET resets == kind = "redefine" \/ (kind = "pause" /\ rule.enabled)
              owes == rule.state = "firing" /\ (resets \/ kind = "delete")
          IN  /\ edit' = [edit EXCEPT ![e] =
                     [at |-> IF owes THEN "resolve" ELSE "write", kind |-> kind, def |-> d,
                      resets |-> resets, key |-> IF owes THEN rule.fired ELSE Null]]
              /\ crossed' = (crossed \/ (resets /\ \E s \in Sweep : Paging(s)))
  BY DEF ReadRow
<1> DEFINE resets == kind = "redefine" \/ (kind = "pause" /\ rule.enabled)
           owes == rule.state = "firing" /\ (resets \/ kind = "delete")
           v == [at |-> IF owes THEN "resolve" ELSE "write", kind |-> kind, def |-> d,
                 resets |-> resets, key |-> IF owes THEN rule.fired ELSE Null]
<1>2. v \in EditType
  BY DEF EditType, TypeInv, TypeOK, Row, Null
<1>3. edit' = [edit EXCEPT ![e] = v] /\ crossed' = (crossed \/ (resets /\ \E s \in Sweep : Paging(s)))
  BY <1>1
<1>4. v.at = (IF owes THEN "resolve" ELSE "write") /\ v.kind = kind /\ v.resets = resets
      /\ v.key = IF owes THEN rule.fired ELSE Null
  OBVIOUS
<1> HIDE DEF v
<1> QED BY <1>2, <1>3, <1>4

LEMMA Resolves ==
    ASSUME TypeInv, NEW e \in Edit, ResolveFirst(e)
    PROVE  \E v \in EditType :
              /\ edit' = [edit EXCEPT ![e] = v]
              /\ v.at = "write" /\ v.kind = edit[e].kind /\ v.resets = edit[e].resets
<1> DEFINE v == [edit[e] EXCEPT !.at = "write", !.key = Null]
<1>1. edit \in [Edit -> EditType]
  BY Forms DEF TypeInv
<1>2. v \in EditType /\ v.at = "write" /\ v.kind = edit[e].kind /\ v.resets = edit[e].resets
  BY <1>1 DEF EditType, Null
<1>3. edit' = [edit EXCEPT ![e] = v]
  BY <1>1 DEF ResolveFirst
<1> QED BY <1>2, <1>3

LEMMA CommitsRow ==
    ASSUME TypeInv, NEW s \in Sweep, Commit(s)
    PROVE  /\ rule' \in Row
           /\ rule'.state = IF Verdict(s) = "resolved" THEN "ok" ELSE "firing"
           /\ rule'.notified = Now
           /\ rule'.fired = IF Verdict(s) = "triggered" THEN NewKey ELSE rule.fired
<1>1. rule' = Committed(Verdict(s))
  BY DEF Commit
<1>2. Now \in Nat /\ NewKey \in Nat /\ rule \in Row
  BY StampsAreNew DEF TypeInv, TypeOK
<1> QED BY <1>1, <1>2 DEF Committed, Row

LEMMA WritesRow ==
    ASSUME TypeInv, NEW e \in Edit, Write(e)
    PROVE  /\ rule' \in Row
           /\ rule'.fired = rule.fired
           /\ deleted \/ ~edit[e].resets => rule'.state = rule.state /\ rule'.notified = rule.notified
           /\ ~deleted /\ edit[e].resets => rule'.state = "ok"
<1>1. rule \in Row /\ edit[e].def \in Def
  BY Forms DEF TypeInv, TypeOK, EditType
<1> DEFINE enabled == edit[e].kind = "enable" \/ (edit[e].kind # "pause" /\ rule.enabled)
<1>2. enabled \in BOOLEAN
  OBVIOUS
<1>3. CASE deleted
  BY <1>1, <1>3 DEF Write
<1>4. CASE ~deleted
  <2>1. rule' = [rule EXCEPT !.def = IF edit[e].kind = "redefine" THEN edit[e].def ELSE rule.def,
                     !.enabled = enabled,
                     !.state = IF edit[e].resets THEN "ok" ELSE rule.state,
                     !.notified = IF edit[e].resets THEN Null ELSE rule.notified]
    BY <1>1, <1>4 DEF Write, Row
  <2> HIDE DEF enabled
  <2> QED BY <1>1, <1>2, <1>4, <2>1 DEF Row, Null
<1> QED BY <1>3, <1>4

LEMMA TypeStep == TypeInv /\ [Next]_vars => TypeInv'
<1> SUFFICES ASSUME TypeInv, [Next]_vars PROVE TypeInv'
  OBVIOUS
<1> USE DEF ruleVars, worldVars
<1> DEFINE Rest == /\ deleted' \in BOOLEAN /\ cooled' \in BOOLEAN /\ episode' \in BOOLEAN
                   /\ breaching' \subseteq Def /\ crossed' \in BOOLEAN
                   /\ deaths' \in 0 .. MaxDeaths
           RuleOK == rule' \in Row /\ (rule'.state = "firing" => rule'.notified # Null /\ rule'.fired # Null)
           OpenOK == open' \subseteq Nat \ {Null} /\ IsFiniteSet(open') /\ lost' \in 0 .. MaxLost
           ActorsOK == sweep' \in [Sweep -> SweepType] /\ edit' \in [Edit -> EditType] /\ Named'
<1>0. Rest /\ RuleOK /\ OpenOK /\ ActorsOK => TypeInv'
  BY DEF TypeInv, TypeOK, SweepType, EditType, Places, Pages
<1>a. ASSUME UNCHANGED rule PROVE RuleOK
  BY <1>a DEF TypeInv, TypeOK
<1>b. ASSUME UNCHANGED <<open, lost>> PROVE OpenOK
  BY <1>b DEF TypeInv, TypeOK
<1>c. ASSUME UNCHANGED <<sweep, edit>> PROVE ActorsOK
  BY <1>c, Forms DEF TypeInv, Named, Paging
<1>d. /\ deleted \in BOOLEAN /\ cooled \in BOOLEAN /\ episode \in BOOLEAN
      /\ breaching \subseteq Def /\ crossed \in BOOLEAN /\ deaths \in 0 .. MaxDeaths
  BY DEF TypeInv, TypeOK
<1>e. ASSUME deaths < MaxDeaths, deaths' = deaths + 1 PROVE deaths' \in 0 .. MaxDeaths
  BY <1>d, <1>e, BoundAssumption
<1>1. CASE UNCHANGED vars
  BY <1>0, <1>1, <1>a, <1>b, <1>c, <1>d DEF vars
<1>2. ASSUME NEW s \in Sweep, Load(s) PROVE TypeInv'
  <2>1. PICK v \in SweepType :
              /\ sweep' = [sweep EXCEPT ![s] = v]
              /\ v.at = "loaded" /\ v.row.state = rule.state
              /\ v.row.fired = IF rule.state = "firing" THEN rule.fired ELSE Null
    BY <1>2, Loads
  <2>2. v.row.state = "firing" => v.row.fired # Null
    BY <2>1 DEF TypeInv, TypeOK
  <2>3. ActorsOK
    BY <1>2, <2>1, <2>2, SweepTyped DEF Load
  <2> QED BY <1>0, <1>2, <1>a, <1>b, <1>d, <2>3 DEF Load
<1>3. ASSUME NEW s \in Sweep, Measure(s) PROVE TypeInv'
  <2>1. PICK v \in SweepType :
              /\ sweep' = [sweep EXCEPT ![s] = v]
              /\ v.at = "measured" /\ v.row = sweep[s].row /\ v.page = sweep[s].page
    BY <1>3, Measures
  <2>2. v.row.state = "firing" => v.row.fired # Null
    BY <1>3, <2>1 DEF Measure, TypeInv, Named
  <2>3. ActorsOK
    BY <1>3, <2>1, <2>2, SweepTyped DEF Measure
  <2> QED BY <1>0, <1>3, <1>a, <1>b, <1>d, <2>3 DEF Measure
<1>4. ASSUME NEW s \in Sweep, Commit(s) PROVE TypeInv'
  <2>1. PICK v \in SweepType :
              /\ sweep' = [sweep EXCEPT ![s] = v]
              /\ v.at = "page" /\ v.page = Verdict(s)
              /\ v.row.fired = PageKey(Verdict(s), sweep[s].row)
    BY <1>4, Commits
  <2>2. v.page # "resolved" => v.row.fired # Null
    BY <1>4, <2>1, Commits
  <2>3. ActorsOK
    BY <1>4, <2>1, <2>2, SweepTyped DEF Commit
  <2>4. RuleOK
    <3>1. Now # Null /\ NewKey # Null
      BY StampsAreNew DEF TypeInv, TypeOK
    <3>2. Verdict(s) \in {"repeat"} => rule.fired # Null
      BY <1>4, CommitReadsTheRow DEF Verdict, TypeInv, TypeOK
    <3>3. Verdict(s) \in {"triggered", "repeat", "resolved"}
      BY <1>4, CommitReadsTheRow
    <3> QED BY <1>4, <3>1, <3>2, <3>3, CommitsRow
  <2>5. crossed' \in BOOLEAN /\ episode' \in BOOLEAN
    BY <1>4 DEF Commit
  <2> QED BY <1>0, <1>4, <1>b, <1>d, <2>3, <2>4, <2>5 DEF Commit
<1>5. ASSUME NEW s \in Sweep, Skip(s) PROVE TypeInv'
  <2>1. sweep' = [sweep EXCEPT ![s] = Asleep] /\ Asleep \in SweepType /\ Asleep.at = "idle"
    BY <1>5, StartsTyped DEF Skip, Asleep
  <2>2. ActorsOK
    BY <1>5, <2>1, SweepTyped DEF Skip
  <2> QED BY <1>0, <1>5, <1>a, <1>b, <1>d, <2>2 DEF Skip
<1>6. ASSUME NEW s \in Sweep, Page(s) PROVE TypeInv'
  <2>1. sweep' = [sweep EXCEPT ![s] = Asleep] /\ Asleep \in SweepType /\ Asleep.at = "idle"
    BY <1>6, StartsTyped DEF Page, Asleep
  <2>2. ActorsOK
    BY <1>6, <2>1, SweepTyped DEF Page
  <2>3. sweep[s].row.fired \in Nat /\ (sweep[s].page # "resolved" => sweep[s].row.fired # Null)
    BY <1>6, Forms DEF Page, TypeInv, Named, Paging, SweepType, Row
  <2>4. OpenOK
    BY <1>6, <2>3, DeliverTyped DEF Page
  <2> QED BY <1>0, <1>6, <1>a, <1>d, <2>2, <2>4 DEF Page
<1>7. ASSUME NEW s \in Sweep, SweepDies(s) PROVE TypeInv'
  <2>1. sweep' = [sweep EXCEPT ![s] = Asleep] /\ Asleep \in SweepType /\ Asleep.at = "idle"
    BY <1>7, StartsTyped DEF SweepDies, Asleep
  <2>2. ActorsOK
    BY <1>7, <2>1, SweepTyped DEF SweepDies
  <2> QED BY <1>0, <1>7, <1>a, <1>b, <1>d, <1>e, <2>2 DEF SweepDies
<1>8. ASSUME NEW e \in Edit, ReadRow(e) PROVE TypeInv'
  <2>1. PICK v \in EditType :
              /\ edit' = [edit EXCEPT ![e] = v]
              /\ v.at = "resolve" => v.resets \/ v.kind = "delete"
              /\ crossed' = (crossed \/ (v.resets /\ \E s \in Sweep : Paging(s)))
    BY <1>8, Reads
  <2>2. ActorsOK
    BY <1>8, <2>1, EditTyped DEF ReadRow
  <2> QED BY <1>0, <1>8, <1>a, <1>b, <1>d, <2>1, <2>2 DEF ReadRow
<1>9. ASSUME NEW e \in Edit, ResolveFirst(e) PROVE TypeInv'
  <2>1. PICK v \in EditType : edit' = [edit EXCEPT ![e] = v] /\ v.at = "write"
    BY <1>9, Resolves
  <2>2. ActorsOK
    BY <1>9, <2>1, EditTyped DEF ResolveFirst
  <2>3. edit[e].key \in Nat
    BY Forms DEF TypeInv, EditType
  <2>4. OpenOK
    BY <1>9, <2>3, DeliverTyped DEF ResolveFirst
  <2> QED BY <1>0, <1>9, <1>a, <1>d, <2>2, <2>4 DEF ResolveFirst
<1>10. ASSUME NEW e \in Edit, Write(e) PROVE TypeInv'
  <2>1. edit' = [edit EXCEPT ![e] = NoRequest] /\ NoRequest \in EditType /\ NoRequest.at = "idle"
    BY <1>10, StartsTyped DEF Write, NoRequest
  <2>2. ActorsOK
    BY <1>10, <2>1, EditTyped DEF Write
  <2>3. RuleOK
    BY <1>10, WritesRow DEF TypeInv, TypeOK
  <2>4. episode' \in BOOLEAN
    BY <1>10 DEF Write
  <2> QED BY <1>0, <1>10, <1>b, <1>d, <2>2, <2>3, <2>4 DEF Write
<1>11. ASSUME NEW e \in Edit, Remove(e) \/ EditDies(e) PROVE TypeInv'
  <2>1. edit' = [edit EXCEPT ![e] = NoRequest] /\ NoRequest \in EditType /\ NoRequest.at = "idle"
    BY <1>11, StartsTyped DEF Remove, EditDies, NoRequest
  <2>2. ActorsOK
    BY <1>11, <2>1, EditTyped DEF Remove, EditDies
  <2> QED BY <1>0, <1>11, <1>a, <1>b, <1>d, <1>e, <2>2 DEF Remove, EditDies
<1>12. CASE MetricMoves \/ CooldownElapses
  BY <1>0, <1>12, <1>a, <1>b, <1>c, <1>d DEF MetricMoves, CooldownElapses
<1>13. CASE StrayIsClosed
  <2>1. OpenOK
    BY <1>13, FS_RemoveElement DEF StrayIsClosed, TypeInv, TypeOK
  <2> QED BY <1>0, <1>13, <1>a, <1>c, <1>d, <2>1 DEF StrayIsClosed
<1> QED BY <1>1, <1>2, <1>3, <1>4, <1>5, <1>6, <1>7, <1>8, <1>9, <1>10, <1>11, <1>12, <1>13
        DEF Next, SweepStep, EditStep

\* Every variable keeps its type, a firing rule knows when it fired and last paged
THEOREM Typed == Spec => []TypeOK
<1>1. TypeInv => TypeOK
  BY DEF TypeInv
<1> QED BY <1>1, TypeInit, TypeStep, PTL DEF Spec

-----------------------------------------------------------------------------
(* The receiver *)

\* A listed row that fires names the incident of the rule, while the notification
\* clock has not moved since: a clock that moves takes a value no listed row has
Listed ==
    \A s \in Sweep :
        /\ sweep[s].at \in {"loaded", "measured"} /\ sweep[s].row.state = "firing"
        /\ rule.state = "firing" /\ sweep[s].row.notified = rule.notified
        => sweep[s].row.fired = rule.fired

\* Nothing was lost, cut off or crossed, and nobody is deleting the rule
Undisturbed ==
    /\ deaths = 0 /\ lost = 0 /\ ~crossed /\ ~deleted
    /\ \A e \in Edit : edit[e].at # "idle" => edit[e].kind # "delete"

\* A reset has resolved and is about to write
ResetIsDue == \E e \in Edit : Resetting(e) /\ edit[e].at = "write"

\* What a page on its way will change at the receiver
PageFits(s) ==
    LET key == sweep[s].row.fired IN
    /\ key = rule.fired
    /\ sweep[s].page = "triggered" => rule.state = "firing" /\ open = {}
    /\ sweep[s].page = "repeat" => rule.state = "firing" /\ open = {key}
    /\ sweep[s].page = "resolved" => rule.state = "ok" /\ open = {key}
    /\ sweep[s].page # "none"

\* One page is on its way at most, none while a reset is, and the receiver is
\* where the page or the reset needs it
InOrder ==
    /\ \A s, t \in Sweep : Paging(s) /\ Paging(t) => s = t
    /\ \A s \in Sweep, e \in Edit : ~(Paging(s) /\ Resetting(e))
    /\ \A s \in Sweep : Paging(s) => PageFits(s)
    /\ (\A s \in Sweep : ~Paging(s)) =>
          open = IF rule.state = "firing" /\ ~ResetIsDue THEN {rule.fired} ELSE {}
    /\ \A e \in Edit : Resetting(e) /\ edit[e].at = "resolve" /\ rule.state = "firing" =>
          edit[e].key = rule.fired

ReceiverInv == TypeInv /\ Listed /\ (Undisturbed => InOrder)

LEMMA SweepsAfter ==
    ASSUME TypeInv, NEW s \in Sweep, NEW v, sweep' = [sweep EXCEPT ![s] = v]
    PROVE  \A t \in Sweep : sweep'[t] = IF t = s THEN v ELSE sweep[t]
  BY Forms DEF TypeInv

LEMMA EditsAfter ==
    ASSUME TypeInv, NEW e \in Edit, NEW v, edit' = [edit EXCEPT ![e] = v]
    PROVE  \A f \in Edit : edit'[f] = IF f = e THEN v ELSE edit[f]
  BY Forms DEF TypeInv

LEMMA Idle == Asleep.at = "idle" /\ NoRequest.at = "idle"
  BY DEF Asleep, NoRequest

LEMMA ReceiverInit == Init => ReceiverInv
<1> SUFFICES ASSUME Init PROVE ReceiverInv
  OBVIOUS
<1>1. /\ \A s \in Sweep : sweep[s].at = "idle"
      /\ \A e \in Edit : edit[e].at = "idle"
      /\ rule.state = "ok" /\ open = {}
  BY Idle DEF Init, Created
<1> QED BY <1>1, TypeInit DEF ReceiverInv, Listed, InOrder, Paging, Resetting

LEMMA ListedStep ==
    ASSUME TypeInv, Listed, [Next]_vars PROVE Listed'
<1> USE DEF ruleVars, worldVars
<1>1. ASSUME UNCHANGED <<rule, sweep>> PROVE Listed'
  BY <1>1 DEF Listed
<1>2. ASSUME NEW s \in Sweep, Load(s) PROVE Listed'
  <2>1. PICK v \in SweepType :
              /\ sweep' = [sweep EXCEPT ![s] = v]
              /\ v.row.state = rule.state
              /\ v.row.fired = IF rule.state = "firing" THEN rule.fired ELSE Null
    BY <1>2, Loads
  <2>2. \A t \in Sweep : sweep'[t] = IF t = s THEN v ELSE sweep[t]
    BY <2>1, SweepsAfter
  <2>3. UNCHANGED rule
    BY <1>2 DEF Load
  <2> QED BY <2>1, <2>2, <2>3 DEF Listed
<1>3. ASSUME NEW s \in Sweep, Measure(s) PROVE Listed'
  <2>1. PICK v \in SweepType :
              /\ sweep' = [sweep EXCEPT ![s] = v]
              /\ v.at = "measured" /\ v.row = sweep[s].row
    BY <1>3, Measures
  <2>2. \A t \in Sweep : sweep'[t] = IF t = s THEN v ELSE sweep[t]
    BY <2>1, SweepsAfter
  <2>3. UNCHANGED rule /\ sweep[s].at = "loaded"
    BY <1>3 DEF Measure
  <2> QED BY <2>1, <2>2, <2>3 DEF Listed
<1>4. ASSUME NEW s \in Sweep, Commit(s) PROVE Listed'
  <2>1. PICK v \in SweepType : sweep' = [sweep EXCEPT ![s] = v] /\ v.at = "page"
    BY <1>4, Commits
  <2>2. \A t \in Sweep : sweep'[t] = IF t = s THEN v ELSE sweep[t]
    BY <2>1, SweepsAfter
  <2>3. rule'.notified = Now /\ \A t \in Sweep : sweep[t].row.notified # Now
    BY <1>4, CommitsRow, StampsAreNew DEF TypeInv, TypeOK
  <2> QED BY <2>1, <2>2, <2>3 DEF Listed
<1>5. ASSUME NEW s \in Sweep, Skip(s) \/ Page(s) \/ SweepDies(s) PROVE Listed'
  <2>1. sweep' = [sweep EXCEPT ![s] = Asleep] /\ UNCHANGED rule
    BY <1>5 DEF Skip, Page, SweepDies
  <2>2. \A t \in Sweep : sweep'[t] = IF t = s THEN Asleep ELSE sweep[t]
    BY <2>1, SweepsAfter
  <2> QED BY <2>1, <2>2, Idle DEF Listed
<1>6. ASSUME NEW e \in Edit, Write(e) PROVE Listed'
  <2>1. UNCHANGED sweep
    BY <1>6 DEF Write
  <2>2. rule'.state = "firing" =>
            rule'.state = rule.state /\ rule'.notified = rule.notified /\ rule'.fired = rule.fired
    BY <1>6, WritesRow
  <2> QED BY <2>1, <2>2 DEF Listed
<1>7. ASSUME NEW e \in Edit, ReadRow(e) \/ ResolveFirst(e) \/ Remove(e) \/ EditDies(e) PROVE Listed'
  BY <1>1, <1>7 DEF ReadRow, ResolveFirst, Remove, EditDies
<1>8. CASE MetricMoves \/ CooldownElapses \/ StrayIsClosed \/ UNCHANGED vars
  BY <1>1, <1>8 DEF MetricMoves, CooldownElapses, StrayIsClosed, vars
<1> QED BY <1>2, <1>3, <1>4, <1>5, <1>6, <1>7, <1>8 DEF Next, SweepStep, EditStep

\* What was disturbed stays so
LEMMA UndisturbedBefore ==
    ASSUME TypeInv, [Next]_vars, Undisturbed'
    PROVE  /\ Undisturbed
           /\ \A s \in Sweep : ~SweepDies(s)
           /\ \A e \in Edit : ~EditDies(e) /\ ~Remove(e)
<1> USE DEF ruleVars
<1>1. deaths \in Nat /\ lost \in Nat
  BY BoundAssumption DEF TypeInv, TypeOK
<1>2. \A s \in Sweep : ~SweepDies(s)
  BY <1>1 DEF SweepDies, Undisturbed
<1>3. \A e \in Edit : ~EditDies(e) /\ ~Remove(e)
  BY <1>1 DEF EditDies, Remove, Undisturbed
<1> DEFINE Before == /\ deaths = 0 /\ lost = 0 /\ ~crossed /\ ~deleted
           Same == \A e \in Edit : edit[e].at # "idle" /\ edit[e].kind = "delete" =>
                                      edit'[e].at # "idle" /\ edit'[e].kind = "delete"
<1>4. Before /\ Same => Undisturbed
  BY DEF Undisturbed
<1>5. ASSUME UNCHANGED <<deaths, lost, crossed, deleted>> PROVE Before
  BY <1>5 DEF Undisturbed
<1>6. ASSUME UNCHANGED edit PROVE Same
  BY <1>6
<1>7. CASE UNCHANGED vars
  BY <1>2, <1>3, <1>4, <1>5, <1>6, <1>7 DEF vars
<1>8. ASSUME NEW s \in Sweep, Load(s) \/ Measure(s) \/ Skip(s) PROVE Undisturbed
  BY <1>4, <1>5, <1>6, <1>8 DEF Load, Measure, Skip
<1>9. ASSUME NEW s \in Sweep, Commit(s) PROVE Undisturbed
  BY <1>4, <1>6, <1>9 DEF Commit, Undisturbed
<1>10. ASSUME NEW s \in Sweep, Page(s) PROVE Undisturbed
  BY <1>1, <1>4, <1>6, <1>10 DEF Page, Deliver, Undisturbed
<1>11. ASSUME NEW e \in Edit, ReadRow(e) PROVE Undisturbed
  <2>1. PICK v \in EditType : edit' = [edit EXCEPT ![e] = v]
    BY <1>11, Reads
  <2>2. Same
    BY <1>11, <2>1, EditsAfter DEF ReadRow
  <2> QED BY <1>4, <1>11, <2>2 DEF ReadRow, Undisturbed
<1>12. ASSUME NEW e \in Edit, ResolveFirst(e) PROVE Undisturbed
  <2>1. PICK v \in EditType : /\ edit' = [edit EXCEPT ![e] = v]
                              /\ v.at = "write" /\ v.kind = edit[e].kind
    BY <1>12, Resolves
  <2>2. Same
    BY <2>1, EditsAfter
  <2>3. lost = 0
    BY <1>1, <1>12 DEF ResolveFirst, Deliver, Undisturbed
  <2>4. UNCHANGED <<deaths, crossed, deleted>>
    BY <1>12 DEF ResolveFirst
  <2> QED BY <1>4, <2>2, <2>3, <2>4 DEF Undisturbed
<1>13. ASSUME NEW e \in Edit, Write(e) PROVE Undisturbed
  <2>1. edit' = [edit EXCEPT ![e] = NoRequest] /\ edit[e].kind # "delete"
    BY <1>13 DEF Write
  <2>2. Same
    BY <2>1, EditsAfter
  <2> QED BY <1>4, <1>5, <1>13, <2>2 DEF Write
<1>14. CASE MetricMoves \/ CooldownElapses \/ StrayIsClosed
  BY <1>2, <1>3, <1>4, <1>5, <1>6, <1>14 DEF MetricMoves, CooldownElapses, StrayIsClosed
<1> QED BY <1>2, <1>3, <1>7, <1>8, <1>9, <1>10, <1>11, <1>12, <1>13, <1>14 DEF Next, SweepStep, EditStep

-----------------------------------------------------------------------------
(* One lemma per step that can disturb the order *)

\* Steps that leave the pages, the requests, the receiver and the rule alone
LEMMA OrderStays ==
    ASSUME InOrder, UNCHANGED <<rule, edit, open>>,
           \A s \in Sweep : Paging(s)' <=> Paging(s),
           \A s \in Sweep : Paging(s) => sweep'[s] = sweep[s]
    PROVE  InOrder'
<1>1. ResetIsDue' = ResetIsDue /\ \A e \in Edit : Resetting(e)' = Resetting(e)
  BY DEF ResetIsDue, Resetting
<1>2. \A s \in Sweep : Paging(s) /\ PageFits(s) => PageFits(s)'
  BY DEF PageFits
<1> QED BY <1>1, <1>2 DEF InOrder

LEMMA OrderCommit ==
    ASSUME TypeInv, Listed, InOrder, Undisturbed', NEW s \in Sweep, Commit(s)
    PROVE  InOrder'
<1>1. (\A t \in Sweep : ~Paging(t)) /\ \A e \in Edit : ~Resetting(e)
  BY DEF Commit, Undisturbed
<1>2. PICK v \in SweepType :
              /\ sweep' = [sweep EXCEPT ![s] = v]
              /\ v.at = "page" /\ v.page = Verdict(s)
              /\ v.row.fired = PageKey(Verdict(s), sweep[s].row)
  BY Commits
<1>3. \A t \in Sweep : sweep'[t] = IF t = s THEN v ELSE sweep[t]
  BY <1>2, SweepsAfter
<1>4. open = IF rule.state = "firing" THEN {rule.fired} ELSE {}
  BY <1>1 DEF InOrder, ResetIsDue
<1>5. /\ Verdict(s) \in {"triggered", "repeat", "resolved"}
      /\ Verdict(s) = "triggered" => rule.state = "ok"
      /\ Verdict(s) \in {"repeat", "resolved"} => rule.state = "firing" /\ sweep[s].row.fired = rule.fired
  BY CommitReadsTheRow DEF Verdict, Listed, Commit
<1>6. /\ rule'.state = IF Verdict(s) = "resolved" THEN "ok" ELSE "firing"
      /\ rule'.fired = IF Verdict(s) = "triggered" THEN NewKey ELSE rule.fired
  BY CommitsRow
<1>7. UNCHANGED <<open, edit>>
  BY DEF Commit
<1>8. PageFits(s)'
  BY <1>2, <1>3, <1>4, <1>5, <1>6, <1>7 DEF PageFits, PageKey
<1>9. (\A t \in Sweep : Paging(t)' => t = s) /\ Paging(s)' /\ \A e \in Edit : ~Resetting(e)'
  BY <1>1, <1>2, <1>3, <1>7 DEF Paging, Resetting
<1> QED BY <1>8, <1>9 DEF InOrder

LEMMA OrderPage ==
    ASSUME TypeInv, InOrder, Undisturbed, Undisturbed', NEW s \in Sweep, Page(s)
    PROVE  InOrder'
<1>1. Paging(s) /\ PageFits(s) /\ \A t \in Sweep : Paging(t) => t = s
  BY DEF Page, Paging, InOrder
<1>2. \A e \in Edit : ~Resetting(e)
  BY <1>1 DEF InOrder
<1>3. \A t \in Sweep : sweep'[t] = IF t = s THEN Asleep ELSE sweep[t]
  BY SweepsAfter DEF Page
<1>4. UNCHANGED <<rule, edit>> /\ lost = 0 /\ lost' = 0
  BY DEF Page, ruleVars, Undisturbed
<1>5. open' = IF sweep[s].page = "resolved" THEN open \ {sweep[s].row.fired}
              ELSE open \cup {sweep[s].row.fired}
  BY <1>4 DEF Page, Deliver
<1>6. sweep[s].page \in Pages
  BY Forms DEF TypeInv, SweepType
<1>7. open' = IF rule.state = "firing" THEN {rule.fired} ELSE {}
  BY <1>1, <1>5, <1>6 DEF PageFits, Pages
<1>8. (\A t \in Sweep : ~Paging(t)') /\ (\A e \in Edit : ~Resetting(e)') /\ ~ResetIsDue'
  BY <1>1, <1>2, <1>3, <1>4, Idle DEF Paging, Resetting, ResetIsDue
<1> QED BY <1>4, <1>7, <1>8 DEF InOrder

LEMMA OrderRead ==
    ASSUME TypeInv, InOrder, Undisturbed', NEW e \in Edit, ReadRow(e)
    PROVE  InOrder'
<1>1. PICK v \in EditType :
              /\ edit' = [edit EXCEPT ![e] = v]
              /\ v.at \in {"resolve", "write"}
              /\ v.at = "write" /\ v.resets => rule.state # "firing"
              /\ v.at = "resolve" => v.key = rule.fired
              /\ crossed' = (crossed \/ (v.resets /\ \E s \in Sweep : Paging(s)))
  BY Reads
<1>2. \A f \in Edit : edit'[f] = IF f = e THEN v ELSE edit[f]
  BY <1>1, EditsAfter
<1>3. UNCHANGED <<rule, sweep, open>> /\ edit[e].at = "idle"
  BY DEF ReadRow, ruleVars
<1>4. \A s \in Sweep : Paging(s) => ~v.resets
  BY <1>1 DEF Undisturbed
<1>5. rule.state = "firing" => (ResetIsDue' <=> ResetIsDue)
  BY <1>1, <1>2, <1>3 DEF ResetIsDue, Resetting
<1>6. \A s \in Sweep : (Paging(s)' <=> Paging(s)) /\ (PageFits(s)' <=> PageFits(s))
  BY <1>3 DEF Paging, PageFits
<1>7. \A s \in Sweep, f \in Edit : ~(Paging(s)' /\ Resetting(f)')
  BY <1>2, <1>4, <1>6 DEF InOrder, Resetting
<1>8. \A f \in Edit : Resetting(f)' /\ edit'[f].at = "resolve" /\ rule'.state = "firing" =>
          edit'[f].key = rule'.fired
  BY <1>1, <1>2, <1>3 DEF InOrder, Resetting
<1>9. (\A s \in Sweep : ~Paging(s)') =>
          open' = IF rule'.state = "firing" /\ ~ResetIsDue' THEN {rule'.fired} ELSE {}
  BY <1>3, <1>5, <1>6 DEF InOrder
<1>10. \A s, t \in Sweep : Paging(s)' /\ Paging(t)' => s = t
  BY <1>6 DEF InOrder
<1>11. \A s \in Sweep : Paging(s)' => PageFits(s)'
  BY <1>6 DEF InOrder
<1> QED BY <1>7, <1>8, <1>9, <1>10, <1>11 DEF InOrder

LEMMA OrderResolve ==
    ASSUME TypeInv, InOrder, Undisturbed, Undisturbed', NEW e \in Edit, ResolveFirst(e)
    PROVE  InOrder'
<1>1. Resetting(e) /\ edit[e].at = "resolve"
  BY DEF ResolveFirst, TypeInv, Named, Undisturbed, Resetting
<1>2. \A s \in Sweep : ~Paging(s)
  BY <1>1 DEF InOrder
<1>3. PICK v \in EditType :
              /\ edit' = [edit EXCEPT ![e] = v]
              /\ v.at = "write" /\ v.resets = edit[e].resets
  BY Resolves
<1>4. \A f \in Edit : edit'[f] = IF f = e THEN v ELSE edit[f]
  BY <1>3, EditsAfter
<1>5. UNCHANGED <<rule, sweep>> /\ lost = 0 /\ lost' = 0
  BY DEF ResolveFirst, ruleVars, Undisturbed
<1>6. open' = open \ {edit[e].key}
  BY <1>5 DEF ResolveFirst, Deliver
<1>7. open' = {}
  BY <1>1, <1>2, <1>6 DEF InOrder
<1>8. ResetIsDue'
  BY <1>1, <1>3, <1>4 DEF ResetIsDue, Resetting
<1>9. \A s \in Sweep : ~Paging(s)'
  BY <1>2, <1>5 DEF Paging
<1>10. \A f \in Edit : Resetting(f)' /\ edit'[f].at = "resolve" /\ rule'.state = "firing" =>
          edit'[f].key = rule'.fired
  BY <1>3, <1>4, <1>5 DEF InOrder, Resetting
<1> QED BY <1>7, <1>8, <1>9, <1>10 DEF InOrder

LEMMA OrderWrite ==
    ASSUME TypeInv, InOrder, Undisturbed, NEW e \in Edit, Write(e)
    PROVE  InOrder'
<1>1. \A f \in Edit : edit'[f] = IF f = e THEN NoRequest ELSE edit[f]
  BY EditsAfter DEF Write
<1>2. UNCHANGED <<sweep, open>> /\ edit[e].at = "write" /\ ~deleted
  BY DEF Write, Undisturbed
<1>3. /\ rule'.fired = rule.fired
      /\ ~edit[e].resets => rule'.state = rule.state
      /\ edit[e].resets => rule'.state = "ok"
  BY <1>2, WritesRow
<1>4. \A s \in Sweep : Paging(s)' <=> Paging(s)
  BY <1>2 DEF Paging
<1>5. \A f \in Edit : Resetting(f)' => f # e /\ Resetting(f)
  BY <1>1, Idle DEF Resetting
<1>6. CASE edit[e].resets
  <2>1. Resetting(e) /\ ResetIsDue
    BY <1>2, <1>6 DEF Resetting, ResetIsDue
  <2>2. \A s \in Sweep : ~Paging(s)
    BY <2>1 DEF InOrder
  <2>3. open' = {} /\ rule'.state = "ok"
    BY <1>2, <1>3, <1>6, <2>1, <2>2 DEF InOrder
  <2> QED BY <1>4, <2>2, <2>3 DEF InOrder
<1>7. CASE ~edit[e].resets
  <2>1. ResetIsDue' <=> ResetIsDue
    BY <1>1, <1>7, Idle DEF ResetIsDue, Resetting
  <2>2. \A s \in Sweep : Paging(s) /\ PageFits(s) => PageFits(s)'
    BY <1>2, <1>3, <1>7 DEF PageFits
  <2>3. \A s \in Sweep : Paging(s)' => PageFits(s)'
    BY <1>4, <2>2 DEF InOrder
  <2>4. (\A s \in Sweep : ~Paging(s)') =>
            open' = IF rule'.state = "firing" /\ ~ResetIsDue' THEN {rule'.fired} ELSE {}
    BY <1>2, <1>3, <1>4, <1>7, <2>1 DEF InOrder
  <2>5. \A f \in Edit : Resetting(f)' /\ edit'[f].at = "resolve" /\ rule'.state = "firing" =>
            edit'[f].key = rule'.fired
    BY <1>1, <1>3, <1>5, <1>7 DEF InOrder
  <2>6. /\ \A s, t \in Sweep : Paging(s)' /\ Paging(t)' => s = t
        /\ \A s \in Sweep, f \in Edit : ~(Paging(s)' /\ Resetting(f)')
    BY <1>4, <1>5 DEF InOrder
  <2> QED BY <2>3, <2>4, <2>5, <2>6 DEF InOrder
<1> QED BY <1>6, <1>7

\* The receiver holds no incident but the rule's, so there is no stray to close
LEMMA NoStray ==
    ASSUME TypeInv, InOrder PROVE ~StrayIsClosed
<1>1. open \subseteq {rule.fired}
  <2>1. CASE \E s \in Sweep : Paging(s)
    <3>1. PICK s \in Sweep : Paging(s)
      BY <2>1
    <3>2. PageFits(s) /\ sweep[s].page \in Pages
      BY <3>1, Forms DEF InOrder, TypeInv, SweepType
    <3> QED BY <3>2 DEF PageFits, Pages
  <2>2. CASE \A s \in Sweep : ~Paging(s)
    BY <2>2 DEF InOrder
  <2> QED BY <2>1, <2>2
<1> QED BY <1>1 DEF StrayIsClosed

LEMMA OrderStep ==
    ASSUME ReceiverInv, [Next]_vars, Undisturbed' PROVE InOrder'
<1> USE DEF ruleVars
<1>0. TypeInv /\ Listed /\ Undisturbed /\ InOrder
  BY UndisturbedBefore DEF ReceiverInv
<1>1. CASE UNCHANGED vars
  BY <1>0, <1>1, OrderStays DEF vars, Paging
<1>2. ASSUME NEW s \in Sweep, Load(s) \/ Measure(s) \/ Skip(s) PROVE InOrder'
  <2>1. PICK v \in SweepType : sweep' = [sweep EXCEPT ![s] = v] /\ v.at # "page"
    BY <1>0, <1>2, Loads, Measures, StartsTyped, Idle DEF Skip
  <2>2. \A t \in Sweep : sweep'[t] = IF t = s THEN v ELSE sweep[t]
    BY <1>0, <2>1, SweepsAfter
  <2>3. UNCHANGED <<rule, edit, open>> /\ ~Paging(s)
    BY <1>2 DEF Load, Measure, Skip, Paging
  <2> QED BY <1>0, <2>1, <2>2, <2>3, OrderStays DEF Paging
<1>3. ASSUME NEW s \in Sweep, Commit(s) \/ Page(s) \/ SweepDies(s) PROVE InOrder'
  BY <1>0, <1>3, OrderCommit, OrderPage, UndisturbedBefore
<1>4. ASSUME NEW e \in Edit, ReadRow(e) \/ EditStep(e) \/ EditDies(e) PROVE InOrder'
  BY <1>0, <1>4, OrderRead, OrderResolve, OrderWrite, UndisturbedBefore DEF EditStep
<1>5. CASE MetricMoves \/ CooldownElapses
  BY <1>0, <1>5, OrderStays DEF MetricMoves, CooldownElapses, Paging
<1>6. ~StrayIsClosed
  BY <1>0, NoStray
<1> QED BY <1>1, <1>2, <1>3, <1>4, <1>5, <1>6 DEF Next, SweepStep

LEMMA ReceiverStep == ReceiverInv /\ [Next]_vars => ReceiverInv'
<1> SUFFICES ASSUME ReceiverInv, [Next]_vars PROVE ReceiverInv'
  OBVIOUS
<1>1. TypeInv' /\ Listed'
  BY TypeStep, ListedStep DEF ReceiverInv
<1>2. Undisturbed' => InOrder'
  BY OrderStep
<1> QED BY <1>1, <1>2 DEF ReceiverInv

\* Once every page and every request is through, the receiver holds the incident
\* of a firing rule and no other, for any number of evaluators and requests
\* (notificationFor's key, evaluateRule's compare-and-set and updateAlertRule's
\* resolve before its write).
THEOREM ReceiverMatches == Spec => []ReceiverMatchesRule
<1>1. ReceiverInv => ReceiverMatchesRule
  BY DEF ReceiverInv, ReceiverMatchesRule, Quiet, Undisturbed, InOrder, Paging, ResetIsDue, Resetting
<1> QED BY <1>1, ReceiverInit, ReceiverStep, PTL DEF Spec
=============================================================================
