-------------------------- MODULE TraceQuotaProofs --------------------------
(***************************************************************************)
(* Proofs about TraceQuota, for any number of exports, roots, faults,      *)
(* crashes and days, and whatever days the clients' start times are of:    *)
(* the cap on what a day lets in, the counter against the store, and the   *)
(* accounts of what a reservation spent.                                   *)
(*                                                                         *)
(* Three inductive invariants.  ShapeInv ties the counter to the clock: a  *)
(* request that no midnight found under way is charged in the counter of   *)
(* this day, and nobody is out while the counter is seeded.  Sums bounds   *)
(* two sets of roots: those that the reservations of a day hold, by the    *)
(* quota, and both these and the roots that a seed of today would count,   *)
(* by the counter, up to what requests of an earlier day may have had      *)
(* credited.  Credit keeps the accounts of the first day to the root.      *)
(***************************************************************************)
EXTENDS TraceQuota, FiniteSetTheorems, TLAPS

\* A reservation of e is out: charged, and not yet used up or handed back
Out(e) == pc[e] \in {"ingesting", "releasing"}
Uncharged == {"idle", "reserving", "seeding", "over", "error"}

\* Requests and their roots: what a fate says of the request, of the row and of
\* the stamp, and each row has one source
Fates ==
    /\ \A e \in Export, x \in Root :
          /\ fate[e][x] # "none" => x \in RootsOf[e] /\ pc[e] \notin Uncharged
          /\ fate[e][x] = "queued" => pc[e] \in {"ingesting", "failed"} /\ stamp[e][x] # NoDay
          /\ fate[e][x] \in InStore => rows[x] = stamp[e][x] /\ rows[x] # NoDay
    /\ \A e \in Export : pc[e] \in {"releasing", "answered"} =>
          \A x \in RootsOf[e] : fate[e][x] \in Settled
    /\ \A e \in Export : pc[e] = "releasing" => e \notin Sdk
    /\ \A x \in Root : rows[x] # NoDay => \E e \in Export : fate[e][x] \in InStore
    /\ \A e, f \in Export, x \in Root :
          fate[e][x] \in InStore /\ fate[f][x] \in InStore => e = f

\* A request that may still add to the store, or hand back
Busy(e) == Out(e) \/ \E x \in Root : fate[e][x] = "queued"

\* The counter and the clock: a request that is busy, and was so at no midnight, is
\* charged in the counter of this day; without a restart a day has one counter
Clock ==
    /\ entry.day <= day
    /\ \A e \in Export :
          /\ charged[e] <= day
          /\ crashes = 0 /\ charged[e] = day => entry.day = day
          /\ Busy(e) /\ e \notin carried => entry.day = day /\ charged[e] = day
    /\ \A e \in Export : pc[e] = "seeding" =>
          /\ chain # <<>> /\ Head(chain) = e
          /\ entry.day # day
          /\ read.day <= day
          /\ e \notin carried => read.day = day

ShapeInv == TypeOK /\ Fates /\ Clock

-----------------------------------------------------------------------------
(* Helpers *)

LEMMA PcAfter ==
    ASSUME TypeOK, NEW e \in Export, NEW s, Goto(e, s)
    PROVE  \A f \in Export : pc'[f] = IF f = e THEN s ELSE pc[f]
  BY DEF TypeOK, Goto

LEMMA FateAfter ==
    ASSUME TypeOK, NEW e \in Export, NEW x \in Root, NEW f, Becomes(e, x, f)
    PROVE  \A g \in Export, y \in Root :
              fate'[g][y] = IF g = e /\ y = x THEN f ELSE fate[g][y]
  BY DEF TypeOK, Becomes

LEMMA ChainGrows ==
    ASSUME chain \in Seq(Export), NEW e \in Export, chain' = Append(chain, e)
    PROVE  /\ chain' \in Seq(Export) /\ chain' # <<>>
           /\ chain # <<>> => Head(chain') = Head(chain)
<1>1. CASE chain = <<>>
  BY <1>1
<1>2. CASE chain # <<>>
  <2>1. Len(chain) >= 1 /\ Len(chain') = Len(chain) + 1 /\ chain'[1] = chain[1]
    BY <1>2
  <2> QED BY <1>2, <2>1
<1> QED BY <1>1, <1>2

LEMMA ChainShrinks ==
    ASSUME chain \in Seq(Export), chain # <<>>, chain' = Tail(chain)
    PROVE  chain' \in Seq(Export)
  OBVIOUS

\* The roots of a request
LEMMA RootsFinite ==
    ASSUME NEW e \in Export
    PROVE  /\ IsFiniteSet(RootsOf[e]) /\ RootsOf[e] \subseteq Root /\ RootsOf[e] # {}
           /\ Size(e) \in Nat
           /\ IsFiniteSet(Unused(e)) /\ Cardinality(Unused(e)) \in Nat
           /\ Unused(e) \subseteq RootsOf[e]
<1>1. RootsOf[e] \subseteq Root /\ RootsOf[e] # {} /\ IsFiniteSet(Root)
  BY RootAssumption
<1>2. IsFiniteSet(RootsOf[e])
  BY <1>1, FS_Subset
<1>3. Unused(e) \subseteq RootsOf[e]
  BY DEF Unused
<1>4. IsFiniteSet(Unused(e))
  BY <1>2, <1>3, FS_Subset
<1> QED BY <1>1, <1>2, <1>3, <1>4, FS_CardinalityType DEF Size

LEMMA SpendFinite == IsFiniteSet(Spend)
  BY RootAssumption, FS_Product DEF Spend

LEMMA RowsFinite ==
    ASSUME NEW d PROVE IsFiniteSet(RowsSince(d)) /\ Cardinality(RowsSince(d)) \in Nat
<1>1. RowsSince(d) \subseteq Root /\ IsFiniteSet(Root)
  BY RootAssumption DEF RowsSince
<1> QED BY <1>1, FS_Subset, FS_CardinalityType

-----------------------------------------------------------------------------
(* The shape of a state *)

\* What a granted or refused reservation leaves
LEMMA Grants ==
    ASSUME TypeOK, NEW e \in Export, NEW d \in Days \cup {NoDay}, NEW used \in Nat,
           chain # <<>>, Grant(e, d, used)
    PROVE  /\ entry' \in [day : Days \cup {NoDay}, count : Nat]
           /\ entry'.day = d
           /\ chain' \in Seq(Export)
           /\ charged' \in [Export -> Days \cup {NoDay}]
           /\ \A f \in Export : f # e => charged'[f] = charged[f]
           /\ \/ /\ pc' = [pc EXCEPT ![e] = "over"]
                 /\ entry'.count = used
                 /\ charged' = charged
              \/ /\ pc' = [pc EXCEPT ![e] = "ingesting"]
                 /\ entry'.count = used + Size(e)
                 /\ charged'[e] = d
                 /\ used + Size(e) <= Quota
<1>1. chain' \in Seq(Export)
  BY ChainShrinks DEF Grant, TypeOK
<1>2. Size(e) \in Nat
  BY RootsFinite
<1>3. CASE charged' = charged /\ pc' = [pc EXCEPT ![e] = "over"]
           /\ entry' = [day |-> d, count |-> used]
  BY <1>1, <1>3 DEF TypeOK
<1>4. CASE /\ charged' = [charged EXCEPT ![e] = d] /\ pc' = [pc EXCEPT ![e] = "ingesting"]
           /\ entry' = [day |-> d, count |-> used + Size(e)] /\ used + Size(e) <= Quota
  <2>1. charged' \in [Export -> Days \cup {NoDay}] /\ charged'[e] = d
        /\ \A f \in Export : f # e => charged'[f] = charged[f]
    BY <1>4 DEF TypeOK
  <2> QED BY <1>1, <1>2, <1>4, <2>1
<1> QED BY <1>3, <1>4 DEF Grant, Goto

Places == {"idle", "reserving", "seeding", "ingesting", "releasing"} \cup Answered
Ends == Settled \cup {"none", "queued", "lost"}

LEMMA TypeInit == Init => TypeOK
<1> SUFFICES ASSUME Init PROVE TypeOK
  OBVIOUS
<1>1. FirstDay \in Days /\ NoDay \in Nat
  BY BoundAssumption DEF Days, NoDay
<1>2. <<>> \in Seq(Export)
  OBVIOUS
<1> QED BY <1>1, <1>2 DEF Init, TypeOK, NoEntry

LEMMA TypeChain ==
    ASSUME TypeOK, NEW e \in Export, ChainStep(e) PROVE TypeOK'
<1> USE DEF requestVars, quotaVars, envVars, TypeOK, Answered
<1>0. day \in Days /\ NoDay \in Nat /\ Days \subseteq Nat
  BY BoundAssumption DEF Days, NoDay
<1>1. CASE Reserve(e)
  <2>1. Grant(e, day, entry.count) /\ chain # <<>>
    BY <1>1 DEF Reserve, Runs
  <2>2. /\ entry' \in [day : Days \cup {NoDay}, count : Nat] /\ chain' \in Seq(Export)
        /\ charged' \in [Export -> Days \cup {NoDay}]
    BY <2>1, Grants
  <2>3. pc' \in [Export -> Places]
    BY <2>1 DEF Grant, Goto, Places
  <2> QED BY <1>1, <2>2, <2>3 DEF Reserve, Places
<1>2. CASE SeedRead(e)
  <2>1. read' \in [day : Days \cup {NoDay}, count : Nat]
    BY <1>0, <1>2, RowsFinite DEF SeedRead
  <2> QED BY <1>2, <2>1 DEF SeedRead, Goto
<1>3. CASE SeedSet(e)
  <2>1. Grant(e, read.day, read.count) /\ chain # <<>>
    BY <1>3 DEF SeedSet, Runs
  <2>2. /\ entry' \in [day : Days \cup {NoDay}, count : Nat] /\ chain' \in Seq(Export)
        /\ charged' \in [Export -> Days \cup {NoDay}]
    BY <2>1, Grants
  <2>3. pc' \in [Export -> Places]
    BY <2>1 DEF Grant, Goto, Places
  <2>4. read' \in [day : Days \cup {NoDay}, count : Nat]
    BY <1>3 DEF SeedSet, NoEntry
  <2> QED BY <1>3, <2>2, <2>3, <2>4 DEF SeedSet, Places
<1>4. CASE SeedFails(e)
  <2>1. read' \in [day : Days \cup {NoDay}, count : Nat]
    BY <1>4 DEF SeedFails, NoEntry
  <2>2. chain' \in Seq(Export)
    BY <1>4, ChainShrinks DEF SeedFails, Runs
  <2> QED BY <1>4, <2>1, <2>2 DEF SeedFails, Goto, Fault
<1>5. CASE Release(e)
  <2>1. chain' \in Seq(Export)
    BY <1>5, ChainShrinks DEF Release, Runs
  <2> DEFINE back == Cardinality(Unused(e))
             left == IF back > entry.count THEN 0 ELSE entry.count - back
  <2>2. left \in Nat
    BY RootsFinite
  <2>3. entry' = IF entry.day = day THEN [entry EXCEPT !.count = left] ELSE entry
    BY <1>5 DEF Release
  <2> HIDE DEF left
  <2>4. entry' \in [day : Days \cup {NoDay}, count : Nat]
    BY <2>2, <2>3
  <2> QED BY <1>5, <2>1, <2>4 DEF Release, Goto
<1> QED BY <1>1, <1>2, <1>3, <1>4, <1>5 DEF ChainStep

\* A prepared row has a day
LEMMA CreatedOnADay ==
    ASSUME day \in Days, NEW x \in Root
    PROVE  CreatedOn(x) \subseteq Nat /\ NoDay \notin CreatedOn(x)
<1>1. day \in Nat /\ day # 0 /\ day + 1 # 0 /\ day + 1 \in Nat
  BY BoundAssumption DEF Days
<1>2. Started[x] \in Nat
  BY RootAssumption
<1> QED BY <1>1, <1>2 DEF CreatedOn, NoDay

\* A root of a request gets a fate, a stamp and a row
LEMMA TypeRoot ==
    ASSUME TypeOK, NEW e \in Export, NEW x \in Root, RootStep(e, x) PROVE TypeOK'
<1> USE DEF requestVars, quotaVars, envVars, TypeOK
<1>1. PICK f \in Ends : Becomes(e, x, f)
  BY DEF RootStep, ReplayHit, Refuse, Enqueue, Land, Drop, LandUnacknowledged, Ends, Settled
<1>2. fate' \in [Export -> [Root -> Ends]]
  BY <1>1 DEF Becomes, Ends
<1>3. stamp' \in [Export -> [Root -> Nat]]
  <2>1. UNCHANGED stamp \/ \E d \in Nat : stamp' = [stamp EXCEPT ![e][x] = d]
    BY CreatedOnADay DEF RootStep, ReplayHit, Refuse, Enqueue, Land, Drop, LandUnacknowledged
  <2>2. ASSUME NEW d \in Nat, stamp' = [stamp EXCEPT ![e][x] = d]
        PROVE  stamp' \in [Export -> [Root -> Nat]]
    <3>1. [stamp[e] EXCEPT ![x] = d] \in [Root -> Nat]
      OBVIOUS
    <3>2. stamp' = [stamp EXCEPT ![e] = [stamp[e] EXCEPT ![x] = d]]
      BY <2>2
    <3> QED BY <3>1, <3>2
  <2> QED BY <2>1, <2>2
<1>4. rows' \in [Root -> Nat]
  BY DEF RootStep, ReplayHit, Refuse, Enqueue, Land, Drop, LandUnacknowledged
<1>5. UNCHANGED <<pc, quotaVars, day, carried, crashes>> /\ faults' \in Nat
  BY DEF RootStep, ReplayHit, Refuse, Enqueue, Land, Drop, LandUnacknowledged, Fault
<1> QED BY <1>2, <1>3, <1>4, <1>5 DEF Ends

LEMMA TypeOthers ==
    ASSUME TypeOK,
           \/ \E e \in Export : Arrive(e) \/ Finish(e) \/ Throw(e)
           \/ DayEnds \/ Crash \/ UNCHANGED vars
    PROVE  TypeOK'
<1> USE DEF requestVars, quotaVars, envVars, TypeOK, Answered
<1>1. ASSUME NEW e \in Export, Arrive(e) PROVE TypeOK'
  <2>1. chain' \in Seq(Export)
    BY <1>1, ChainGrows DEF Arrive
  <2> QED BY <1>1, <2>1 DEF Arrive, Goto
<1>2. ASSUME NEW e \in Export, Finish(e) PROVE TypeOK'
  <2>1. chain' \in Seq(Export)
    BY <1>2, ChainGrows DEF Finish
  <2> QED BY <1>2, <2>1 DEF Finish, Goto
<1>3. ASSUME NEW e \in Export, Throw(e) PROVE TypeOK'
  BY <1>3 DEF Throw, Goto, Fault
<1>4. CASE DayEnds
  <2>1. day' \in Days
    BY <1>4, BoundAssumption DEF DayEnds, Days
  <2>2. carried' \subseteq Export
    BY <1>4 DEF DayEnds
  <2> QED BY <1>4, <2>1, <2>2 DEF DayEnds
<1>5. CASE Crash
  <2>1. entry' \in [day : Days \cup {NoDay}, count : Nat] /\ read' \in [day : Days \cup {NoDay}, count : Nat]
    BY <1>5 DEF Crash, NoEntry
  <2>2. chain' \in Seq(Export)
    BY <1>5 DEF Crash
  <2>3. pc' \in [Export -> Places]
    BY <1>5 DEF Crash, Places
  <2>4. fate' \in [Export -> [Root -> Ends]]
    BY <1>5 DEF Crash, Ends
  <2>5. UNCHANGED <<stamp, charged, rows, day, carried, faults>> /\ crashes' \in Nat
    BY <1>5 DEF Crash
  <2> QED BY <2>1, <2>2, <2>3, <2>4, <2>5 DEF Places, Ends
<1>6. CASE UNCHANGED vars
  BY <1>6 DEF vars
<1> QED BY <1>1, <1>2, <1>3, <1>4, <1>5, <1>6

LEMMA TypeStep == TypeOK /\ [Next]_vars => TypeOK'
<1> SUFFICES ASSUME TypeOK, [Next]_vars PROVE TypeOK'
  OBVIOUS
<1>1. Quiescent => UNCHANGED vars
  BY DEF Quiescent
<1> QED BY <1>1, TypeChain, TypeRoot, TypeOthers DEF Next

\* Every variable keeps its type (traceQuota.ts, routes/otlp.ts)
THEOREM Typed == Spec => []TypeOK
  BY TypeInit, TypeStep, PTL DEF Spec

-----------------------------------------------------------------------------
(* Fates *)

\* A request moves on and its roots stay as they are
LEMMA FatesKept ==
    ASSUME TypeOK, Fates, NEW e \in Export, NEW s, Goto(e, s),
           UNCHANGED <<fate, stamp, rows>>,
           s \in Uncharged => \A x \in Root : fate[e][x] = "none",
           s \notin {"ingesting", "failed"} => \A x \in Root : fate[e][x] # "queued",
           s \in {"releasing", "answered"} => \A x \in RootsOf[e] : fate[e][x] \in Settled,
           s = "releasing" => e \notin Sdk
    PROVE  Fates'
<1>1. \A f \in Export : pc'[f] = IF f = e THEN s ELSE pc[f]
  BY PcAfter
<1>2. \A f \in Export, x \in Root :
          /\ fate'[f][x] # "none" => x \in RootsOf[f] /\ pc'[f] \notin Uncharged
          /\ fate'[f][x] = "queued" => pc'[f] \in {"ingesting", "failed"} /\ stamp'[f][x] # NoDay
          /\ fate'[f][x] \in InStore => rows'[x] = stamp'[f][x] /\ rows'[x] # NoDay
  BY <1>1 DEF Fates
<1>3. \A f \in Export : pc'[f] \in {"releasing", "answered"} =>
          \A x \in RootsOf[f] : fate'[f][x] \in Settled
  BY <1>1 DEF Fates
<1>4. \A f \in Export : pc'[f] = "releasing" => f \notin Sdk
  BY <1>1 DEF Fates
<1> QED BY <1>2, <1>3, <1>4 DEF Fates

\* A root of a request that ingests, or a queued one, moves on
LEMMA FatesMove ==
    ASSUME TypeOK, Fates, NEW e \in Export, NEW x \in Root, NEW f, Becomes(e, x, f),
           fate[e][x] = "none" => pc[e] = "ingesting" /\ x \in RootsOf[e],
           fate[e][x] \in {"none", "queued"},
           UNCHANGED pc,
           f \in Settled \cup {"queued"},
           f = "queued" => /\ pc[e] = "ingesting"
                           /\ \E d \in CreatedOn(x) : stamp' = [stamp EXCEPT ![e][x] = d],
           f # "queued" => UNCHANGED stamp,
           f \in InStore => rows[x] = NoDay /\ rows' = [rows EXCEPT ![x] = stamp[e][x]]
                           /\ fate[e][x] = "queued",
           f \notin InStore => UNCHANGED rows
    PROVE  Fates'
<1>1. \A g \in Export, y \in Root : fate'[g][y] = IF g = e /\ y = x THEN f ELSE fate[g][y]
  BY FateAfter
<1>2. /\ \A g \in Export, y \in Root : g # e \/ y # x => stamp'[g][y] = stamp[g][y]
      /\ f = "queued" => stamp'[e][x] # NoDay
      /\ f # "queued" => stamp'[e][x] = stamp[e][x]
  BY CreatedOnADay DEF TypeOK
<1>3. \A y \in Root : rows'[y] = IF f \in InStore /\ y = x THEN stamp[e][x] ELSE rows[y]
  BY DEF TypeOK
<1>4. "queued" \notin InStore /\ "none" \notin InStore
  BY DEF InStore
<1>5. \A g \in Export : fate[g][x] \in InStore => rows[x] # NoDay
  BY DEF Fates
<1>6. \A g \in Export, y \in Root :
          fate'[g][y] # "none" => y \in RootsOf[g] /\ pc'[g] \notin Uncharged
  BY <1>1 DEF Fates, Uncharged
<1>7. \A g \in Export, y \in Root :
          fate'[g][y] = "queued" => pc'[g] \in {"ingesting", "failed"} /\ stamp'[g][y] # NoDay
  BY <1>1, <1>2 DEF Fates
<1>8. ASSUME NEW g \in Export, NEW y \in Root, fate'[g][y] \in InStore
      PROVE  rows'[y] = stamp'[g][y] /\ rows'[y] # NoDay
  <2>1. CASE g = e /\ y = x
    BY <1>1, <1>2, <1>3, <1>4, <1>8, <2>1 DEF Fates
  <2>2. CASE g # e \/ y # x
    BY <1>1, <1>2, <1>3, <1>5, <1>8, <2>2 DEF Fates
  <2> QED BY <2>1, <2>2
<1>9. \A g \in Export : pc'[g] \in {"releasing", "answered"} =>
          \A y \in RootsOf[g] : fate'[g][y] \in Settled
  BY <1>1, RootsFinite DEF Fates, Settled
<1>10. \A y \in Root : rows'[y] # NoDay => \E g \in Export : fate'[g][y] \in InStore
  BY <1>1, <1>3, <1>4 DEF Fates
<1>11. \A g, h \in Export, y \in Root :
          fate'[g][y] \in InStore /\ fate'[h][y] \in InStore => g = h
  BY <1>1, <1>5 DEF Fates
<1>12. \A g \in Export : pc'[g] = "releasing" => g \notin Sdk
  BY DEF Fates
<1> QED BY <1>6, <1>7, <1>8, <1>9, <1>10, <1>11, <1>12 DEF Fates

LEMMA FatesRoot ==
    ASSUME TypeOK, Fates, NEW e \in Export, NEW x \in Root, RootStep(e, x) PROVE Fates'
<1> USE DEF envVars
<1>1. CASE ReplayHit(e, x)
  BY <1>1, FatesMove DEF ReplayHit, InStore, Settled
<1>2. CASE Refuse(e, x)
  BY <1>2, FatesMove DEF Refuse, InStore, Settled
<1>3. CASE Enqueue(e, x)
  BY <1>3, FatesMove DEF Enqueue, InStore, Settled
<1>4. CASE Land(e, x)
  <2>1. CASE rows[x] = NoDay /\ rows' = [rows EXCEPT ![x] = stamp[e][x]] /\ Becomes(e, x, "stored")
    BY <1>4, <2>1, FatesMove DEF Land, InStore, Settled
  <2>2. CASE rows[x] # NoDay /\ Becomes(e, x, "deduped") /\ UNCHANGED rows
    BY <1>4, <2>2, FatesMove DEF Land, InStore, Settled
  <2> QED BY <1>4, <2>1, <2>2 DEF Land
<1>5. CASE Drop(e, x)
  BY <1>5, FatesMove DEF Drop, InStore, Settled
<1>6. CASE LandUnacknowledged(e, x)
  BY <1>6, FatesMove DEF LandUnacknowledged, InStore, Settled
<1> QED BY <1>1, <1>2, <1>3, <1>4, <1>5, <1>6 DEF RootStep

LEMMA FatesGrant ==
    ASSUME TypeOK, Fates, NEW e \in Export, NEW d, NEW used, Grant(e, d, used),
           pc[e] \in {"reserving", "seeding"}, UNCHANGED <<fate, stamp, rows>>
    PROVE  Fates'
<1>1. \A x \in Root : fate[e][x] = "none"
  BY DEF Fates, Uncharged
<1>2. Goto(e, "over") \/ Goto(e, "ingesting")
  BY DEF Grant
<1> QED BY <1>1, <1>2, FatesKept DEF Uncharged

LEMMA FatesRequest ==
    ASSUME TypeOK, Fates, NEW e \in Export, Arrive(e) \/ ChainStep(e) \/ Finish(e) \/ Throw(e)
    PROVE  Fates'
<1> USE DEF envVars
<1>0. pc[e] \in Uncharged => \A x \in Root : fate[e][x] = "none"
  BY DEF Fates
<1>1. CASE Arrive(e)
  BY <1>0, <1>1, FatesKept DEF Arrive, Uncharged
<1>2. CASE Reserve(e)
  BY <1>2, FatesGrant DEF Reserve, Runs
<1>3. CASE SeedRead(e)
  BY <1>0, <1>3, FatesKept DEF SeedRead, Runs, Uncharged
<1>4. CASE SeedSet(e)
  BY <1>4, FatesGrant DEF SeedSet, Runs
<1>5. CASE SeedFails(e)
  BY <1>0, <1>5, FatesKept DEF SeedFails, Runs, Uncharged
<1>6. CASE Release(e)
  <2>1. (\A x \in RootsOf[e] : fate[e][x] \in Settled) /\ \A x \in Root : fate[e][x] # "queued"
    BY <1>6 DEF Release, Runs, Fates
  <2> QED BY <1>6, <2>1, FatesKept DEF Release, Uncharged
<1>7. CASE Finish(e)
  <2>1. (\A x \in RootsOf[e] : fate[e][x] \in Settled)
    BY <1>7 DEF Finish
  <2>2. \A x \in Root : fate[e][x] # "queued"
    BY <2>1 DEF Fates, Settled
  <2>3. Goto(e, "answered") \/ (Goto(e, "releasing") /\ e \notin Sdk)
    BY <1>7 DEF Finish
  <2> QED BY <1>7, <2>1, <2>2, <2>3, FatesKept DEF Finish, Uncharged
<1>8. CASE Throw(e)
  BY <1>8, FatesKept DEF Throw, Uncharged
<1> QED BY <1>1, <1>2, <1>3, <1>4, <1>5, <1>6, <1>7, <1>8 DEF ChainStep

LEMMA FatesDay == ASSUME Fates, DayEnds PROVE Fates'
  BY DEF DayEnds, requestVars, Fates

LEMMA FatesCrash == ASSUME TypeOK, Fates, Crash PROVE Fates'
<1>1. \A e \in Export : pc'[e] = IF pc[e] \in Answered \cup {"idle"} THEN pc[e] ELSE "cut"
  BY DEF Crash
<1>2. \A e \in Export, x \in Root :
          fate'[e][x] = IF fate[e][x] = "queued" THEN "lost" ELSE fate[e][x]
  BY DEF Crash
<1>3. UNCHANGED <<stamp, rows>>
  BY DEF Crash
<1>4. \A e \in Export, x \in Root : fate'[e][x] \in InStore <=> fate[e][x] \in InStore
  BY <1>2 DEF InStore
<1>5. \A e \in Export, x \in Root : fate'[e][x] # "none" => x \in RootsOf[e] /\ pc'[e] \notin Uncharged
  BY <1>1, <1>2 DEF Fates, Uncharged, Answered
<1>6. \A e \in Export, x \in Root : fate'[e][x] # "queued"
  BY <1>2
<1>7. \A e \in Export : pc'[e] # "releasing" /\ (pc'[e] = "answered" => pc[e] = "answered")
  BY <1>1 DEF Answered
<1>8. \A e \in Export : pc'[e] = "answered" => \A x \in RootsOf[e] : fate'[e][x] \in Settled
  BY <1>2, <1>7, RootsFinite DEF Fates, Settled
<1> QED BY <1>3, <1>4, <1>5, <1>6, <1>7, <1>8 DEF Fates

LEMMA FatesStep == ASSUME TypeOK, Fates, [Next]_vars PROVE Fates'
<1>1. CASE UNCHANGED vars
  BY <1>1 DEF vars, requestVars, envVars, Fates
<1> QED BY <1>1, FatesRoot, FatesRequest, FatesDay, FatesCrash DEF Next, Quiescent

-----------------------------------------------------------------------------
(* The counter and the clock *)

LEMMA Numbers ==
    ASSUME TypeOK
    PROVE  /\ day \in Nat /\ day <= LastDay /\ LastDay \in Nat /\ day # NoDay
           /\ entry.day \in Nat /\ read.day \in Nat /\ entry.count \in Nat /\ read.count \in Nat
           /\ \A e \in Export : charged[e] \in Nat
           /\ \A e \in Export, x \in Root : stamp[e][x] \in Nat
  BY BoundAssumption DEF TypeOK, Days, NoDay

LEMMA ShapeInit == Init => ShapeInv
<1> SUFFICES ASSUME Init PROVE ShapeInv
  OBVIOUS
<1>1. Fates
  BY DEF Init, Fates, InStore, Uncharged, Settled
<1>2. day \in Nat /\ day # NoDay /\ NoDay <= day
  BY BoundAssumption DEF Init, NoDay
<1>3. Clock
  BY <1>2 DEF Init, Clock, NoEntry, Busy, Out
<1> QED BY <1>1, <1>3, TypeInit DEF ShapeInv

\* While one request seeds nobody else heads the chain
LEMMA OneSeeds ==
    ASSUME Clock, NEW e \in Export, NEW s, Runs(e, s)
    PROVE  \A f \in Export : pc[f] = "seeding" => f = e
  BY DEF Clock, Runs

\* A request moves on without a reservation of its own
LEMMA ClockKept ==
    ASSUME TypeOK, Clock, NEW e \in Export, NEW s, Goto(e, s),
           UNCHANGED <<fate, charged, day, carried, crashes>>,
           entry'.day = entry.day,
           s # "seeding",
           s \in {"ingesting", "releasing"} => Out(e),
           \A f \in Export : pc[f] = "seeding" /\ f # e =>
              /\ chain' # <<>> /\ Head(chain') = Head(chain)
              /\ UNCHANGED read
    PROVE  Clock'
<1>1. \A f \in Export : pc'[f] = IF f = e THEN s ELSE pc[f]
  BY PcAfter
<1>2. \A f \in Export : Busy(f)' => Busy(f)
  BY <1>1 DEF Busy, Out
<1>3. \A f \in Export : pc'[f] = "seeding" =>
          /\ chain' # <<>> /\ Head(chain') = f
          /\ entry'.day # day'
          /\ read'.day <= day'
          /\ f \notin carried' => read'.day = day'
  BY <1>1 DEF Clock
<1>4. \A f \in Export :
          /\ charged'[f] <= day'
          /\ crashes' = 0 /\ charged'[f] = day' => entry'.day = day'
          /\ Busy(f)' /\ f \notin carried' => entry'.day = day' /\ charged'[f] = day'
  BY <1>2 DEF Clock
<1>5. entry'.day <= day'
  BY DEF Clock
<1> QED BY <1>3, <1>4, <1>5 DEF Clock

\* A reservation for the day the clock shows, or for the day it showed
LEMMA ClockGrant ==
    ASSUME TypeOK, Fates, Clock, NEW e \in Export, NEW d \in Days \cup {NoDay}, NEW used \in Nat,
           Grant(e, d, used), chain # <<>>, pc[e] \in {"reserving", "seeding"}, d <= day,
           \A f \in Export : pc[f] = "seeding" => f = e,
           e \notin carried => d = day,
           entry.day # day \/ d = day,
           UNCHANGED <<fate, day, carried, crashes>>
    PROVE  Clock'
<1>1. /\ entry'.day = d
      /\ \A f \in Export : f # e => charged'[f] = charged[f]
      /\ \/ Goto(e, "over") /\ charged' = charged
         \/ Goto(e, "ingesting") /\ charged'[e] = d
  BY Grants DEF Goto
<1>2. \A f \in Export : f # e => pc'[f] = pc[f]
  BY <1>1, PcAfter
<1>3. \/ pc'[e] = "over" /\ charged' = charged
      \/ pc'[e] = "ingesting" /\ charged'[e] = d
  BY <1>1, PcAfter
<1>4. \A x \in Root : fate'[e][x] # "queued"
  BY DEF Fates, Uncharged
<1>5. \A f \in Export : pc'[f] # "seeding"
  BY <1>2, <1>3
<1>6. ASSUME NEW f \in Export
      PROVE  /\ charged'[f] <= day'
             /\ crashes' = 0 /\ charged'[f] = day' => entry'.day = day'
             /\ Busy(f)' /\ f \notin carried' => entry'.day = day' /\ charged'[f] = day'
  <2>1. CASE f = e
    BY <1>1, <1>3, <1>4, <2>1 DEF Clock, Busy, Out
  <2>2. CASE f # e
    <3>1. Busy(f)' <=> Busy(f)
      BY <1>2, <2>2 DEF Busy, Out
    <3> QED BY <1>1, <2>2, <3>1 DEF Clock
  <2> QED BY <2>1, <2>2
<1> QED BY <1>1, <1>5, <1>6 DEF Clock

LEMMA ClockRequest ==
    ASSUME TypeOK, Fates, Clock, NEW e \in Export,
           Arrive(e) \/ ChainStep(e) \/ Finish(e) \/ Throw(e)
    PROVE  Clock'
<1> USE DEF envVars, quotaVars
<1>0. chain \in Seq(Export) /\ day <= day /\ day \in Days
  BY Numbers DEF TypeOK
<1>1. CASE Arrive(e)
  <2>1. chain' # <<>> /\ (chain # <<>> => Head(chain') = Head(chain))
    BY <1>0, <1>1, ChainGrows DEF Arrive
  <2>2. \A f \in Export : pc[f] = "seeding" => chain # <<>>
    BY DEF Clock
  <2> QED BY <1>1, <2>1, <2>2, ClockKept DEF Arrive
<1>2. CASE Reserve(e)
  <2>1. \A f \in Export : pc[f] = "seeding" => f = e
    BY <1>2, OneSeeds DEF Reserve
  <2> QED BY <1>0, <1>2, <2>1, ClockGrant, Numbers DEF Reserve, Runs
<1>3. CASE SeedRead(e)
  <2>1. \A f \in Export : pc[f] # "seeding"
    BY <1>3, OneSeeds DEF SeedRead, Runs
  <2>2. \A f \in Export : pc'[f] = IF f = e THEN "seeding" ELSE pc[f]
    BY <1>3, PcAfter DEF SeedRead
  <2>3. read'.day = day /\ UNCHANGED <<fate, entry, charged, chain, day, carried, crashes>>
        /\ chain # <<>> /\ Head(chain) = e /\ entry.day # day
    BY <1>3 DEF SeedRead, Runs
  <2>4. \A f \in Export : Busy(f)' => Busy(f)
    BY <2>2, <2>3 DEF Busy, Out
  <2>5. \A f \in Export : pc'[f] = "seeding" =>
          /\ chain' # <<>> /\ Head(chain') = f
          /\ entry'.day # day'
          /\ read'.day <= day'
          /\ f \notin carried' => read'.day = day'
    BY <1>0, <2>1, <2>2, <2>3
  <2> QED BY <2>3, <2>4, <2>5 DEF Clock
<1>4. CASE SeedSet(e)
  <2>1. \A f \in Export : pc[f] = "seeding" => f = e
    BY <1>4, OneSeeds DEF SeedSet
  <2>2. pc[e] = "seeding" /\ chain # <<>> /\ Grant(e, read.day, read.count)
    BY <1>4 DEF SeedSet, Runs
  <2>3. entry.day # day /\ read.day <= day /\ (e \notin carried => read.day = day)
    BY <2>2 DEF Clock
  <2>4. read.day \in Days \cup {NoDay} /\ read.count \in Nat
    BY DEF TypeOK
  <2> QED BY <1>4, <2>1, <2>2, <2>3, <2>4, ClockGrant DEF SeedSet
<1>5. CASE SeedFails(e)
  <2>1. \A f \in Export : pc[f] = "seeding" => f = e
    BY <1>5, OneSeeds DEF SeedFails
  <2> QED BY <1>5, <2>1, ClockKept DEF SeedFails
<1>6. CASE Release(e)
  <2>1. \A f \in Export : pc[f] = "seeding" => f = e
    BY <1>6, OneSeeds DEF Release
  <2>2. entry'.day = entry.day
    BY <1>6 DEF Release, TypeOK
  <2> QED BY <1>6, <2>1, <2>2, ClockKept DEF Release
<1>7. CASE Finish(e)
  <2>1. CASE Goto(e, "releasing") /\ chain' = Append(chain, e)
    <3>1. chain' # <<>> /\ (chain # <<>> => Head(chain') = Head(chain))
      BY <1>0, <2>1, ChainGrows
    <3>2. \A f \in Export : pc[f] = "seeding" => chain # <<>>
      BY DEF Clock
    <3>3. Out(e)
      BY <1>7 DEF Finish, Out
    <3> QED BY <1>7, <2>1, <3>1, <3>2, <3>3, ClockKept DEF Finish
  <2>2. CASE Goto(e, "answered") /\ UNCHANGED chain
    <3>1. \A f \in Export : pc[f] = "seeding" => chain # <<>>
      BY DEF Clock
    <3> QED BY <1>7, <2>2, <3>1, ClockKept DEF Finish
  <2> QED BY <1>7, <2>1, <2>2 DEF Finish
<1>8. CASE Throw(e)
  <2>1. \A f \in Export : pc[f] = "seeding" => chain # <<>>
    BY DEF Clock
  <2> QED BY <1>8, <2>1, ClockKept DEF Throw
<1> QED BY <1>1, <1>2, <1>3, <1>4, <1>5, <1>6, <1>7, <1>8 DEF ChainStep

\* What a root's step leaves alone, and where the root comes from
LEMMA RootMoves ==
    ASSUME TypeOK, NEW e \in Export, NEW x \in Root, RootStep(e, x)
    PROVE  /\ UNCHANGED <<pc, quotaVars, day, carried, crashes>>
           /\ \A g \in Export, y \in Root : g # e \/ y # x =>
                 fate'[g][y] = fate[g][y] /\ stamp'[g][y] = stamp[g][y]
           /\ \A y \in Root : rows'[y] = rows[y] \/ (y = x /\ rows[x] = NoDay)
           /\ fate[e][x] = "queued" \/ (fate[e][x] = "none" /\ pc[e] = "ingesting" /\ x \in RootsOf[e])
           /\ \/ fate'[e][x] = "queued" /\ pc[e] = "ingesting" /\ x \in RootsOf[e]
              \/ /\ fate'[e][x] = "stored" /\ fate[e][x] = "queued"
                 /\ rows'[x] = stamp[e][x] /\ stamp'[e][x] = stamp[e][x]
              \/ fate'[e][x] \notin {"queued", "stored"}
  BY DEF RootStep, ReplayHit, Refuse, Enqueue, Land, Drop, LandUnacknowledged, Becomes, TypeOK,
         envVars

LEMMA ClockRoot ==
    ASSUME TypeOK, Clock, NEW e \in Export, NEW x \in Root, RootStep(e, x) PROVE Clock'
<1>1. UNCHANGED <<pc, entry, chain, read, charged, day, carried, crashes>>
  BY RootMoves DEF quotaVars
<1>2. ASSUME NEW f \in Export, Busy(f)' PROVE Busy(f)
  <2>1. Out(f)' <=> Out(f)
    BY <1>1 DEF Out
  <2>2. CASE Out(f)
    BY <2>2 DEF Busy
  <2>3. CASE ~Out(f)
    <3>1. PICK y \in Root : fate'[f][y] = "queued"
      BY <1>2, <2>1, <2>3 DEF Busy
    <3>2. CASE f = e /\ y = x
      BY <3>2, RootMoves DEF Busy, Out
    <3>3. CASE f # e \/ y # x
      BY <3>1, <3>3, RootMoves DEF Busy
    <3> QED BY <3>2, <3>3
  <2> QED BY <2>2, <2>3
<1> QED BY <1>1, <1>2 DEF Clock

LEMMA ClockDay ==
    ASSUME TypeOK, Clock, DayEnds PROVE Clock'
<1>1. /\ day' = day + 1
      /\ UNCHANGED <<pc, fate, entry, chain, read, charged, crashes>>
      /\ \A f \in Export \ carried' : pc[f] # "seeding" /\ ~Busy(f)
  BY DEF DayEnds, requestVars, quotaVars, Out, Busy
<1>2. entry'.day # day' /\ entry'.day <= day'
  BY <1>1, Numbers DEF Clock
<1>3. \A f \in Export : charged'[f] <= day' /\ charged'[f] # day'
  BY <1>1, Numbers DEF Clock
<1>4. \A f \in Export : ~(pc'[f] = "seeding" /\ f \notin carried') /\ ~(Busy(f)' /\ f \notin carried')
  BY <1>1 DEF Busy, Out
<1>5. \A f \in Export : pc[f] = "seeding" => read.day <= day'
  BY <1>1, Numbers DEF Clock
<1> QED BY <1>1, <1>2, <1>3, <1>4, <1>5 DEF Clock

LEMMA ClockCrash ==
    ASSUME TypeOK, Clock, Crash PROVE Clock'
<1>1. /\ \A e \in Export : pc'[e] \in Answered \cup {"idle"}
      /\ \A e \in Export, x \in Root : fate'[e][x] # "queued"
      /\ entry'.day = NoDay /\ crashes' # 0 /\ UNCHANGED <<day, charged, carried>>
  BY DEF Crash, NoEntry, Answered, TypeOK
<1>2. \A e \in Export : pc'[e] # "seeding" /\ ~Busy(e)'
  BY <1>1 DEF Busy, Out, Answered
<1>3. entry'.day <= day'
  BY <1>1, Numbers DEF NoDay
<1> QED BY <1>1, <1>2, <1>3 DEF Clock

LEMMA ShapeStep == ShapeInv /\ [Next]_vars => ShapeInv'
<1> SUFFICES ASSUME ShapeInv, [Next]_vars PROVE ShapeInv'
  OBVIOUS
<1>1. TypeOK' /\ Fates'
  BY TypeStep, FatesStep DEF ShapeInv
<1>2. CASE UNCHANGED vars
  BY <1>1, <1>2 DEF ShapeInv, Clock, Busy, Out, vars, requestVars, quotaVars, envVars
<1>3. CASE Next
  BY <1>1, <1>2, <1>3, ClockRequest, ClockRoot, ClockDay, ClockCrash DEF ShapeInv, Next, Quiescent
<1> QED BY <1>2, <1>3

-----------------------------------------------------------------------------
(* What the reservations of a day hold *)

\* The roots that the reservations of day d hold: stored and not forgotten by a
\* restart, on their way, or charged by a reservation that is out
Held(d) ==
    {p \in Spend :
        /\ p[1] \notin carried /\ p[2] \in RootsOf[p[1]] /\ charged[p[1]] = d
        /\ \/ fate[p[1]][p[2]] = "stored" /\ p \notin Forgotten(d)
           \/ fate[p[1]][p[2]] = "queued"
           \/ Out(p[1])}

\* The roots that a seed of today counts or will count, and those charged by a
\* reservation that is out
Dated ==
    {p \in Spend :
        /\ p[1] \notin carried /\ p[2] \in RootsOf[p[1]]
        /\ \/ fate[p[1]][p[2]] = "stored" /\ rows[p[2]] >= day
           \/ fate[p[1]][p[2]] = "queued" /\ stamp[p[1]][p[2]] >= day
           \/ Out(p[1])}

\* The roots that a request charged on an earlier day may have credited to this one
Credited == {p \in Spend : p[1] \in carried /\ pc[p[1]] = "answered" /\ p[2] \in Unused(p[1])}

\* n is what the counter of today holds, or will be seeded with
Counts(n) ==
    \/ entry.day = day /\ entry.count = n
    \/ \E e \in Export : pc[e] = "seeding" /\ read.day = day /\ read.count = n

Below(H, n) == Cardinality(H) <= n + Cardinality(Credited)

Sums ==
    /\ \A d \in Days : Below(Held(d), Quota)
    /\ \A n \in Nat : Counts(n) => Below(Held(day), n) /\ Below(Dated, n)

LEMMA PairsFinite ==
    ASSUME NEW S, S \subseteq Spend PROVE IsFiniteSet(S) /\ Cardinality(S) \in Nat
  BY SpendFinite, FS_Subset, FS_CardinalityType

LEMMA HeldPairs ==
    /\ \A d \in Days : Held(d) \subseteq Spend /\ Held(d)' \subseteq Spend
    /\ Dated \subseteq Spend /\ Dated' \subseteq Spend
    /\ Credited \subseteq Spend /\ Credited' \subseteq Spend
  BY DEF Held, Dated, Credited, Spend

\* The roots of one request
Of(e, xs) == {e} \X xs

LEMMA OfCounts ==
    ASSUME NEW e \in Export, NEW xs, xs \subseteq RootsOf[e]
    PROVE  /\ Of(e, xs) \subseteq Spend /\ IsFiniteSet(Of(e, xs))
           /\ Cardinality(Of(e, xs)) = Cardinality(xs) /\ Cardinality(xs) \in Nat
<1>1. IsFiniteSet(xs)
  BY RootsFinite, FS_Subset
<1>2. IsFiniteSet({e}) /\ Cardinality({e}) = 1
  BY FS_Singleton
<1>3. Cardinality(xs) \in Nat
  BY <1>1, FS_CardinalityType
<1>4. Cardinality(Of(e, xs)) = 1 * Cardinality(xs) /\ IsFiniteSet(Of(e, xs))
  BY <1>1, <1>2, FS_Product DEF Of
<1>5. Of(e, xs) \subseteq Spend
  BY RootsFinite DEF Of, Spend
<1> QED BY <1>3, <1>4, <1>5

\* A set that loses stays below what it was below, as more is credited
LEMMA BelowKept ==
    ASSUME NEW H, NEW H2, NEW n \in Nat, Below(H, n),
           H \subseteq Spend, H2 \subseteq H, Credited \subseteq Credited'
    PROVE  Cardinality(H2) <= n + Cardinality(Credited')
<1>1. /\ IsFiniteSet(H) /\ IsFiniteSet(Credited') /\ H2 \subseteq Spend
      /\ Cardinality(H) \in Nat /\ Cardinality(Credited') \in Nat
  BY PairsFinite, HeldPairs
<1>2. Cardinality(H2) \in Nat /\ Cardinality(Credited) \in Nat
  BY <1>1, PairsFinite, HeldPairs
<1>3. Cardinality(H2) <= Cardinality(H) /\ Cardinality(Credited) <= Cardinality(Credited')
  BY <1>1, FS_Subset
<1> QED BY <1>1, <1>2, <1>3 DEF Below

\* A set that gains some of the roots of a request
LEMMA BelowGrows ==
    ASSUME NEW H, NEW H2, NEW n \in Nat, Below(H, n), NEW e \in Export,
           H \subseteq Spend, H2 \subseteq Spend, H2 \subseteq H \cup Of(e, RootsOf[e]),
           Credited \subseteq Credited'
    PROVE  Cardinality(H2) <= n + Size(e) + Cardinality(Credited')
<1>1. /\ IsFiniteSet(H) /\ IsFiniteSet(Credited') /\ Cardinality(H2) \in Nat
      /\ Cardinality(H) \in Nat /\ Cardinality(Credited') \in Nat /\ Cardinality(Credited) \in Nat
  BY PairsFinite, HeldPairs
<1> DEFINE R == Of(e, RootsOf[e])
<1>2. R \subseteq Spend /\ IsFiniteSet(R) /\ Cardinality(R) = Size(e) /\ Size(e) \in Nat
  BY OfCounts DEF Size
<1>3. H2 \subseteq H \cup R
  OBVIOUS
<1> HIDE DEF R
<1>4. /\ IsFiniteSet(H \cup R)
      /\ Cardinality(H \cup R) = Cardinality(H) + Cardinality(R) - Cardinality(H \cap R)
  BY <1>1, <1>2, FS_Union
<1>5. Cardinality(H \cap R) \in Nat
  BY <1>2, PairsFinite
<1>6. Cardinality(H2) <= Cardinality(H \cup R) /\ Cardinality(Credited) <= Cardinality(Credited')
  BY <1>1, <1>3, <1>4, FS_Subset
<1> DEFINE h == Cardinality(H)
           h2 == Cardinality(H2)
           u == Cardinality(H \cup R)
           i == Cardinality(H \cap R)
           k == Cardinality(Credited)
           k2 == Cardinality(Credited')
           z == Size(e)
<1>7. /\ h \in Nat /\ h2 \in Nat /\ i \in Nat /\ k \in Nat /\ k2 \in Nat /\ z \in Nat
      /\ u = h + z - i /\ h2 <= u /\ k <= k2 /\ h <= n + k
  BY <1>1, <1>2, <1>4, <1>5, <1>6 DEF Below
<1> HIDE DEF h, h2, u, i, k, k2, z
<1>8. h2 <= n + z + k2
  BY <1>7
<1> QED BY <1>8 DEF h2, z, k2

\* A set that loses what a request hands back
LEMMA BelowFalls ==
    ASSUME NEW H, NEW H2, NEW n \in Nat, Below(H, n), NEW e \in Export,
           H \subseteq Spend, H2 \subseteq H \ Of(e, Unused(e)), Of(e, Unused(e)) \subseteq H,
           Credited \subseteq Credited'
    PROVE  Cardinality(H2) + Cardinality(Unused(e)) <= n + Cardinality(Credited')
<1> DEFINE U == Of(e, Unused(e))
<1>1. /\ IsFiniteSet(H) /\ IsFiniteSet(Credited')
      /\ Cardinality(H) \in Nat /\ Cardinality(Credited') \in Nat /\ Cardinality(Credited) \in Nat
  BY PairsFinite, HeldPairs
<1>2. Cardinality(U) = Cardinality(Unused(e)) /\ Cardinality(Unused(e)) \in Nat
  BY RootsFinite, OfCounts
<1>3. H2 \subseteq H \ U /\ H \cap U = U
  OBVIOUS
<1> HIDE DEF U
<1>4. IsFiniteSet(H \ U) /\ Cardinality(H \ U) = Cardinality(H) - Cardinality(H \cap U)
  BY <1>1, FS_Difference
<1>5. /\ Cardinality(H2) <= Cardinality(H \ U) /\ Cardinality(H2) \in Nat
      /\ Cardinality(Credited) <= Cardinality(Credited')
  BY <1>1, <1>3, <1>4, FS_Subset, FS_CardinalityType
<1> DEFINE h == Cardinality(H)
           h2 == Cardinality(H2)
           u == Cardinality(Unused(e))
           k == Cardinality(Credited)
           k2 == Cardinality(Credited')
<1>6. /\ h \in Nat /\ h2 \in Nat /\ u \in Nat /\ k \in Nat /\ k2 \in Nat
      /\ h2 <= h - u /\ k <= k2 /\ h <= n + k
  BY <1>1, <1>2, <1>3, <1>4, <1>5 DEF Below
<1> HIDE DEF h, h2, u, k, k2
<1>7. h2 + u <= n + k2
  BY <1>6
<1> QED BY <1>7 DEF h2, u, k2

\* A step that adds nothing to a day, takes nothing from what may be credited, and
\* leaves the counter alone
LEMMA SumsKept ==
    ASSUME ShapeInv, Sums, day' = day,
           \A d \in Days : Held(d)' \subseteq Held(d),
           Dated' \subseteq Dated,
           Credited \subseteq Credited',
           \A n \in Nat : Counts(n)' => Counts(n)
    PROVE  Sums'
<1>1. day \in Days /\ Quota \in Nat
  BY BoundAssumption DEF ShapeInv, TypeOK
<1>2. \A d \in Days : Below(Held(d), Quota)'
  BY <1>1, BelowKept, HeldPairs DEF Sums, Below
<1>3. ASSUME NEW n \in Nat, Counts(n)' PROVE Below(Held(day), n)' /\ Below(Dated, n)'
  <2>1. Below(Held(day), n) /\ Below(Dated, n)
    BY <1>3 DEF Sums
  <2>2. Cardinality(Held(day)') <= n + Cardinality(Credited')
    BY <1>1, <2>1, BelowKept, HeldPairs
  <2>3. Cardinality(Dated') <= n + Cardinality(Credited')
    BY <2>1, BelowKept, HeldPairs
  <2> QED BY <2>2, <2>3 DEF Below
<1> QED BY <1>2, <1>3 DEF Sums

\* A root moves on within its request
LEMMA SumsRoot ==
    ASSUME ShapeInv, Sums, NEW e \in Export, NEW x \in Root, RootStep(e, x) PROVE Sums'
<1> USE DEF ShapeInv
<1>1. UNCHANGED <<pc, entry, chain, read, charged, day, carried, crashes>>
  BY RootMoves DEF quotaVars
<1>2. \A g \in Export : fate[g][x] = "stored" => rows[x] # NoDay
  BY DEF Fates, InStore
<1>3. ASSUME NEW p \in Spend,
             p[1] # e \/ p[2] # x
      PROVE  /\ fate'[p[1]][p[2]] = fate[p[1]][p[2]] /\ stamp'[p[1]][p[2]] = stamp[p[1]][p[2]]
             /\ fate[p[1]][p[2]] = "stored" => rows'[p[2]] = rows[p[2]]
  <2>1. p[1] \in Export /\ p[2] \in Root
    BY DEF Spend
  <2>2. rows'[p[2]] = rows[p[2]] \/ (p[2] = x /\ rows[x] = NoDay)
    BY <2>1, RootMoves
  <2> QED BY <1>2, <1>3, <2>1, <2>2, RootMoves
<1>4. ASSUME NEW d \in Days, NEW p \in Held(d)' PROVE p \in Held(d)
  <2>1. p \in Spend /\ p[1] \in Export /\ p[2] \in Root
    BY <1>4 DEF Held, Spend
  <2>2. /\ p[1] \notin carried /\ p[2] \in RootsOf[p[1]] /\ charged[p[1]] = d
        /\ \/ fate'[p[1]][p[2]] = "stored" /\ p \notin Forgotten(d)'
           \/ fate'[p[1]][p[2]] = "queued"
           \/ Out(p[1])
    BY <1>1, <1>4 DEF Held, Out
  <2>3. CASE p[1] = e /\ p[2] = x
    BY <2>1, <2>2, <2>3, RootMoves DEF Held, Out
  <2>4. CASE p[1] # e \/ p[2] # x
    <3>1. fate[p[1]][p[2]] = "stored" /\ p \notin Forgotten(d)' => p \notin Forgotten(d)
      BY <1>1, <1>3, <2>1, <2>4 DEF Forgotten, Admitted
    <3> QED BY <1>3, <2>1, <2>2, <2>4, <3>1 DEF Held
  <2> QED BY <2>3, <2>4
<1>5. ASSUME NEW p \in Dated' PROVE p \in Dated
  <2>1. p \in Spend /\ p[1] \in Export /\ p[2] \in Root
    BY <1>5 DEF Dated, Spend
  <2>2. /\ p[1] \notin carried /\ p[2] \in RootsOf[p[1]]
        /\ \/ fate'[p[1]][p[2]] = "stored" /\ rows'[p[2]] >= day
           \/ fate'[p[1]][p[2]] = "queued" /\ stamp'[p[1]][p[2]] >= day
           \/ Out(p[1])
    BY <1>1, <1>5 DEF Dated, Out
  <2>3. CASE p[1] = e /\ p[2] = x
    BY <2>1, <2>2, <2>3, RootMoves DEF Dated, Out
  <2>4. CASE p[1] # e \/ p[2] # x
    BY <1>3, <2>1, <2>2, <2>4 DEF Dated
  <2> QED BY <2>3, <2>4
<1>6. ASSUME NEW p \in Credited PROVE p \in Credited'
  <2>1. p \in Spend /\ p[1] \in Export /\ p[2] \in Root
    BY <1>6 DEF Credited, Spend
  <2>2. p[1] \in carried /\ pc[p[1]] = "answered" /\ p[2] \in RootsOf[p[1]] /\ fate[p[1]][p[2]] # "stored"
    BY <1>6 DEF Credited, Unused
  <2>3. fate[p[1]][p[2]] \in Settled
    BY <2>1, <2>2 DEF Fates
  <2>4. p[1] # e \/ p[2] # x
    BY <2>3, RootMoves DEF Settled
  <2> QED BY <1>1, <1>3, <2>1, <2>2, <2>4 DEF Credited, Unused
<1>7. \A n \in Nat : Counts(n)' => Counts(n)
  BY <1>1 DEF Counts
<1>8. /\ \A d \in Days : Held(d)' \subseteq Held(d)
      /\ Dated' \subseteq Dated
      /\ Credited \subseteq Credited'
  BY <1>4, <1>5, <1>6
<1> QED BY <1>1, <1>7, <1>8, SumsKept

\* Requests move on without a reservation: fewer are out, more are answered
LEMMA SumsMove ==
    ASSUME ShapeInv, NEW e \in Export, NEW s, Goto(e, s),
           s \in {"ingesting", "releasing"} => Out(e),
           pc[e] # "answered",
           UNCHANGED <<fate, stamp, rows, charged, day, carried, crashes>>
    PROVE  /\ \A d \in Days : Held(d)' \subseteq Held(d)
           /\ Dated' \subseteq Dated /\ Credited \subseteq Credited'
<1> USE DEF ShapeInv
<1>1. \A f \in Export : pc'[f] = IF f = e THEN s ELSE pc[f]
  BY PcAfter
<1>2. \A f \in Export : Out(f)' => Out(f)
  BY <1>1 DEF Out
<1>3. \A f \in Export : pc[f] = "answered" => pc'[f] = "answered"
  BY <1>1
<1>4. \A d \in Days : Forgotten(d)' = Forgotten(d)
  BY DEF Forgotten, Admitted
<1>5. \A d \in Days : Held(d)' \subseteq Held(d)
  BY <1>2, <1>4 DEF Held, Spend
<1>6. Dated' \subseteq Dated
  BY <1>2 DEF Dated, Spend
<1>7. Credited \subseteq Credited'
  BY <1>3 DEF Credited, Spend, Unused
<1> QED BY <1>5, <1>6, <1>7

LEMMA SumsRequest ==
    ASSUME ShapeInv, Sums, NEW e \in Export, Arrive(e) \/ SeedFails(e) \/ Finish(e) \/ Throw(e)
    PROVE  Sums'
<1> USE DEF envVars, quotaVars, ShapeInv
<1>1. PICK s \in {"reserving", "error", "answered", "releasing", "failed"} :
          Goto(e, s) /\ (s = "releasing" => Out(e))
  BY DEF Arrive, SeedFails, Finish, Throw, Out
<1>2. UNCHANGED <<fate, stamp, rows, charged, day, carried, crashes, entry>>
  BY DEF Arrive, SeedFails, Finish, Throw
<1>3. pc[e] # "answered"
  BY DEF Arrive, SeedFails, Runs, Finish, Throw
<1>4. /\ \A d \in Days : Held(d)' \subseteq Held(d)
      /\ Dated' \subseteq Dated /\ Credited \subseteq Credited'
  BY <1>1, <1>2, <1>3, SumsMove
<1>5. \A f \in Export : pc'[f] = "seeding" => pc[f] = "seeding" /\ read' = read
  <2>1. \A f \in Export : pc'[f] = IF f = e THEN s ELSE pc[f]
    BY <1>1, PcAfter
  <2>2. SeedFails(e) => \A f \in Export : pc[f] = "seeding" => f = e
    BY OneSeeds DEF SeedFails
  <2>3. SeedFails(e) \/ read' = read
    BY DEF Arrive, Finish, Throw
  <2> QED BY <2>1, <2>2, <2>3
<1>6. \A n \in Nat : Counts(n)' => Counts(n)
  BY <1>2, <1>5 DEF Counts
<1> QED BY <1>2, <1>4, <1>6, SumsKept

-----------------------------------------------------------------------------
(* The reservations *)

\* Every row has one source, so rows are counted by the requests that stored them
LEMMA RowsCounted ==
    ASSUME Fates, TypeOK, NEW d \in Nat
    PROVE  LET S == {p \in Spend : fate[p[1]][p[2]] \in InStore /\ rows[p[2]] >= d}
           IN  IsFiniteSet(S) /\ Cardinality(S) = Cardinality(RowsSince(d))
<1> DEFINE S == {p \in Spend : fate[p[1]][p[2]] \in InStore /\ rows[p[2]] >= d}
           source == [p \in S |-> p[2]]
<1>1. IsFiniteSet(S)
  BY PairsFinite
<1>2. \A p \in S : /\ p[1] \in Export /\ p[2] \in Root /\ p = <<p[1], p[2]>>
                   /\ fate[p[1]][p[2]] \in InStore /\ rows[p[2]] >= d
  BY DEF Spend
<1>3. source \in [S -> RowsSince(d)]
  BY <1>2 DEF RowsSince, Fates
<1>4. \A p, q \in S : source[p] = source[q] => p = q
  BY <1>2 DEF Fates
<1>5. ASSUME NEW x \in RowsSince(d) PROVE \E p \in S : source[p] = x
  <2>1. x \in Root /\ rows[x] # NoDay /\ rows[x] >= d
    BY DEF RowsSince
  <2>2. PICK e \in Export : fate[e][x] \in InStore
    BY <2>1 DEF Fates
  <2>3. <<e, x>> \in S
    BY <2>1, <2>2 DEF Spend
  <2> QED BY <2>3
<1> HIDE DEF source
<1>6. source \in Injection(S, RowsSince(d))
  BY <1>3, <1>4 DEF Injection, IsInjective
<1>7. source \in Surjection(S, RowsSince(d))
  BY <1>3, <1>5 DEF Surjection
<1>8. Cardinality(S) = Cardinality(RowsSince(d))
  BY <1>1, <1>6, <1>7, FS_Surjection
<1> QED BY <1>1, <1>8

\* The first reservation of a day reads the rows, and nothing else counts yet
LEMMA SumsSeedRead ==
    ASSUME ShapeInv, Sums, NEW e \in Export, SeedRead(e) PROVE Sums'
<1> USE DEF ShapeInv
<1>1. /\ \A f \in Export : pc[f] # "seeding"
      /\ entry.day # day
  BY OneSeeds DEF SeedRead, Runs
<1>2. /\ UNCHANGED <<fate, stamp, rows, charged, day, carried, crashes, entry>>
      /\ read' = [day |-> day, count |-> Cardinality(RowsSince(day))]
      /\ day \in Days /\ day \in Nat
  BY Numbers DEF SeedRead, envVars, TypeOK
<1>3. /\ \A d \in Days : Held(d)' \subseteq Held(d)
      /\ Dated' \subseteq Dated /\ Credited \subseteq Credited'
  BY <1>2, SumsMove DEF SeedRead, Runs
<1> DEFINE S == {p \in Spend : fate[p[1]][p[2]] \in InStore /\ rows[p[2]] >= day}
           n == Cardinality(RowsSince(day))
<1>4. IsFiniteSet(S) /\ Cardinality(S) = n /\ n \in Nat
  BY <1>2, RowsCounted, RowsFinite
<1>5. \A f \in Export \ carried : ~Busy(f)
  BY <1>1 DEF Clock
<1>6. Held(day) \subseteq S
  <2> SUFFICES ASSUME NEW p \in Held(day) PROVE p \in S
    OBVIOUS
  <2>1. /\ p \in Spend /\ p[1] \in Export \ carried /\ p[2] \in Root
        /\ charged[p[1]] = day
        /\ \/ fate[p[1]][p[2]] = "stored" /\ p \notin Forgotten(day)
           \/ fate[p[1]][p[2]] = "queued"
           \/ Out(p[1])
    BY DEF Held, Spend
  <2>2. fate[p[1]][p[2]] = "stored" /\ p \notin Forgotten(day)
    BY <1>5, <2>1 DEF Busy
  <2>3. crashes # 0
    BY <1>1, <2>1 DEF Clock
  <2>4. rows[p[2]] \in Nat /\ ~(rows[p[2]] < day)
    BY <2>1, <2>2, <2>3 DEF Forgotten, Admitted, InStore, TypeOK
  <2> QED BY <1>2, <2>1, <2>2, <2>4 DEF InStore
<1>7. Dated \subseteq S
  BY <1>5 DEF Dated, Busy, Spend, InStore
<1> HIDE DEF S, n
<1>8. Below(Held(day), n) /\ Below(Dated, n)
  <2>1. Cardinality(Held(day)) <= Cardinality(S) /\ Cardinality(Dated) <= Cardinality(S)
    BY <1>4, <1>6, <1>7, FS_Subset
  <2>2. /\ Cardinality(Held(day)) \in Nat /\ Cardinality(Dated) \in Nat
        /\ Cardinality(Credited) \in Nat
    BY <1>2, PairsFinite, HeldPairs
  <2> QED BY <1>4, <2>1, <2>2 DEF Below
<1>9. \A d \in Days : Below(Held(d), Quota)'
  BY <1>3, BelowKept, HeldPairs, BoundAssumption DEF Sums, Below
<1>10. ASSUME NEW m \in Nat, Counts(m)' PROVE Below(Held(day), m)' /\ Below(Dated, m)'
  <2>1. m = n
    BY <1>1, <1>2, <1>10 DEF Counts, n
  <2>2. Cardinality(Held(day)') <= n + Cardinality(Credited')
    BY <1>2, <1>3, <1>4, <1>8, BelowKept, HeldPairs
  <2>3. Cardinality(Dated') <= n + Cardinality(Credited')
    BY <1>3, <1>4, <1>8, BelowKept, HeldPairs
  <2> QED BY <2>1, <2>2, <2>3 DEF Below
<1> QED BY <1>9, <1>10 DEF Sums

\* The roots of a reservation that is granted are charged as they start to count
LEMMA SumsGrant ==
    ASSUME ShapeInv, Sums, NEW e \in Export, NEW d \in Days \cup {NoDay}, NEW used \in Nat,
           Grant(e, d, used), chain # <<>>, pc[e] \in {"reserving", "seeding"},
           \A f \in Export : pc[f] = "seeding" => f = e,
           e \notin carried => d = day,
           d = day => Counts(used),
           UNCHANGED <<fate, stamp, rows, day, carried, crashes>>
    PROVE  Sums'
<1> USE DEF ShapeInv
<1>1. \A x \in Root : fate[e][x] = "none"
  BY DEF Fates, Uncharged
<1>2. /\ entry'.day = d
      /\ \A f \in Export : f # e => charged'[f] = charged[f]
      /\ \/ Goto(e, "over") /\ charged' = charged /\ entry'.count = used
         \/ /\ Goto(e, "ingesting") /\ charged'[e] = d
            /\ entry'.count = used + Size(e) /\ used + Size(e) <= Quota
  BY Grants DEF Goto
<1>3. \A f \in Export : f # e => pc'[f] = pc[f]
  BY <1>2, PcAfter
<1>4. pc'[e] \in {"over", "ingesting"} /\ \A f \in Export : pc'[f] # "seeding"
  <2>1. pc'[e] \in {"over", "ingesting"}
    BY <1>2, PcAfter
  <2> QED BY <1>3, <2>1
<1>5. Credited \subseteq Credited'
  <2>1. \A f \in Export : pc[f] = "answered" => pc'[f] = "answered"
    BY <1>3
  <2> QED BY <2>1 DEF Credited, Unused, Spend
<1>6. /\ day \in Days /\ day \in Nat /\ Quota \in Nat /\ Size(e) \in Nat
      /\ used + Size(e) \in Nat
  BY Numbers, RootsFinite, BoundAssumption DEF TypeOK
\* What the others hold stays as it is
<1>7. ASSUME NEW p \in Spend, p[1] # e
      PROVE  /\ \A c \in Days : p \in Held(c)' => p \in Held(c)
             /\ p \in Dated' => p \in Dated
  <2>1. p[1] \in Export
    BY DEF Spend
  <2>2. (Out(p[1])' <=> Out(p[1])) /\ charged'[p[1]] = charged[p[1]]
    BY <1>2, <1>3, <1>7, <2>1 DEF Out
  <2>3. \A c \in Days : p \in Forgotten(c) => p \in Forgotten(c)'
    BY <2>2 DEF Forgotten, Admitted
  <2> QED BY <2>2, <2>3 DEF Held, Dated
<1>8. ASSUME NEW p \in Spend, p[1] = e
      PROVE  /\ \A c \in Days : p \in Held(c)' =>
                    pc'[e] = "ingesting" /\ c = d /\ d = day /\ p \in Of(e, RootsOf[e])
             /\ p \in Dated' =>
                    pc'[e] = "ingesting" /\ d = day /\ p \in Of(e, RootsOf[e])
  <2>1. p[2] \in Root /\ p = <<p[1], p[2]>>
    BY DEF Spend
  <2>2. pc'[e] = "ingesting" => charged'[e] = d
    BY <1>2, PcAfter
  <2> QED BY <1>1, <1>4, <1>8, <2>1, <2>2 DEF Held, Dated, Of, Out
<1>9. CASE pc'[e] = "ingesting" /\ d = day /\ used + Size(e) <= Quota /\ entry'.count = used + Size(e)
  <2>1. Below(Held(day), used) /\ Below(Dated, used)
    BY <1>9 DEF Sums
  <2>2. Held(day)' \subseteq Held(day) \cup Of(e, RootsOf[e])
    BY <1>6, <1>7, <1>8, HeldPairs
  <2>3. Dated' \subseteq Dated \cup Of(e, RootsOf[e])
    BY <1>7, <1>8, HeldPairs
  <2>4. Cardinality(Held(day)') <= used + Size(e) + Cardinality(Credited')
    BY <1>5, <1>6, <2>1, <2>2, BelowGrows, HeldPairs
  <2>5. Cardinality(Dated') <= used + Size(e) + Cardinality(Credited')
    BY <1>5, <2>1, <2>3, BelowGrows, HeldPairs
  <2>6. ASSUME NEW c \in Days PROVE Below(Held(c), Quota)'
    <3>1. CASE c = day
      <4>1. Cardinality(Held(c)') \in Nat /\ Cardinality(Credited') \in Nat
        BY PairsFinite, HeldPairs
      <4>2. Cardinality(Held(c)') <= used + Size(e) + Cardinality(Credited')
        BY <2>4, <3>1
      <4> QED BY <1>6, <1>9, <4>1, <4>2 DEF Below
    <3>2. CASE c # day
      <4>1. Held(c)' \subseteq Held(c)
        BY <1>7, <1>8, <3>2, HeldPairs
      <4> QED BY <1>5, <1>6, <4>1, BelowKept, HeldPairs DEF Sums, Below
    <3> QED BY <3>1, <3>2
  <2>7. ASSUME NEW n \in Nat, Counts(n)' PROVE Below(Held(day), n)' /\ Below(Dated, n)'
    <3>1. n = used + Size(e)
      BY <1>4, <1>9, <2>7 DEF Counts
    <3> QED BY <2>4, <2>5, <3>1 DEF Below
  <2> QED BY <2>6, <2>7 DEF Sums
<1>10. CASE d # day \/ (pc'[e] = "over" /\ entry'.count = used)
  <2>1. (\A c \in Days : Held(c)' \subseteq Held(c)) /\ Dated' \subseteq Dated
    BY <1>7, <1>8, <1>10, HeldPairs
  <2>2. \A n \in Nat : Counts(n)' => Counts(n)
    BY <1>2, <1>4, <1>10 DEF Counts
  <2> QED BY <1>5, <2>1, <2>2, SumsKept
<1>11. \/ pc'[e] = "over" /\ entry'.count = used
       \/ pc'[e] = "ingesting" /\ used + Size(e) <= Quota /\ entry'.count = used + Size(e)
  BY <1>2, PcAfter
<1> QED BY <1>9, <1>10, <1>11

LEMMA SumsReserve ==
    ASSUME ShapeInv, Sums, NEW e \in Export, Reserve(e) \/ SeedSet(e) PROVE Sums'
<1> USE DEF envVars, ShapeInv
<1>0. day \in Days /\ entry.count \in Nat /\ read.count \in Nat /\ read.day \in Days \cup {NoDay}
  BY DEF TypeOK
<1>1. CASE Reserve(e)
  <2>1. \A f \in Export : pc[f] = "seeding" => f = e
    BY <1>1, OneSeeds DEF Reserve
  <2>2. Counts(entry.count)
    BY <1>1 DEF Counts, Reserve
  <2> QED BY <1>0, <1>1, <2>1, <2>2, SumsGrant DEF Reserve, Runs
<1>2. CASE SeedSet(e)
  <2>1. \A f \in Export : pc[f] = "seeding" => f = e
    BY <1>2, OneSeeds DEF SeedSet
  <2>2. pc[e] = "seeding" /\ chain # <<>> /\ Grant(e, read.day, read.count)
    BY <1>2 DEF SeedSet, Runs
  <2>3. e \notin carried => read.day = day
    BY <2>2 DEF Clock
  <2>4. read.day = day => Counts(read.count)
    BY <2>2 DEF Counts
  <2> QED BY <1>0, <1>2, <2>1, <2>2, <2>3, <2>4, SumsGrant DEF SeedSet
<1> QED BY <1>1, <1>2

-----------------------------------------------------------------------------
(* The release *)

\* What a release takes from the counter
LEMMA Releases ==
    ASSUME TypeOK, NEW e \in Export, Release(e)
    PROVE  /\ entry'.day = entry.day /\ entry'.count \in Nat
           /\ entry.day # day => entry' = entry
           /\ entry.day = day /\ Cardinality(Unused(e)) <= entry.count =>
                 entry'.count = entry.count - Cardinality(Unused(e))
           /\ entry.day = day /\ Cardinality(Unused(e)) > entry.count => entry'.count = 0
<1> DEFINE back == Cardinality(Unused(e))
           left == IF back > entry.count THEN 0 ELSE entry.count - back
<1>1. back \in Nat /\ entry \in [day : Days \cup {NoDay}, count : Nat]
  BY RootsFinite DEF TypeOK
<1>2. left \in Nat
  BY <1>1
<1>3. entry' = IF entry.day = day THEN [entry EXCEPT !.count = left] ELSE entry
  BY DEF Release
<1> HIDE DEF left
<1>4. entry'.day = entry.day /\ (entry.day = day => entry'.count = left) /\ (entry.day # day => entry' = entry)
  BY <1>1, <1>3
<1> QED BY <1>1, <1>2, <1>4 DEF left

\* What is handed back either counted against this day or is credited to it
LEMMA SumsRelease ==
    ASSUME ShapeInv, Sums, NEW e \in Export, Release(e) PROVE Sums'
<1> USE DEF ShapeInv
<1>1. /\ \A f \in Export : pc'[f] = IF f = e THEN "answered" ELSE pc[f]
      /\ pc[e] = "releasing" /\ Goto(e, "answered")
      /\ \A f \in Export : pc'[f] # "seeding"
      /\ UNCHANGED <<fate, stamp, rows, charged, day, carried, crashes>>
  BY PcAfter, OneSeeds DEF Release, Runs, envVars
<1>2. /\ \A d \in Days : Held(d)' \subseteq Held(d)
      /\ Dated' \subseteq Dated /\ Credited \subseteq Credited'
  BY <1>1, SumsMove
<1>3. \A d \in Days : Below(Held(d), Quota)'
  BY <1>2, BelowKept, HeldPairs, BoundAssumption DEF Sums, Below
<1> SUFFICES ASSUME NEW n \in Nat, Counts(n)' PROVE Below(Held(day), n)' /\ Below(Dated, n)'
  BY <1>3 DEF Sums
<1>4. entry.day = day /\ n = entry'.count
  BY <1>1, Releases DEF Counts
<1>5. Below(Held(day), entry.count) /\ Below(Dated, entry.count) /\ entry.count \in Nat /\ day \in Days
  BY <1>4 DEF Sums, Counts, TypeOK
<1> DEFINE U == Of(e, Unused(e))
           b == Cardinality(Unused(e))
<1>6. /\ U \subseteq Spend /\ IsFiniteSet(U) /\ Cardinality(U) = b /\ b \in Nat
  BY RootsFinite, OfCounts
<1>7. n = entry.count - b \/ (b > entry.count /\ n = 0)
  BY <1>4, <1>5, <1>6, Releases
<1>8. /\ Cardinality(Held(day)') \in Nat /\ Cardinality(Dated') \in Nat
      /\ Cardinality(Credited) \in Nat /\ Cardinality(Credited') \in Nat
  BY <1>1, <1>5, PairsFinite, HeldPairs
<1>9. CASE e \notin carried
  <2>1. Out(e) /\ charged[e] = day
    BY <1>1, <1>9 DEF Busy, Out, Clock
  <2>2. U \subseteq Held(day) /\ U \subseteq Dated
    BY <1>6, <1>9, <2>1 DEF Of, Held, Dated, Unused
  <2>3. \A p \in U : p[1] = e /\ p[2] \in Root /\ fate'[e][p[2]] \notin {"stored", "queued"}
    <3> SUFFICES ASSUME NEW p \in U
                 PROVE  p[1] = e /\ p[2] \in Root /\ fate'[e][p[2]] \notin {"stored", "queued"}
      OBVIOUS
    <3>1. p[1] = e /\ p[2] \in RootsOf[e] /\ p[2] \in Root /\ fate[e][p[2]] # "stored"
      BY RootsFinite DEF Of, Unused
    <3> QED BY <1>1, <3>1 DEF Fates, Settled
  <2>4. ~Out(e)'
    BY <1>1 DEF Out
  <2>5. Held(day)' \subseteq Held(day) \ U /\ Dated' \subseteq Dated \ U
    <3>1. \A p \in U : p \notin Held(day)' /\ p \notin Dated'
      BY <2>3, <2>4 DEF Held, Dated
    <3>2. Held(day)' \subseteq Held(day)
      BY <1>1, <1>2, <1>5
    <3> QED BY <1>2, <3>1, <3>2
  <2>6. Cardinality(Held(day)') + b <= entry.count + Cardinality(Credited')
    BY <1>2, <1>5, <2>2, <2>5, BelowFalls, HeldPairs
  <2>7. Cardinality(Dated') + b <= entry.count + Cardinality(Credited')
    BY <1>2, <1>5, <2>2, <2>5, BelowFalls, HeldPairs
  <2> HIDE DEF b
  <2>8. /\ Cardinality(Held(day)') <= n + Cardinality(Credited')
        /\ Cardinality(Dated') <= n + Cardinality(Credited')
    BY <1>5, <1>6, <1>7, <1>8, <2>6, <2>7
  <2> QED BY <2>8 DEF Below
<1>10. CASE e \in carried
  <2>1. Credited \cup U \subseteq Credited' /\ Credited \cap U = {}
    <3>1. \A p \in U : p \in Spend /\ p[1] = e /\ p[2] \in Unused(e)
      BY <1>6 DEF Of
    <3>2. U \subseteq Credited'
      BY <1>1, <1>10, <3>1 DEF Credited, Unused
    <3>3. Credited \cap U = {}
      BY <1>1, <3>1 DEF Credited
    <3> QED BY <1>2, <3>2, <3>3
  <2> HIDE DEF U
  <2>2. Cardinality(Credited) + b <= Cardinality(Credited')
    <3>1. IsFiniteSet(Credited) /\ IsFiniteSet(Credited')
      BY PairsFinite, HeldPairs
    <3>2. Cardinality(Credited \cup U) = Cardinality(Credited) + Cardinality(U) - 0
      BY <1>6, <2>1, <3>1, FS_Union, FS_EmptySet
    <3>3. Cardinality(Credited \cup U) <= Cardinality(Credited')
      BY <2>1, <3>1, FS_Subset
    <3> QED BY <1>6, <1>8, <3>2, <3>3
  <2>3. Cardinality(Held(day)') <= Cardinality(Held(day)) /\ Cardinality(Dated') <= Cardinality(Dated)
    <3>1. IsFiniteSet(Held(day)) /\ IsFiniteSet(Dated)
      BY <1>5, PairsFinite, HeldPairs
    <3>2. Held(day)' \subseteq Held(day)
      BY <1>1, <1>2, <1>5
    <3> QED BY <1>2, <3>1, <3>2, FS_Subset
  <2>4. Cardinality(Held(day)) \in Nat /\ Cardinality(Dated) \in Nat
    BY <1>5, PairsFinite, HeldPairs
  <2> HIDE DEF b
  <2>5. /\ Cardinality(Held(day)') <= n + Cardinality(Credited')
        /\ Cardinality(Dated') <= n + Cardinality(Credited')
    BY <1>5, <1>6, <1>7, <1>8, <2>2, <2>3, <2>4 DEF Below
  <2> QED BY <2>5 DEF Below
<1> QED BY <1>9, <1>10

-----------------------------------------------------------------------------
(* Midnight, crashes, and all of it together *)

LEMMA SumsDay ==
    ASSUME ShapeInv, Sums, DayEnds PROVE Sums'
<1> USE DEF ShapeInv
<1>1. /\ day' = day + 1
      /\ UNCHANGED <<pc, fate, stamp, rows, charged, entry, chain, read, crashes>>
      /\ carried \subseteq carried'
      /\ \A f \in carried' \ carried : pc[f] # "answered" \/ Busy(f)
  BY DEF DayEnds, requestVars, quotaVars, Busy
<1>2. Credited \subseteq Credited'
  BY <1>1 DEF Credited, Unused
<1>3. \A d \in Days : Held(d)' \subseteq Held(d)
  BY <1>1 DEF Held, Forgotten, Admitted, Out
<1>4. \A n \in Nat : ~Counts(n)'
  <2>1. entry'.day # day' /\ \A e \in Export : pc'[e] = "seeding" => read'.day # day'
    BY <1>1, Numbers DEF Clock
  <2> QED BY <2>1 DEF Counts
<1>5. \A d \in Days : Below(Held(d), Quota)'
  BY <1>2, <1>3, BelowKept, HeldPairs, BoundAssumption DEF Sums, Below
<1> QED BY <1>4, <1>5 DEF Sums

LEMMA SumsCrash ==
    ASSUME ShapeInv, Sums, Crash PROVE Sums'
<1> USE DEF ShapeInv
<1>1. /\ \A e \in Export : pc'[e] = IF pc[e] \in Answered \cup {"idle"} THEN pc[e] ELSE "cut"
      /\ \A e \in Export, x \in Root :
            fate'[e][x] = IF fate[e][x] = "queued" THEN "lost" ELSE fate[e][x]
      /\ UNCHANGED <<stamp, rows, charged, day, carried>> /\ entry'.day = NoDay
  BY DEF Crash, NoEntry
<1>2. \A e \in Export : ~Out(e)' /\ pc'[e] # "seeding" /\ (pc[e] = "answered" => pc'[e] = "answered")
  BY <1>1 DEF Out, Answered
<1>3. \A e \in Export, x \in Root :
          /\ fate'[e][x] # "queued"
          /\ \A f \in {"stored", "unacknowledged"} : fate'[e][x] = f <=> fate[e][x] = f
  BY <1>1
<1>4. ASSUME NEW p \in Spend PROVE \A d \in Days : p \in Held(d)' => p \in Held(d)
  <2>1. p[1] \in Export /\ p[2] \in Root
    BY DEF Spend
  <2>2. \A d \in Days : p \in Forgotten(d) => p \in Forgotten(d)'
    <3>1. crashes' # 0
      BY DEF Crash, TypeOK
    <3> QED BY <1>1, <1>3, <2>1, <3>1 DEF Forgotten, Admitted, InStore
  <2> QED BY <1>1, <1>2, <1>3, <2>1, <2>2 DEF Held
<1>5. ASSUME NEW p \in Spend, p \in Dated' PROVE p \in Dated
  BY <1>1, <1>2, <1>3, <1>5 DEF Dated, Spend
<1>6. ASSUME NEW p \in Credited PROVE p \in Credited'
  <2>1. p \in Spend /\ p[1] \in Export /\ p[2] \in Root
        /\ p[1] \in carried /\ pc[p[1]] = "answered" /\ p[2] \in RootsOf[p[1]] /\ fate[p[1]][p[2]] # "stored"
    BY <1>6 DEF Credited, Spend, Unused
  <2> QED BY <1>1, <1>2, <1>3, <2>1 DEF Credited, Unused
<1>7. /\ \A d \in Days : Held(d)' \subseteq Held(d)
      /\ Dated' \subseteq Dated /\ Credited \subseteq Credited'
  BY <1>4, <1>5, <1>6, HeldPairs
<1>8. \A n \in Nat : ~Counts(n)'
  <2>1. entry'.day # day'
    BY <1>1, Numbers
  <2> QED BY <1>2, <2>1 DEF Counts
<1> QED BY <1>1, <1>7, <1>8, SumsKept

LEMMA SumsInit == Init => Sums
<1> SUFFICES ASSUME Init PROVE Sums
  OBVIOUS
<1>1. FirstDay # NoDay
  BY BoundAssumption DEF NoDay
<1>2. \A d \in Days : Held(d) = {}
  BY DEF Init, Held, Out, Spend
<1>3. \A n \in Nat : ~Counts(n)
  BY <1>1 DEF Init, Counts, NoEntry
<1>4. Cardinality(Credited) \in Nat /\ Quota \in Nat /\ Cardinality({}) = 0
  BY PairsFinite, HeldPairs, FS_EmptySet, BoundAssumption
<1>5. ASSUME NEW d \in Days PROVE Below(Held(d), Quota)
  <2>1. Cardinality(Held(d)) = 0
    BY <1>2, <1>4
  <2> QED BY <1>4, <2>1 DEF Below
<1> QED BY <1>3, <1>5 DEF Sums

LEMMA SumsStep == ShapeInv /\ Sums /\ [Next]_vars => Sums'
<1> SUFFICES ASSUME ShapeInv, Sums, [Next]_vars PROVE Sums'
  OBVIOUS
<1>1. CASE UNCHANGED vars
  <2>1. /\ \A d \in Days : Held(d)' = Held(d)
        /\ Dated' = Dated /\ Credited' = Credited
    BY <1>1 DEF vars, requestVars, quotaVars, envVars, Held, Dated, Forgotten, Admitted, Credited,
                Unused, Out
  <2>2. \A n \in Nat : Counts(n)' => Counts(n)
    BY <1>1 DEF vars, requestVars, quotaVars, envVars, Counts
  <2> QED BY <1>1, <2>1, <2>2, SumsKept DEF vars, envVars
<1>2. CASE Next
  BY <1>1, <1>2, SumsRoot, SumsRequest, SumsSeedRead, SumsReserve, SumsRelease, SumsDay, SumsCrash
     DEF Next, ChainStep, Quiescent
<1> QED BY <1>1, <1>2

\* The inductive invariant of the quota
QuotaInv == ShapeInv /\ Sums

\* The counter and the clock agree; what the reservations of a day hold stays below
\* the quota; that, and the roots a seed of today would count, stay below the
\* counter, but for what is credited (traceQuota.ts, under its chain).
THEOREM QuotaHolds == Spec => []QuotaInv
<1>1. Init => QuotaInv
  BY ShapeInit, SumsInit DEF QuotaInv
<1>2. QuotaInv /\ [Next]_vars => QuotaInv'
  BY ShapeStep, SumsStep DEF QuotaInv
<1> QED BY <1>1, <1>2, PTL DEF Spec

\* What landed late and what is credited are roots of requests under way at a midnight
LEMMA LateIsSplit ==
    ASSUME QuotaInv, NEW L, L \subseteq Spend,
           \A p \in L : p[1] \in carried /\ fate[p[1]][p[2]] = "stored"
    PROVE  IsFiniteSet(L) /\ Cardinality(L) + Cardinality(Credited) <= Cardinality(Late)
<1>1. \A p \in L : p \in Spend /\ p[2] \in RootsOf[p[1]]
  BY DEF QuotaInv, ShapeInv, Fates, Spend
<1>2. L \cup Credited \subseteq Late /\ L \cap Credited = {}
  BY <1>1 DEF Late, Credited, Unused
<1>3. Late \subseteq Spend
  BY DEF Late
<1>4. /\ IsFiniteSet(L) /\ IsFiniteSet(Credited) /\ IsFiniteSet(Late)
      /\ Cardinality(L) \in Nat /\ Cardinality(Credited) \in Nat
  BY <1>3, PairsFinite, HeldPairs
<1>5. Cardinality(L \cup Credited) = Cardinality(L) + Cardinality(Credited) - 0
  <2>1. Cardinality(L \cup Credited) = Cardinality(L) + Cardinality(Credited) - Cardinality(L \cap Credited)
    BY <1>4, FS_Union
  <2> QED BY <1>2, <2>1, FS_EmptySet
<1>6. Cardinality(L \cup Credited) <= Cardinality(Late)
  BY <1>2, <1>4, FS_Subset
<1> QED BY <1>4, <1>5, <1>6

\* A set of pairs that two others cover
LEMMA CoverCounts ==
    ASSUME NEW A, NEW B, NEW C, A \subseteq B \cup C, B \subseteq Spend, C \subseteq Spend
    PROVE  Cardinality(A) <= Cardinality(B) + Cardinality(C)
<1>1. /\ IsFiniteSet(B) /\ IsFiniteSet(C) /\ A \subseteq Spend
      /\ Cardinality(B) \in Nat /\ Cardinality(C) \in Nat
  BY PairsFinite
<1>2. /\ IsFiniteSet(B \cup C)
      /\ Cardinality(B \cup C) = Cardinality(B) + Cardinality(C) - Cardinality(B \cap C)
  BY <1>1, FS_Union
<1>3. B \cap C \subseteq Spend
  OBVIOUS
<1>4. Cardinality(B \cap C) \in Nat /\ Cardinality(A) \in Nat
  BY <1>1, <1>3, PairsFinite
<1>5. Cardinality(A) <= Cardinality(B \cup C)
  BY <1>2, FS_Subset
<1> QED BY <1>1, <1>2, <1>4, <1>5

\* The reservations of a day let in no more roots than the cap, but for those whose
\* request a midnight found under way, those stored without an answer and those a
\* restart forgets, whatever overlaps, fails, restarts and is dated to another day
\* (reserveTraceRoots on its chain).
THEOREM OverrunBounded == Spec => []OverrunIsBounded
<1>1. ASSUME QuotaInv, NEW d \in Days
      PROVE  Cardinality(Admitted(d)) <=
                 Quota + Cardinality(Late) + Cardinality(Admitted(d) \cap Unacknowledged)
                       + Cardinality(Forgotten(d))
  <2> DEFINE L == {p \in Admitted(d) : p[1] \in carried /\ fate[p[1]][p[2]] = "stored"}
             A == Admitted(d) \cap Unacknowledged
             F == Forgotten(d)
             H == Held(d)
  <2>1. /\ Admitted(d) \subseteq Spend /\ L \subseteq Spend /\ A \subseteq Spend /\ F \subseteq Spend
        /\ H \subseteq Spend /\ Late \subseteq Spend
    BY HeldPairs DEF Admitted, Forgotten, Late
  <2>2. Admitted(d) \subseteq H \cup (L \cup (A \cup F))
    <3> SUFFICES ASSUME NEW p \in Admitted(d), p \notin L, p \notin A, p \notin F PROVE p \in H
      OBVIOUS
    <3>1. p \in Spend /\ p[1] \in Export /\ p[2] \in Root
      BY DEF Admitted, Spend
    <3>2. charged[p[1]] = d /\ fate[p[1]][p[2]] = "stored" /\ p[1] \notin carried
      BY <3>1 DEF Admitted, Unacknowledged, InStore
    <3>3. p[2] \in RootsOf[p[1]]
      BY <1>1, <3>1, <3>2 DEF QuotaInv, ShapeInv, Fates
    <3> QED BY <3>1, <3>2, <3>3 DEF Held
  <2>3. Below(H, Quota)
    BY <1>1 DEF QuotaInv, Sums
  <2>4. Cardinality(L) + Cardinality(Credited) <= Cardinality(Late)
    BY <1>1, <2>1, LateIsSplit
  <2> HIDE DEF L, A, F, H
  <2>5. /\ Cardinality(Admitted(d)) <= Cardinality(H) + Cardinality(L \cup (A \cup F))
        /\ Cardinality(L \cup (A \cup F)) <= Cardinality(L) + Cardinality(A \cup F)
        /\ Cardinality(A \cup F) <= Cardinality(A) + Cardinality(F)
    BY <2>1, <2>2, CoverCounts
  <2>6. /\ Cardinality(Admitted(d)) \in Nat /\ Cardinality(H) \in Nat /\ Cardinality(L) \in Nat
        /\ Cardinality(A) \in Nat /\ Cardinality(F) \in Nat /\ Cardinality(Late) \in Nat
        /\ Cardinality(A \cup F) \in Nat /\ Cardinality(L \cup (A \cup F)) \in Nat
        /\ Cardinality(Credited) \in Nat
    BY <2>1, PairsFinite, HeldPairs
  <2>7. Cardinality(Admitted(d)) <= Quota + Cardinality(Late) + Cardinality(A) + Cardinality(F)
    BY <2>3, <2>4, <2>5, <2>6, BoundAssumption DEF Below
  <2> QED BY <2>7 DEF A, F
<1>2. QuotaInv => OverrunIsBounded
  BY <1>1 DEF OverrunIsBounded
<1> QED BY <1>2, QuotaHolds, PTL

\* The counter never falls under the rows that a seed of today would count, a restart
\* included, but for the roots of a request that a midnight found under way and those
\* stored without an answer (releaseTraceRoots).
THEOREM CounterCovers == Spec => []CounterCoversStore
<1>1. ASSUME QuotaInv, entry.day = day
      PROVE  entry.count + Cardinality(Late)
                   + Cardinality({p \in Unacknowledged : rows[p[2]] >= day})
                 >= Cardinality(RowsSince(day))
  <2> DEFINE S == {p \in Spend : fate[p[1]][p[2]] \in InStore /\ rows[p[2]] >= day}
             L == {p \in S : p[1] \in carried /\ fate[p[1]][p[2]] = "stored"}
             A == {p \in Unacknowledged : rows[p[2]] >= day}
             n == Cardinality(RowsSince(day))
  <2>1. day \in Nat /\ entry.count \in Nat
    BY <1>1, Numbers DEF QuotaInv, ShapeInv
  <2>2. IsFiniteSet(S) /\ Cardinality(S) = n /\ n \in Nat
    BY <1>1, <2>1, RowsCounted, RowsFinite DEF QuotaInv, ShapeInv
  <2>3. L \subseteq Spend /\ A \subseteq Spend /\ Late \subseteq Spend /\ Dated \subseteq Spend
    BY HeldPairs DEF Unacknowledged, Late
  <2>4. S \subseteq Dated \cup (L \cup A)
    <3> SUFFICES ASSUME NEW p \in S, p \notin L, p \notin A PROVE p \in Dated
      OBVIOUS
    <3>1. p \in Spend /\ p[1] \in Export /\ p[2] \in Root /\ rows[p[2]] >= day
      BY DEF Spend
    <3>2. fate[p[1]][p[2]] = "stored" /\ p[1] \notin carried
      BY <3>1 DEF Unacknowledged, InStore
    <3>3. p[2] \in RootsOf[p[1]]
      BY <1>1, <3>1, <3>2 DEF QuotaInv, ShapeInv, Fates
    <3> QED BY <3>1, <3>2, <3>3 DEF Dated
  <2>5. Below(Dated, entry.count)
    BY <1>1, <2>1 DEF QuotaInv, Sums, Counts
  <2>6. Cardinality(L) + Cardinality(Credited) <= Cardinality(Late)
    BY <1>1, <2>3, LateIsSplit
  <2> HIDE DEF S, L, A, n
  <2>7. /\ Cardinality(S) <= Cardinality(Dated) + Cardinality(L \cup A)
        /\ Cardinality(L \cup A) <= Cardinality(L) + Cardinality(A)
    BY <2>3, <2>4, CoverCounts
  <2>8. /\ Cardinality(Dated) \in Nat /\ Cardinality(L) \in Nat /\ Cardinality(A) \in Nat
        /\ Cardinality(Late) \in Nat /\ Cardinality(L \cup A) \in Nat /\ Cardinality(Credited) \in Nat
    BY <2>3, PairsFinite, HeldPairs
  <2>9. entry.count + Cardinality(Late) + Cardinality(A) >= n
    BY <2>1, <2>2, <2>5, <2>6, <2>7, <2>8 DEF Below
  <2> QED BY <2>9 DEF A, n
<1>2. QuotaInv => CounterCoversStore
  BY <1>1 DEF CounterCoversStore
<1> QED BY <1>2, QuotaHolds, PTL

-----------------------------------------------------------------------------
(* The accounts of the first day *)

\* Charged today and not handed back
Charged ==
    {p \in Spend : \/ p[2] \in RootsOf[p[1]] /\ fate[p[1]][p[2]] = "stored"
                   \/ p \in Unstored}

Credit ==
    day = FirstDay /\ crashes = 0 =>
        /\ entry.day = FirstDay => entry.count = Cardinality(Charged)
        /\ entry.day # FirstDay => \A e \in Export : pc[e] \in Uncharged
        /\ \A e \in Export : pc[e] = "seeding" => read.day = FirstDay /\ read.count = 0

LEMMA ChargedPairs ==
    /\ Charged \subseteq Spend /\ Charged' \subseteq Spend
    /\ IsFiniteSet(Charged) /\ Cardinality(Charged) \in Nat /\ Cardinality(Charged') \in Nat
<1>1. Charged \subseteq Spend /\ Charged' \subseteq Spend
  BY DEF Charged, Unstored, Spend
<1> QED BY <1>1, PairsFinite

\* Membership, request by request
LEMMA ChargedIs ==
    ASSUME NEW e \in Export, NEW x \in Root
    PROVE  <<e, x>> \in Charged <=>
              /\ x \in RootsOf[e]
              /\ \/ fate[e][x] = "stored"
                 \/ pc[e] \in {"ingesting", "releasing", "failed"}
                 \/ e \in Sdk /\ pc[e] = "answered"
  BY DEF Charged, Unstored, Unused, Spend

\* With an empty account nothing is charged
LEMMA NothingCharged ==
    ASSUME ShapeInv, \A e \in Export : pc[e] \in Uncharged
    PROVE  Charged = {} /\ \A d : RowsSince(d) = {}
<1>1. \A e \in Export, x \in Root : fate[e][x] = "none"
  BY DEF ShapeInv, Fates
<1>2. Charged = {}
  BY <1>1 DEF Charged, Unstored, Spend, Uncharged
<1>3. \A x \in Root : rows[x] = NoDay
  BY <1>1 DEF ShapeInv, Fates, InStore
<1>4. \A d : RowsSince(d) = {}
  BY <1>3 DEF RowsSince
<1> QED BY <1>2, <1>4

LEMMA CreditKept ==
    ASSUME Credit, UNCHANGED <<day, crashes, entry>>, Charged' = Charged,
           \A f \in Export : pc[f] \in Uncharged => pc'[f] \in Uncharged,
           \A f \in Export : pc'[f] = "seeding" => pc[f] = "seeding" /\ read' = read
    PROVE  Credit'
  BY DEF Credit

LEMMA CreditRequest ==
    ASSUME ShapeInv, Credit, NEW e \in Export, Arrive(e) \/ SeedFails(e) \/ Finish(e) \/ Throw(e)
    PROVE  Credit'
<1> USE DEF envVars, quotaVars, ShapeInv
<1>1. PICK s : /\ Goto(e, s)
               /\ \/ pc[e] \in Uncharged /\ s \in {"reserving", "error"}
                  \/ pc[e] = "ingesting" /\ s = "releasing"
                  \/ pc[e] = "ingesting" /\ s = "failed"
                  \/ pc[e] = "ingesting" /\ s = "answered" /\ (e \in Sdk \/ Unused(e) = {})
  BY DEF Arrive, SeedFails, Runs, Finish, Throw, Uncharged
<1>2. UNCHANGED <<fate, stamp, rows, day, crashes, entry>>
  BY DEF Arrive, SeedFails, Finish, Throw
<1>3. \A f \in Export : pc'[f] = IF f = e THEN s ELSE pc[f]
  BY <1>1, PcAfter
<1>4. \A f \in Export : pc'[f] = "seeding" => pc[f] = "seeding" /\ read' = read
  <2>1. SeedFails(e) => \A f \in Export : pc[f] = "seeding" => f = e
    BY OneSeeds DEF SeedFails
  <2>2. SeedFails(e) \/ read' = read
    BY DEF Arrive, Finish, Throw
  <2> QED BY <1>1, <1>3, <2>1, <2>2
<1>5. \A f \in Export : pc[f] \in Uncharged => pc'[f] \in Uncharged
  BY <1>1, <1>3 DEF Uncharged
<1>6. Charged' = Charged
  <2>1. \A p \in Spend : p[1] # e => (p \in Charged' <=> p \in Charged)
    BY <1>2, <1>3 DEF Charged, Unstored, Unused, Spend
  <2>2. \A p \in Spend : p[1] = e => (p \in Charged' <=> p \in Charged)
    BY <1>1, <1>2, <1>3 DEF Charged, Unstored, Unused, Spend, Uncharged
  <2> QED BY <2>1, <2>2, ChargedPairs
<1> QED BY <1>2, <1>4, <1>5, <1>6, CreditKept

LEMMA CreditRoot ==
    ASSUME ShapeInv, Credit, NEW e \in Export, NEW x \in Root, RootStep(e, x) PROVE Credit'
<1> USE DEF ShapeInv
<1>1. UNCHANGED <<pc, entry, read, day, crashes>>
  BY DEF RootStep, ReplayHit, Refuse, Enqueue, Land, Drop, LandUnacknowledged, quotaVars, envVars
<1>2. \A g \in Export, y \in Root : g # e \/ y # x => fate'[g][y] = fate[g][y]
  BY DEF RootStep, ReplayHit, Refuse, Enqueue, Land, Drop, LandUnacknowledged, Becomes, TypeOK
<1>3. x \in RootsOf[e] /\ pc[e] \in {"ingesting", "failed"}
  BY DEF RootStep, ReplayHit, Refuse, Enqueue, Land, Drop, LandUnacknowledged, Fates
<1>4. \A p \in Spend : p[1] # e \/ p[2] # x => (p \in Charged' <=> p \in Charged)
  BY <1>1, <1>2 DEF Charged, Unstored, Unused, Spend
<1>5. \A p \in Spend : p[1] = e /\ p[2] = x => p \in Charged /\ p \in Charged'
  BY <1>1, <1>3 DEF Charged, Unstored, Unused
<1>6. Charged' = Charged
  BY <1>4, <1>5, ChargedPairs
<1> QED BY <1>1, <1>6, CreditKept

LEMMA CreditSeedRead ==
    ASSUME ShapeInv, Credit, NEW e \in Export, SeedRead(e) PROVE Credit'
<1> USE DEF envVars, ShapeInv
<1> SUFFICES ASSUME day' = FirstDay, crashes' = 0
             PROVE  /\ entry'.day # FirstDay /\ read'.day = FirstDay /\ read'.count = 0
                    /\ \A f \in Export : pc'[f] \in Uncharged
  BY DEF Credit
<1>1. UNCHANGED <<day, crashes, entry>> /\ entry.day # day
      /\ read' = [day |-> day, count |-> Cardinality(RowsSince(day))] /\ day \in Days
  BY DEF SeedRead, TypeOK
<1>2. \A f \in Export : pc[f] \in Uncharged
  BY <1>1 DEF Credit
<1>3. Cardinality(RowsSince(day)) = 0
  BY <1>1, <1>2, NothingCharged, FS_EmptySet
<1>4. \A f \in Export : pc'[f] \in Uncharged
  <2>1. \A f \in Export : pc'[f] = IF f = e THEN "seeding" ELSE pc[f]
    BY PcAfter DEF SeedRead
  <2> QED BY <1>2, <2>1 DEF Uncharged
<1> QED BY <1>1, <1>3, <1>4

LEMMA CreditGrant ==
    ASSUME ShapeInv, NEW e \in Export, NEW d \in Days \cup {NoDay}, NEW used \in Nat,
           Grant(e, d, used), chain # <<>>, pc[e] \in {"reserving", "seeding"},
           \A f \in Export : pc[f] = "seeding" => f = e,
           day = FirstDay /\ crashes = 0 => d = FirstDay /\ used = Cardinality(Charged),
           UNCHANGED <<fate, day, crashes>>
    PROVE  Credit'
<1> USE DEF ShapeInv
<1> SUFFICES ASSUME day' = FirstDay, crashes' = 0
             PROVE  /\ entry'.day = FirstDay /\ entry'.count = Cardinality(Charged')
                    /\ \A f \in Export : pc'[f] # "seeding"
  BY DEF Credit
<1>1. \A x \in Root : fate[e][x] = "none"
  BY DEF Fates, Uncharged
<1>2. entry'.day = FirstDay /\ used = Cardinality(Charged)
  BY Grants
<1>3. \A f \in Export : f # e => pc'[f] = pc[f]
  <2>1. Goto(e, "over") \/ Goto(e, "ingesting")
    BY DEF Grant
  <2> QED BY <2>1, PcAfter
<1>4. CASE pc' = [pc EXCEPT ![e] = "over"] /\ entry'.count = used
  <2>1. pc'[e] = "over"
    BY <1>4 DEF TypeOK
  <2>2. Charged' = Charged
    <3>1. \A p \in Spend : p[1] # e => (p \in Charged' <=> p \in Charged)
      BY <1>3 DEF Charged, Unstored, Unused, Spend
    <3>2. \A p \in Spend : p[1] = e => p \notin Charged /\ p \notin Charged'
      BY <1>1, <2>1 DEF Charged, Unstored, Unused, Spend
    <3> QED BY <3>1, <3>2, ChargedPairs
  <2> QED BY <1>2, <1>3, <1>4, <2>1, <2>2
<1>5. CASE pc' = [pc EXCEPT ![e] = "ingesting"] /\ entry'.count = used + Size(e)
  <2>1. pc'[e] = "ingesting"
    BY <1>5 DEF TypeOK
  <2> DEFINE R == Of(e, RootsOf[e])
  <2>2. R \subseteq Spend /\ IsFiniteSet(R) /\ Cardinality(R) = Size(e)
    BY OfCounts DEF Size
  <2>3. \A p \in Spend : p \in R <=> p[1] = e /\ p[2] \in RootsOf[e]
    BY DEF Of, Spend
  <2>4. \A p \in Spend : p[1] # e => (p \in Charged' <=> p \in Charged)
    BY <1>3 DEF Charged, Unstored, Unused, Spend
  <2>5. \A p \in Spend : p[1] = e => p \notin Charged /\ (p \in Charged' <=> p[2] \in RootsOf[e])
    BY <1>1, <2>1 DEF Charged, Unstored, Unused, Spend
  <2> HIDE DEF R
  <2>6. Charged' = Charged \cup R /\ Charged \cap R = {}
    BY <2>2, <2>3, <2>4, <2>5, ChargedPairs
  <2>7. Cardinality(Charged \cup R) = Cardinality(Charged) + Cardinality(R) - Cardinality(Charged \cap R)
    BY <2>2, ChargedPairs, FS_Union
  <2>8. Cardinality(Charged') = used + Size(e) - 0
    BY <1>2, <2>2, <2>6, <2>7, FS_EmptySet
  <2>9. Size(e) \in Nat
    BY RootsFinite
  <2> QED BY <1>2, <1>3, <1>5, <2>1, <2>8, <2>9
<1> QED BY <1>4, <1>5, Grants

LEMMA CreditReserve ==
    ASSUME ShapeInv, Credit, NEW e \in Export, Reserve(e) \/ SeedSet(e) PROVE Credit'
<1> USE DEF envVars, ShapeInv
<1>0. day \in Days \cup {NoDay} /\ entry.count \in Nat /\ read.count \in Nat /\ read.day \in Days \cup {NoDay}
  BY DEF TypeOK
<1>1. CASE Reserve(e)
  <2>1. \A f \in Export : pc[f] = "seeding" => f = e
    BY <1>1, OneSeeds DEF Reserve
  <2>2. day = FirstDay /\ crashes = 0 => entry.count = Cardinality(Charged)
    BY <1>1 DEF Credit, Reserve
  <2> QED BY <1>0, <1>1, <2>1, <2>2, CreditGrant DEF Reserve, Runs
<1>2. CASE SeedSet(e)
  <2>1. \A f \in Export : pc[f] = "seeding" => f = e
    BY <1>2, OneSeeds DEF SeedSet
  <2>2. pc[e] = "seeding" /\ chain # <<>> /\ Grant(e, read.day, read.count)
    BY <1>2 DEF SeedSet, Runs
  <2>3. ASSUME day = FirstDay, crashes = 0 PROVE read.day = FirstDay /\ read.count = Cardinality(Charged)
    <3>1. entry.day # FirstDay /\ read.day = FirstDay /\ read.count = 0
      BY <2>2, <2>3 DEF Clock, Credit
    <3>2. Charged = {}
      BY <2>3, <3>1, NothingCharged DEF Credit
    <3> QED BY <3>1, <3>2, FS_EmptySet
  <2> QED BY <1>0, <1>2, <2>1, <2>2, <2>3, CreditGrant DEF SeedSet
<1> QED BY <1>1, <1>2

LEMMA CreditRelease ==
    ASSUME ShapeInv, Credit, NEW e \in Export, Release(e) PROVE Credit'
<1> USE DEF ShapeInv
<1>1. /\ \A f \in Export : pc'[f] = IF f = e THEN "answered" ELSE pc[f]
      /\ pc[e] = "releasing"
      /\ \A f \in Export : pc'[f] # "seeding"
      /\ UNCHANGED <<fate, day, crashes>>
  BY PcAfter, OneSeeds DEF Release, Runs, envVars
<1> SUFFICES ASSUME day = FirstDay, crashes = 0
             PROVE  entry'.day = FirstDay /\ entry'.count = Cardinality(Charged')
  BY <1>1 DEF Credit
<1>2. entry.day = FirstDay /\ entry.count = Cardinality(Charged)
  BY <1>1 DEF Credit, Uncharged
<1> DEFINE U == Of(e, Unused(e))
<1>3. U \subseteq Spend /\ IsFiniteSet(U) /\ Cardinality(U) = Cardinality(Unused(e))
      /\ Cardinality(Unused(e)) \in Nat
  BY RootsFinite, OfCounts
<1>4. \A p \in Spend : p \in U <=> p[1] = e /\ p[2] \in Unused(e)
  BY DEF Of, Spend
<1>5. \A p \in Spend : p[1] # e => (p \in Charged' <=> p \in Charged)
  BY <1>1 DEF Charged, Unstored, Unused, Spend
<1>6. \A p \in Spend : p[1] = e => (p \in Charged <=> p[2] \in RootsOf[e])
  BY <1>1 DEF Charged, Unstored, Unused, Spend
<1>7. \A p \in Spend : p[1] = e => (p \in Charged' <=> p[2] \in RootsOf[e] /\ fate[e][p[2]] = "stored")
  <2>1. e \notin Sdk
    BY <1>1 DEF Fates
  <2> QED BY <1>1, <2>1 DEF Charged, Unstored, Unused, Spend
<1> HIDE DEF U
<1>8. U \subseteq Charged /\ Charged' = Charged \ U
  BY <1>3, <1>4, <1>5, <1>6, <1>7, ChargedPairs DEF Unused
<1>9. Cardinality(Charged \ U) = Cardinality(Charged) - Cardinality(Charged \cap U)
  BY ChargedPairs, FS_Difference
<1>10. Charged \cap U = U /\ Cardinality(U) <= Cardinality(Charged)
  BY <1>8, ChargedPairs, FS_Subset
<1>11. /\ Cardinality(Charged') = Cardinality(Charged) - Cardinality(Unused(e))
       /\ Cardinality(Unused(e)) <= entry.count
  BY <1>2, <1>3, <1>8, <1>9, <1>10
<1> QED BY <1>2, <1>11, Releases

LEMMA CreditInit == Init => Credit
<1> SUFFICES ASSUME Init PROVE Credit
  OBVIOUS
<1>1. entry.day # FirstDay /\ \A e \in Export : pc[e] = "idle"
  BY BoundAssumption DEF Init, NoEntry, NoDay
<1> QED BY <1>1 DEF Credit, Uncharged

LEMMA CreditStep == ShapeInv /\ Credit /\ [Next]_vars => Credit'
<1> SUFFICES ASSUME ShapeInv, Credit, [Next]_vars PROVE Credit'
  OBVIOUS
<1>1. CASE UNCHANGED vars
  <2>1. Charged' = Charged
    BY <1>1 DEF vars, requestVars, Charged, Unstored, Unused
  <2> QED BY <1>1, <2>1, CreditKept DEF vars, requestVars, quotaVars, envVars
<1>2. CASE DayEnds \/ Crash
  <2>1. day >= FirstDay /\ FirstDay \in Nat /\ day \in Nat /\ crashes \in Nat
    BY BoundAssumption DEF ShapeInv, TypeOK, Days
  <2>2. day' # FirstDay \/ crashes' # 0
    BY <1>2, <2>1 DEF DayEnds, Crash
  <2> QED BY <2>2 DEF Credit
<1>3. CASE Next
  BY <1>1, <1>2, <1>3, CreditRoot, CreditRequest, CreditSeedRead, CreditReserve, CreditRelease
     DEF Next, ChainStep, Quiescent
<1> QED BY <1>1, <1>3

\* Until midnight or a restart the counter is, to the root, what the store holds,
\* whatever its dates, and what is still charged: nothing is handed back twice or forgotten (the release of
\* routes/otlp.ts, whatever mix of fates its roots met).
THEOREM CreditAccounted == Spec => []CreditIsAccountedFor
<1>1. Init => ShapeInv /\ Credit
  BY ShapeInit, CreditInit
<1>2. ShapeInv /\ Credit /\ [Next]_vars => (ShapeInv /\ Credit)'
  BY ShapeStep, CreditStep
<1>3. ShapeInv /\ Credit => CreditIsAccountedFor
  <2> SUFFICES ASSUME ShapeInv, Credit, entry.day = FirstDay, day = FirstDay, crashes = 0
               PROVE  entry.count + Cardinality(Unacknowledged) =
                          Cardinality(RowsSince(NoDay)) + Cardinality(Unstored)
    BY DEF CreditIsAccountedFor
  <2> DEFINE T == {p \in Spend : fate[p[1]][p[2]] = "stored"}
             S == {p \in Spend : fate[p[1]][p[2]] \in InStore /\ rows[p[2]] >= NoDay}
             n == Cardinality(RowsSince(NoDay))
  <2>1. entry.count = Cardinality(Charged)
    BY DEF Credit
  <2>2. Cardinality(S) = n
    BY RowsCounted DEF ShapeInv, NoDay
  <2>3. S = T \cup Unacknowledged /\ T \cap Unacknowledged = {}
    BY DEF Unacknowledged, InStore, NoDay, ShapeInv, TypeOK, Spend
  <2>4. Charged = T \cup Unstored /\ T \cap Unstored = {}
    BY DEF Charged, Unstored, Unused, Spend, ShapeInv, Fates
  <2>5. /\ IsFiniteSet(T) /\ IsFiniteSet(Unacknowledged) /\ IsFiniteSet(Unstored)
        /\ Cardinality(T) \in Nat /\ Cardinality(Unacknowledged) \in Nat /\ Cardinality(Unstored) \in Nat
    BY PairsFinite DEF Unacknowledged, Unstored
  <2> HIDE DEF T, S, n
  <2>6. Cardinality(S) = Cardinality(T) + Cardinality(Unacknowledged) - 0
    BY <2>3, <2>5, FS_Union, FS_EmptySet
  <2>7. Cardinality(Charged) = Cardinality(T) + Cardinality(Unstored) - 0
    BY <2>4, <2>5, FS_Union, FS_EmptySet
  <2>8. entry.count + Cardinality(Unacknowledged) = n + Cardinality(Unstored)
    BY <2>1, <2>2, <2>5, <2>6, <2>7
  <2> QED BY <2>8 DEF n
<1> QED BY <1>1, <1>2, <1>3, PTL DEF Spec
=============================================================================
