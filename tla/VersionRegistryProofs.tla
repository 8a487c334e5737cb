----------------------- MODULE VersionRegistryProofs ------------------------
(***************************************************************************)
(* Proofs about VersionRegistry, for any number of publishes and any       *)
(* budget of attempts, crashes and a deletion included.                    *)
(*                                                                         *)
(* The inductive invariant is the conjunction of what a publish knows at   *)
(* each place (Begun), what it has put into the log (Stored), how often it *)
(* was overtaken (Counted), and how far the record may lag behind the log  *)
(* (Caught).  That the log has a newest version (HasNewest) is carried as  *)
(* part of it, so that nextFreeVersion is defined without an induction     *)
(* over the log.  LogInv is on top of it for the refinement of VersionLog: *)
(* numbers are taken one after the other (Dense).                          *)
(***************************************************************************)
EXTENDS VersionRegistry, TLAPS

HasNewest == versions # {} => \E w \in versions : \A v \in versions : v.n <= w.n

\* A publish that is trying has read an existing record and aims above it
Begun ==
    /\ maker # "start" => current >= 1
    /\ maker = "start" => current = 0 /\ versions = {} /\ \A p \in Publisher : pub[p].at = "idle"
    /\ \A p \in Publisher : pub[p].at \in Waiting => pub[p].cur >= 1
    /\ \A p \in Publisher : pub[p].at = "insert" => pub[p].next > 1
    /\ \A p \in Publisher : pub[p].at = "merge" => p \in Adopter

Stored ==
    \A p \in Publisher :
        pub[p].at \in {"forward", "merge", "ok"} /\ deleter \in {"start", "versions"}
            => \E v \in versions : v.by = p /\ v.n = pub[p].next

Counted ==
    \A p \in Publisher :
        /\ pub[p].attempt <= outraced[p]
        /\ pub[p].at = "insert" /\ pub[p].next \in Numbers => pub[p].attempt + 1 <= outraced[p]
        /\ pub[p].at = "refused" => pub[p].attempt = MaxAttempts

Caught ==
    deleter = "start" =>
        /\ maker # "start" => row
        /\ maker = "done" => current \in Numbers
        /\ maker = "first" => current = 1 \/ current \in Numbers
        /\ crashes = 0 => \A v \in versions :
              \/ v.n <= current
              \/ \E p \in Publisher : pub[p].at = "forward" /\ pub[p].next = v.n

IInv == TypeOK /\ HasNewest /\ NumbersAreUnique /\ Begun /\ Stored /\ Counted /\ Caught

-----------------------------------------------------------------------------
(* nextFreeVersion *)

\* The next free number is above the record and above the whole log
LEMMA NextFreeIsAbove ==
    ASSUME TypeOK, HasNewest, NEW cur \in Nat
    PROVE  /\ NextFree(cur) \in Nat
           /\ NextFree(cur) > cur
           /\ \A v \in versions : NextFree(cur) > v.n
           /\ NextFree(cur) - 1 \in Numbers \cup {cur}
<1> DEFINE S == Numbers \cup {cur}
<1>1. S \subseteq Nat
  BY DEF Numbers, TypeOK, Version
<1>2. \E n \in S : \A k \in S : k <= n
  <2>1. CASE versions = {}
    BY <2>1 DEF Numbers
  <2>2. CASE versions # {}
    <3>1. PICK w \in versions : \A v \in versions : v.n <= w.n
      BY <2>2 DEF HasNewest
    <3>2. w.n \in S /\ cur \in S /\ \A k \in S : k <= w.n \/ k <= cur
      BY <3>1 DEF Numbers
    <3>3. w.n \in Nat
      BY DEF TypeOK, Version
    <3>4. CASE w.n <= cur
      BY <1>1, <3>2, <3>3, <3>4
    <3>5. CASE cur <= w.n
      BY <1>1, <3>2, <3>3, <3>5
    <3> QED BY <3>3, <3>4, <3>5
  <2> QED BY <2>1, <2>2
<1>3. Largest(S) \in S /\ \A k \in S : k <= Largest(S)
  BY <1>2 DEF Largest
<1>4. NextFree(cur) = Largest(S) + 1
  BY DEF NextFree
<1>5. cur \in S /\ \A v \in versions : v.n \in S
  BY DEF Numbers
<1>6. Largest(S) \in Nat /\ cur <= Largest(S)
  BY <1>1, <1>3, <1>5
<1>7. ASSUME NEW v \in versions PROVE v.n \in Nat /\ v.n <= Largest(S)
  BY <1>1, <1>3, <1>5
<1>8. Largest(S) \in Numbers \cup {cur}
  BY <1>3
<1> QED
  <2> HIDE DEF S
  <2> QED BY <1>4, <1>6, <1>7, <1>8

-----------------------------------------------------------------------------
(* The steps *)

LEMMA InitIInv == Init => IInv
<1> SUFFICES ASSUME Init PROVE IInv
  OBVIOUS
<1>1. TypeOK
  BY DEF Init, TypeOK, Publish, Places
<1>2. HasNewest /\ NumbersAreUnique /\ Stored /\ Caught
  BY DEF Init, HasNewest, NumbersAreUnique, Stored, Caught
<1>3. Begun /\ Counted
  BY DEF Init, Begun, Counted, Waiting, Numbers
<1> QED BY <1>1, <1>2, <1>3 DEF IInv

LEMMA CreateRecordStep == IInv /\ CreateRecord => IInv'
<1> SUFFICES ASSUME IInv, CreateRecord PROVE IInv'
  OBVIOUS
<1> USE DEF CreateRecord, IInv
<1>1. TypeOK'
  BY DEF TypeOK
<1>2. HasNewest' /\ NumbersAreUnique'
  BY DEF HasNewest, NumbersAreUnique
<1>3. Stored' /\ Counted'
  BY DEF Stored, Counted, Numbers
<1>4. Begun'
  BY DEF Begun, Waiting
<1>5. Caught'
  BY DEF Caught, Begun, Numbers
<1> QED BY <1>1, <1>2, <1>3, <1>4, <1>5

LEMMA CreateFirstStep == IInv /\ CreateFirst => IInv'
<1> SUFFICES ASSUME IInv, CreateFirst PROVE IInv'
  OBVIOUS
<1> DEFINE one == [n |-> 1, by |-> Creator]
<1>0. one \in Version /\ one.n = 1
  BY DEF Version
<1>1. TypeOK'
  BY <1>0 DEF CreateFirst, IInv, TypeOK
<1>2. versions' = versions \/ versions' = versions \cup {one}
  BY DEF CreateFirst
<1>3. HasNewest'
  <2>1. ASSUME versions' = versions \cup {one} PROVE HasNewest'
    <3>1. CASE versions = {}
      BY <2>1, <3>1 DEF HasNewest
    <3>2. CASE versions # {}
      <4>1. PICK w \in versions : \A v \in versions : v.n <= w.n
        BY <3>2 DEF IInv, HasNewest
      <4>2. w.n \in Nat
        BY DEF IInv, TypeOK, Version
      <4>3. CASE w.n >= 1
        BY <2>1, <4>1, <4>3, <1>0 DEF HasNewest
      <4>4. CASE w.n = 0
        BY <2>1, <4>1, <4>4, <1>0 DEF HasNewest, IInv, TypeOK, Version
      <4> QED BY <4>2, <4>3, <4>4
    <3> QED BY <3>1, <3>2
  <2> QED BY <1>2, <2>1 DEF IInv, HasNewest
<1>4. NumbersAreUnique'
  BY DEF CreateFirst, IInv, NumbersAreUnique, Numbers
<1>5. Begun'
  BY DEF CreateFirst, IInv, Begun, Waiting
<1>6. Stored'
  BY <1>2 DEF CreateFirst, IInv, Stored
<1>7. Counted'
  BY <1>0, <1>2 DEF CreateFirst, IInv, Counted, Numbers, Begun, TypeOK, Publish
<1>8. Caught'
  <2>1. Numbers \subseteq Numbers' /\ 1 \in Numbers'
    BY <1>0 DEF CreateFirst, Numbers
  <2>2. current >= 1
    BY DEF CreateFirst, IInv, Begun
  <2>3. \A v \in versions' : v \in versions \/ v.n = 1
    BY <1>0, <1>2
  <2> QED BY <2>1, <2>2, <2>3 DEF CreateFirst, IInv, Caught
<1> QED BY <1>1, <1>3, <1>4, <1>5, <1>6, <1>7, <1>8 DEF IInv

\* A step of publish p changes its own record only
OwnStep(p) ==
    /\ pub' \in [Publisher -> Publish]
    /\ \A q \in Publisher : q # p => pub'[q] = pub[q]

LEMMA ReadRecordEffect ==
    ASSUME NEW p \in Publisher, TypeOK, ReadRecord(p)
    PROVE  /\ OwnStep(p)
           /\ pub'[p].at \in {"scan", "gone"}
           /\ pub'[p].attempt = pub[p].attempt
           /\ pub'[p].cur = current
           /\ pub[p].at = "idle" /\ maker # "start"
           /\ UNCHANGED <<row, current, resolved, versions, maker, outraced, deleter, crashes>>
  BY DEF ReadRecord, OwnStep, TypeOK, Publish, Places

LEMMA ScanEffect ==
    ASSUME NEW p \in Publisher, TypeOK, HasNewest, Scan(p)
    PROVE  /\ OwnStep(p)
           /\ pub[p].at = "scan" /\ pub'[p].at = "insert"
           /\ pub'[p].attempt = pub[p].attempt
           /\ pub'[p].cur = pub[p].cur
           /\ pub'[p].next > pub[p].cur
           /\ pub'[p].next \notin Numbers
           /\ pub'[p].next - 1 \in Numbers \cup {pub[p].cur}
           /\ UNCHANGED <<row, current, resolved, versions, maker, outraced, deleter, crashes>>
<1>1. pub[p].cur \in Nat
  BY DEF TypeOK, Publish
<1> DEFINE n == NextFree(pub[p].cur)
<1>2. n \in Nat /\ n > pub[p].cur /\ (\A v \in versions : n > v.n)
      /\ n - 1 \in Numbers \cup {pub[p].cur}
  BY <1>1, NextFreeIsAbove
<1>3. n \notin Numbers
  BY <1>2 DEF Numbers, TypeOK, Version
<1> HIDE DEF n
<1>4. pub' = [pub EXCEPT ![p] = [pub[p] EXCEPT !.at = "insert", !.next = n]]
  BY DEF Scan, n
<1>5. /\ OwnStep(p)
      /\ pub'[p].at = "insert" /\ pub'[p].next = n
      /\ pub'[p].attempt = pub[p].attempt /\ pub'[p].cur = pub[p].cur
  BY <1>2, <1>4 DEF OwnStep, TypeOK, Publish, Places
<1> QED BY <1>2, <1>3, <1>5 DEF Scan

LEMMA ClaimEffect ==
    ASSUME NEW p \in Publisher, TypeOK, Claim(p)
    PROVE  /\ OwnStep(p)
           /\ pub[p].at = "insert" /\ pub'[p].at = "forward"
           /\ pub'[p].attempt = pub[p].attempt
           /\ pub'[p].next = pub[p].next
           /\ pub[p].next \notin Numbers
           /\ versions' = versions \cup {[n |-> pub[p].next, by |-> p]}
           /\ Overtake(p)
           /\ UNCHANGED <<row, current, resolved, maker, deleter, crashes>>
  BY DEF Claim, OwnStep, TypeOK, Publish, Places, Taken

LEMMA RetryEffect ==
    ASSUME NEW p \in Publisher, TypeOK, Retry(p)
    PROVE  /\ OwnStep(p)
           /\ pub[p].at = "insert" /\ pub'[p].at \in {"idle", "refused"}
           /\ pub'[p].at = "refused" => pub'[p].attempt = MaxAttempts
           /\ pub'[p].attempt = pub[p].attempt + 1
           /\ pub[p].next \in Numbers
           /\ UNCHANGED <<row, current, resolved, versions, maker, outraced, deleter, crashes>>
<1> DEFINE tries == pub[p].attempt + 1
           at == IF tries = MaxAttempts THEN "refused" ELSE "idle"
<1>1. tries \in Nat /\ at \in {"idle", "refused"} /\ (at = "refused" => tries = MaxAttempts)
  BY DEF TypeOK, Publish
<1> HIDE DEF tries, at
<1>2. pub' = [pub EXCEPT ![p] = [pub[p] EXCEPT !.attempt = tries, !.at = at]]
  BY DEF Retry, tries, at
<1>3. OwnStep(p) /\ pub'[p].at = at /\ pub'[p].attempt = tries
  BY <1>1, <1>2 DEF OwnStep, TypeOK, Publish, Places
<1> QED BY <1>1, <1>3 DEF Retry, Taken, tries

LEMMA ForwardEffect ==
    ASSUME NEW p \in Publisher, TypeOK, Forward(p)
    PROVE  /\ OwnStep(p)
           /\ pub[p].at = "forward" /\ pub'[p].at \in {"merge", "ok"}
           /\ pub'[p].at = "merge" => p \in Adopter
           /\ pub'[p].attempt = pub[p].attempt
           /\ pub'[p].next = pub[p].next
           /\ current' \in Nat /\ current' >= current
           /\ current' \in {current, pub[p].next}
           /\ row => current' >= pub[p].next
           /\ UNCHANGED <<row, resolved, versions, maker, outraced, deleter, crashes>>
  BY DEF Forward, Forwarded, OwnStep, TypeOK, Publish, Places

LEMMA MergeEffect ==
    ASSUME NEW p \in Publisher, TypeOK, Merge(p), p \in Adopter
    PROVE  /\ OwnStep(p)
           /\ pub[p].at = "merge" /\ pub'[p].at = "ok"
           /\ pub'[p].attempt = pub[p].attempt
           /\ pub'[p].next = pub[p].next
           /\ resolved' \subseteq Adopter
           /\ UNCHANGED <<row, current, versions, maker, outraced, deleter, crashes>>
  BY DEF Merge, OwnStep, TypeOK, Publish, Places

LEMMA CrashEffect ==
    ASSUME NEW p \in Publisher, TypeOK, PublisherCrashes(p)
    PROVE  /\ OwnStep(p)
           /\ pub[p].at # "idle" /\ pub'[p].at = "dead"
           /\ pub'[p].attempt = pub[p].attempt
           /\ crashes' = crashes + 1
           /\ UNCHANGED <<row, current, resolved, versions, maker, outraced, deleter>>
  BY DEF PublisherCrashes, OwnStep, TypeOK, Publish, Places, Working

LEMMA ReadRecordStep == ASSUME NEW p \in Publisher, IInv, ReadRecord(p) PROVE IInv'
<1> USE ReadRecordEffect
<1>0. TypeOK /\ HasNewest /\ NumbersAreUnique /\ Begun /\ Stored /\ Counted /\ Caught
  BY DEF IInv
<1> USE <1>0
<1>1. TypeOK'
  BY DEF TypeOK, OwnStep
<1>2. HasNewest' /\ NumbersAreUnique'
  BY DEF HasNewest, NumbersAreUnique
<1>3. Begun'
  BY DEF Begun, TypeOK, Waiting, OwnStep
<1>4. Stored'
  BY DEF Stored, TypeOK, OwnStep
<1>5. Counted'
  BY DEF Counted, TypeOK, Numbers, Publish, OwnStep
<1>6. Caught'
  BY DEF Caught, TypeOK, Numbers, OwnStep
<1> QED BY <1>1, <1>2, <1>3, <1>4, <1>5, <1>6 DEF IInv

LEMMA ScanStep == ASSUME NEW p \in Publisher, IInv, Scan(p) PROVE IInv'
<1> USE ScanEffect
<1>0. TypeOK /\ HasNewest /\ NumbersAreUnique /\ Begun /\ Stored /\ Counted /\ Caught
  BY DEF IInv
<1> USE <1>0
<1>1. TypeOK'
  BY DEF TypeOK, OwnStep
<1>2. HasNewest' /\ NumbersAreUnique'
  BY DEF HasNewest, NumbersAreUnique
<1>3. Begun'
  <2>1. pub[p].cur >= 1 /\ pub[p].cur \in Nat
    BY DEF Begun, TypeOK, Publish, Waiting
  <2>2. pub'[p].next \in Nat
    BY DEF OwnStep, Publish
  <2>3. pub'[p].next > 1
    BY <2>1, <2>2
  <2> QED BY <2>1, <2>3 DEF Begun, Waiting, OwnStep
<1>4. Stored'
  BY DEF Stored, TypeOK, OwnStep
<1>5. Counted'
  BY DEF Counted, TypeOK, Numbers, Publish, OwnStep
<1>6. Caught'
  BY DEF Caught, TypeOK, Numbers, OwnStep
<1> QED BY <1>1, <1>2, <1>3, <1>4, <1>5, <1>6 DEF IInv

LEMMA RetryStep == ASSUME NEW p \in Publisher, IInv, Retry(p) PROVE IInv'
<1> USE RetryEffect
<1>0. TypeOK /\ HasNewest /\ NumbersAreUnique /\ Begun /\ Stored /\ Counted /\ Caught
  BY DEF IInv
<1> USE <1>0
<1>1. TypeOK'
  BY DEF TypeOK, OwnStep
<1>2. HasNewest' /\ NumbersAreUnique'
  BY DEF HasNewest, NumbersAreUnique
<1>3. Begun'
  BY DEF Begun, TypeOK, Waiting, OwnStep
<1>4. Stored'
  BY DEF Stored, TypeOK, OwnStep
<1>5. Counted'
  BY DEF Counted, TypeOK, Numbers, Publish, OwnStep
<1>6. Caught'
  BY DEF Caught, TypeOK, Numbers, OwnStep
<1> QED BY <1>1, <1>2, <1>3, <1>4, <1>5, <1>6 DEF IInv

LEMMA ForwardStep == ASSUME NEW p \in Publisher, IInv, Forward(p) PROVE IInv'
<1> USE ForwardEffect
<1>0. TypeOK /\ HasNewest /\ NumbersAreUnique /\ Begun /\ Stored /\ Counted /\ Caught
  BY DEF IInv
<1> USE <1>0
<1>1. TypeOK'
  BY DEF TypeOK, OwnStep
<1>2. HasNewest' /\ NumbersAreUnique'
  BY DEF HasNewest, NumbersAreUnique
<1>3. Begun'
  BY DEF Begun, TypeOK, Waiting, OwnStep
<1>4. Stored'
  BY DEF Stored, TypeOK, OwnStep
<1>5. Counted'
  BY DEF Counted, TypeOK, Numbers, Publish, OwnStep
<1>6. Caught'
  <2>1. deleter = "start" => pub[p].next \in Numbers
    BY DEF Stored, Numbers
  <2>2. \A v \in versions : v.n \in Nat
    BY DEF TypeOK, Version
  <2>3. maker # "start" /\ pub[p].next \in Nat
    BY DEF Begun, TypeOK, Publish
  <2>4. ASSUME deleter = "start", crashes = 0, NEW v \in versions
        PROVE  \/ v.n <= current'
               \/ \E q \in Publisher : pub'[q].at = "forward" /\ pub'[q].next = v.n
    <3>1. CASE v.n <= current
      BY <2>2, <3>1 DEF TypeOK
    <3>2. ASSUME NEW q \in Publisher, pub[q].at = "forward", pub[q].next = v.n
          PROVE  \/ v.n <= current'
                 \/ pub'[q].at = "forward" /\ pub'[q].next = v.n
      BY <2>3, <2>4, <3>2 DEF OwnStep, Caught
    <3> QED BY <2>4, <3>1, <3>2 DEF Caught
  <2>5. deleter = "start" =>
           (maker = "done" => current' \in Numbers) /\ (maker = "first" => current' = 1 \/ current' \in Numbers)
    BY <2>1 DEF Caught
  <2>6. Numbers' = Numbers
    BY DEF Numbers
  <2> QED BY <2>3, <2>4, <2>5, <2>6 DEF Caught
<1> QED BY <1>1, <1>2, <1>3, <1>4, <1>5, <1>6 DEF IInv

LEMMA MergeStep == ASSUME NEW p \in Publisher, IInv, Merge(p) PROVE IInv'
<1>a. p \in Adopter
  BY DEF IInv, Begun, Merge
<1> USE <1>a, MergeEffect
<1>0. TypeOK /\ HasNewest /\ NumbersAreUnique /\ Begun /\ Stored /\ Counted /\ Caught
  BY DEF IInv
<1> USE <1>0
<1>1. TypeOK'
  BY DEF TypeOK, OwnStep
<1>2. HasNewest' /\ NumbersAreUnique'
  BY DEF HasNewest, NumbersAreUnique
<1>3. Begun'
  BY DEF Begun, TypeOK, Waiting, OwnStep
<1>4. Stored'
  BY DEF Stored, TypeOK, OwnStep
<1>5. Counted'
  BY DEF Counted, TypeOK, Numbers, Publish, OwnStep
<1>6. Caught'
  BY DEF Caught, TypeOK, Numbers, OwnStep
<1> QED BY <1>1, <1>2, <1>3, <1>4, <1>5, <1>6 DEF IInv

LEMMA CrashStep == ASSUME NEW p \in Publisher, IInv, PublisherCrashes(p) PROVE IInv'
<1> USE CrashEffect
<1>0. TypeOK /\ HasNewest /\ NumbersAreUnique /\ Begun /\ Stored /\ Counted /\ Caught
  BY DEF IInv
<1> USE <1>0
<1>1. TypeOK'
  BY DEF TypeOK, OwnStep
<1>2. HasNewest' /\ NumbersAreUnique'
  BY DEF HasNewest, NumbersAreUnique
<1>3. Begun'
  BY DEF Begun, TypeOK, Waiting, OwnStep
<1>4. Stored'
  BY DEF Stored, TypeOK, OwnStep
<1>5. Counted'
  BY DEF Counted, TypeOK, Numbers, Publish, OwnStep
<1>6. Caught'
  BY DEF Caught, TypeOK, Numbers, OwnStep
<1> QED BY <1>1, <1>2, <1>3, <1>4, <1>5, <1>6 DEF IInv

LEMMA ClaimStep == ASSUME NEW p \in Publisher, IInv, Claim(p) PROVE IInv'
<1> USE ClaimEffect
<1>0. TypeOK /\ HasNewest /\ NumbersAreUnique /\ Begun /\ Stored /\ Counted /\ Caught
  BY DEF IInv
<1> USE <1>0
<1> DEFINE new == [n |-> pub[p].next, by |-> p]
<1>a. new \in Version /\ new.n = pub[p].next /\ new.by = p /\ pub[p].next \in Nat
  BY DEF TypeOK, Publish, Version
<1>b. versions' = versions \cup {new}
  OBVIOUS
<1>c. Numbers' = Numbers \cup {pub[p].next}
  BY <1>a, <1>b DEF Numbers
<1>d. \A v \in versions : v.n \in Nat
  BY DEF TypeOK, Version
<1>e. outraced' \in [Publisher -> Nat] /\ \A q \in Publisher : outraced'[q] >= outraced[q]
  BY DEF Overtake, TypeOK
<1>f. \A q \in Publisher : q # p /\ pub[q].at \in Waiting => outraced'[q] = outraced[q] + 1
  BY DEF Overtake
<1> HIDE DEF new
<1>1. TypeOK'
  BY <1>a, <1>b, <1>e DEF TypeOK, OwnStep
<1>2. HasNewest'
  <2>1. CASE versions = {}
    BY <2>1, <1>a, <1>b DEF HasNewest
  <2>2. CASE versions # {}
    <3>1. PICK w \in versions : \A v \in versions : v.n <= w.n
      BY <2>2 DEF HasNewest
    <3>2. CASE new.n <= w.n
      BY <1>b, <3>1, <3>2 DEF HasNewest
    <3>3. CASE w.n <= new.n
      BY <1>a, <1>b, <1>d, <3>1, <3>3 DEF HasNewest
    <3> QED BY <1>a, <1>d, <3>2, <3>3
  <2> QED BY <2>1, <2>2
<1>3. NumbersAreUnique'
  BY <1>a, <1>b DEF NumbersAreUnique, Numbers
<1>4. Begun'
  BY DEF Begun, Waiting, OwnStep
<1>5. Stored'
  BY <1>a, <1>b DEF Stored, OwnStep
<1>6. Counted'
  <2> SUFFICES ASSUME NEW q \in Publisher
               PROVE  /\ pub'[q].attempt <= outraced'[q]
                      /\ pub'[q].at = "insert" /\ pub'[q].next \in Numbers'
                            => pub'[q].attempt + 1 <= outraced'[q]
                      /\ pub'[q].at = "refused" => pub'[q].attempt = MaxAttempts
    BY DEF Counted
  <2>1. /\ pub[q].attempt \in Nat /\ outraced[q] \in Nat /\ outraced'[q] \in Nat
        /\ pub[q].attempt <= outraced[q] /\ outraced'[q] >= outraced[q]
    BY <1>e DEF TypeOK, Publish, Counted
  <2>2. CASE q = p
    BY <2>1, <2>2
  <2>3. CASE q # p
    BY <2>1, <2>3, <1>c, <1>f DEF Counted, Waiting, OwnStep
  <2> QED BY <2>2, <2>3
<1>7. Caught'
  <2>1. ASSUME NEW v \in versions'
        PROVE  v \in versions \/ (pub'[p].at = "forward" /\ pub'[p].next = v.n)
    BY <1>a, <1>b
  <2>2. ASSUME NEW q \in Publisher, pub[q].at = "forward" PROVE pub'[q] = pub[q]
    BY <2>2 DEF OwnStep
  <2> QED BY <1>c, <2>1, <2>2 DEF Caught
<1> QED BY <1>1, <1>2, <1>3, <1>4, <1>5, <1>6, <1>7 DEF IInv

LEMMA DeleteSteps == IInv /\ DeleteStep => IInv'
<1> SUFFICES ASSUME IInv, DeleteStep PROVE IInv'
  OBVIOUS
<1> USE DEF IInv
<1>1. CASE ReadToDelete
  BY <1>1 DEF ReadToDelete, TypeOK, HasNewest, NumbersAreUnique, Begun, Waiting, Stored, Counted,
     Caught, Numbers
<1>2. CASE DeleteVersions
  <2> USE <1>2 DEF DeleteVersions
  <2>1. TypeOK'
    BY DEF TypeOK
  <2>2. HasNewest' /\ NumbersAreUnique' /\ Stored' /\ Caught'
    BY DEF HasNewest, NumbersAreUnique, Stored, Caught
  <2>3. Begun'
    BY DEF Begun, Waiting
  <2>4. Counted'
    BY DEF Counted, Numbers
  <2> QED BY <2>1, <2>2, <2>3, <2>4
<1>3. CASE DeleteRecord
  BY <1>3 DEF DeleteRecord, TypeOK, HasNewest, NumbersAreUnique, Begun, Waiting, Stored, Counted,
     Caught, Numbers
<1> QED BY <1>1, <1>2, <1>3 DEF DeleteStep

LEMMA StepIInv == IInv /\ [Next]_vars => IInv'
<1> SUFFICES ASSUME IInv, [Next]_vars PROVE IInv'
  OBVIOUS
<1>1. CASE UNCHANGED vars
  BY <1>1 DEF vars, IInv, TypeOK, HasNewest, NumbersAreUnique, Begun, Waiting, Stored, Counted,
     Caught, Numbers
<1>2. CASE CreateRecord \/ CreateFirst \/ DeleteStep
  BY <1>2, CreateRecordStep, CreateFirstStep, DeleteSteps
<1>3. ASSUME NEW p \in Publisher, PublishStep(p) \/ PublisherCrashes(p) PROVE IInv'
  BY <1>3, ReadRecordStep, ScanStep, ClaimStep, RetryStep, ForwardStep, MergeStep,
     CrashStep DEF PublishStep
<1> QED BY <1>1, <1>2, <1>3 DEF Next

THEOREM IInvHolds == Spec => []IInv
  BY InitIInv, StepIInv, PTL DEF Spec

-----------------------------------------------------------------------------
(* The theorems *)

\* Types, for any number of publishes and attempts (prompts.ts, toolSchemas.ts)
THEOREM TypeHolds == Spec => []TypeOK
<1>1. IInv => TypeOK
  BY DEF IInv
<1> QED BY <1>1, IInvHolds, PTL

\* A publish that was answered is in the log until the record is deleted
\* (publishPromptVersion).
THEOREM PublishesAreStored == Spec => []AnsweredIsStored
<1>1. IInv => AnsweredIsStored
  BY DEF IInv, Stored, AnsweredIsStored, Answered
<1> QED BY <1>1, IInvHolds, PTL

\* A publish gives up only after others published MaxAttempts versions while it
\* was trying (the retry loop of publishPromptVersion).
THEOREM RefusalsAreEarned == Spec => []RefusedOnlyWhenOutraced
<1>1. IInv => RefusedOnlyWhenOutraced
  BY AttemptAssumption DEF IInv, Counted, TypeOK, RefusedOnlyWhenOutraced
<1> QED BY <1>1, IInvHolds, PTL

\* Once the publishes have moved the record forward it is at the newest version
\* of the log (publishPromptVersion's guarded update).
THEOREM RecordCatchesUp == Spec => []CurrentIsNewest
<1>1. IInv => CurrentIsNewest
  BY DEF IInv, Caught, CurrentIsNewest, Settled
<1> QED BY <1>1, IInvHolds, PTL

\* The record never goes back to an older version (publishPromptVersion's
\* guarded update).
THEOREM RecordOnlyForward == Spec => CurrentOnlyForward
<1>1. IInv /\ [Next]_vars => NeverBackwards
  <2> SUFFICES ASSUME IInv, [Next]_vars PROVE current' >= current
    BY DEF NeverBackwards
  <2>0. TypeOK
    BY DEF IInv
  <2>1. CASE UNCHANGED current
    BY <2>0, <2>1 DEF TypeOK
  <2>2. ASSUME NEW p \in Publisher, Forward(p) PROVE current' >= current
    BY <2>0, <2>2, ForwardEffect
  <2>3. CASE CreateRecord
    BY <2>3 DEF CreateRecord, IInv, Begun
  <2> QED BY <2>1, <2>2, <2>3 DEF Next, vars, PublishStep, DeleteStep, CreateFirst, ReadRecord,
        Scan, Claim, Retry, Merge, PublisherCrashes, ReadToDelete, DeleteVersions, DeleteRecord
<1> QED BY <1>1, IInvHolds, PTL DEF Spec, CurrentOnlyForward

-----------------------------------------------------------------------------
(* The refinement: the log a client sees has no gaps *)

\* The log and the record are there, and the log has not been deleted
Intact == deleter \in {"start", "versions"}

\* Every number from 2 to n is in S
Full(S, n) == \A k \in 2 .. n : k \in S

\* What the record and every publish know of the log has no gap, so that of two
\* publishes that hold different numbers one holds a number that is taken
Dense ==
    Intact =>
        /\ Full(Numbers, current)
        /\ \A v \in versions : Full(Numbers, v.n)
        /\ \A p \in Publisher :
              /\ pub[p].at = "scan" => Full(Numbers, pub[p].cur)
              /\ pub[p].at = "insert" => Full(Numbers, pub[p].next - 1)

Landed == {"forward", "merge", "ok", "dead"}
Publishes(p) == \E v \in versions : v.by = p

\* A version is by a publish whose insert is behind it
Authors == \A p \in Publisher : Publishes(p) => pub[p].at \in Landed

\* The record is there as long as its log is, the first version is only ever the
\* creator's, and an adopted version has been reached before it is answered
Kept ==
    /\ Intact /\ maker # "start" => row
    /\ maker # "done" => 1 \notin Numbers
    /\ Intact => \A p \in Publisher : pub[p].at = "merge" => pub[p].next <= current

LogInv == Dense /\ Authors /\ Kept

\* What a client can see, and more: all but the count of the crashes
Registry == <<row, current, resolved, versions, maker, pub, outraced, deleter>>

LEMMA LogStart == Init => LogInv
<1> SUFFICES ASSUME Init PROVE LogInv
  OBVIOUS
<1>1. versions = {} /\ current = 0 /\ maker = "start" /\ \A p \in Publisher : pub[p].at = "idle"
  BY DEF Init
<1>2. Dense
  BY <1>1 DEF Dense, Full
<1> QED BY <1>1, <1>2 DEF LogInv, Authors, Kept, Publishes, Numbers

\* A step of a publish that leaves the log and the record alone
LEMMA QuietStep ==
    ASSUME IInv, LogInv, NEW p \in Publisher, OwnStep(p), UNCHANGED <<row, current, versions, maker, deleter>>,
           pub[p].at \in Landed => pub'[p].at \in Landed,
           Intact /\ pub'[p].at = "scan" => Full(Numbers, pub'[p].cur),
           Intact /\ pub'[p].at = "insert" => Full(Numbers, pub'[p].next - 1),
           pub'[p].at # "merge"
    PROVE  LogInv'
<1> USE DEF LogInv, OwnStep
<1>1. Numbers' = Numbers /\ Intact' = Intact
  BY DEF Numbers, Intact
<1>2. \A n : Full(Numbers', n) = Full(Numbers, n)
  BY <1>1 DEF Full
<1>3. Dense'
  <2> SUFFICES ASSUME Intact
               PROVE  /\ Full(Numbers, current) /\ \A v \in versions : Full(Numbers, v.n)
                      /\ \A q \in Publisher :
                            /\ pub'[q].at = "scan" => Full(Numbers, pub'[q].cur)
                            /\ pub'[q].at = "insert" => Full(Numbers, pub'[q].next - 1)
    BY <1>1, <1>2 DEF Dense, Full
  <2> QED BY DEF Dense
<1>4. Authors'
  BY DEF Authors, Publishes
<1>5. Kept'
  BY <1>1 DEF Kept
<1> QED BY <1>3, <1>4, <1>5

LEMMA ClaimKeepsLog == ASSUME IInv, LogInv, NEW p \in Publisher, Claim(p) PROVE LogInv'
<1> USE DEF LogInv, OwnStep
<1> DEFINE new == [n |-> pub[p].next, by |-> p]
<1>0. TypeOK /\ Begun
  BY DEF IInv
<1>1. /\ \A q \in Publisher : q # p => pub'[q] = pub[q]
      /\ pub[p].at = "insert" /\ pub'[p].at = "forward"
      /\ versions' = versions \cup {new}
      /\ UNCHANGED <<row, current, maker, deleter>>
  BY <1>0, ClaimEffect
<1>2. new.n = pub[p].next /\ new.by = p /\ pub[p].next \in Nat /\ pub[p].next > 1
  BY <1>0, <1>1 DEF TypeOK, Publish, Begun
<1> HIDE DEF new
<1>3. Numbers' = Numbers \cup {pub[p].next} /\ Intact' = Intact
  BY <1>1, <1>2 DEF Numbers, Intact
<1>4. \A n : Full(Numbers, n) => Full(Numbers', n)
  BY <1>3 DEF Full
<1>5. Intact => Full(Numbers', pub[p].next)
  <2>1. Intact => Full(Numbers, pub[p].next - 1)
    BY <1>1 DEF Dense
  <2>2. \A k \in 2 .. pub[p].next : k = pub[p].next \/ k \in 2 .. (pub[p].next - 1)
    BY <1>2
  <2>3. ASSUME Intact PROVE \A k \in 2 .. pub[p].next : k \in Numbers'
    BY <1>3, <2>1, <2>2, <2>3 DEF Full
  <2> QED BY <2>3 DEF Full
<1>6. Dense'
  <2> SUFFICES ASSUME Intact
               PROVE  /\ Full(Numbers', current) /\ \A v \in versions' : Full(Numbers', v.n)
                      /\ \A q \in Publisher :
                            /\ pub'[q].at = "scan" => Full(Numbers', pub[q].cur)
                            /\ pub'[q].at = "insert" => Full(Numbers', pub[q].next - 1)
    BY <1>1, <1>3 DEF Dense
  <2> QED BY <1>1, <1>2, <1>4, <1>5 DEF Dense
<1>7. Authors'
  BY <1>1, <1>2 DEF Authors, Publishes, Landed
<1>8. Kept'
  BY <1>1, <1>2, <1>3 DEF Kept
<1> QED BY <1>6, <1>7, <1>8

LEMMA ForwardKeepsLog == ASSUME IInv, LogInv, NEW p \in Publisher, Forward(p) PROVE LogInv'
<1> USE DEF LogInv
<1>0. TypeOK
  BY DEF IInv
<1>1. /\ \A q \in Publisher : q # p => pub'[q] = pub[q]
      /\ pub[p].at = "forward" /\ pub'[p].at \in {"merge", "ok"} /\ pub'[p].next = pub[p].next
      /\ current' \in Nat /\ current' >= current /\ current' \in {current, pub[p].next}
      /\ row => current' >= pub[p].next
      /\ UNCHANGED <<row, versions, maker, deleter>>
  BY <1>0, ForwardEffect DEF OwnStep
<1>2. Numbers' = Numbers /\ Intact' = Intact
  BY <1>1 DEF Numbers, Intact
<1>3. Intact => Full(Numbers, pub[p].next)
  BY <1>1 DEF IInv, Stored, Dense, Intact
<1>4. Dense'
  BY <1>1, <1>2, <1>3 DEF Dense
<1>5. Authors'
  BY <1>1 DEF Authors, Publishes, Landed
<1>6. maker # "start"
  BY <1>1 DEF IInv, Begun
<1>7. ASSUME Intact, NEW q \in Publisher, pub'[q].at = "merge" PROVE pub'[q].next <= current'
  <2>1. CASE q = p
    BY <1>0, <1>1, <1>6, <1>7, <2>1 DEF Kept, TypeOK, Publish
  <2>2. CASE q # p
    BY <1>0, <1>1, <1>7, <2>2 DEF Kept, TypeOK, Publish
  <2> QED BY <2>1, <2>2
<1>8. Kept'
  BY <1>1, <1>2, <1>7 DEF Kept
<1> QED BY <1>4, <1>5, <1>8

LEMMA CreateKeepsLog == ASSUME IInv, LogInv, CreateRecord \/ CreateFirst PROVE LogInv'
<1> USE DEF LogInv
<1>0. TypeOK /\ Begun
  BY DEF IInv
<1>1. CASE CreateRecord
  <2>1. /\ versions = {} /\ versions' = {} /\ current' = 1 /\ row' /\ maker' = "first" /\ deleter' = deleter
        /\ pub' = pub /\ \A p \in Publisher : pub[p].at = "idle"
    BY <1>0, <1>1 DEF CreateRecord, Begun
  <2>2. Dense'
    BY <2>1 DEF Dense, Full
  <2> QED BY <2>1, <2>2 DEF Authors, Kept, Publishes, Numbers
<1>2. CASE CreateFirst
  <2> DEFINE one == [n |-> 1, by |-> Creator]
  <2>1. /\ versions' = versions \/ versions' = versions \cup {one}
        /\ maker = "first" /\ maker' = "done" /\ UNCHANGED <<row, current, pub, deleter>>
    BY <1>2 DEF CreateFirst
  <2>2. one.n = 1 /\ one.by = Creator
    OBVIOUS
  <2> HIDE DEF one
  <2>3. Numbers \subseteq Numbers' /\ Intact' = Intact
    BY <2>1 DEF Numbers, Intact
  <2>4. (\A n : Full(Numbers, n) => Full(Numbers', n)) /\ Full(Numbers', 1)
    BY <2>3 DEF Full
  <2>5. \A v \in versions' : v \in versions \/ (v.n = 1 /\ v.by = Creator)
    BY <2>1, <2>2
  <2>6. Dense'
    BY <2>1, <2>3, <2>4, <2>5 DEF Dense
  <2>7. \A p \in Publisher : Publishes(p)' => Publishes(p)
    BY <2>5, PublisherAssumption DEF Publishes
  <2>8. Authors'
    BY <2>1, <2>7 DEF Authors
  <2>9. Kept'
    BY <2>1, <2>3 DEF Kept
  <2> QED BY <2>6, <2>8, <2>9
<1> QED BY <1>1, <1>2

LEMMA DeleteKeepsLog == ASSUME IInv, LogInv, DeleteStep PROVE LogInv'
<1> USE DEF LogInv
<1>1. UNCHANGED <<current, maker, pub>> /\ versions' \subseteq versions
  BY DEF DeleteStep, ReadToDelete, DeleteVersions, DeleteRecord
<1>2. Intact' => Intact /\ UNCHANGED <<versions, row>>
  BY DEF DeleteStep, ReadToDelete, DeleteVersions, DeleteRecord, Intact
<1>3. Dense'
  <2>1. ASSUME Intact' PROVE Dense'
    <3>1. Numbers' = Numbers /\ versions' = versions /\ Intact
      BY <1>2, <2>1 DEF Numbers
    <3> QED BY <1>1, <3>1 DEF Dense
  <2> QED BY <2>1 DEF Dense
<1>4. Authors'
  BY <1>1 DEF Authors, Publishes
<1>5. Numbers' \subseteq Numbers
  BY <1>1 DEF Numbers
<1>6. Kept'
  BY <1>1, <1>2, <1>5 DEF Kept
<1> QED BY <1>3, <1>4, <1>6

LEMMA LogStep == IInv /\ LogInv /\ [Next]_Registry => LogInv'
<1> SUFFICES ASSUME IInv, LogInv, [Next]_Registry PROVE LogInv'
  OBVIOUS
<1>0. TypeOK /\ HasNewest /\ Begun /\ Dense
  BY DEF IInv, LogInv
<1>1. CASE UNCHANGED Registry
  <2>1. UNCHANGED <<row, current, versions, maker, pub, deleter>>
    BY <1>1 DEF Registry
  <2> QED BY <2>1 DEF LogInv, Dense, Authors, Kept, Publishes, Numbers, Intact
<1>2. CASE CreateRecord \/ CreateFirst \/ DeleteStep
  BY <1>2, CreateKeepsLog, DeleteKeepsLog
<1>3. ASSUME NEW p \in Publisher, PublishStep(p) \/ PublisherCrashes(p) PROVE LogInv'
  <2>1. CASE ReadRecord(p)
    BY <1>0, <2>1, ReadRecordEffect, QuietStep DEF Dense, Landed
  <2>2. CASE Scan(p)
    <3>1. /\ OwnStep(p) /\ pub[p].at = "scan" /\ pub'[p].at = "insert"
          /\ pub'[p].next - 1 \in Numbers \cup {pub[p].cur}
          /\ UNCHANGED <<row, current, versions, maker, deleter>>
      BY <1>0, <2>2, ScanEffect
    <3>2. Intact => Full(Numbers, pub'[p].next - 1)
      BY <1>0, <3>1 DEF Dense, Numbers
    <3> QED BY <3>1, <3>2, QuietStep DEF Landed
  <2>3. CASE Claim(p)
    BY <2>3, ClaimKeepsLog
  <2>4. CASE Retry(p)
    BY <1>0, <2>4, RetryEffect, QuietStep DEF Landed
  <2>5. CASE Forward(p)
    BY <2>5, ForwardKeepsLog
  <2>6. CASE Merge(p)
    BY <1>0, <2>6, MergeEffect, QuietStep DEF Landed, Begun, Merge
  <2>7. CASE PublisherCrashes(p)
    BY <1>0, <2>7, CrashEffect, QuietStep DEF Landed
  <2> QED BY <1>3, <2>1, <2>2, <2>3, <2>4, <2>5, <2>6, <2>7 DEF PublishStep
<1> QED BY <1>1, <1>2, <1>3 DEF Next

\* What the record and the publishes know of the log (nextFreeVersion)
THEOREM LogHolds == Spec => []LogInv
<1>1. [Next]_vars => [Next]_Registry
  BY DEF vars, Registry
<1> QED BY <1>1, LogStart, LogStep, IInvHolds, PTL DEF Spec

-----------------------------------------------------------------------------
(* Every step is a step of VersionLog, or one its clients do not see *)

LEMMA InitIsLog == Init => Log!Init
  BY DEF Init, Log!Init, Told

LEMMA LogNumbers == Log!Numbers = Numbers /\ \A p : Log!Added(p) = Publishes(p)
  BY DEF Log!Numbers, Numbers, Log!Added, Publishes

\* What a publish was told, place by place
TellsOf(at) == CASE at = "ok" -> "published"
                 [] at \in {"gone", "refused"} -> "refused"
                 [] OTHER -> "none"

LEMMA ToldIs == Told = [p \in Publisher |-> TellsOf(pub[p].at)]
  BY DEF Told, TellsOf

LEMMA ToldAfter ==
    ASSUME NEW p \in Publisher, OwnStep(p)
    PROVE  Told' = [Told EXCEPT ![p] = TellsOf(pub'[p].at)]
<1>1. \A q \in Publisher : q # p => pub'[q] = pub[q]
  BY DEF OwnStep
<1>2. Told' = [q \in Publisher |-> TellsOf(pub'[q].at)]
  BY DEF Told, TellsOf
<1> QED BY <1>1, <1>2, ToldIs

\* A publish that is not answered by a step is not seen to take it
LEMMA ToldStands ==
    ASSUME NEW p \in Publisher, OwnStep(p),
           pub[p].at \notin {"ok", "gone", "refused"}, pub'[p].at \notin {"ok", "gone", "refused"}
    PROVE  Told' = Told
<1>1. TellsOf(pub[p].at) = "none" /\ TellsOf(pub'[p].at) = "none"
  BY DEF TellsOf
<1>2. \A q \in Publisher : q # p => pub'[q] = pub[q]
  BY DEF OwnStep
<1>3. \A q \in Publisher : TellsOf(pub'[q].at) = TellsOf(pub[q].at)
  BY <1>1, <1>2
<1>4. Told' = [q \in Publisher |-> TellsOf(pub'[q].at)]
  BY DEF Told, TellsOf
<1> QED BY <1>3, <1>4, ToldIs

LEMMA ClaimIsAppend ==
    ASSUME IInv, LogInv, NEW p \in Publisher, Claim(p) PROVE Log!Append(p)
<1> DEFINE new == [n |-> pub[p].next, by |-> p]
<1>0. TypeOK /\ Begun /\ Dense /\ Authors
  BY DEF IInv, LogInv
<1>1. /\ OwnStep(p) /\ pub[p].at = "insert" /\ pub'[p].at = "forward"
      /\ pub[p].next \notin Numbers /\ versions' = versions \cup {new}
      /\ UNCHANGED <<row, current, deleter>>
  BY <1>0, ClaimEffect
<1>2. new.n = pub[p].next /\ new.by = p /\ pub[p].next \in Nat /\ pub[p].next > 1
  BY <1>0, <1>1 DEF TypeOK, Publish, Begun
<1> HIDE DEF new
<1>3. Told' = Told /\ Told[p] = "none"
  BY <1>1, ToldStands, ToldIs DEF TellsOf
<1>4. ~Publishes(p)
  BY <1>0, <1>1 DEF Authors, Landed
<1>5. ASSUME Intact PROVE Log!IsNext(pub[p].next)
  <2>1. Full(Numbers, pub[p].next - 1)
    BY <1>0, <1>1, <1>5 DEF Dense
  <2>2. pub[p].next = 2 \/ pub[p].next - 1 \in 2 .. (pub[p].next - 1)
    BY <1>2
  <2>3. pub[p].next = 2 \/ pub[p].next - 1 \in Numbers
    BY <2>1, <2>2 DEF Full
  <2>4. ASSUME NEW v \in versions PROVE v.n < pub[p].next
    <3>1. Full(Numbers, v.n) /\ v.n \in Nat
      BY <1>0, <1>5 DEF Dense, TypeOK, Version
    <3>2. pub[p].next \notin 2 .. v.n
      BY <1>1, <3>1 DEF Full
    <3> QED BY <1>2, <3>1, <3>2
  <2> QED BY <2>3, <2>4, LogNumbers DEF Log!IsNext, Numbers
<1>6. Intact \/ deleter \in {"record", "done"}
  BY <1>0 DEF TypeOK, Intact
<1>7. new \in versions'
  BY <1>1
<1> QED BY <1>1, <1>2, <1>3, <1>4, <1>5, <1>6, <1>7, LogNumbers DEF Log!Append

\* A publish moves the record at most to its own version
LEMMA ForwardMoves ==
    ASSUME IInv, LogInv, NEW p \in Publisher, Forward(p)
    PROVE  /\ Log!Moves \/ UNCHANGED current
           /\ (\E v \in versions : v.by = p /\ v.n <= current') \/ deleter \in {"record", "done"}
<1>0. TypeOK /\ Begun /\ Stored /\ Kept
  BY DEF IInv, LogInv
<1>1. /\ pub[p].at = "forward" /\ current' \in Nat /\ current' >= current
      /\ current' \in {current, pub[p].next} /\ (row => current' >= pub[p].next)
  BY <1>0, ForwardEffect
<1>2. Intact \/ deleter \in {"record", "done"}
  BY <1>0 DEF TypeOK, Intact
<1>3. Intact => \E v \in versions : v.by = p /\ v.n = pub[p].next
  BY <1>0, <1>1 DEF Stored, Intact
<1>4. Intact => pub[p].next \in Numbers /\ row
  BY <1>0, <1>1, <1>3 DEF Numbers, Kept, Begun
<1>5. current \in Nat
  BY <1>0 DEF TypeOK
<1>6. current' = current \/ (current' > current /\ current' = pub[p].next)
  BY <1>1, <1>5
<1>7. Log!Moves \/ UNCHANGED current
  BY <1>2, <1>4, <1>6, LogNumbers DEF Log!Moves
<1>8. Intact => \E v \in versions : v.by = p /\ v.n <= current'
  BY <1>1, <1>3, <1>4
<1> QED BY <1>2, <1>7, <1>8

LEMMA PublishIsLog ==
    ASSUME IInv, LogInv, NEW p \in Publisher, PublishStep(p) \/ PublisherCrashes(p)
    PROVE  [Log!Next]_(Log!vars)
<1>0. TypeOK /\ HasNewest /\ Begun /\ Stored /\ Authors /\ Kept
  BY DEF IInv, LogInv
<1>1. ASSUME Told' = Told, UNCHANGED <<versions, current, deleter>> PROVE [Log!Next]_(Log!vars)
  BY <1>1 DEF Log!vars
<1>2. ASSUME OwnStep(p), pub[p].at \in {"idle", "insert"}, pub'[p].at \in {"gone", "refused"},
             UNCHANGED <<versions, current, deleter>>
      PROVE  Log!Next
  <2>1. Told' = [Told EXCEPT ![p] = "refused"] /\ Told[p] = "none"
    BY <1>2, ToldAfter, ToldIs DEF TellsOf
  <2>2. ~Publishes(p)
    BY <1>0, <1>2 DEF Authors, Landed
  <2>3. Log!Refuse(p)
    BY <1>2, <2>1, <2>2, LogNumbers DEF Log!Refuse
  <2> QED BY <2>3 DEF Log!Next
<1>3. ASSUME OwnStep(p), pub[p].at \in {"forward", "merge"}, pub'[p].at = "ok",
             UNCHANGED <<versions, deleter>>,
             Log!Moves \/ UNCHANGED current,
             (\E v \in versions : v.by = p /\ v.n <= current') \/ deleter \in {"record", "done"}
      PROVE  Log!Next
  <2>1. Told' = [Told EXCEPT ![p] = "published"] /\ Told[p] = "none"
    BY <1>3, ToldAfter, ToldIs DEF TellsOf
  <2>2. Log!Confirm(p)
    BY <1>3, <2>1 DEF Log!Confirm
  <2> QED BY <2>2 DEF Log!Next
<1>4. CASE ReadRecord(p)
  <2>1. OwnStep(p) /\ pub[p].at = "idle" /\ pub'[p].at \in {"scan", "gone"}
        /\ UNCHANGED <<versions, current, deleter>>
    BY <1>0, <1>4, ReadRecordEffect
  <2> QED BY <1>1, <1>2, <2>1, ToldStands
<1>5. CASE Scan(p)
  BY <1>0, <1>1, <1>5, ScanEffect, ToldStands
<1>6. CASE Claim(p)
  BY <1>6, ClaimIsAppend DEF Log!Next
<1>7. CASE Retry(p)
  <2>1. OwnStep(p) /\ pub[p].at = "insert" /\ pub'[p].at \in {"idle", "refused"}
        /\ UNCHANGED <<versions, current, deleter>>
    BY <1>0, <1>7, RetryEffect
  <2> QED BY <1>1, <1>2, <2>1, ToldStands
<1>8. CASE Forward(p)
  <2>1. /\ OwnStep(p) /\ pub[p].at = "forward" /\ pub'[p].at \in {"merge", "ok"}
        /\ UNCHANGED <<versions, deleter>>
    BY <1>0, <1>8, ForwardEffect
  <2>2. /\ Log!Moves \/ UNCHANGED current
        /\ (\E v \in versions : v.by = p /\ v.n <= current') \/ deleter \in {"record", "done"}
    BY <1>8, ForwardMoves
  <2>3. CASE pub'[p].at = "merge"
    <3>1. Told' = Told
      BY <2>1, <2>3, ToldStands
    <3>2. Log!Advance \/ UNCHANGED current
      BY <2>1, <2>2, <3>1 DEF Log!Advance
    <3> QED BY <1>1, <2>1, <3>1, <3>2 DEF Log!Next
  <2> QED BY <1>3, <2>1, <2>2, <2>3
<1>9. CASE Merge(p)
  <2>1. pub[p].at = "merge" /\ p \in Adopter
    BY <1>0, <1>9 DEF Merge, Begun
  <2>2. OwnStep(p) /\ pub'[p].at = "ok" /\ UNCHANGED <<versions, current, deleter>>
    BY <1>0, <1>9, <2>1, MergeEffect
  <2>3. Intact \/ deleter \in {"record", "done"}
    BY <1>0 DEF TypeOK, Intact
  <2>4. Intact => \E v \in versions : v.by = p /\ v.n <= current
    BY <1>0, <2>1 DEF Stored, Kept, Intact
  <2> QED BY <1>3, <2>1, <2>2, <2>3, <2>4
<1>10. CASE PublisherCrashes(p)
  <2>1. pub[p].at \in Working
    BY <1>10 DEF PublisherCrashes
  <2> QED BY <1>0, <1>1, <1>10, <2>1, CrashEffect, ToldStands DEF Working
<1> QED BY <1>4, <1>5, <1>6, <1>7, <1>8, <1>9, <1>10 DEF PublishStep

LEMMA StepIsLog == IInv /\ LogInv /\ [Next]_Registry => [Log!Next]_(Log!vars)
<1> SUFFICES ASSUME IInv, LogInv, [Next]_Registry PROVE [Log!Next]_(Log!vars)
  OBVIOUS
<1>0. TypeOK /\ Begun /\ Kept
  BY DEF IInv, LogInv
<1>1. ASSUME pub' = pub PROVE Told' = Told
  BY <1>1 DEF Told
<1>2. CASE UNCHANGED Registry
  BY <1>1, <1>2 DEF Registry, Log!vars
<1>3. CASE CreateRecord
  <2>1. current = 0 /\ current' = 1 /\ UNCHANGED <<versions, deleter, pub>>
    BY <1>0, <1>3 DEF CreateRecord, Begun
  <2> QED BY <1>1, <2>1 DEF Log!Create, Log!Next
<1>4. CASE CreateFirst
  <2>1. 1 \notin Numbers /\ current >= 1
    BY <1>0, <1>4 DEF CreateFirst, Kept, Begun
  <2>2. current # 0
    BY <2>1
  <2>3. versions' = versions \cup {[n |-> 1, by |-> Creator]} /\ UNCHANGED <<current, deleter, pub>>
    BY <1>4, <2>1 DEF CreateFirst
  <2> QED BY <1>1, <2>1, <2>2, <2>3, LogNumbers DEF Log!First, Log!Next
<1>5. ASSUME NEW p \in Publisher, PublishStep(p) \/ PublisherCrashes(p) PROVE [Log!Next]_(Log!vars)
  BY <1>5, PublishIsLog
<1>6. CASE DeleteVersions
  <2>1. /\ deleter = "versions" /\ deleter' = "record" /\ versions' = {}
        /\ UNCHANGED <<current, pub>>
    BY <1>6 DEF DeleteVersions
  <2> QED BY <1>1, <2>1 DEF Log!Close, Log!Next
<1>7. CASE ReadToDelete \/ DeleteRecord
  <2>1. /\ deleter \in {"record", "done"} <=> deleter' \in {"record", "done"}
        /\ UNCHANGED <<versions, current, pub>>
    BY <1>7 DEF ReadToDelete, DeleteRecord
  <2> QED BY <1>1, <2>1 DEF Log!vars
<1> QED BY <1>2, <1>3, <1>4, <1>5, <1>6, <1>7 DEF Next, DeleteStep

\* Races for a number, retries and crashes are invisible to the clients of a
\* registry: it implements VersionLog, whose versions are numbered without a gap,
\* for any number of publishes (nextFreeVersion, publishPromptVersion).
THEOREM LogIsImplemented == Spec => ImplementsLog
<1>1. [Next]_vars => [Next]_Registry
  BY DEF vars, Registry
<1> QED BY <1>1, LogHolds, InitIsLog, StepIsLog, IInvHolds, PTL DEF Spec, ImplementsLog, Log!Spec

\* Until a deletion every version has all versions before it in the log, but for the
\* first one, which createPrompt inserts after the record: a number is taken only
\* by an insert that nothing refused (nextFreeVersion).
NoGaps == Intact => \A v \in versions : Full(Numbers, v.n)

\* For any number of overlapping publishes, refusals and crashes
THEOREM VersionsHaveNoGap == Spec => []NoGaps
<1>1. LogInv => NoGaps
  BY DEF LogInv, Dense, NoGaps
<1> QED BY <1>1, LogHolds, PTL
=============================================================================
