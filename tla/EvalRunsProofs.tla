--------------------------- MODULE EvalRunsProofs ---------------------------
(***************************************************************************)
(* Proofs about EvalRuns, for any number of callers, batches and results,  *)
(* with failing calls, crashes and a deleted scorer group.                 *)
(*                                                                         *)
(* Placed relates where a caller is to what it has left to submit; Told    *)
(* relates what callers were told to the rows; Kept says that what a       *)
(* caller no longer has to submit is stored.                               *)
(***************************************************************************)
EXTENDS EvalRuns, SequenceTheorems, TLAPS

Result == Key \cup {Invalid}
Batches == Seq(Seq(Result))
AnswerSet == [key : Key, rating : Caller \cup {None},
              status : {"scored", "skipped"}, deduped : BOOLEAN]

\* A caller in appendResults is at a batch, and one that scores is at a result
Placed ==
    \A c \in Caller :
        /\ pc[c] = "idle" => todo[c] = Work[c]
        /\ pc[c] \in {"check"} \cup Submitting => todo[c] # <<>>
        /\ pc[c] = "score" => Batch(c) # <<>> /\ Item(c) \in Key
        /\ pc[c] \in {"readToFinish", "finish", "done"} => todo[c] = <<>>

Shape == TypeOK /\ Placed

Told == AcceptedOnce /\ AnswersAgree

Kept ==
    \A c \in Caller : ~CutOff(c) /\ pc[c] # "refused" =>
        \A key \in Keys(Work[c]) : rows[key] # None \/ key \in Keys(todo[c])

-----------------------------------------------------------------------------
(* Taking a result or a batch off the list *)

LEMMA ItemTaken ==
    ASSUME TypeOK, NEW c \in Caller, todo[c] # <<>>, Batch(c) # <<>>, ItemDone(c)
    PROVE  /\ todo' \in [Caller -> Batches]
           /\ \A d \in Caller \ {c} : todo'[d] = todo[d]
           /\ todo'[c] # <<>>
           /\ Keys(todo[c]) \subseteq Keys(todo'[c]) \cup {Item(c)}
<1> DEFINE old == todo[c]
           new == [old EXCEPT ![1] = Tail(@)]
<1>1. old \in Batches /\ old # <<>> /\ Len(old) \in Nat /\ Len(old) >= 1
  BY DEF TypeOK, Batches, Result
<1>2. todo' = [todo EXCEPT ![c] = new]
  BY DEF ItemDone
<1>3. todo'[c] = new /\ \A d \in Caller \ {c} : todo'[d] = todo[d]
  BY <1>2 DEF TypeOK
<1>4. old[1] \in Seq(Result) /\ old[1] = Batch(c) /\ old[1] # <<>>
  BY <1>1 DEF Batch, Batches
<1>5. Tail(old[1]) \in Seq(Result)
  BY <1>4
<1>6. new \in Batches
  BY <1>1, <1>5, ExceptSeq DEF Batches
<1>7. DOMAIN new = DOMAIN old /\ new[1] = Tail(old[1]) /\ \A i \in DOMAIN old : i # 1 => new[i] = old[i]
  BY <1>1 DEF Batches
<1>8. new # <<>>
  BY <1>1, <1>6, <1>7
<1>9. ASSUME NEW key \in Keys(old) PROVE key \in Keys(new) \/ key = Item(c)
  <2>1. PICK i \in DOMAIN old : \E j \in DOMAIN old[i] : old[i][j] = key
    BY DEF Keys
  <2>2. PICK j \in DOMAIN old[i] : old[i][j] = key
    BY <2>1
  <2>3. key \in Key
    BY DEF Keys
  <2>4. CASE i # 1
    <3>1. new[i] = old[i] /\ i \in DOMAIN new
      BY <1>7, <2>4
    <3> QED BY <2>2, <2>3, <3>1 DEF Keys
  <2>5. CASE i = 1 /\ j = 1
    <3>1. Item(c) = Head(old[1])
      BY <1>4 DEF Item
    <3>2. Head(old[1]) = old[1][1]
      BY <1>4
    <3> QED BY <2>2, <2>5, <3>1, <3>2
  <2>6. CASE i = 1 /\ j # 1
    <3>1. j \in 1..Len(old[1]) /\ j - 1 \in 1..Len(Tail(old[1]))
      BY <1>4, <2>2, <2>6
    <3>2. Tail(old[1])[j - 1] = old[1][j]
      BY <1>4, <3>1
    <3>3. j - 1 \in DOMAIN Tail(old[1])
      BY <1>5, <3>1
    <3>4. 1 \in DOMAIN new /\ j - 1 \in DOMAIN new[1] /\ new[1][j - 1] = key
      BY <1>7, <2>1, <2>2, <2>6, <3>2, <3>3
    <3> QED BY <2>3, <3>4 DEF Keys
  <2> QED BY <2>4, <2>5, <2>6
<1> QED
  <2> HIDE DEF new
  <2>1. todo' \in [Caller -> Batches]
    BY <1>2, <1>6 DEF TypeOK, Batches, Result
  <2> QED BY <1>3, <1>8, <1>9, <2>1

LEMMA BatchTaken ==
    ASSUME TypeOK, NEW c \in Caller, todo[c] # <<>>, Batch(c) = <<>>
    PROVE  /\ Tail(todo[c]) \in Batches
           /\ Keys(todo[c]) \subseteq Keys(Tail(todo[c]))
<1> DEFINE old == todo[c]
<1>1. old \in Batches /\ old # <<>> /\ Head(old) = <<>>
  BY DEF TypeOK, Batches, Result, Batch
<1>2. Tail(old) \in Batches
  BY <1>1 DEF Batches
<1>3. ASSUME NEW key \in Keys(old) PROVE key \in Keys(Tail(old))
  <2>1. PICK i \in DOMAIN old : \E j \in DOMAIN old[i] : old[i][j] = key
    BY DEF Keys
  <2>2. key \in Key
    BY DEF Keys
  <2>3. i # 1
    BY <1>1, <2>1 DEF Batches
  <2>4. i \in DOMAIN old /\ i - 1 \in DOMAIN Tail(old) /\ Tail(old)[i - 1] = old[i]
    <3>1. DOMAIN old = 1..Len(old) /\ Len(old) \in Nat
      BY <1>1 DEF Batches
    <3>2. i \in 1..Len(old) /\ i - 1 \in 1..(Len(old) - 1)
      BY <2>3, <3>1
    <3>3. Len(Tail(old)) = Len(old) - 1 /\ DOMAIN Tail(old) = 1..Len(Tail(old))
      BY <1>1, <1>2 DEF Batches
    <3>4. Tail(old)[i - 1] = old[i]
      BY <1>1, <3>2 DEF Batches
    <3> HIDE DEF old
    <3> QED BY <3>2, <3>3, <3>4
  <2> QED BY <2>1, <2>2, <2>4 DEF Keys
<1> QED BY <1>2, <1>3

-----------------------------------------------------------------------------
(* Types and places *)

LEMMA InitShape == Init => Shape
<1> SUFFICES ASSUME Init PROVE Shape
  OBVIOUS
<1> USE DEF Init
<1>1. todo \in [Caller -> Seq(Seq(Key \cup {Invalid}))]
  BY WorkAssumption
<1>2. pc \in [Caller -> Places]
  BY DEF Places, Working, TryBlock, CatchBlock, Opening
<1>3. TypeOK
  BY <1>1, <1>2, BoundAssumption DEF TypeOK
<1>4. Placed
  BY WorkAssumption DEF Placed, Opening, Submitting
<1> QED BY <1>3, <1>4 DEF Shape

\* Steps that only move a caller
LEMMA MoveShape ==
    ASSUME Shape, NEW c \in Caller, NEW place \in Places, Goto(c, place), UNCHANGED todo,
           place # "idle", place # "score",
           place \in {"check"} \cup Submitting => todo[c] # <<>>,
           place \in {"readToFinish", "finish", "done"} => todo[c] = <<>>
    PROVE  pc' \in [Caller -> Places] /\ Placed'
<1>1. pc' \in [Caller -> Places] /\ pc'[c] = place /\ \A d \in Caller \ {c} : pc'[d] = pc[d]
  BY DEF Goto, Shape, TypeOK
<1>2. Placed'
  BY <1>1 DEF Placed, Shape, Batch, Item, Submitting
<1> QED BY <1>1, <1>2

LEMMA ArriveShape == ASSUME Shape, NEW c \in Caller, Arrive(c) PROVE Shape'
<1>1. Opening(c) \in {"check", "readToFinish"} /\ (Opening(c) = "check" <=> Work[c] # <<>>)
  BY DEF Opening
<1>2. todo[c] = Work[c]
  BY DEF Arrive, Shape, Placed
<1>3. pc' \in [Caller -> Places] /\ Placed'
  BY <1>1, <1>2, MoveShape DEF Arrive, Places, Working, TryBlock, Submitting
<1>4. TypeOK'
  BY <1>3 DEF TypeOK, Shape, Arrive
<1> QED BY <1>3, <1>4 DEF Shape

LEMMA CheckShape ==
    ASSUME Shape, NEW c \in Caller, CheckStatus(c) \/ ResolveGroup(c) PROVE Shape'
<1>1. pc' \in [Caller -> Places] /\ Placed'
  <2>1. CASE CheckStatus(c)
    <3>1. todo[c] # <<>>
      BY <2>1 DEF CheckStatus, Shape, Placed
    <3> QED BY <2>1, <3>1, MoveShape DEF CheckStatus, Places, Working, TryBlock, Ended, Submitting
  <2>2. CASE ResolveGroup(c)
    <3>1. todo[c] # <<>>
      BY <2>2 DEF ResolveGroup, Shape, Placed, Submitting
    <3> QED BY <2>2, <3>1, MoveShape DEF ResolveGroup, Places, Working, TryBlock, Ended, Submitting
  <2> QED BY <2>1, <2>2
<1>2. TypeOK'
  BY <1>1 DEF TypeOK, Shape, CheckStatus, ResolveGroup
<1> QED BY <1>1, <1>2 DEF Shape

LEMMA StatusShape == ASSUME Shape, NEW c \in Caller, StatusStep(c) PROVE Shape'
<1> USE DEF Places, Working, TryBlock, CatchBlock, Ended, Submitting
<1>1. pc' \in [Caller -> Places] /\ Placed'
  <2>1. CASE ReadToFinish(c)
    <3>1. todo[c] = <<>>
      BY <2>1 DEF ReadToFinish, Shape, Placed
    <3> QED BY <2>1, <3>1, MoveShape DEF ReadToFinish
  <2>2. CASE Finish(c)
    <3>1. todo[c] = <<>>
      BY <2>2 DEF Finish, Shape, Placed
    <3> QED BY <2>2, <3>1, MoveShape DEF Finish
  <2>3. CASE ReadToFail(c)
    BY <2>3, MoveShape DEF ReadToFail
  <2>4. CASE Fail(c)
    BY <2>4, MoveShape DEF Fail
  <2> QED BY <2>1, <2>2, <2>3, <2>4 DEF StatusStep
<1>2. TypeOK'
  BY <1>1 DEF TypeOK, Shape, StatusStep, ReadToFinish, Finish, ReadToFail, Fail, Terminal
<1> QED BY <1>1, <1>2 DEF Shape

\* Steps that leave a caller at the rest of its batch
LEMMA TakeShape ==
    ASSUME Shape, NEW c \in Caller, todo[c] # <<>>, Batch(c) # <<>>, ItemDone(c),
           pc' = [pc EXCEPT ![c] = "item"]
    PROVE  pc' \in [Caller -> Places] /\ todo' \in [Caller -> Batches] /\ Placed'
<1>1. todo' \in [Caller -> Batches] /\ todo'[c] # <<>> /\ \A d \in Caller \ {c} : todo'[d] = todo[d]
  BY ItemTaken DEF Shape
<1>2. pc' \in [Caller -> Places] /\ pc'[c] = "item" /\ \A d \in Caller \ {c} : pc'[d] = pc[d]
  BY DEF Shape, TypeOK, Places, Working, TryBlock
<1>3. Placed'
  BY <1>1, <1>2 DEF Placed, Shape, Batch, Item, Submitting
<1> QED BY <1>1, <1>2, <1>3

LEMMA StartScoringShape == ASSUME Shape, NEW c \in Caller, StartScoring(c) PROVE Shape'
<1>1. todo[c] # <<>> /\ Batch(c) # <<>> /\ Item(c) \in Key
  BY DEF StartScoring, AtItem, Shape, Placed, Submitting
<1>2. pc' \in [Caller -> Places] /\ pc'[c] = "score" /\ \A d \in Caller \ {c} : pc'[d] = pc[d]
  BY DEF StartScoring, Goto, Shape, TypeOK, Places, Working, TryBlock
<1>3. Placed'
  BY <1>1, <1>2 DEF StartScoring, Placed, Shape, Batch, Item, Submitting
<1>4. TypeOK'
  BY <1>2 DEF TypeOK, Shape, StartScoring
<1> QED BY <1>3, <1>4 DEF Shape

LEMMA SkipShape == ASSUME Shape, NEW c \in Caller, SkipInvalid(c) PROVE Shape'
<1>1. todo[c] # <<>> /\ Batch(c) # <<>> /\ ItemDone(c)
  BY DEF SkipInvalid, AtItem, Shape, Placed, Submitting
<1>2. pc' = [pc EXCEPT ![c] = "item"]
  BY DEF SkipInvalid, AtItem, Shape, TypeOK
<1>3. pc' \in [Caller -> Places] /\ todo' \in [Caller -> Batches] /\ Placed'
  BY <1>1, <1>2, TakeShape
<1>4. TypeOK'
  BY <1>3 DEF TypeOK, Shape, SkipInvalid, Batches, Result
<1> QED BY <1>3, <1>4 DEF Shape

\* What a caller is told is an answer
LEMMA AnswerTyped ==
    ASSUME TypeOK, NEW c \in Caller, NEW key \in Key, NEW rating \in Caller \cup {None},
           NEW st \in {"scored", "skipped"}, NEW deduped \in BOOLEAN,
           Answer(c, key, rating, st, deduped)
    PROVE  /\ answers' \in [Caller -> SUBSET AnswerSet]
           /\ answers'[c] = answers[c] \cup
                 {[key |-> key, rating |-> rating, status |-> st, deduped |-> deduped]}
           /\ \A d \in Caller \ {c} : answers'[d] = answers[d]
<1>1. [key |-> key, rating |-> rating, status |-> st, deduped |-> deduped] \in AnswerSet
  BY DEF AnswerSet
<1> QED BY <1>1 DEF TypeOK, Answer, AnswerSet

LEMMA ExistingShape == ASSUME Shape, NEW c \in Caller, AnswerExisting(c) PROVE Shape'
<1>1. todo[c] # <<>> /\ Batch(c) # <<>> /\ ItemDone(c) /\ Item(c) \in Key
  BY DEF AnswerExisting, AtItem, Shape, Placed, Submitting
<1>2. pc' = [pc EXCEPT ![c] = "item"]
  BY DEF AnswerExisting, AtItem, Shape, TypeOK
<1>3. pc' \in [Caller -> Places] /\ todo' \in [Caller -> Batches] /\ Placed'
  BY <1>1, <1>2, TakeShape
<1>4. rows[Item(c)] \in Row
  BY <1>1 DEF AnswerExisting, Shape, TypeOK, Row
<1>5. rows[Item(c)].rating \in Caller \cup {None} /\ rows[Item(c)].status \in {"scored", "skipped"}
  BY <1>4 DEF Row
<1>6. answers' \in [Caller -> SUBSET AnswerSet]
  <2>1. PICK key \in Key : key = Item(c)
    BY <1>1
  <2>2. PICK rating \in Caller \cup {None} : rating = rows[Item(c)].rating
    BY <1>5
  <2>3. PICK st \in {"scored", "skipped"} : st = rows[Item(c)].status
    BY <1>5
  <2>4. Answer(c, key, rating, st, TRUE) /\ TypeOK
    BY <2>1, <2>2, <2>3 DEF AnswerExisting, Shape
  <2> QED BY <2>4, AnswerTyped
<1>7. TypeOK'
  BY <1>3, <1>6 DEF TypeOK, Shape, AnswerExisting, Batches, Result, AnswerSet
<1> QED BY <1>3, <1>7 DEF Shape

LEMMA StoreTyped ==
    ASSUME TypeOK, NEW c \in Caller, NEW v \in Verdict(c), Store(c, v), Item(c) \in Key
    PROVE  /\ rows' \in [Key -> {None} \cup Row]
           /\ rows'[Item(c)] = [by |-> c, rating |-> v.rating, status |-> v.status]
           /\ \A key \in Key \ {Item(c)} : rows'[key] = rows[key]
           /\ v.rating \in Caller \cup {None}
           /\ v.status \in {"scored", "skipped"}
<1>1. v.rating \in Caller \cup {None} /\ v.status \in {"scored", "skipped"}
  BY DEF Verdict
<1>2. [by |-> c, rating |-> v.rating, status |-> v.status] \in Row
  BY <1>1 DEF Row
<1> QED BY <1>1, <1>2 DEF TypeOK, Store, Row

LEMMA InsertShape == ASSUME Shape, NEW c \in Caller, Insert(c) PROVE Shape'
<1>1. todo[c] # <<>> /\ Batch(c) # <<>> /\ ItemDone(c) /\ Item(c) \in Key
  BY DEF Insert, Shape, Placed, Submitting
<1>2. pc' = [pc EXCEPT ![c] = "item"]
  BY DEF Insert, Goto
<1>3. pc' \in [Caller -> Places] /\ todo' \in [Caller -> Batches] /\ Placed'
  BY <1>1, <1>2, TakeShape
<1>4. PICK v \in Verdict(c) : Store(c, v) /\ Answer(c, Item(c), v.rating, v.status, FALSE)
  BY DEF Insert
<1>5. rows' \in [Key -> {None} \cup Row]
  BY <1>1, <1>4, StoreTyped DEF Shape
<1>6. v.rating \in Caller \cup {None} /\ v.status \in {"scored", "skipped"}
  BY <1>4 DEF Verdict
<1>7. answers' \in [Caller -> SUBSET AnswerSet]
  <2>1. PICK key \in Key : key = Item(c)
    BY <1>1
  <2>2. Answer(c, key, v.rating, v.status, FALSE) /\ TypeOK
    BY <1>4, <2>1 DEF Shape
  <2> QED BY <1>6, <2>2, AnswerTyped
<1>8. TypeOK'
  BY <1>3, <1>5, <1>7 DEF TypeOK, Shape, Insert, Batches, Result, AnswerSet, Row
<1> QED BY <1>3, <1>8 DEF Shape

LEMMA LoseShape == ASSUME Shape, NEW c \in Caller, LoseInsert(c) PROVE Shape'
<1>1. todo[c] # <<>> /\ Batch(c) # <<>> /\ ItemDone(c) /\ Item(c) \in Key
  BY DEF LoseInsert, Shape, Placed, Submitting
<1>2. pc' = [pc EXCEPT ![c] = "item"]
  BY DEF LoseInsert, Goto
<1>3. pc' \in [Caller -> Places] /\ todo' \in [Caller -> Batches] /\ Placed'
  BY <1>1, <1>2, TakeShape
<1>4. rows[Item(c)] \in Row
  BY <1>1 DEF LoseInsert, Shape, TypeOK, Row
<1>5. PICK v \in Verdict(c) :
        Answer(c, Item(c), LoserRating(rows[Item(c)], v), rows[Item(c)].status, TRUE)
  BY DEF LoseInsert
<1>6. LoserRating(rows[Item(c)], v) \in Caller \cup {None}
  BY <1>4, <1>5 DEF Row, LoserRating, Verdict
<1>7. rows[Item(c)].status \in {"scored", "skipped"}
  BY <1>4 DEF Row
<1>8. answers' \in [Caller -> SUBSET AnswerSet]
  <2>1. PICK key \in Key : key = Item(c)
    BY <1>1
  <2>2. PICK rating \in Caller \cup {None} : rating = LoserRating(rows[Item(c)], v)
    BY <1>6
  <2>3. PICK st \in {"scored", "skipped"} : st = rows[Item(c)].status
    BY <1>7
  <2>4. Answer(c, key, rating, st, TRUE) /\ TypeOK
    BY <1>5, <2>1, <2>2, <2>3 DEF Shape
  <2> QED BY <2>4, AnswerTyped
<1>9. TypeOK'
  BY <1>3, <1>8 DEF TypeOK, Shape, LoseInsert, Batches, Result, AnswerSet
<1> QED BY <1>3, <1>9 DEF Shape

LEMMA BatchShape == ASSUME Shape, NEW c \in Caller, BatchDone(c) PROVE Shape'
<1>1. todo[c] # <<>> /\ Batch(c) = <<>>
  BY DEF BatchDone, Shape, Placed, Submitting
<1>2. Tail(todo[c]) \in Batches
  BY <1>1, BatchTaken DEF Shape
<1>3. todo' \in [Caller -> Batches] /\ todo'[c] = Tail(todo[c]) /\ \A d \in Caller \ {c} : todo'[d] = todo[d]
  BY <1>2 DEF BatchDone, Shape, TypeOK, Batches, Result
<1>4. /\ AfterBatch(c) \in {"check", "readToFinish", "done"}
      /\ AfterBatch(c) = "check" <=> Tail(todo[c]) # <<>>
  BY DEF AfterBatch
<1>5. pc' \in [Caller -> Places] /\ pc'[c] = AfterBatch(c) /\ \A d \in Caller \ {c} : pc'[d] = pc[d]
  BY <1>4 DEF BatchDone, Goto, Shape, TypeOK, Places, Working, TryBlock, Ended
<1>6. Placed'
  BY <1>3, <1>4, <1>5 DEF Placed, Shape, Batch, Item, Submitting
<1>7. TypeOK'
  BY <1>3, <1>5 DEF TypeOK, Shape, BatchDone, Batches, Result
<1> QED BY <1>6, <1>7 DEF Shape

LEMMA FaultShape ==
    ASSUME Shape, NEW c \in Caller, Throws(c) \/ ThrowsAfterWrite(c) PROVE Shape'
<1> USE DEF Places, Working, TryBlock, CatchBlock, Ended, Submitting
<1>1. Thrown(c) \in {"readToFail", "threw"} /\ Goto(c, Thrown(c)) /\ UNCHANGED todo
  BY DEF Thrown, Throws, ThrowsAfterWrite
<1>2. pc' \in [Caller -> Places] /\ Placed'
  BY <1>1, MoveShape
<1>3. faults' \in 0..MaxFaults
  BY BoundAssumption DEF Throws, ThrowsAfterWrite, Shape, TypeOK
<1>4. rows' \in [Key -> {None} \cup Row] /\ status' \in Terminal \cup {"in_progress"}
  <2>1. CASE \E v \in Verdict(c) : Store(c, v) /\ pc[c] = "score" /\ UNCHANGED status
    <3>1. PICK v \in Verdict(c) : Store(c, v)
      BY <2>1
    <3>2. Item(c) \in Key
      BY <2>1 DEF Shape, Placed
    <3> QED BY <2>1, <3>1, <3>2, StoreTyped DEF Shape, TypeOK
  <2>2. CASE UNCHANGED rows /\ status' \in Terminal \cup {status}
    BY <2>2 DEF Shape, TypeOK, Row, Terminal
  <2> QED BY <2>1, <2>2 DEF Throws, ThrowsAfterWrite, Terminal
<1>5. TypeOK'
  BY <1>1, <1>2, <1>3, <1>4 DEF TypeOK, Shape, Throws, ThrowsAfterWrite, Row
<1> QED BY <1>2, <1>5 DEF Shape

LEMMA CrashShape == ASSUME Shape, Crash PROVE Shape'
<1>1. /\ pc' \in [Caller -> Places]
      /\ \A c \in Caller : pc'[c] = IF pc[c] \in Working THEN "dead" ELSE pc[c]
  BY DEF Crash, Shape, TypeOK, Places, Ended
<1>2. Placed'
  BY <1>1 DEF Crash, Placed, Shape, Batch, Item, Submitting
<1>3. crashes' \in 0..MaxCrashes
  BY BoundAssumption DEF Crash, Shape, TypeOK
<1>4. TypeOK'
  BY <1>1, <1>3 DEF TypeOK, Shape, Crash
<1> QED BY <1>2, <1>4 DEF Shape

LEMMA DeleteShape == ASSUME Shape, DeleteGroup PROVE Shape'
BY DEF Shape, DeleteGroup, TypeOK, Placed, Batch, Item

LEMMA StutterShape == ASSUME Shape, UNCHANGED vars PROVE Shape'
BY DEF Shape, vars, TypeOK, Placed, Batch, Item

LEMMA NextShape == Shape /\ [Next]_vars => Shape'
<1> SUFFICES ASSUME Shape, [Next]_vars PROVE Shape'
  OBVIOUS
<1>1. ASSUME NEW c \in Caller, AppendStep(c) PROVE Shape'
  BY <1>1, CheckShape, SkipShape, ExistingShape, StartScoringShape, InsertShape, LoseShape,
     BatchShape DEF AppendStep
<1>2. ASSUME NEW c \in Caller, Arrive(c) \/ StatusStep(c) \/ Throws(c) \/ ThrowsAfterWrite(c)
      PROVE  Shape'
  BY <1>2, ArriveShape, StatusShape, FaultShape
<1>3. CASE DeleteGroup \/ Crash \/ Quiescent \/ UNCHANGED vars
  BY <1>3, DeleteShape, CrashShape, StutterShape DEF Quiescent
<1> QED BY <1>1, <1>2, <1>3 DEF Next, Step

\* The type invariant of an evaluation run and its callers.
THEOREM Typed == Spec => []TypeOK
<1>1. Shape => TypeOK
  BY DEF Shape
<1> QED BY <1>1, InitShape, NextShape, PTL DEF Spec

THEOREM ShapeHolds == Spec => []Shape
BY InitShape, NextShape, PTL DEF Spec

-----------------------------------------------------------------------------
(* What callers are told *)

\* A caller that was cut off does not come back
LEMMA CutOffStays ==
    ASSUME Shape, [Next]_vars, NEW d \in Caller, CutOff(d) PROVE CutOff(d)'
<1> USE DEF CutOff, CatchBlock, Goto, Shape, TypeOK
<1>1. ASSUME NEW c \in Caller, AppendStep(c) PROVE CutOff(d)'
  BY <1>1 DEF AppendStep, CheckStatus, ResolveGroup, SkipInvalid, AnswerExisting, StartScoring,
     AtItem, Insert, LoseInsert, BatchDone
<1>2. ASSUME NEW c \in Caller, Arrive(c) \/ StatusStep(c) PROVE CutOff(d)'
  BY <1>2 DEF Arrive, StatusStep, ReadToFinish, Finish, ReadToFail, Fail
<1>3. ASSUME NEW c \in Caller, Throws(c) \/ ThrowsAfterWrite(c) PROVE CutOff(d)'
  BY <1>3 DEF Throws, ThrowsAfterWrite, Thrown
<1>4. CASE DeleteGroup \/ Crash \/ Quiescent \/ UNCHANGED vars
  BY <1>4 DEF DeleteGroup, Crash, Quiescent, vars
<1> QED BY <1>1, <1>2, <1>3, <1>4 DEF Next, Step

\* Most steps neither store nor answer
LEMMA QuietTold ==
    ASSUME Shape, Told, [Next]_vars, UNCHANGED <<rows, answers>> PROVE Told'
<1>1. \A key \in Key : rows[key] # None => rows[key].by \in Caller
  BY DEF Shape, TypeOK, Row
<1>2. AcceptedOnce'
  BY <1>1, CutOffStays DEF Told, AcceptedOnce, Reported
<1>3. AnswersAgree'
  BY DEF Told, AnswersAgree
<1> QED BY <1>2, <1>3 DEF Told

\* A duplicate is told of the row that is there
LEMMA DuplicateTold ==
    ASSUME Shape, Told, [Next]_vars, NEW c \in Caller, NEW key \in Key, rows[key] # None,
           NEW rating \in Caller \cup {None}, UNCHANGED rows,
           rating = rows[key].rating \/ rows[key].rating = None,
           Answer(c, key, rating, rows[key].status, TRUE)
    PROVE  Told'
<1> DEFINE new == [key |-> key, rating |-> rating, status |-> rows[key].status, deduped |-> TRUE]
<1>1. \A k \in Key : rows[k] # None => rows[k].by \in Caller
  BY DEF Shape, TypeOK, Row
<1>2. rows[key].status \in {"scored", "skipped"}
  BY DEF Shape, TypeOK, Row
<1>3. answers'[c] = answers[c] \cup {new} /\ \A d \in Caller \ {c} : answers'[d] = answers[d]
  BY DEF Answer, Shape, TypeOK
<1>4. \A d \in Caller, k \in Key : Reported(d, k)' <=> Reported(d, k)
  BY <1>3 DEF Reported
<1>5. AcceptedOnce'
  BY <1>1, <1>4, CutOffStays DEF Told, AcceptedOnce
<1>6. AnswersAgree'
  BY <1>3 DEF Told, AnswersAgree
<1> QED BY <1>5, <1>6 DEF Told

LEMMA InsertTold == ASSUME Shape, Told, NEW c \in Caller, Insert(c), [Next]_vars PROVE Told'
<1>1. PICK key \in Key : key = Item(c) /\ rows[key] = None
  BY DEF Insert, Shape, Placed
<1>2. PICK v \in Verdict(c) : Store(c, v) /\ Answer(c, key, v.rating, v.status, FALSE)
  BY <1>1 DEF Insert
<1> DEFINE new == [key |-> key, rating |-> v.rating, status |-> v.status, deduped |-> FALSE]
<1>3. /\ rows'[key] = [by |-> c, rating |-> v.rating, status |-> v.status]
      /\ \A k \in Key \ {key} : rows'[k] = rows[k]
      /\ v.rating \in Caller \cup {None} /\ v.status \in {"scored", "skipped"}
      /\ rows' \in [Key -> {None} \cup Row]
  BY <1>1, <1>2, StoreTyped DEF Shape
<1>4. answers'[c] = answers[c] \cup {new} /\ \A d \in Caller \ {c} : answers'[d] = answers[d]
  BY <1>2 DEF Answer, Shape, TypeOK
<1>5. /\ \A d \in Caller, k \in Key : Reported(d, k) => Reported(d, k)' /\ k # key
      /\ \A d \in Caller, k \in Key : Reported(d, k)' => Reported(d, k) \/ (d = c /\ k = key)
      /\ Reported(c, key)'
  <2>1. \A d \in Caller, k \in Key : Reported(d, k) => k # key
    BY <1>1 DEF Told, AcceptedOnce
  <2>2. \A d \in Caller, k \in Key : Reported(d, k) => Reported(d, k)'
    BY <1>4 DEF Reported
  <2>3. \A d \in Caller, k \in Key : Reported(d, k)' => Reported(d, k) \/ (d = c /\ k = key)
    BY <1>4 DEF Reported
  <2>4. new \in answers'[c] /\ new.key = key /\ ~new.deduped
    BY <1>4
  <2>5. Reported(c, key)'
    BY <2>4 DEF Reported
  <2> QED BY <2>1, <2>2, <2>3, <2>5
<1>6. rows'[key] # None
  BY NamesAssumption, <1>3 DEF Row
<1>7. \A k \in Key : rows[k] # None => rows[k].by \in Caller
  BY DEF Shape, TypeOK, Row
<1>8. AcceptedOnce'
  BY <1>1, <1>3, <1>5, <1>6, <1>7, CutOffStays DEF Told, AcceptedOnce
<1>9. \A d \in Caller : \A a \in answers[d] : a.key # key /\ a.key \in Key
  BY <1>1 DEF Told, AnswersAgree, Shape, TypeOK
<1>10. AnswersAgree'
  BY <1>3, <1>4, <1>6, <1>9 DEF Told, AnswersAgree
<1> QED BY <1>8, <1>10 DEF Told

\* A row whose insert was not acknowledged is of a caller that was cut off
LEMMA UnacknowledgedTold ==
    ASSUME Shape, Told, NEW c \in Caller, ThrowsAfterWrite(c), [Next]_vars PROVE Told'
<1>1. UNCHANGED answers
  BY DEF ThrowsAfterWrite
<1>2. CASE UNCHANGED rows
  BY <1>1, <1>2, QuietTold
<1>3. CASE pc[c] = "score" /\ rows[Item(c)] = None /\ \E v \in Verdict(c) : Store(c, v)
  <2>1. PICK key \in Key : key = Item(c) /\ rows[key] = None
    BY <1>3 DEF Shape, Placed
  <2>2. PICK v \in Verdict(c) : Store(c, v)
    BY <1>3
  <2>3. /\ rows'[key] = [by |-> c, rating |-> v.rating, status |-> v.status]
        /\ \A k \in Key \ {key} : rows'[k] = rows[k]
    BY <2>1, <2>2, StoreTyped DEF Shape
  <2>4. rows'[key].by = c /\ rows'[key] # None
    <3>1. Shape'
      BY NextShape
    <3>2. v.rating \in Caller \cup {None} /\ v.status \in {"scored", "skipped"}
      BY <2>2 DEF Verdict
    <3> QED BY <2>3, <3>2, NamesAssumption DEF Row
  <2>5. CutOff(c)'
    BY DEF ThrowsAfterWrite, Goto, Thrown, CutOff, CatchBlock, Shape, TypeOK
  <2>6. \A d \in Caller, k \in Key : Reported(d, k)' <=> Reported(d, k)
    BY <1>1 DEF Reported
  <2>7. \A k \in Key : rows[k] # None => rows[k].by \in Caller
    BY DEF Shape, TypeOK, Row
  <2>8. AcceptedOnce'
    BY <2>1, <2>3, <2>4, <2>5, <2>6, <2>7, CutOffStays DEF Told, AcceptedOnce
  <2>9. \A d \in Caller : \A a \in answers[d] : a.key # key /\ a.key \in Key
    BY <2>1 DEF Told, AnswersAgree, Shape, TypeOK
  <2>10. AnswersAgree'
    BY <1>1, <2>3, <2>9 DEF Told, AnswersAgree
  <2> QED BY <2>8, <2>10 DEF Told
<1> QED BY <1>2, <1>3 DEF ThrowsAfterWrite

LEMMA ExistingTold ==
    ASSUME Shape, Told, NEW c \in Caller, AnswerExisting(c), [Next]_vars PROVE Told'
<1>1. PICK key \in Key : key = Item(c) /\ rows[key] # None
  BY DEF AnswerExisting
<1>2. PICK rating \in Caller \cup {None} : rating = rows[key].rating
  BY <1>1 DEF Shape, TypeOK, Row
<1>3. Answer(c, key, rating, rows[key].status, TRUE) /\ UNCHANGED rows
  BY <1>1, <1>2 DEF AnswerExisting
<1> QED BY <1>1, <1>2, <1>3, DuplicateTold

LEMMA LoseTold ==
    ASSUME Shape, Told, NEW c \in Caller, LoseInsert(c), [Next]_vars PROVE Told'
<1>1. PICK key \in Key : key = Item(c) /\ rows[key] # None
  BY DEF LoseInsert, Shape, Placed
<1>2. PICK v \in Verdict(c) : Answer(c, key, LoserRating(rows[key], v), rows[key].status, TRUE)
  BY <1>1 DEF LoseInsert
<1>3. PICK rating \in Caller \cup {None} : rating = LoserRating(rows[key], v)
  BY <1>1, <1>2 DEF Shape, TypeOK, Row, LoserRating, Verdict
<1>4. rating = rows[key].rating \/ rows[key].rating = None
  BY <1>3 DEF LoserRating
<1>5. Answer(c, key, rating, rows[key].status, TRUE) /\ UNCHANGED rows
  BY <1>2, <1>3 DEF LoseInsert
<1> QED BY <1>1, <1>4, <1>5, DuplicateTold

LEMMA NextTold == Shape /\ Told /\ [Next]_vars => Told'
<1> SUFFICES ASSUME Shape, Told, [Next]_vars PROVE Told'
  OBVIOUS
<1>1. CASE UNCHANGED <<rows, answers>>
  BY <1>1, QuietTold
<1>2. ASSUME NEW c \in Caller, AppendStep(c) PROVE Told'
  <2>1. CASE CheckStatus(c) \/ ResolveGroup(c) \/ SkipInvalid(c) \/ StartScoring(c) \/ BatchDone(c)
    BY <1>1, <2>1 DEF CheckStatus, ResolveGroup, SkipInvalid, StartScoring, BatchDone
  <2> QED BY <1>2, <2>1, ExistingTold, InsertTold, LoseTold DEF AppendStep
<1>3. ASSUME NEW c \in Caller, Arrive(c) \/ StatusStep(c) \/ Throws(c) PROVE Told'
  BY <1>1, <1>3 DEF Arrive, StatusStep, ReadToFinish, Finish, ReadToFail, Fail, Throws
<1>4. ASSUME NEW c \in Caller, ThrowsAfterWrite(c) PROVE Told'
  BY <1>4, UnacknowledgedTold
<1>5. CASE DeleteGroup \/ Crash \/ Quiescent \/ UNCHANGED vars
  BY <1>1, <1>5 DEF DeleteGroup, Crash, Quiescent, vars
<1> QED BY <1>2, <1>3, <1>4, <1>5 DEF Next, Step

LEMMA ToldHolds == Spec => []Told
<1>1. Init => Told
  BY DEF Init, Told, AcceptedOnce, AnswersAgree, Reported
<1> QED BY <1>1, ShapeHolds, NextTold, PTL DEF Spec

\* Every stored result is accepted in exactly one answer.
THEOREM AcceptedOnceHolds == Spec => []AcceptedOnce
<1>1. Told => AcceptedOnce
  BY DEF Told
<1> QED BY <1>1, ToldHolds, PTL

\* Everyone who submits a key is told the stored verdict.
THEOREM AnswersAgreeHolds == Spec => []AnswersAgree
<1>1. Told => AnswersAgree
  BY DEF Told
<1> QED BY <1>1, ToldHolds, PTL

-----------------------------------------------------------------------------
(* An ended run stays as it is *)

\* Steps into a place from which a sealed run is not written
LEMMA HarmlessMove ==
    ASSUME Shape, Sealed, UNCHANGED <<status, rows>>,
           \A d \in Caller :
              \/ pc'[d] = pc[d]
              \/ pc'[d] \notin Submitting \cup {"finish", "fail"}
              \/ pc'[d] = "finish" /\ status # "failed"
              \/ pc'[d] = "fail" /\ status # "completed"
    PROVE  Sealed' /\ UNCHANGED <<status, rows>>
BY DEF Sealed, Submitting

\* In a sealed run nobody is at a step that stores a result
LEMMA SealedAppend ==
    ASSUME Shape, Sealed, NEW c \in Caller, AppendStep(c)
    PROVE  Sealed' /\ UNCHANGED <<status, rows>>
<1>1. CheckStatus(c)
  BY DEF Sealed, Submitting, AppendStep, ResolveGroup, SkipInvalid, AnswerExisting, StartScoring,
     AtItem, Insert, LoseInsert, BatchDone
<1>2. status \in Terminal
  BY DEF Sealed, Terminal
<1>3. pc' = [pc EXCEPT ![c] = "refused"] /\ UNCHANGED <<status, rows>>
  BY <1>1, <1>2 DEF CheckStatus, Goto
<1> QED BY <1>3, HarmlessMove DEF Shape, TypeOK, Submitting

LEMMA SealedStatus ==
    ASSUME Shape, Sealed, NEW c \in Caller, StatusStep(c)
    PROVE  Sealed' /\ UNCHANGED <<status, rows>>
<1> USE DEF Shape, TypeOK, Submitting, Goto
<1>1. CASE ReadToFinish(c)
  BY <1>1, HarmlessMove DEF ReadToFinish
<1>2. CASE Finish(c)
  <2>1. status = "completed" /\ UNCHANGED <<status, rows>>
    BY <1>2 DEF Sealed, Finish
  <2> QED BY <1>2, <2>1, HarmlessMove DEF Finish
<1>3. CASE ReadToFail(c)
  BY <1>3, HarmlessMove DEF ReadToFail
<1>4. CASE Fail(c)
  <2>1. status = "failed" /\ UNCHANGED <<status, rows>>
    BY <1>4 DEF Sealed, Fail
  <2> QED BY <1>4, <2>1, HarmlessMove DEF Fail
<1> QED BY <1>1, <1>2, <1>3, <1>4 DEF StatusStep

LEMMA SealedFault ==
    ASSUME Shape, Sealed, NEW c \in Caller, Throws(c) \/ ThrowsAfterWrite(c)
    PROVE  Sealed' /\ UNCHANGED <<status, rows>>
<1>1. Thrown(c) \in {"readToFail", "threw"} /\ pc' = [pc EXCEPT ![c] = Thrown(c)]
  BY DEF Thrown, Throws, ThrowsAfterWrite, Goto
<1>2. UNCHANGED <<status, rows>>
  BY DEF Sealed, Submitting, Throws, ThrowsAfterWrite
<1> QED BY <1>1, <1>2, HarmlessMove DEF Shape, TypeOK, Submitting

\* A sealed run stays sealed, and nobody writes to it.
THEOREM SealedRunsAreFinal == Spec => SealedIsFinal
<1>1. ASSUME Shape, Next, Sealed PROVE Sealed' /\ UNCHANGED <<status, rows>>
  <2>1. ASSUME NEW c \in Caller, Arrive(c) PROVE Sealed' /\ UNCHANGED <<status, rows>>
    <3>1. Opening(c) \in {"check", "readToFinish"} /\ pc' = [pc EXCEPT ![c] = Opening(c)]
      BY <2>1 DEF Arrive, Goto, Opening
    <3> QED BY <1>1, <2>1, <3>1, HarmlessMove DEF Arrive, Shape, TypeOK, Submitting
  <2>2. CASE DeleteGroup \/ Quiescent
    BY <1>1, <2>2, HarmlessMove DEF DeleteGroup, Quiescent, vars
  <2>3. CASE Crash
    BY <1>1, <2>3, HarmlessMove DEF Crash, Shape, TypeOK, Submitting
  <2> QED BY <1>1, <2>1, <2>2, <2>3, SealedAppend, SealedStatus, SealedFault DEF Next, Step
<1>2. ASSUME Shape, [Next]_vars PROVE [Sealed => Sealed' /\ UNCHANGED <<status, rows>>]_vars
  BY <1>1, <1>2
<1> QED BY <1>2, ShapeHolds, PTL DEF Spec, SealedIsFinal

-----------------------------------------------------------------------------
(* A call that got through has all its results stored *)

\* A caller still under way, or through
Live(c) == ~CutOff(c) /\ pc[c] # "refused"

LEMMA LiveWasLive == ASSUME Shape, [Next]_vars, NEW d \in Caller, Live(d)' PROVE Live(d)
<1>1. ~CutOff(d)
  BY CutOffStays DEF Live
<1>2. ASSUME pc[d] = "refused" PROVE pc'[d] \in {"refused", "dead", "threw", "readToFail"}
  <2> USE DEF Goto, Shape, TypeOK
  <2>1. ASSUME NEW c \in Caller, AppendStep(c) PROVE pc'[d] = "refused"
    BY <1>2, <2>1 DEF AppendStep, CheckStatus, ResolveGroup, SkipInvalid, AnswerExisting,
       StartScoring, AtItem, Insert, LoseInsert, BatchDone
  <2>2. ASSUME NEW c \in Caller, Arrive(c) \/ StatusStep(c) PROVE pc'[d] = "refused"
    BY <1>2, <2>2 DEF Arrive, StatusStep, ReadToFinish, Finish, ReadToFail, Fail
  <2>3. ASSUME NEW c \in Caller, Throws(c) \/ ThrowsAfterWrite(c)
        PROVE  pc'[d] \in {"refused", "threw", "readToFail"}
    BY <1>2, <2>3 DEF Throws, ThrowsAfterWrite, Thrown
  <2>4. CASE DeleteGroup \/ Crash \/ Quiescent \/ UNCHANGED vars
    BY <1>2, <2>4 DEF DeleteGroup, Crash, Quiescent, vars
  <2> QED BY <2>1, <2>2, <2>3, <2>4 DEF Next, Step
<1> QED BY <1>1, <1>2 DEF Live, CutOff, CatchBlock

\* Steps that take nothing off a list
LEMMA SameListKept ==
    ASSUME Shape, Kept, [Next]_vars, UNCHANGED <<rows, todo>> PROVE Kept'
<1>1. SUFFICES ASSUME NEW d \in Caller, Live(d)', NEW key \in Keys(Work[d])
      PROVE  rows'[key] # None \/ key \in Keys(todo'[d])
  BY DEF Kept, Live
<1> QED BY <1>1, LiveWasLive DEF Kept, Live

\* Steps that take a stored or invalid result off
LEMMA TakenKept ==
    ASSUME Shape, Kept, [Next]_vars, NEW c \in Caller, todo[c] # <<>>, Batch(c) # <<>>,
           ItemDone(c), Item(c) \in Key => rows'[Item(c)] # None,
           \A key \in Key : rows[key] # None => rows'[key] # None
    PROVE  Kept'
<1>1. SUFFICES ASSUME NEW d \in Caller, Live(d)', NEW key \in Keys(Work[d])
      PROVE  rows'[key] # None \/ key \in Keys(todo'[d])
  BY DEF Kept, Live
<1>2. key \in Key
  BY DEF Keys
<1>3. rows[key] # None \/ key \in Keys(todo[d])
  BY <1>1, LiveWasLive DEF Kept, Live
<1>4. /\ \A e \in Caller \ {c} : todo'[e] = todo[e]
      /\ Keys(todo[c]) \subseteq Keys(todo'[c]) \cup {Item(c)}
  BY ItemTaken DEF Shape
<1>5. CASE d # c
  BY <1>2, <1>3, <1>4, <1>5
<1>6. CASE d = c
  BY <1>2, <1>3, <1>4, <1>6
<1> QED BY <1>5, <1>6

LEMMA AppendKept ==
    ASSUME Shape, Kept, [Next]_vars, NEW c \in Caller, AppendStep(c) PROVE Kept'
<1>1. CASE CheckStatus(c) \/ ResolveGroup(c) \/ StartScoring(c)
  BY <1>1, SameListKept DEF CheckStatus, ResolveGroup, StartScoring
<1>2. CASE SkipInvalid(c)
  <2>1. todo[c] # <<>> /\ Batch(c) # <<>> /\ ItemDone(c) /\ Item(c) \notin Key /\ UNCHANGED rows
    BY <1>2, NamesAssumption DEF SkipInvalid, AtItem, Shape, Placed, Submitting
  <2> QED BY <2>1, TakenKept
<1>3. CASE AnswerExisting(c)
  <2>1. todo[c] # <<>> /\ Batch(c) # <<>> /\ ItemDone(c) /\ rows[Item(c)] # None /\ UNCHANGED rows
    BY <1>3 DEF AnswerExisting, AtItem, Shape, Placed, Submitting
  <2> QED BY <2>1, TakenKept
<1>4. CASE LoseInsert(c)
  <2>1. todo[c] # <<>> /\ Batch(c) # <<>> /\ ItemDone(c) /\ rows[Item(c)] # None /\ UNCHANGED rows
    BY <1>4 DEF LoseInsert, Shape, Placed, Submitting
  <2> QED BY <2>1, TakenKept
<1>5. CASE Insert(c)
  <2>1. todo[c] # <<>> /\ Batch(c) # <<>> /\ ItemDone(c) /\ Item(c) \in Key
    BY <1>5 DEF Insert, Shape, Placed, Submitting
  <2>2. PICK v \in Verdict(c) : Store(c, v)
    BY <1>5 DEF Insert
  <2>3. /\ rows'[Item(c)] = [by |-> c, rating |-> v.rating, status |-> v.status]
        /\ \A key \in Key \ {Item(c)} : rows'[key] = rows[key]
    BY <2>1, <2>2, StoreTyped DEF Shape
  <2>4. rows'[Item(c)] # None
    BY <2>2, <2>3, NamesAssumption DEF Verdict, Row
  <2> QED BY <2>1, <2>3, <2>4, TakenKept
<1>6. CASE BatchDone(c)
  <2>1. todo[c] # <<>> /\ Batch(c) = <<>>
    BY <1>6 DEF BatchDone, Shape, Placed, Submitting
  <2>2. /\ Keys(todo[c]) \subseteq Keys(todo'[c])
        /\ \A e \in Caller \ {c} : todo'[e] = todo[e]
        /\ UNCHANGED rows
    BY <1>6, <2>1, BatchTaken DEF BatchDone, Shape, TypeOK
  <2>3. SUFFICES ASSUME NEW d \in Caller, Live(d)', NEW key \in Keys(Work[d])
        PROVE  rows'[key] # None \/ key \in Keys(todo'[d])
    BY DEF Kept, Live
  <2>4. rows[key] # None \/ key \in Keys(todo[d])
    BY <2>3, LiveWasLive DEF Kept, Live
  <2> QED BY <2>2, <2>4
<1> QED BY <1>1, <1>2, <1>3, <1>4, <1>5, <1>6 DEF AppendStep

\* A caller whose write was not acknowledged is no longer live; the others keep theirs
LEMMA UnacknowledgedKept ==
    ASSUME Shape, Kept, [Next]_vars, NEW c \in Caller, ThrowsAfterWrite(c) PROVE Kept'
<1>1. UNCHANGED todo
  BY DEF ThrowsAfterWrite
<1>2. \A key \in Key : rows[key] # None => rows'[key] # None
  <2>1. CASE UNCHANGED rows
    BY <2>1
  <2>2. CASE rows[Item(c)] = None /\ pc[c] = "score" /\ \E v \in Verdict(c) : Store(c, v)
    <3>1. Item(c) \in Key
      BY <2>2 DEF Shape, Placed
    <3>2. \A key \in Key \ {Item(c)} : rows'[key] = rows[key]
      BY <2>2, <3>1, StoreTyped DEF Shape
    <3> QED BY <2>2, <3>2
  <2> QED BY <2>1, <2>2 DEF ThrowsAfterWrite
<1>3. SUFFICES ASSUME NEW d \in Caller, Live(d)', NEW key \in Keys(Work[d])
      PROVE  rows'[key] # None \/ key \in Keys(todo'[d])
  BY DEF Kept, Live
<1>4. rows[key] # None \/ key \in Keys(todo[d])
  BY <1>3, LiveWasLive DEF Kept, Live
<1> QED BY <1>1, <1>2, <1>4 DEF Keys

LEMMA NextKept == Shape /\ Kept /\ [Next]_vars => Kept'
<1> SUFFICES ASSUME Shape, Kept, [Next]_vars PROVE Kept'
  OBVIOUS
<1>1. ASSUME NEW c \in Caller, Arrive(c) \/ StatusStep(c) \/ Throws(c) PROVE Kept'
  BY <1>1, SameListKept DEF Arrive, StatusStep, ReadToFinish, Finish, ReadToFail, Fail, Throws
<1>2. CASE DeleteGroup \/ Crash \/ Quiescent \/ UNCHANGED vars
  BY <1>2, SameListKept DEF DeleteGroup, Crash, Quiescent, vars
<1> QED BY <1>1, <1>2, AppendKept, UnacknowledgedKept DEF Next, Step

\* A call that got through left none of its results behind.
THEOREM DoneIsStoredHolds == Spec => []DoneIsStored
<1>1. Init => Kept
  BY DEF Init, Kept
<1>2. Shape /\ Kept => DoneIsStored
  <2> SUFFICES ASSUME Shape, Kept, NEW c \in Caller, pc[c] = "done", NEW key \in Keys(Work[c])
               PROVE  rows[key] # None
    BY DEF DoneIsStored
  <2>1. todo[c] = <<>>
    BY DEF Shape, Placed
  <2>2. Keys(<<>>) = {}
    BY DEF Keys
  <2> QED BY <2>1, <2>2 DEF Kept, CutOff, CatchBlock
<1> QED BY <1>1, <1>2, ShapeHolds, NextKept, PTL DEF Spec

=============================================================================
