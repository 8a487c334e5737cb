-------------------------- MODULE VersionRegistry ---------------------------
(***************************************************************************)
(* One record of the prompt registry (core/evaluate/prompts.ts) or of the  *)
(* tool-schema registry (core/evaluate/toolSchemas.ts): the record with    *)
(* its current version, the log of versions, and the requests that         *)
(* create, publish and delete.                                             *)
(*                                                                         *)
(* A publish takes its number from a read and claims it with an insert     *)
(* that a unique index may refuse; it then moves the record forward and,   *)
(* in the tool-schema registry, merges the evidence of the proposal it     *)
(* adopts.  Every statement is a step: nothing is in a transaction.        *)
(***************************************************************************)
EXTENDS Naturals, FiniteSets

CONSTANTS
    Publisher,   \* publish requests, one call each
    Adopter,     \* those that adopt a proposal and resolve its evidence
    Creator,     \* the request that creates the record
    MaxAttempts, \* PUBLISH_MAX_ATTEMPTS
    Deletes,     \* whether a request deletes the record
    MaxCrashes   \* bound: requests cut off between two statements

ASSUME PublisherAssumption == Adopter \subseteq Publisher /\ Creator \notin Publisher
ASSUME AttemptAssumption == MaxAttempts \in Nat \ {0}
ASSUME FaultAssumption == Deletes \in BOOLEAN /\ MaxCrashes \in Nat

VARIABLES
    row,      \* the record exists
    current,  \* its currentVersion
    resolved, \* its resolvedEvidence: whose evidence is resolved
    versions, \* the log: number and author
    maker,    \* where the creating request is
    pub,      \* where each publish is and what it has read
    outraced, \* history: versions others inserted since a publish began
    deleter,  \* where the deleting request is
    crashes

vars == <<row, current, resolved, versions, maker, pub, outraced, deleter, crashes>>

Places == {"idle", "scan", "insert", "forward", "merge", "ok", "refused", "gone", "dead"}
Waiting == {"scan", "insert"}
Working == {"scan", "insert", "forward", "merge"}

Numbers == {v.n : v \in versions}
Largest(S) == CHOOSE n \in S : \A k \in S : k <= n

Init ==
    /\ row = FALSE
    /\ current = 0
    /\ resolved = {}
    /\ versions = {}
    /\ maker = "start"
    /\ pub = [p \in Publisher |->
                 [at |-> "idle", attempt |-> 0, cur |-> 0, next |-> 0, known |-> {}]]
    /\ outraced = [p \in Publisher |-> 0]
    /\ deleter = "start"
    /\ crashes = 0

-----------------------------------------------------------------------------
(* createPrompt: the record, then its first version *)

CreateRecord ==
    /\ maker = "start"
    /\ maker' = "first"
    /\ row' = TRUE
    /\ current' = 1
    /\ UNCHANGED <<resolved, versions, pub, outraced, deleter, crashes>>

\* The insert has no conflict clause: a taken number would be an error
CreateFirst ==
    /\ maker = "first"
    /\ maker' = "done"
    /\ versions' = IF 1 \in Numbers THEN versions
                   ELSE versions \cup {[n |-> 1, by |-> Creator]}
    /\ UNCHANGED <<row, current, resolved, pub, outraced, deleter, crashes>>

-----------------------------------------------------------------------------
(* publishPromptVersion and publishToolSchemaVersion *)

\* An attempt begins by reading the record; without one there is nothing to publish
ReadRecord(p) ==
    /\ pub[p].at = "idle"
    /\ maker # "start"
    /\ pub' = [pub EXCEPT ![p] = [@ EXCEPT !.at = IF row THEN "scan" ELSE "gone",
                                           !.cur = current, !.known = resolved]]
    /\ UNCHANGED <<row, current, resolved, versions, maker, outraced, deleter, crashes>>

\* Mutant: the next number comes from the record
NextFromRecord(cur) == cur + 1

\* nextFreeVersion: above the log and above the record
NextFree(cur) == Largest(Numbers \cup {cur}) + 1

Scan(p) ==
    /\ pub[p].at = "scan"
    /\ pub' = [pub EXCEPT ![p] = [@ EXCEPT !.at = "insert", !.next = NextFree(pub[p].cur)]]
    /\ UNCHANGED <<row, current, resolved, versions, maker, outraced, deleter, crashes>>

\* Every other publish under way sees one more version than when it began
Overtake(p) ==
    outraced' = [q \in Publisher |->
                    IF q # p /\ (pub[q].at \in Waiting \/ pub[q].attempt > 0)
                    THEN outraced[q] + 1 ELSE outraced[q]]

\* What the unique index on (record, version) refuses
Taken(n) == n \in Numbers

\* Mutant: the empty RETURNING of a refused insert is not looked at
ClaimUnchecked(p) ==
    LET n == pub[p].next IN
    /\ pub[p].at = "insert"
    /\ versions' = IF Taken(n) THEN versions ELSE versions \cup {[n |-> n, by |-> p]}
    /\ pub' = [pub EXCEPT ![p] = [@ EXCEPT !.at = "forward"]]
    /\ IF Taken(n) THEN UNCHANGED outraced ELSE Overtake(p)
    /\ UNCHANGED <<row, current, resolved, maker, deleter, crashes>>

Claim(p) ==
    LET n == pub[p].next IN
    /\ pub[p].at = "insert"
    /\ ~Taken(n)
    /\ versions' = versions \cup {[n |-> n, by |-> p]}
    /\ pub' = [pub EXCEPT ![p] = [@ EXCEPT !.at = "forward"]]
    /\ Overtake(p)
    /\ UNCHANGED <<row, current, resolved, maker, deleter, crashes>>

\* A refused insert is another attempt, and the last one a 409
Retry(p) ==
    LET tries == pub[p].attempt + 1 IN
    /\ pub[p].at = "insert"
    /\ Taken(pub[p].next)
    /\ pub' = [pub EXCEPT ![p] = [@ EXCEPT !.attempt = tries,
                                           !.at = IF tries = MaxAttempts THEN "refused" ELSE "idle"]]
    /\ UNCHANGED <<row, current, resolved, versions, maker, outraced, deleter, crashes>>

\* Mutant: the record takes the number whatever it has
AlwaysForward(p) == pub[p].next

\* Mutant: the record moves only from the version that was read
ForwardIfUnchanged(p) == IF current = pub[p].cur THEN pub[p].next ELSE current

\* currentVersion only moves forward
Forwarded(p) == IF current < pub[p].next THEN pub[p].next ELSE current

Forward(p) ==
    /\ pub[p].at = "forward"
    /\ current' = IF row THEN Forwarded(p) ELSE current
    /\ pub' = [pub EXCEPT ![p] = [@ EXCEPT !.at = IF p \in Adopter THEN "merge" ELSE "ok"]]
    /\ UNCHANGED <<row, resolved, versions, maker, outraced, deleter, crashes>>

\* The evidence is merged with what the record had when it was read
Merge(p) ==
    /\ pub[p].at = "merge"
    /\ resolved' = IF row THEN pub[p].known \cup {p} ELSE resolved
    /\ pub' = [pub EXCEPT ![p] = [@ EXCEPT !.at = "ok"]]
    /\ UNCHANGED <<row, current, versions, maker, outraced, deleter, crashes>>

-----------------------------------------------------------------------------
(* deletePrompt: the log, then the record *)

ReadToDelete ==
    /\ Deletes
    /\ deleter = "start"
    /\ row
    /\ deleter' = "versions"
    /\ UNCHANGED <<row, current, resolved, versions, maker, pub, outraced, crashes>>

DeleteVersions ==
    /\ deleter = "versions"
    /\ deleter' = "record"
    /\ versions' = {}
    /\ UNCHANGED <<row, current, resolved, maker, pub, outraced, crashes>>

DeleteRecord ==
    /\ deleter = "record"
    /\ deleter' = "done"
    /\ row' = FALSE
    /\ UNCHANGED <<current, resolved, versions, maker, pub, outraced, crashes>>

-----------------------------------------------------------------------------

PublisherCrashes(p) ==
    /\ pub[p].at \in Working
    /\ crashes < MaxCrashes
    /\ crashes' = crashes + 1
    /\ pub' = [pub EXCEPT ![p] = [@ EXCEPT !.at = "dead"]]
    /\ UNCHANGED <<row, current, resolved, versions, maker, outraced, deleter>>

PublishStep(p) ==
    ReadRecord(p) \/ Scan(p) \/ Claim(p) \/ Retry(p) \/ Forward(p) \/ Merge(p)
DeleteStep == ReadToDelete \/ DeleteVersions \/ DeleteRecord

Next ==
    \/ CreateRecord \/ CreateFirst
    \/ \E p \in Publisher : PublishStep(p) \/ PublisherCrashes(p)
    \/ DeleteStep

Spec == Init /\ [][Next]_vars

-----------------------------------------------------------------------------
(* Properties *)

Publish == [at : Places, attempt : Nat, cur : Nat, next : Nat, known : SUBSET Adopter]
Version == [n : Nat, by : Publisher \cup {Creator}]

\* Every variable has its type (prompts.ts, toolSchemas.ts).
TypeOK ==
    /\ row \in BOOLEAN
    /\ current \in Nat
    /\ versions \subseteq Version
    /\ resolved \subseteq Adopter
    /\ maker \in {"start", "first", "done"}
    /\ pub \in [Publisher -> Publish]
    /\ outraced \in [Publisher -> Nat]
    /\ deleter \in {"start", "versions", "record", "done"}
    /\ crashes \in Nat

\* No two versions of the log have the same number: what the unique index keeps
\* out, and what the refinement of VersionLog rests on (publishPromptVersion).
NumbersAreUnique == \A v, w \in versions : v.n = w.n => v = w

\* The record never goes back to an older version (the update of publishPromptVersion).
NeverBackwards == current' >= current
CurrentOnlyForward == [][NeverBackwards]_vars

\* A publish that was answered is in the log until the record is deleted
\* (publishPromptVersion's return).
Answered(p) == pub[p].at \in {"merge", "ok"}
AnsweredIsStored ==
    \A p \in Publisher :
        Answered(p) /\ deleter \in {"start", "versions"}
            => \E v \in versions : v.by = p /\ v.n = pub[p].next

\* With no publish between its statements, no crash and no deletion the record is
\* at the newest version of the log (publishPromptVersion, "drifted away").
Settled ==
    /\ maker = "done" /\ deleter = "start" /\ crashes = 0
    /\ \A p \in Publisher : pub[p].at # "forward"
CurrentIsNewest ==
    Settled => /\ \A v \in versions : v.n <= current
               /\ current \in Numbers

\* A publish is refused only when others published at least MaxAttempts versions
\* while it was trying (nextFreeVersion, the retry loop).
RefusedOnlyWhenOutraced ==
    \A p \in Publisher : pub[p].at = "refused" => outraced[p] >= MaxAttempts

\* What the client of each publish was told; one that was cut off was told nothing
Told == [p \in Publisher |-> CASE pub[p].at = "ok" -> "published"
                               [] pub[p].at \in {"gone", "refused"} -> "refused"
                               [] OTHER -> "none"]

Log == INSTANCE VersionLog WITH
    log <- versions, head <- current, answer <- Told,
    closed <- deleter \in {"record", "done"}

\* The races for a number, retries and crashes are invisible to the clients: every
\* step is one of VersionLog, whose versions are numbered without a gap, or changes
\* nothing they can see (nextFreeVersion, publishPromptVersion, createPrompt).
ImplementsLog == Log!Spec
=============================================================================
