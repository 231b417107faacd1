---------------------------- MODULE SalesSequences ----------------------------
(***************************************************************************)
(* One sales sequence and the enrollments of records in it:                *)
(* enroll_sequence, delete_sequence and the worker's process_due_sequences *)
(* in services/v3_platform.py.                                             *)
(*                                                                         *)
(* Enrolling is a SELECT for an active enrollment followed by an INSERT,   *)
(* in one READ COMMITTED transaction without a lock or a unique index.     *)
(* The worker reads the due enrollments in one SELECT, reads sequence,     *)
(* step and record again for each of them, and writes all steps of the     *)
(* pass in one commit.  A sequence has its steps from creation and cannot  *)
(* be switched off afterwards, so the worker's "paused" branch is never    *)
(* taken; delays and the batch limit are left out.                         *)
(***************************************************************************)
EXTENDS Naturals, Sequences, FiniteSets

CONSTANTS
    Enrollments,    \* rows of sales_sequence_enrollments
    Records,        \* leads or contacts that can be enrolled
    NoRecord,
    StepCount,      \* steps of the sequence
    Procs           \* API connections serving enroll requests

ASSUME StepCountAssumption == StepCount \in Nat \ {0}
ASSUME NoRecordAssumption == NoRecord \notin Records

VARIABLES
    present,    \* the sequence exists
    records,    \* records that exist
    row,        \* committed enrollments
    effects,    \* steps whose task or notification was committed, in order
    enrolling,  \* the record each enroll request has found not enrolled
    busy,       \* the worker is in a pass
    batch,      \* enrollments the pass has still to look at
    work        \* enrollments of the pass as the worker has changed them

worker == <<busy, batch, work>>
vars == <<present, records, row, effects, enrolling, busy, batch, work>>

NoRow == [status |-> "absent", record |-> NoRecord, position |-> 0, due |-> FALSE]

Rows == [status : {"absent", "active", "completed", "failed"},
         record : Records \cup {NoRecord}, position : 0 .. StepCount, due : BOOLEAN]

AllAbsent == [e \in Enrollments |-> NoRow]

TypeOK ==
    /\ present \in BOOLEAN
    /\ records \in SUBSET Records
    /\ row \in [Enrollments -> Rows]
    /\ effects \in [Enrollments -> Seq(0 .. StepCount - 1)]
    /\ enrolling \in [Procs -> Records \cup {NoRecord}]
    /\ busy \in BOOLEAN
    /\ batch \in SUBSET Enrollments
    /\ work \in [Enrollments -> Rows]

Init ==
    /\ present = TRUE /\ records = Records
    /\ row = AllAbsent
    /\ effects = [e \in Enrollments |-> <<>>]
    /\ enrolling = [p \in Procs |-> NoRecord]
    /\ busy = FALSE /\ batch = {} /\ work = AllAbsent

-----------------------------------------------------------------------------
(* The API. *)

ActiveFor(r) == {e \in Enrollments : row[e].status = "active" /\ row[e].record = r}

\* enroll_sequence up to its check; a request that finds the record enrolled
\* is refused.
EnrollCheck(p, r) ==
    /\ enrolling[p] = NoRecord
    /\ present /\ r \in records
    /\ ActiveFor(r) = {}
    /\ enrolling' = [enrolling EXCEPT ![p] = r]
    /\ UNCHANGED <<present, records, row, effects, worker>>

\* Its INSERT and commit; the foreign key needs the sequence.
EnrollCommit(p, e) ==
    /\ enrolling[p] # NoRecord
    /\ row[e] = NoRow /\ effects[e] = <<>>
    /\ row' = IF present
              THEN [row EXCEPT ![e] = [NoRow EXCEPT !.status = "active",
                                                      !.record = enrolling[p]]]
              ELSE row
    /\ enrolling' = [enrolling EXCEPT ![p] = NoRecord]
    /\ UNCHANGED <<present, records, effects, worker>>

\* delete_sequence: ON DELETE CASCADE takes the steps and the enrollments.
DeleteSequence ==
    /\ present
    /\ present' = FALSE
    /\ row' = AllAbsent
    /\ UNCHANGED <<records, effects, enrolling, worker>>

\* Leads and contacts are deleted without regard to their enrollments.
DeleteRecord(r) ==
    /\ r \in records
    /\ records' = records \ {r}
    /\ UNCHANGED <<present, row, effects, enrolling, worker>>

-----------------------------------------------------------------------------
(* The worker. *)

Due == {e \in Enrollments : row[e].status = "active" /\ row[e].due}

Fetch ==
    /\ ~busy
    /\ Due # {}
    /\ busy' = TRUE
    /\ batch' = Due
    /\ work' = [e \in Enrollments |-> IF e \in Due THEN row[e] ELSE NoRow]
    /\ UNCHANGED <<present, records, row, effects, enrolling>>

\* Faulty variant: no look for a next step.
AdvancedPastEnd(r) == [r EXCEPT !.position = r.position + 1, !.due = FALSE]

\* The row after its step: the next one is scheduled, if there is one.
Advanced(r) ==
    [r EXCEPT !.position = r.position + 1,
              !.status = IF r.position + 1 = StepCount THEN "completed" ELSE "active",
              !.due = FALSE]

\* Faulty variant: a failed step stays active and due no more.
FailedQuietly(r) == [r EXCEPT !.due = FALSE, !.status = "active"]

Failed(r) == [r EXCEPT !.status = "failed", !.due = FALSE]

\* One enrollment: the sequence or the record may be gone by now.
RunStep(e) ==
    /\ busy /\ e \in batch
    /\ batch' = batch \ {e}
    /\ work' = [work EXCEPT ![e] = IF present /\ work[e].record \in records
                                     THEN Advanced(work[e]) ELSE Failed(work[e])]
    /\ UNCHANGED <<present, records, row, effects, enrolling, busy>>

InPass == {e \in Enrollments : work[e] # NoRow}

EndPass == busy' = FALSE /\ batch' = {} /\ work' = AllAbsent

\* Faulty variant: the tasks and notifications are written and committed by
\* themselves, before the enrollments.
EffectsCommittedFirst ==
    /\ busy /\ batch = {}
    /\ effects' = [e \in Enrollments |-> IF e \in InPass /\ work[e].position # row[e].position
                                         THEN Append(effects[e], row[e].position)
                                         ELSE effects[e]]
    /\ \/ row' = [e \in Enrollments |-> IF e \in InPass THEN work[e] ELSE row[e]]
       \/ UNCHANGED row
    /\ EndPass
    /\ UNCHANGED <<present, records, enrolling>>

\* db.commit() writes the steps' tasks and notifications with the enrollments.
\* An UPDATE that finds its row deleted raises, which rolls the pass back.
Commit ==
    /\ busy /\ batch = {}
    /\ \A e \in InPass : row[e] # NoRow
    /\ row' = [e \in Enrollments |-> IF e \in InPass THEN work[e] ELSE row[e]]
    /\ effects' = [e \in Enrollments |-> IF e \in InPass /\ work[e].position # row[e].position
                                         THEN Append(effects[e], row[e].position)
                                         ELSE effects[e]]
    /\ EndPass
    /\ UNCHANGED <<present, records, enrolling>>

\* The pass ends without a trace: the process dies or the commit raises.
Rollback ==
    /\ busy
    /\ EndPass
    /\ UNCHANGED <<present, records, row, effects, enrolling>>

StaleCommit == batch = {} /\ (\E e \in InPass : row[e] = NoRow) /\ Rollback

-----------------------------------------------------------------------------
DelayEnds(e) ==
    /\ row[e].status = "active" /\ ~row[e].due
    /\ row' = [row EXCEPT ![e].due = TRUE]
    /\ UNCHANGED <<present, records, effects, enrolling, worker>>

WorkerStep == Fetch \/ Commit \/ StaleCommit \/ \E e \in Enrollments : RunStep(e)

Next ==
    \/ \E p \in Procs : (\E r \in Records : EnrollCheck(p, r))
                        \/ \E e \in Enrollments : EnrollCommit(p, e)
    \/ DeleteSequence \/ \E r \in Records : DeleteRecord(r)
    \/ WorkerStep \/ Rollback
    \/ \E e \in Enrollments : DelayEnds(e)

Spec == Init /\ [][Next]_vars

\* The worker polls for ever and is restarted when it dies; delays end.
FairSpec ==
    /\ Spec
    /\ WF_vars(WorkerStep)
    /\ \A e \in Enrollments : WF_vars(DelayEnds(e))

-----------------------------------------------------------------------------
(* Properties. *)

\* Each step acts once and in order, however often a pass dies or is rolled
\* back by a deletion: an enrollment at position k has exactly the effects of
\* steps 0 .. k-1 behind it, and a completed one those of all steps.
StepsOnceInOrder ==
    \A e \in Enrollments :
        /\ row[e] # NoRow => effects[e] = [i \in 1 .. row[e].position |-> i - 1]
        /\ row[e].status = "completed" => row[e].position = StepCount

\* The strengthening that makes it inductive: what the worker holds of a row
\* that still exists is that row, or that row after its step.
PassFollowsRow ==
    /\ batch \subseteq InPass
    /\ \A e \in batch : work[e].status = "active" /\ work[e].position < StepCount
    /\ \A e \in InPass :
        /\ busy
        /\ row[e] # NoRow =>
             /\ row[e].status = "active" /\ row[e].due
             /\ IF e \in batch THEN work[e] = row[e]
                                ELSE work[e] \in {Advanced(row[e]), Failed(row[e])}

ActiveHasStep ==
    \A e \in Enrollments : row[e].status = "active" => row[e].position < StepCount

\* Rows go only with the sequence, and nobody enrolls in a deleted one.
GoneForGood ==
    /\ ~present => row = AllAbsent
    /\ present => \A e \in InPass : row[e] # NoRow

Inv == TypeOK /\ PassFollowsRow /\ ActiveHasStep /\ GoneForGood /\ StepsOnceInOrder

\* With a worker that survives, an enrollment is not left active for ever: it
\* completes, fails with its record, or goes with the sequence.
EnrollmentsEnd ==
    <>[][~(Rollback /\ ~StaleCommit)]_vars =>
        \A e \in Enrollments : row[e].status = "active" ~> row[e].status # "active"

\* An enrollment that completed or failed is never taken up again, one that lives
\* keeps its record and moves one step at a time, and a step acts only on an
\* enrollment that is still active and due when the pass commits, whatever was
\* read when the pass began.
EndedIsLeftAlone ==
    [][\A e \in Enrollments :
         /\ row[e].status \in {"completed", "failed"} => row'[e] \in {row[e], NoRow}
         /\ row[e] # NoRow /\ row'[e] # NoRow =>
              /\ row'[e].record = row[e].record
              /\ row'[e].position \in {row[e].position, row[e].position + 1}
         /\ effects'[e] # effects[e] =>
              /\ row[e].status = "active" /\ row[e].due
              /\ effects'[e] = Append(effects[e], row[e].position)]_vars

\* v3_platform.py:821 "Record is already enrolled in this sequence": a record
\* has at most one active enrollment in a sequence.
EnrolledOnce == \A r \in Records : Cardinality(ActiveFor(r)) <= 1
=============================================================================
