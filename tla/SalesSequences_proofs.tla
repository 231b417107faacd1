------------------------ MODULE SalesSequences_proofs ------------------------
(***************************************************************************)
(* Every step of a sequence acts once and in order, for any number of      *)
(* enrollments, records, steps and concurrent requests; an enrollment that *)
(* ended is left alone; and a record is enrolled once while requests to    *)
(* enroll come one at a time.                                              *)
(***************************************************************************)
EXTENDS SalesSequences, FiniteSetTheorems, TLAPS

USE StepCountAssumption, NoRecordAssumption

LEMMA NoRowIsRow == NoRow \in Rows /\ AllAbsent \in [Enrollments -> Rows]
  BY DEF NoRow, Rows, AllAbsent

\* What Advanced and Failed do to an active row with a step to run.
LEMMA StepOutcomes ==
  ASSUME NEW r \in Rows, r.status = "active", r.position < StepCount
  PROVE  /\ Advanced(r) \in Rows /\ Advanced(r) # NoRow
         /\ Advanced(r).position = r.position + 1
         /\ Advanced(r).status \in {"active", "completed"}
         /\ Advanced(r).status = "active" => Advanced(r).position < StepCount
         /\ Advanced(r).status = "completed" => Advanced(r).position = StepCount
         /\ Failed(r) \in Rows /\ Failed(r) # NoRow
         /\ Failed(r).position = r.position
         /\ Failed(r).status = "failed"
<1>1. r.position \in 0 .. StepCount /\ r.position + 1 \in 0 .. StepCount
  BY DEF Rows
<1>3. DEFINE next == IF r.position + 1 = StepCount THEN "completed" ELSE "active"
<1>4. Advanced(r) \in Rows /\ Advanced(r).position = r.position + 1 /\ Advanced(r).status = next
  <2>1. PICK k \in 0 .. StepCount : k = r.position + 1
    BY <1>1
  <2>2. PICK x \in {"active", "completed"} : x = next
    OBVIOUS
  <2>3. Advanced(r) = [r EXCEPT !.position = k, !.status = x, !.due = FALSE]
    BY <2>1, <2>2 DEF Advanced
  <2> DEFINE q == [r EXCEPT !.position = k, !.status = x, !.due = FALSE]
  <2>4. q \in Rows /\ q.position = k /\ q.status = x
    BY DEF Rows
  <2> HIDE DEF q, next
  <2>5. Advanced(r) = q
    BY <2>3 DEF q
  <2> QED
    BY <2>1, <2>2, <2>4, <2>5
<1>5. Failed(r) \in Rows /\ Failed(r).position = r.position /\ Failed(r).status = "failed"
  BY DEF Failed, Rows
<1>6. NoRow.status = "absent"
  BY DEF NoRow
<1> QED
  BY <1>1, <1>4, <1>5, <1>6

\* The effects behind an enrollment, one step further.
LEMMA OneMoreStep ==
  ASSUME NEW s, NEW k \in 0 .. StepCount - 1, s = [i \in 1 .. k |-> i - 1]
  PROVE  /\ Append(s, k) = [i \in 1 .. k + 1 |-> i - 1]
         /\ Append(s, k) \in Seq(0 .. StepCount - 1)
<1>1. s \in Seq(0 .. StepCount - 1) /\ Len(s) = k
  OBVIOUS
<1>2. Append(s, k) \in Seq(0 .. StepCount - 1) /\ Len(Append(s, k)) = k + 1
  BY <1>1
<1>3. \A i \in 1 .. k + 1 : Append(s, k)[i] = i - 1
  BY <1>1
<1> QED
  BY <1>2, <1>3

LEMMA InvInit == Init => Inv
<1> SUFFICES ASSUME Init PROVE Inv
  OBVIOUS
<1>1. \A e \in Enrollments : row[e] = NoRow /\ work[e] = NoRow /\ effects[e] = <<>>
  BY DEF Init, AllAbsent
<1>2. TypeOK
  <2>1. effects \in [Enrollments -> Seq(0 .. StepCount - 1)]
    BY DEF Init
  <2> QED
    BY NoRowIsRow, <2>1 DEF Init, TypeOK
<1>3. PassFollowsRow /\ GoneForGood
  BY <1>1 DEF PassFollowsRow, GoneForGood, InPass, Init
<1>4. ActiveHasStep /\ StepsOnceInOrder
  BY <1>1 DEF ActiveHasStep, StepsOnceInOrder, NoRow
<1> QED
  BY <1>2, <1>3, <1>4 DEF Inv

\* The worker's memory is empty after a pass.
LEMMA PassOver ==
  ASSUME EndPass PROVE InPass' = {} /\ busy' = FALSE /\ batch' = {} /\ work' \in [Enrollments -> Rows]
  BY NoRowIsRow DEF EndPass, InPass, AllAbsent

LEMMA InvEnrollCommit ==
  ASSUME Inv, NEW p \in Procs, NEW e \in Enrollments, EnrollCommit(p, e)
  PROVE  Inv'
<1> DEFINE new == [NoRow EXCEPT !.status = "active", !.record = enrolling[p]]
<1> USE DEF Inv
<1>1. new \in Rows /\ new # NoRow /\ new.status = "active" /\ new.position = 0
  BY DEF EnrollCommit, TypeOK, NoRow, Rows
<1>2. CASE ~present
  <2>1. UNCHANGED <<present, records, row, effects, worker>>
    BY <1>2 DEF EnrollCommit
  <2>2. TypeOK'
    BY <2>1 DEF TypeOK, EnrollCommit, worker
  <2> QED
    BY <2>1, <2>2 DEF PassFollowsRow, ActiveHasStep, GoneForGood, StepsOnceInOrder, InPass, worker
<1>3. CASE present
  <2> HIDE DEF new
  <2>1. row' = [row EXCEPT ![e] = new] /\ UNCHANGED <<present, records, effects, worker>>
    BY <1>3 DEF EnrollCommit, new
  <2>2. row \in [Enrollments -> Rows] /\ row[e] = NoRow /\ effects[e] = <<>> /\ e \notin InPass
    BY <1>3 DEF TypeOK, EnrollCommit, GoneForGood
  <2>3. TypeOK'
    BY <1>1, <2>1 DEF TypeOK, EnrollCommit, worker
  <2>4. PassFollowsRow'
    BY <2>1, <2>2 DEF PassFollowsRow, InPass, worker
  <2>5. GoneForGood'
    BY <1>1, <1>3, <2>1, <2>2 DEF GoneForGood, InPass, worker
  <2>6. ActiveHasStep'
    BY <1>1, <2>1, <2>2 DEF ActiveHasStep
  <2>7. StepsOnceInOrder'
    BY <1>1, <2>1, <2>2 DEF StepsOnceInOrder
  <2> QED
    BY <2>3, <2>4, <2>5, <2>6, <2>7
<1> QED
  BY <1>2, <1>3 DEF TypeOK

LEMMA InvFetch ==
  ASSUME Inv, Fetch PROVE Inv'
<1> USE DEF Inv
<1>1. TypeOK'
  BY NoRowIsRow DEF TypeOK, Fetch, Due
<1>2. \A e \in Due : row[e].status = "active" /\ row[e].due /\ row[e] # NoRow
  BY DEF Due, NoRow
<1>3. InPass' = Due /\ \A e \in Due : work'[e] = row[e]
  BY <1>2 DEF Fetch, InPass, Due
<1>4. PassFollowsRow'
  <2>1. batch' = Due /\ busy' /\ row' = row
    BY DEF Fetch
  <2>2. \A e \in Due : row[e].position < StepCount
    BY <1>2 DEF ActiveHasStep, Due
  <2> QED
    BY <1>2, <1>3, <2>1, <2>2 DEF PassFollowsRow
<1>6. GoneForGood'
  BY <1>2, <1>3 DEF GoneForGood, Fetch
<1>5. ActiveHasStep' /\ StepsOnceInOrder'
  BY DEF ActiveHasStep, StepsOnceInOrder, Fetch
<1> QED
  BY <1>1, <1>4, <1>5, <1>6

\* A step of the worker on one enrollment of its batch.
LEMMA InvRunStep ==
  ASSUME Inv, NEW e \in Enrollments, RunStep(e)
  PROVE  Inv'
<1> DEFINE out == IF present /\ work[e].record \in records
                   THEN Advanced(work[e]) ELSE Failed(work[e])
<1>1. /\ work' = [work EXCEPT ![e] = out] /\ batch' = batch \ {e} /\ e \in batch /\ busy
      /\ UNCHANGED <<present, records, row, effects, enrolling, busy>>
  BY DEF RunStep
<1>2. /\ work[e] \in Rows /\ work[e].status = "active" /\ work[e].position < StepCount
      /\ e \in InPass /\ (row[e] # NoRow => work[e] = row[e])
  BY <1>1 DEF Inv, TypeOK, PassFollowsRow
<1>3. out \in Rows /\ out # NoRow /\ out \in {Advanced(work[e]), Failed(work[e])}
  BY <1>2, StepOutcomes
<1> HIDE DEF out
<1>4. InPass' = InPass /\ \A x \in Enrollments : x # e => work'[x] = work[x]
  BY <1>1, <1>2, <1>3 DEF InPass, Inv, TypeOK
<1>5. TypeOK'
  BY <1>1, <1>3 DEF Inv, TypeOK
<1>6. work'[e] = out
  BY <1>1 DEF Inv, TypeOK
<1>7. PassFollowsRow'
  <2>1. batch' \subseteq InPass'
    BY <1>1, <1>4 DEF Inv, PassFollowsRow
  <2>2. \A x \in batch' : work'[x].status = "active" /\ work'[x].position < StepCount
    BY <1>1, <1>4 DEF Inv, PassFollowsRow, TypeOK
  <2>3. ASSUME NEW x \in InPass', row'[x] # NoRow
        PROVE  /\ row'[x].status = "active" /\ row'[x].due
               /\ IF x \in batch' THEN work'[x] = row'[x]
                                   ELSE work'[x] \in {Advanced(row'[x]), Failed(row'[x])}
    <3>1. CASE x = e
      BY <1>1, <1>2, <1>3, <1>6, <2>3, <3>1 DEF Inv, PassFollowsRow
    <3>2. CASE x # e
      BY <1>1, <1>4, <2>3, <3>2 DEF Inv, PassFollowsRow, InPass
    <3> QED
      BY <3>1, <3>2
  <2> QED
    BY <1>1, <2>1, <2>2, <2>3 DEF PassFollowsRow
<1>8. ActiveHasStep' /\ GoneForGood' /\ StepsOnceInOrder'
  BY <1>1, <1>4 DEF Inv, ActiveHasStep, GoneForGood, StepsOnceInOrder
<1> QED
  BY <1>5, <1>7, <1>8 DEF Inv

LEMMA InvCommit ==
  ASSUME Inv, Commit
  PROVE  Inv'
<1>1. /\ InPass' = {} /\ busy' = FALSE /\ batch' = {} /\ work' \in [Enrollments -> Rows]
      /\ UNCHANGED <<present, records, enrolling>>
  BY PassOver DEF Commit
<1>2. ASSUME NEW e \in InPass
      PROVE  /\ row'[e] = work[e] /\ row[e] \in Rows /\ row[e] # NoRow
             /\ row[e].status = "active" /\ row[e].position < StepCount
             /\ row'[e] \in {Advanced(row[e]), Failed(row[e])}
             /\ row[e].position \in 0 .. StepCount - 1
             /\ effects[e] = [i \in 1 .. row[e].position |-> i - 1]
             /\ effects'[e] = IF row'[e].position # row[e].position
                              THEN Append(effects[e], row[e].position) ELSE effects[e]
  <2>1. e \in Enrollments /\ row[e] \in Rows
    BY DEF InPass, Inv, TypeOK
  <2>2. row[e] # NoRow /\ row'[e] = work[e]
    BY <2>1 DEF Commit
  <2>3. row[e].status = "active" /\ work[e] \in {Advanced(row[e]), Failed(row[e])}
    BY <2>2 DEF Inv, PassFollowsRow, Commit
  <2>4. row[e].position < StepCount
    BY <2>1, <2>3 DEF Inv, ActiveHasStep
  <2>5. row[e].position \in 0 .. StepCount - 1
    BY <2>1, <2>4 DEF Rows
  <2>6. effects[e] = [i \in 1 .. row[e].position |-> i - 1]
    BY <2>1, <2>2 DEF Inv, StepsOnceInOrder
  <2>7. effects'[e] = IF row'[e].position # row[e].position
                     THEN Append(effects[e], row[e].position) ELSE effects[e]
    BY <2>1, <2>2 DEF Commit
  <2> QED
    BY <2>1, <2>2, <2>3, <2>4, <2>5, <2>6, <2>7
<1>3. \A e \in Enrollments \ InPass : row'[e] = row[e] /\ effects'[e] = effects[e]
  BY DEF Commit
<1>4. ASSUME NEW e \in Enrollments
      PROVE  /\ row'[e] \in Rows /\ effects'[e] \in Seq(0 .. StepCount - 1)
             /\ row'[e] # NoRow <=> row[e] # NoRow
             /\ row'[e].status = "active" => row'[e].position < StepCount
             /\ row'[e] # NoRow => effects'[e] = [i \in 1 .. row'[e].position |-> i - 1]
             /\ row'[e].status = "completed" => row'[e].position = StepCount
  <2>1. CASE e \in InPass
    <3> DEFINE r == row[e]
               k == row[e].position
    <3>1. effects[e] \in Seq(0 .. StepCount - 1)
      BY DEF Inv, TypeOK
    <3>2. CASE row'[e] = Advanced(r)
      <4>3. /\ Advanced(r) \in Rows /\ Advanced(r) # NoRow /\ Advanced(r).position = k + 1
            /\ Advanced(r).status = "active" => Advanced(r).position < StepCount
            /\ Advanced(r).status = "completed" => Advanced(r).position = StepCount
        BY <1>2, <2>1, StepOutcomes
      <4>4. k + 1 # k
        <5>1. k \in 0 .. StepCount - 1
          BY <1>2, <2>1, Zenon
        <5> QED
          BY <5>1
      <4>1. effects'[e] = Append(effects[e], k) /\ row'[e].position = k + 1
        BY <1>2, <2>1, <3>2, <4>3, <4>4
      <4>2. /\ Append(effects[e], k) = [i \in 1 .. k + 1 |-> i - 1]
            /\ Append(effects[e], k) \in Seq(0 .. StepCount - 1)
        BY <1>2, <2>1, OneMoreStep
      <4> QED
        BY <1>2, <2>1, <3>2, <4>1, <4>2, <4>3
    <3>3. CASE row'[e] = Failed(r)
      <4>1. effects'[e] = effects[e] /\ row'[e].position = k
        BY <1>2, <2>1, <3>3, StepOutcomes
      <4> QED
        BY <1>2, <2>1, <3>1, <3>3, <4>1, StepOutcomes
    <3> QED
      BY <1>2, <2>1, <3>2, <3>3
  <2>2. CASE e \notin InPass
    BY <1>3, <2>2 DEF Inv, TypeOK, ActiveHasStep, StepsOnceInOrder
  <2> QED
    BY <2>1, <2>2
<1>5. TypeOK'
  <2>1. row' \in [Enrollments -> Rows] /\ effects' \in [Enrollments -> Seq(0 .. StepCount - 1)]
    BY <1>4 DEF Commit
  <2> QED
    BY <1>1, <2>1 DEF Inv, TypeOK
<1>6. PassFollowsRow'
  BY <1>1 DEF PassFollowsRow
<1>7. GoneForGood'
  <2>1. ~present => row' = AllAbsent
    <3> SUFFICES ASSUME ~present PROVE row' = AllAbsent
      OBVIOUS
    <3>1. \A e \in Enrollments : row'[e] = NoRow
      BY <1>4 DEF Inv, GoneForGood, AllAbsent
    <3>2. row' \in [Enrollments -> Rows]
      BY <1>5 DEF TypeOK
    <3> QED
      BY <3>1, <3>2 DEF AllAbsent
  <2> QED
    BY <1>1, <2>1 DEF GoneForGood
<1>8. ActiveHasStep' /\ StepsOnceInOrder'
  BY <1>4 DEF ActiveHasStep, StepsOnceInOrder
<1> QED
  BY <1>5, <1>6, <1>7, <1>8 DEF Inv

LEMMA InvNext == Inv /\ [Next]_vars => Inv'
<1> SUFFICES ASSUME Inv, [Next]_vars PROVE Inv'
  OBVIOUS
<1> USE DEF Inv
<1>1. ASSUME NEW p \in Procs, NEW r \in Records, EnrollCheck(p, r) PROVE Inv'
  <2>1. TypeOK'
    BY <1>1 DEF TypeOK, EnrollCheck, worker
  <2> QED
    BY <1>1, <2>1 DEF EnrollCheck, worker, PassFollowsRow, ActiveHasStep, GoneForGood,
                     StepsOnceInOrder, InPass
<1>2. ASSUME NEW p \in Procs, NEW e \in Enrollments, EnrollCommit(p, e) PROVE Inv'
  BY <1>2, InvEnrollCommit
<1>3. CASE DeleteSequence
  <2>1. TypeOK'
    BY <1>3, NoRowIsRow DEF TypeOK, DeleteSequence, worker
  <2>2. \A e \in Enrollments : row'[e] = NoRow
    BY <1>3 DEF DeleteSequence, AllAbsent
  <2>5. NoRow.status = "absent"
    BY DEF NoRow
  <2>3. ActiveHasStep' /\ StepsOnceInOrder'
    BY <2>2, <2>5 DEF ActiveHasStep, StepsOnceInOrder
  <2>4. PassFollowsRow' /\ GoneForGood'
    BY <1>3, <2>2 DEF DeleteSequence, worker, PassFollowsRow, GoneForGood, InPass
  <2> QED
    BY <2>1, <2>3, <2>4
<1>4. ASSUME NEW r \in Records, DeleteRecord(r) PROVE Inv'
  <2>1. TypeOK'
    BY <1>4 DEF TypeOK, DeleteRecord, worker
  <2> QED
    BY <1>4, <2>1 DEF DeleteRecord, worker, PassFollowsRow, ActiveHasStep, GoneForGood,
                     StepsOnceInOrder, InPass
<1>5. CASE Fetch
  BY <1>5, InvFetch
<1>6. CASE Commit
  BY <1>6, InvCommit
<1>7. CASE Rollback
  <2>1. TypeOK'
    BY <1>7, PassOver DEF TypeOK, Rollback
  <2>2. PassFollowsRow' /\ GoneForGood'
    BY <1>7, PassOver DEF PassFollowsRow, GoneForGood, Rollback
  <2>3. ActiveHasStep' /\ StepsOnceInOrder'
    BY <1>7 DEF ActiveHasStep, StepsOnceInOrder, Rollback
  <2> QED
    BY <2>1, <2>2, <2>3
<1>8. ASSUME NEW e \in Enrollments, RunStep(e) PROVE Inv'
  BY <1>8, InvRunStep
<1>9. ASSUME NEW e \in Enrollments, DelayEnds(e) PROVE Inv'
  <2> DEFINE new == [row[e] EXCEPT !.due = TRUE]
  <2>1. /\ row[e] \in Rows /\ row[e].status = "active" /\ ~row[e].due
        /\ row' = [row EXCEPT ![e] = new]
        /\ UNCHANGED <<present, records, effects, enrolling, worker>>
    BY <1>9 DEF DelayEnds, TypeOK
  <2>2. /\ new \in Rows /\ new.status = "active" /\ new.position = row[e].position
        /\ new # NoRow /\ row[e] # NoRow
    <3>3. new \in Rows /\ new.status = "active" /\ new.position = row[e].position
      BY <2>1 DEF Rows
    <3> HIDE DEF new
    <3>4. NoRow.status = "absent"
      BY DEF NoRow
    <3> QED
      BY <2>1, <3>3, <3>4
  <2>3. e \notin InPass
    BY <2>1, <2>2 DEF PassFollowsRow
  <2> HIDE DEF new
  <2>4. TypeOK'
    BY <2>1, <2>2 DEF TypeOK, worker
  <2>5. PassFollowsRow'
    BY <2>1, <2>3 DEF PassFollowsRow, InPass, worker, TypeOK
  <2>6. present
    BY <2>2 DEF GoneForGood, AllAbsent
  <2>7. GoneForGood'
    BY <2>1, <2>3, <2>6 DEF GoneForGood, InPass, worker, TypeOK
  <2>8. ActiveHasStep' /\ StepsOnceInOrder'
    BY <2>1, <2>2 DEF ActiveHasStep, StepsOnceInOrder, TypeOK
  <2> QED
    BY <2>4, <2>5, <2>7, <2>8
<1>10. CASE UNCHANGED vars
  BY <1>10 DEF vars, worker, TypeOK, PassFollowsRow, ActiveHasStep, GoneForGood,
              StepsOnceInOrder, InPass
<1> QED
  BY <1>1, <1>2, <1>3, <1>4, <1>5, <1>6, <1>7, <1>8, <1>9, <1>10
  DEF Next, WorkerStep, StaleCommit

\* The inductive invariant of the worker and the enrollments.
THEOREM SequenceInvariance == Spec => []Inv
  BY InvInit, InvNext, PTL DEF Spec

\* TypeOK: enrollments, effects and the worker's memory keep their types.
THEOREM SequenceTypes == Spec => []TypeOK
  BY SequenceInvariance, PTL DEF Inv

\* process_due_sequences executes each step of an enrollment once and in order,
\* whatever crashes, deletions and concurrent enrollments do.
THEOREM StepsOnce == Spec => []StepsOnceInOrder
  BY SequenceInvariance, PTL DEF Inv

-----------------------------------------------------------------------------
(* What a step does to one enrollment. *)

\* A pass commits a step, or the failure, of enrollments that are active and due.
LEMMA CommittedStep ==
  ASSUME Inv, Commit, NEW e \in Enrollments
  PROVE  \/ row'[e] = row[e] /\ effects'[e] = effects[e]
         \/ /\ row[e].status = "active" /\ row[e].due
            /\ row'[e] \in {Advanced(row[e]), Failed(row[e])}
            /\ effects'[e] \in {effects[e], Append(effects[e], row[e].position)}
<1>1. CASE e \in InPass
  <2>1. /\ row[e] # NoRow /\ row'[e] = work[e] /\ batch = {}
        /\ effects'[e] \in {effects[e], Append(effects[e], row[e].position)}
    BY <1>1 DEF Commit
  <2> QED
    BY <1>1, <2>1 DEF Inv, PassFollowsRow
<1>2. CASE e \notin InPass
  BY <1>2 DEF Commit
<1> QED
  BY <1>1, <1>2

\* The steps on the rows are few.
LEMMA RowSteps ==
  ASSUME [Next]_vars
  PROVE  \/ UNCHANGED <<row, effects>>
         \/ \E p \in Procs, e \in Enrollments : EnrollCommit(p, e)
         \/ DeleteSequence \/ Commit
         \/ \E e \in Enrollments : DelayEnds(e)
  BY DEF Next, vars, worker, WorkerStep, StaleCommit, EnrollCheck, DeleteRecord, Fetch, RunStep, Rollback

LEMMA EnrollmentStep ==
  ASSUME Inv, [Next]_vars, NEW e \in Enrollments
  PROVE  /\ row[e].status \in {"completed", "failed"} => row'[e] \in {row[e], NoRow}
         /\ row[e] # NoRow /\ row'[e] # NoRow =>
              /\ row'[e].record = row[e].record
              /\ row'[e].position \in {row[e].position, row[e].position + 1}
         /\ effects'[e] # effects[e] =>
              /\ row[e].status = "active" /\ row[e].due
              /\ effects'[e] = Append(effects[e], row[e].position)
<1> DEFINE Goal == /\ row[e].status \in {"completed", "failed"} => row'[e] \in {row[e], NoRow}
                   /\ row[e] # NoRow /\ row'[e] # NoRow =>
                        /\ row'[e].record = row[e].record
                        /\ row'[e].position \in {row[e].position, row[e].position + 1}
                   /\ effects'[e] # effects[e] =>
                        /\ row[e].status = "active" /\ row[e].due
                        /\ effects'[e] = Append(effects[e], row[e].position)
<1>1. row[e] \in Rows /\ row \in [Enrollments -> Rows] /\ NoRow.status = "absent"
  BY DEF Inv, TypeOK, NoRow
<1>2. ASSUME NEW p \in Procs, NEW x \in Enrollments, EnrollCommit(p, x)
      PROVE  Goal
  <2>1. row[x] = NoRow /\ UNCHANGED effects /\ \A y \in Enrollments \ {x} : row'[y] = row[y]
    BY <1>1, <1>2 DEF EnrollCommit
  <2> QED
    BY <1>1, <2>1
<1>3. CASE DeleteSequence
  BY <1>3 DEF DeleteSequence, AllAbsent
<1>4. CASE Commit
  <2>1. CASE row'[e] = row[e] /\ effects'[e] = effects[e]
    BY <2>1
  <2>2. CASE /\ row[e].status = "active" /\ row[e].due
             /\ row'[e] \in {Advanced(row[e]), Failed(row[e])}
             /\ effects'[e] \in {effects[e], Append(effects[e], row[e].position)}
    <3>1. /\ Advanced(row[e]).record = row[e].record /\ Advanced(row[e]).position = row[e].position + 1
          /\ Failed(row[e]).record = row[e].record /\ Failed(row[e]).position = row[e].position
      BY <1>1 DEF Advanced, Failed, Rows
    <3> QED
      BY <2>2, <3>1
  <2> QED
    BY <1>4, <2>1, <2>2, CommittedStep
<1>5. ASSUME NEW x \in Enrollments, DelayEnds(x)
      PROVE  Goal
  <2>1. /\ row[x].status = "active" /\ row' = [row EXCEPT ![x].due = TRUE] /\ UNCHANGED effects
    BY <1>5 DEF DelayEnds
  <2>2. CASE x = e
    <3>1. /\ row'[e].record = row[e].record /\ row'[e].position = row[e].position
      BY <1>1, <2>1, <2>2 DEF Rows
    <3> QED
      BY <2>1, <2>2, <3>1
  <2>3. CASE x # e
    BY <1>1, <2>1, <2>3
  <2> QED
    BY <2>2, <2>3
<1>6. CASE UNCHANGED <<row, effects>>
  BY <1>6
<1> QED
  BY <1>2, <1>3, <1>4, <1>5, <1>6, RowSteps

\* What has completed or failed is left alone, and a step acts only on an
\* enrollment that is active and due at the commit, though the pass read it long
\* before: only passes move enrollments, and one pass runs at a time.
THEOREM EndedLeftAlone == Spec => EndedIsLeftAlone
<1>1. Inv /\ [Next]_vars =>
        [\A e \in Enrollments :
           /\ row[e].status \in {"completed", "failed"} => row'[e] \in {row[e], NoRow}
           /\ row[e] # NoRow /\ row'[e] # NoRow =>
                /\ row'[e].record = row[e].record
                /\ row'[e].position \in {row[e].position, row[e].position + 1}
           /\ effects'[e] # effects[e] =>
                /\ row[e].status = "active" /\ row[e].due
                /\ effects'[e] = Append(effects[e], row[e].position)]_vars
  BY EnrollmentStep
<1> QED
  BY <1>1, InvInit, InvNext, PTL DEF Spec, EndedIsLeftAlone

-----------------------------------------------------------------------------
(* Requests to enroll, one at a time. *)

OneRequest == \A p, q \in Procs : p = q

OneActive ==
    \A e, f \in Enrollments :
        row[e].status = "active" /\ row[f].status = "active" /\ row[e].record = row[f].record => e = f

\* Why: what a request has found still holds when it commits.
FoundFree == \A p \in Procs : enrolling[p] # NoRecord => ActiveFor(enrolling[p]) = {}

LEMMA EnrollInit == Init => OneActive /\ FoundFree
  BY DEF Init, OneActive, FoundFree, AllAbsent, NoRow

\* No step but the commit of an enrollment activates one.
LEMMA ActiveBefore ==
  ASSUME Inv, [Next]_vars, ~\E p \in Procs, e \in Enrollments : EnrollCommit(p, e)
  PROVE  \A e \in Enrollments : row'[e].status = "active" =>
            row[e].status = "active" /\ row'[e].record = row[e].record
<1> SUFFICES ASSUME NEW e \in Enrollments, row'[e].status = "active"
             PROVE  row[e].status = "active" /\ row'[e].record = row[e].record
  OBVIOUS
<1>1. NoRow.status = "absent"
  BY DEF NoRow
<1>2. row[e].status = "active"
  <2>1. CASE UNCHANGED <<row, effects>>
    BY <2>1
  <2>2. CASE DeleteSequence
    BY <1>1, <2>2 DEF DeleteSequence, AllAbsent
  <2>3. CASE Commit
    BY <2>3, CommittedStep
  <2>4. CASE \E x \in Enrollments : DelayEnds(x)
    BY <2>4 DEF DelayEnds, Inv, TypeOK
  <2> QED
    BY <2>1, <2>2, <2>3, <2>4, RowSteps
<1> QED
  BY <1>1, <1>2, EnrollmentStep

LEMMA EnrollStep ==
  ASSUME OneRequest, Inv, OneActive, FoundFree, [Next]_vars
  PROVE  OneActive' /\ FoundFree'
<1>1. ASSUME NEW p \in Procs, NEW e \in Enrollments, EnrollCommit(p, e)
      PROVE  OneActive' /\ FoundFree'
  <2>1. FoundFree'
    <3>1. enrolling' = [enrolling EXCEPT ![p] = NoRecord]
      BY <1>1 DEF EnrollCommit
    <3> QED
      BY <3>1 DEF OneRequest, FoundFree, Inv, TypeOK
  <2>2. CASE ~present
    BY <1>1, <2>1, <2>2 DEF EnrollCommit, OneActive
  <2>3. CASE present
    <3> DEFINE new == [NoRow EXCEPT !.status = "active", !.record = enrolling[p]]
    <3>1. new.record = enrolling[p]
      BY DEF NoRow
    <3>2. row' = [row EXCEPT ![e] = new] /\ enrolling[p] # NoRecord
      BY <1>1, <2>3 DEF EnrollCommit
    <3> HIDE DEF new
    <3>3. \A x \in Enrollments \ {e} : row'[x] = row[x]
      BY <3>2 DEF Inv, TypeOK
    <3>4. row'[e] = new
      BY <3>2 DEF Inv, TypeOK
    <3>5. \A x \in Enrollments : row[x].status = "active" => row[x].record # enrolling[p]
      BY <3>2 DEF FoundFree, ActiveFor
    <3> QED
      BY <2>1, <3>1, <3>3, <3>4, <3>5 DEF OneActive
  <2> QED
    BY <2>2, <2>3
<1>2. CASE ~\E p \in Procs, e \in Enrollments : EnrollCommit(p, e)
  <2>1. OneActive'
    BY <1>2, ActiveBefore DEF OneActive
  <2>2. ASSUME NEW p \in Procs, enrolling'[p] # NoRecord
        PROVE  \A e \in Enrollments : row'[e].status = "active" => row'[e].record # enrolling'[p]
    <3>1. CASE enrolling'[p] = enrolling[p]
      BY <1>2, <2>2, <3>1, ActiveBefore DEF FoundFree, ActiveFor
    <3>2. ASSUME NEW q \in Procs, NEW r \in Records, EnrollCheck(q, r)
          PROVE  \A e \in Enrollments : row'[e].status = "active" => row'[e].record # enrolling'[p]
      BY <3>2 DEF EnrollCheck, ActiveFor, OneRequest, Inv, TypeOK
    <3>3. (\E q \in Procs, r \in Records : EnrollCheck(q, r)) \/ UNCHANGED enrolling
      BY <1>2 DEF Next, vars, worker, WorkerStep, StaleCommit, DeleteSequence, DeleteRecord, Fetch,
         RunStep, Commit, Rollback, DelayEnds
    <3> QED
      BY <3>1, <3>2, <3>3
  <2> QED
    BY <2>1, <2>2 DEF FoundFree, ActiveFor
<1> QED
  BY <1>1, <1>2

\* While requests to enroll come one at a time, whatever the worker and deletions
\* do in between, a record has one active enrollment at most, as the message of
\* enroll_sequence says: two overlapping requests are what breaks it.
THEOREM OneRequestEnrollsOnce ==
  ASSUME \A p, q \in Procs : p = q
  PROVE  Spec => []EnrolledOnce
<1>1. OneActive => EnrolledOnce
  <2> SUFFICES ASSUME OneActive, NEW r \in Records
               PROVE  Cardinality(ActiveFor(r)) <= 1
    BY DEF EnrolledOnce
  <2>1. ActiveFor(r) = {} \/ \E e \in Enrollments : ActiveFor(r) = {e}
    BY DEF ActiveFor, OneActive
  <2>2. CASE ActiveFor(r) = {}
    BY <2>2, FS_EmptySet
  <2>3. ASSUME NEW e \in Enrollments, ActiveFor(r) = {e}
        PROVE  Cardinality(ActiveFor(r)) <= 1
    <3>1. Cardinality({e}) = 1
      BY FS_Singleton
    <3> QED
      BY <2>3, <3>1
  <2> QED
    BY <2>1, <2>2, <2>3
<1>2. Inv /\ OneActive /\ FoundFree /\ [Next]_vars => OneActive' /\ FoundFree'
  BY EnrollStep DEF OneRequest
<1> QED
  BY <1>1, <1>2, EnrollInit, InvInit, InvNext, PTL DEF Spec
=============================================================================
