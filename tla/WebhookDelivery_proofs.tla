------------------------ MODULE WebhookDelivery_proofs ------------------------
(***************************************************************************)
(* The accounting of the webhook outbox, for any number of deliveries, any *)
(* limit of attempts and any interleaving of passes, crashes and retries:  *)
(* rows are given up late, delivered rows were taken, repeats are excused. *)
(***************************************************************************)
EXTENDS WebhookDelivery, TLAPS

USE AttemptLimitAssumption, RetryLimitAssumption

\* A pass holds rows that were due; between passes the worker holds nothing.
PassShape ==
    /\ ~busy => batch = {} /\ loaded = AllAbsent /\ work = AllAbsent
    /\ batch \subseteq InPass
    /\ \A d \in InPass : loaded[d].status \in {"pending", "retrying"}

\* A row r of delivery d counts no more attempts than were made, and is not given
\* up before the limit is reached.
Counted(r, d) ==
    tries[d] < AttemptLimit => r.attempts <= tries[d] /\ r.status # "failed"

AttemptsCounted == \A d \in Deliveries : Counted(row[d], d) /\ Counted(work[d], d)

\* What says that it was delivered, committed or not, was taken.
Taken ==
    \A d \in Deliveries :
        row[d].status = "delivered" \/ work[d].status = "delivered" => accepted[d] > 0

\* A delivery that was taken, and that nothing excuses to repeat, is out of the
\* worker's reach: it is committed as delivered, or the pass will commit it so.
TakenOnce ==
    \A d \in Deliveries : accepted[d] > 0 /\ d \notin excused =>
        /\ d \notin batch
        /\ \/ row[d].status = "delivered" /\ loaded[d] = NoRow
           \/ busy /\ loaded[d] # NoRow /\ work[d].status = "delivered"

OutboxInv == TypeOK /\ PassShape /\ AttemptsCounted /\ Taken /\ TakenOnce /\ RepeatsAreExcused

-----------------------------------------------------------------------------
(* What the operators on rows give. *)

LEMMA NoRowIsRow == NoRow \in Rows
  BY DEF NoRow, Rows, Statuses

LEMMA MergeIsRow ==
  ASSUME NEW old \in Rows, NEW new \in Rows, NEW current \in Rows
  PROVE  /\ Merge(old, new, current) \in Rows
         /\ Merge(old, new, current).attempts =
              IF new.attempts # old.attempts THEN new.attempts ELSE current.attempts
         /\ Merge(old, new, current).status =
              IF new.status # old.status THEN new.status ELSE current.status
<1>1. DOMAIN current = {"status", "attempts", "answered", "due"}
  BY DEF Rows
<1>2. Merge(old, new, current) =
        [status |-> IF new.status # old.status THEN new.status ELSE current.status,
         attempts |-> IF new.attempts # old.attempts THEN new.attempts ELSE current.attempts,
         answered |-> IF new.answered # old.answered THEN new.answered ELSE current.answered,
         due |-> IF new.due # old.due THEN new.due ELSE current.due]
  BY <1>1 DEF Merge
<1> QED
  BY <1>2 DEF Rows

LEMMA RowFields ==
  ASSUME NEW r \in Rows
  PROVE  /\ r = [status |-> r.status, attempts |-> r.attempts,
                 answered |-> r.answered, due |-> r.due]
         /\ r.status \in Statuses /\ r.attempts \in Nat
         /\ r.answered \in BOOLEAN /\ r.due \in BOOLEAN
  BY DEF Rows

LEMMA RowOf ==
  ASSUME NEW s \in Statuses, NEW n \in Nat, NEW a \in BOOLEAN, NEW t \in BOOLEAN
  PROVE  [status |-> s, attempts |-> n, answered |-> a, due |-> t] \in Rows
  BY DEF Rows

LEMMA ErrorIsRow ==
  ASSUME NEW r \in Rows
  PROVE  /\ AfterError(r) \in Rows
         /\ AfterError(r).attempts = r.attempts + (IF r.answered THEN 0 ELSE 1)
         /\ AfterError(r).status = IF AfterError(r).attempts >= AttemptLimit
                                   THEN "failed" ELSE "retrying"
<1> DEFINE n == r.attempts + (IF r.answered THEN 0 ELSE 1)
           s == IF n >= AttemptLimit THEN "failed" ELSE "retrying"
           t == n >= AttemptLimit
<1>1. /\ r = [status |-> r.status, attempts |-> r.attempts,
              answered |-> r.answered, due |-> r.due]
      /\ r.answered \in BOOLEAN /\ r.attempts \in Nat
  BY RowFields
<1>2. n \in Nat /\ s \in Statuses /\ t \in BOOLEAN
  BY <1>1 DEF Statuses
<1>3. AfterError(r) = [r EXCEPT !.attempts = n, !.status = s, !.due = t]
  BY DEF AfterError
<1>4. s = IF n >= AttemptLimit THEN "failed" ELSE "retrying"
  OBVIOUS
<1>5. /\ AfterError(r).attempts = n
      /\ AfterError(r).status = s
      /\ AfterError(r) \in Rows
  <2> HIDE DEF n, s, t
  <2>1. AfterError(r) = [status |-> s, attempts |-> n, answered |-> r.answered, due |-> t]
    BY <1>1, <1>3
  <2>2. AfterError(r) \in Rows
    BY <1>1, <1>2, <2>1, RowOf
  <2> QED
    BY <2>1, <2>2
<1> QED
  BY <1>4, <1>5

LEMMA AnswerIsRow ==
  ASSUME NEW r \in Rows, NEW ok \in BOOLEAN
  PROVE  /\ AfterAnswer(r, ok) \in Rows
         /\ AfterAnswer(r, ok).attempts = r.attempts + 1
         /\ ok => AfterAnswer(r, ok).status = "delivered"
         /\ ~ok => AfterAnswer(r, ok).status = IF r.attempts + 1 >= AttemptLimit
                                               THEN "failed" ELSE "retrying"
<1> DEFINE n == r.attempts + 1
           counted == [r EXCEPT !.attempts = n, !.answered = TRUE]
<1>1. /\ r = [status |-> r.status, attempts |-> r.attempts,
              answered |-> r.answered, due |-> r.due]
      /\ r.attempts \in Nat /\ r.status \in Statuses /\ r.due \in BOOLEAN
  BY RowFields
<1>2. n \in Nat
  BY <1>1
<1>3. AfterAnswer(r, ok) = IF ok THEN [counted EXCEPT !.status = "delivered", !.due = TRUE]
                                 ELSE AfterError(counted)
  BY DEF AfterAnswer
<1>4. /\ AfterAnswer(r, ok) \in Rows
      /\ AfterAnswer(r, ok).attempts = n
      /\ ok => AfterAnswer(r, ok).status = "delivered"
      /\ ~ok => AfterAnswer(r, ok).status = IF n >= AttemptLimit THEN "failed" ELSE "retrying"
  <2> HIDE DEF n
  <2>1. counted = [status |-> r.status, attempts |-> n, answered |-> TRUE, due |-> r.due]
    <3> DEFINE once == [r EXCEPT !.attempts = n]
    <3>1. once = [status |-> r.status, attempts |-> n, answered |-> r.answered, due |-> r.due]
      BY <1>1
    <3>2. counted = [once EXCEPT !.answered = TRUE]
      BY <1>1
    <3> HIDE DEF once, counted
    <3> QED
      BY <3>1, <3>2
  <2>2. CASE ok
    <3>1. AfterAnswer(r, ok) = [status |-> "delivered", attempts |-> n, answered |-> TRUE, due |-> TRUE]
      BY <1>3, <2>1, <2>2
    <3>2. AfterAnswer(r, ok) \in Rows
      BY <1>2, <3>1, RowOf DEF Statuses
    <3>3. AfterAnswer(r, ok).attempts = n /\ AfterAnswer(r, ok).status = "delivered"
      BY <3>1
    <3> QED
      BY <2>2, <3>2, <3>3
  <2>3. CASE ~ok
    <3> HIDE DEF counted
    <3>1. counted \in Rows
      BY <1>1, <1>2, <2>1, RowOf
    <3>2. counted.attempts = n /\ counted.answered = TRUE
      BY <2>1
    <3>3. /\ AfterError(counted) \in Rows
          /\ AfterError(counted).attempts = counted.attempts + (IF counted.answered THEN 0 ELSE 1)
          /\ AfterError(counted).status = IF AfterError(counted).attempts >= AttemptLimit
                                          THEN "failed" ELSE "retrying"
      BY <3>1, ErrorIsRow
    <3>4. AfterError(counted).attempts = n
      BY <1>2, <3>2, <3>3
    <3> QED
      BY <1>3, <2>3, <3>3, <3>4
  <2> QED
    BY <2>2, <2>3
<1> QED
  BY <1>4


-----------------------------------------------------------------------------
(* The invariant, action by action. *)

LEMMA AllAbsentIs == AllAbsent \in [Deliveries -> Rows] /\ \A d \in Deliveries : AllAbsent[d] = NoRow
  BY NoRowIsRow DEF AllAbsent

LEMMA InitInv == Init => OutboxInv
<1> SUFFICES ASSUME Init PROVE OutboxInv
  OBVIOUS
<1>1. \A d \in Deliveries : row[d] = NoRow /\ loaded[d] = NoRow /\ work[d] = NoRow
  BY AllAbsentIs DEF Init
<1>2. TypeOK
  <2>1. 0 \in 0 .. AttemptLimit /\ 0 \in 0 .. 2
    OBVIOUS
  <2> QED
    BY <2>1, AllAbsentIs DEF Init, TypeOK
<1>3. PassShape
  BY <1>1 DEF Init, PassShape, InPass
<1>4. \A d \in Deliveries : tries[d] = 0 /\ accepted[d] = 0
  BY DEF Init
<1>5. AttemptsCounted
  BY <1>1, <1>4 DEF AttemptsCounted, Counted, NoRow
<1>6. Taken /\ TakenOnce /\ RepeatsAreExcused
  BY <1>1, <1>4 DEF Taken, TakenOnce, RepeatsAreExcused, NoRow
<1> QED
  BY <1>2, <1>3, <1>5, <1>6 DEF OutboxInv

LEMMA EnqueueInv ==
  ASSUME OutboxInv, NEW d \in Deliveries, Enqueue(d)
  PROVE  OutboxInv'
<1> DEFINE new == [NoRow EXCEPT !.status = "pending", !.due = TRUE]
<1>1. new = [status |-> "pending", attempts |-> 0, answered |-> FALSE, due |-> TRUE]
  <2> DEFINE queued == [NoRow EXCEPT !.status = "pending"]
  <2>1. queued = [status |-> "pending", attempts |-> 0, answered |-> FALSE, due |-> FALSE]
    <3> DEFINE no == FALSE
    <3>1. NoRow = [status |-> "absent", attempts |-> 0, answered |-> no, due |-> no]
      BY DEF NoRow
    <3> HIDE DEF no
    <3>2. queued = [status |-> "pending", attempts |-> 0, answered |-> no, due |-> no]
      BY <3>1
    <3> QED
      BY <3>2 DEF no
  <2>2. new = [queued EXCEPT !.due = TRUE]
    BY DEF NoRow
  <2> HIDE DEF queued, new
  <2> QED
    BY <2>1, <2>2
<1>2. new \in Rows /\ new.attempts = 0 /\ new.status = "pending"
  <2>1. new \in Rows
    <3>1. "pending" \in Statuses /\ 0 \in Nat /\ TRUE \in BOOLEAN /\ FALSE \in BOOLEAN
      BY DEF Statuses
    <3> HIDE DEF new
    <3> QED
      BY <1>1, <3>1, RowOf
  <2> HIDE DEF new
  <2> QED
    BY <1>1, <2>1
<1>3. row' = [row EXCEPT ![d] = new] /\ UNCHANGED <<pass, request, up, history>>
  BY DEF Enqueue
<1> HIDE DEF new
<1>4. \A e \in Deliveries : row'[e] = IF e = d THEN new ELSE row[e]
  BY <1>3 DEF OutboxInv, TypeOK
<1>5. TypeOK'
  BY <1>2, <1>3 DEF OutboxInv, TypeOK, pass, history
<1>6. PassShape'
  BY <1>3 DEF OutboxInv, PassShape, InPass, pass
<1>7. AttemptsCounted'
  BY <1>2, <1>3, <1>4 DEF OutboxInv, TypeOK, AttemptsCounted, Counted, pass, history
<1>8. Taken'
  BY <1>2, <1>3, <1>4 DEF OutboxInv, Taken, pass, history
<1>9. row[d].status # "delivered"
  BY DEF Enqueue, NoRow
<1>10. TakenOnce'
  BY <1>3, <1>4, <1>9 DEF OutboxInv, TakenOnce, pass, history
<1>11. RepeatsAreExcused'
  BY <1>3 DEF OutboxInv, RepeatsAreExcused, history
<1> QED
  BY <1>5, <1>6, <1>7, <1>8, <1>10, <1>11 DEF OutboxInv

\* A step that leaves alone all the invariant speaks of but request, up and owed.
LEMMA QuietInv ==
  ASSUME OutboxInv, TypeOK', UNCHANGED <<row, pass, tries, accepted, excused>>
  PROVE  OutboxInv'
  BY DEF OutboxInv, PassShape, InPass, AttemptsCounted, Counted, Taken, TakenOnce,
         RepeatsAreExcused, pass

LEMMA RetryReadInv ==
  ASSUME OutboxInv, NEW d \in Deliveries, RetryRead(d)
  PROVE  OutboxInv'
<1>1. TypeOK'
  BY DEF OutboxInv, TypeOK, RetryRead, pass, history
<1> QED
  BY <1>1, QuietInv DEF RetryRead, history

LEMMA ReceiversChangeInv ==
  ASSUME OutboxInv, ReceiversChange
  PROVE  OutboxInv'
<1>1. TypeOK'
  BY DEF OutboxInv, TypeOK, ReceiversChange, pass, history
<1> QED
  BY <1>1, QuietInv DEF ReceiversChange, history

\* A committed row changes outside the worker: its attempts stay, and it is
\* given up or delivered only if it was.
LEMMA RowInv ==
  ASSUME OutboxInv, NEW d \in Deliveries, NEW new \in Rows,
         row' = [row EXCEPT ![d] = new], TypeOK',
         new.attempts = row[d].attempts,
         new.status \in {row[d].status, "pending"},
         new.status = row[d].status \/ d \in excused',
         excused \subseteq excused',
         UNCHANGED <<pass, tries, accepted>>
  PROVE  OutboxInv'
<1>1. \A e \in Deliveries : row'[e] = IF e = d THEN new ELSE row[e]
  BY DEF OutboxInv, TypeOK
<1>2. PassShape'
  BY DEF OutboxInv, PassShape, InPass, pass
<1>3. AttemptsCounted'
  BY <1>1 DEF OutboxInv, AttemptsCounted, Counted, pass
<1>4. Taken'
  BY <1>1 DEF OutboxInv, Taken, pass
<1>5. TakenOnce'
  BY <1>1 DEF OutboxInv, TakenOnce, pass
<1>6. RepeatsAreExcused'
  BY DEF OutboxInv, RepeatsAreExcused
<1> QED
  BY <1>2, <1>3, <1>4, <1>5, <1>6 DEF OutboxInv

LEMMA RetryCommitInv ==
  ASSUME OutboxInv, NEW d \in Deliveries, RetryCommit(d)
  PROVE  OutboxInv'
<1> DEFINE old == request[d]
           again == [old EXCEPT !.status = "pending"]
           merged == Merge(old, again, row[d])
           new == [merged EXCEPT !.due = TRUE]
<1>1. old \in Rows /\ row[d] \in Rows
  BY DEF OutboxInv, TypeOK
<1>2. again \in Rows /\ again.attempts = old.attempts /\ again.status = "pending"
  BY <1>1 DEF Rows, Statuses
<1>3. row' = [row EXCEPT ![d] = new]
  BY DEF RetryCommit
<1> HIDE DEF old, again
<1>4. /\ merged \in Rows
      /\ merged.attempts = row[d].attempts
      /\ merged.status \in {row[d].status, "pending"}
  BY <1>1, <1>2, MergeIsRow
<1> HIDE DEF merged
<1>5. new \in Rows /\ new.attempts = merged.attempts /\ new.status = merged.status
  BY <1>4 DEF Rows
<1> HIDE DEF new
<1>6. excused' = excused \cup {d} /\ UNCHANGED <<pass, tries, accepted>>
  BY DEF RetryCommit
<1>7. TypeOK'
  BY <1>3, <1>5, <1>6, NoRowIsRow DEF OutboxInv, TypeOK, RetryCommit, pass
<1> QED
  BY <1>3, <1>4, <1>5, <1>6, <1>7, RowInv

LEMMA BackoffEndsInv ==
  ASSUME OutboxInv, NEW d \in Deliveries, BackoffEnds(d)
  PROVE  OutboxInv'
<1> DEFINE new == [row[d] EXCEPT !.due = TRUE]
<1>1. row[d] \in Rows
  BY DEF OutboxInv, TypeOK
<1>2. new \in Rows /\ new.attempts = row[d].attempts /\ new.status = row[d].status
  BY <1>1 DEF Rows
<1>3. row' = [row EXCEPT ![d] = new] /\ UNCHANGED <<pass, request, up, history>>
  BY DEF BackoffEnds
<1> HIDE DEF new
<1>4. TypeOK'
  BY <1>2, <1>3 DEF OutboxInv, TypeOK, pass, history
<1> QED
  BY <1>2, <1>3, <1>4, RowInv DEF history

LEMMA FetchInv ==
  ASSUME OutboxInv, Fetch
  PROVE  OutboxInv'
<1>1. /\ row \in [Deliveries -> Rows]
      /\ \A d \in Deliveries : loaded'[d] = IF d \in Due THEN row[d] ELSE NoRow
      /\ work' = loaded'
      /\ loaded' \in [Deliveries -> Rows]
  BY NoRowIsRow DEF OutboxInv, TypeOK, Fetch
<1>2. Due \subseteq Deliveries
  BY DEF Due
<1>3. TypeOK'
  BY <1>1, <1>2 DEF OutboxInv, TypeOK, Fetch, history
<1>4. \A d \in Due : row[d].status \in {"pending", "retrying"} /\ row[d] # NoRow
  BY DEF Due, NoRow
<1>5. PassShape'
  BY <1>1, <1>2, <1>4 DEF Fetch, PassShape, InPass
<1>6. AttemptsCounted'
  <2> SUFFICES ASSUME NEW d \in Deliveries PROVE Counted(row[d], d)' /\ Counted(work[d], d)'
    BY DEF AttemptsCounted
  <2>1. Counted(row[d], d)
    BY DEF OutboxInv, AttemptsCounted
  <2>2. Counted(NoRow, d)
    BY DEF Counted, NoRow, OutboxInv, TypeOK
  <2>3. row'[d] = row[d] /\ work'[d] \in {row[d], NoRow} /\ tries' = tries
    BY <1>1 DEF Fetch, history
  <2> QED
    BY <2>1, <2>2, <2>3 DEF Counted
<1>7. Taken'
  BY <1>1 DEF Fetch, OutboxInv, Taken, NoRow, history
<1>8. TakenOnce'
  BY <1>1, <1>4 DEF Fetch, OutboxInv, TakenOnce, history
<1>9. RepeatsAreExcused'
  BY DEF Fetch, OutboxInv, RepeatsAreExcused, history
<1> QED
  BY <1>3, <1>5, <1>6, <1>7, <1>8, <1>9 DEF OutboxInv

\* One post, whatever came back.
LEMMA PostInv ==
  ASSUME OutboxInv, NEW d \in Deliveries, NEW received \in BOOLEAN, NEW outcome \in Rows,
         Post(d, received, outcome),
         outcome.attempts <= work[d].attempts + 1,
         outcome.status = "failed" => outcome.attempts >= AttemptLimit,
         outcome.status = "delivered" => received,
         received => outcome.status = "delivered" \/ d \in excused',
         excused \subseteq excused', excused' \subseteq Deliveries
  PROVE  OutboxInv'
<1>1. /\ busy /\ d \in batch /\ d \in InPass
      /\ batch' = batch \ {d}
      /\ owed' = owed \ {d}
      /\ UNCHANGED <<row, loaded, busy, request, up>>
  BY DEF Post, OutboxInv, PassShape
<1>2. /\ \A e \in Deliveries : work'[e] = IF e = d THEN outcome ELSE work[e]
      /\ work' \in [Deliveries -> Rows]
  BY DEF Post, OutboxInv, TypeOK
<1>3. /\ tries' \in [Deliveries -> 0 .. AttemptLimit]
      /\ \A e \in Deliveries :
           tries'[e] = IF e = d /\ tries[e] < AttemptLimit THEN tries[e] + 1 ELSE tries[e]
  <2>1. tries \in [Deliveries -> 0 .. AttemptLimit]
    BY DEF OutboxInv, TypeOK
  <2>2. tries' = [tries EXCEPT ![d] = IF tries[d] < AttemptLimit THEN tries[d] + 1 ELSE tries[d]]
    BY DEF Post
  <2> QED
    BY <2>1, <2>2
<1>4. /\ accepted' \in [Deliveries -> 0 .. 2]
      /\ \A e \in Deliveries :
           accepted'[e] = IF e = d /\ received /\ accepted[e] < 2 THEN accepted[e] + 1 ELSE accepted[e]
  <2>1. accepted \in [Deliveries -> 0 .. 2]
    BY DEF OutboxInv, TypeOK
  <2>2. accepted' = [accepted EXCEPT ![d] = IF received /\ accepted[d] < 2
                                             THEN accepted[d] + 1 ELSE accepted[d]]
    BY DEF Post
  <2> QED
    BY <2>1, <2>2
<1>5. TypeOK'
  BY <1>1, <1>2, <1>3, <1>4 DEF OutboxInv, TypeOK
<1>6. PassShape'
  BY <1>1, <1>2 DEF OutboxInv, PassShape, InPass
<1>7. AttemptsCounted'
  <2> SUFFICES ASSUME NEW e \in Deliveries PROVE Counted(row[e], e)' /\ Counted(work[e], e)'
    BY DEF AttemptsCounted
  <2>1. /\ tries[e] \in Nat /\ row[e].attempts \in Nat /\ work[e].attempts \in Nat
        /\ outcome.attempts \in Nat
    BY DEF OutboxInv, TypeOK, Rows
  <2>2. Counted(row[e], e) /\ Counted(work[e], e)
    BY DEF OutboxInv, AttemptsCounted
  <2>3. Counted(row[e], e)'
    BY <1>1, <1>3, <2>1, <2>2 DEF Counted
  <2>4. CASE e = d
    BY <1>2, <1>3, <2>1, <2>2, <2>3, <2>4 DEF Counted
  <2>5. CASE e # d
    BY <1>2, <1>3, <2>2, <2>3, <2>5 DEF Counted
  <2> QED
    BY <2>4, <2>5
<1>8. Taken'
  <2> SUFFICES ASSUME NEW e \in Deliveries,
                      row'[e].status = "delivered" \/ work'[e].status = "delivered"
               PROVE  accepted'[e] > 0
    BY DEF Taken
  <2>1. accepted[e] \in 0 .. 2 /\ accepted'[e] >= accepted[e]
    BY <1>4 DEF OutboxInv, TypeOK
  <2>2. CASE row[e].status = "delivered" \/ work[e].status = "delivered"
    BY <1>4, <2>1, <2>2 DEF OutboxInv, Taken
  <2>3. CASE e = d /\ outcome.status = "delivered"
    BY <1>4, <2>1, <2>3
  <2> QED
    BY <1>1, <1>2, <2>2, <2>3
<1>9. accepted[d] > 0 => d \in excused
  BY <1>1 DEF OutboxInv, TakenOnce
<1>10. TakenOnce'
  <2> SUFFICES ASSUME NEW e \in Deliveries, accepted'[e] > 0, e \notin excused'
               PROVE  /\ e \notin batch'
                      /\ \/ row'[e].status = "delivered" /\ loaded'[e] = NoRow
                         \/ busy' /\ loaded'[e] # NoRow /\ work'[e].status = "delivered"
    BY DEF TakenOnce
  <2>1. CASE e = d
    <3>1. received /\ outcome.status = "delivered"
      BY <1>4, <1>9, <2>1
    <3> QED
      BY <1>1, <1>2, <2>1, <3>1 DEF InPass
  <2>2. CASE e # d
    BY <1>1, <1>2, <1>4, <2>2 DEF OutboxInv, TakenOnce
  <2> QED
    BY <2>1, <2>2
<1>11. RepeatsAreExcused'
  <2> SUFFICES ASSUME NEW e \in Deliveries, accepted'[e] > 1 PROVE e \in excused'
    BY DEF RepeatsAreExcused
  <2>1. accepted[e] \in 0 .. 2
    BY DEF OutboxInv, TypeOK
  <2> QED
    BY <1>4, <1>9, <2>1 DEF OutboxInv, RepeatsAreExcused
<1> QED
  BY <1>5, <1>6, <1>7, <1>8, <1>10, <1>11 DEF OutboxInv

LEMMA AnsweredInv ==
  ASSUME OutboxInv, NEW d \in Deliveries, Answered(d)
  PROVE  OutboxInv'
<1>1. PICK ok \in BOOLEAN : Post(d, ok, AfterAnswer(work[d], ok))
  BY DEF Answered
<1>2. work[d] \in Rows /\ work[d].attempts \in Nat
  BY DEF OutboxInv, TypeOK, Rows
<1> DEFINE outcome == AfterAnswer(work[d], ok)
<1>3. /\ outcome \in Rows
      /\ outcome.attempts = work[d].attempts + 1
      /\ ok => outcome.status = "delivered"
      /\ ~ok => outcome.status = IF work[d].attempts + 1 >= AttemptLimit
                                 THEN "failed" ELSE "retrying"
  BY <1>2, AnswerIsRow
<1>4. excused' = excused /\ excused \subseteq Deliveries
  BY DEF Answered, OutboxInv, TypeOK
<1>5. Post(d, ok, outcome)
  BY <1>1
<1> HIDE DEF outcome
<1>6. /\ outcome.attempts <= work[d].attempts + 1
      /\ outcome.status = "failed" => outcome.attempts >= AttemptLimit
      /\ outcome.status = "delivered" => ok
      /\ ok => outcome.status = "delivered" \/ d \in excused'
  BY <1>2, <1>3
<1> QED
  BY <1>3, <1>4, <1>5, <1>6, PostInv

LEMMA UnansweredInv ==
  ASSUME OutboxInv, NEW d \in Deliveries, Unanswered(d)
  PROVE  OutboxInv'
<1> DEFINE outcome == AfterError(work[d])
<1>1. work[d] \in Rows /\ work[d].attempts \in Nat
  BY DEF OutboxInv, TypeOK, Rows
<1>2. /\ outcome \in Rows
      /\ outcome.attempts = work[d].attempts + (IF work[d].answered THEN 0 ELSE 1)
      /\ outcome.status = IF outcome.attempts >= AttemptLimit THEN "failed" ELSE "retrying"
  BY <1>1, ErrorIsRow
<1>3. excused \subseteq Deliveries
  BY DEF OutboxInv, TypeOK
<1>4. \/ Post(d, FALSE, outcome) /\ excused' = excused
      \/ Post(d, TRUE, outcome) /\ excused' = excused \cup {d}
  BY DEF Unanswered
<1> HIDE DEF outcome
<1>5. /\ outcome.attempts <= work[d].attempts + 1
      /\ outcome.status = "failed" => outcome.attempts >= AttemptLimit
      /\ outcome.status # "delivered"
  BY <1>1, <1>2
<1> QED
  BY <1>2, <1>3, <1>4, <1>5, PostInv

LEMMA CommitInv ==
  ASSUME OutboxInv, Commit
  PROVE  OutboxInv'
<1>1. /\ busy /\ batch = {}
      /\ UNCHANGED <<request, up, history>>
      /\ busy' = FALSE /\ batch' = {} /\ loaded' = AllAbsent /\ work' = AllAbsent
  BY DEF Commit, EndPass
<1>2. /\ row \in [Deliveries -> Rows]
      /\ loaded \in [Deliveries -> Rows]
      /\ work \in [Deliveries -> Rows]
  BY DEF OutboxInv, TypeOK
<1>3. \A d \in Deliveries :
        row'[d] = IF d \in InPass THEN Merge(loaded[d], work[d], row[d]) ELSE row[d]
  BY DEF Commit
<1>4. \A d \in Deliveries :
        /\ row'[d] \in Rows
        /\ row'[d].attempts \in {row[d].attempts, work[d].attempts}
        /\ row'[d].status \in {row[d].status, work[d].status}
        /\ loaded[d] = NoRow => row'[d] = row[d]
        /\ loaded[d] # NoRow /\ work[d].status = "delivered" => row'[d].status = "delivered"
  <2> SUFFICES ASSUME NEW d \in Deliveries
               PROVE  /\ row'[d] \in Rows
                      /\ row'[d].attempts \in {row[d].attempts, work[d].attempts}
                      /\ row'[d].status \in {row[d].status, work[d].status}
                      /\ loaded[d] = NoRow => row'[d] = row[d]
                      /\ loaded[d] # NoRow /\ work[d].status = "delivered"
                           => row'[d].status = "delivered"
    OBVIOUS
  <2>1. row[d] \in Rows /\ loaded[d] \in Rows /\ work[d] \in Rows
    BY <1>2
  <2>2. CASE d \in InPass
    <3>1. loaded[d].status \in {"pending", "retrying"} /\ loaded[d] # NoRow
      BY <2>2 DEF OutboxInv, PassShape, InPass
    <3>2. row'[d] = Merge(loaded[d], work[d], row[d])
      BY <1>3, <2>2
    <3> QED
      BY <2>1, <3>1, <3>2, MergeIsRow
  <2>3. CASE d \notin InPass
    BY <1>3, <2>1, <2>3 DEF InPass
  <2> QED
    BY <2>2, <2>3
<1>5. row' \in [Deliveries -> Rows]
  BY <1>4 DEF Commit
<1>6. TypeOK'
  BY <1>1, <1>5, AllAbsentIs DEF OutboxInv, TypeOK, history
<1>7. \A d \in Deliveries : loaded'[d] = NoRow /\ work'[d] = NoRow
  BY <1>1, AllAbsentIs
<1>8. PassShape'
  BY <1>1, <1>7 DEF PassShape, InPass
<1>9. AttemptsCounted'
  <2> SUFFICES ASSUME NEW d \in Deliveries PROVE Counted(row[d], d)' /\ Counted(work[d], d)'
    BY DEF AttemptsCounted
  <2>1. tries'[d] \in Nat /\ tries'[d] = tries[d]
    BY <1>1 DEF OutboxInv, TypeOK, history
  <2>2. Counted(work[d], d)'
    BY <1>7, <2>1 DEF Counted, NoRow
  <2>3. Counted(row[d], d)'
    BY <1>4, <2>1 DEF OutboxInv, AttemptsCounted, Counted
  <2> QED
    BY <2>2, <2>3
<1>10. Taken'
  BY <1>1, <1>4, <1>7 DEF OutboxInv, Taken, NoRow, history
<1>11. TakenOnce'
  BY <1>1, <1>4, <1>7 DEF OutboxInv, TakenOnce, history
<1>12. RepeatsAreExcused'
  BY <1>1 DEF OutboxInv, RepeatsAreExcused, history
<1> QED
  BY <1>6, <1>8, <1>9, <1>10, <1>11, <1>12 DEF OutboxInv

LEMMA CrashInv ==
  ASSUME OutboxInv, Crash
  PROVE  OutboxInv'
<1>1. /\ UNCHANGED <<row, request, up, tries, accepted, owed>>
      /\ busy' = FALSE /\ batch' = {} /\ loaded' = AllAbsent /\ work' = AllAbsent
      /\ excused' = excused \cup {d \in InPass \ batch : accepted[d] > 0}
  BY DEF Crash, EndPass
<1>2. \A d \in Deliveries : loaded'[d] = NoRow /\ work'[d] = NoRow
  BY <1>1, AllAbsentIs
<1>3. InPass \subseteq Deliveries
  BY DEF InPass
<1>4. TypeOK'
  BY <1>1, <1>3, AllAbsentIs DEF OutboxInv, TypeOK
<1>5. PassShape'
  BY <1>1, <1>2 DEF PassShape, InPass
<1>6. AttemptsCounted'
  <2> SUFFICES ASSUME NEW d \in Deliveries PROVE Counted(row[d], d)' /\ Counted(work[d], d)'
    BY DEF AttemptsCounted
  <2>1. tries'[d] \in Nat /\ tries'[d] = tries[d]
    BY <1>1 DEF OutboxInv, TypeOK
  <2> QED
    BY <1>1, <1>2, <2>1 DEF OutboxInv, AttemptsCounted, Counted, NoRow
<1>7. Taken'
  BY <1>1, <1>2 DEF OutboxInv, Taken, NoRow
<1>8. TakenOnce'
  BY <1>1, <1>2 DEF OutboxInv, TakenOnce, InPass
<1>9. RepeatsAreExcused'
  BY <1>1 DEF OutboxInv, RepeatsAreExcused
<1> QED
  BY <1>4, <1>5, <1>6, <1>7, <1>8, <1>9 DEF OutboxInv

LEMMA NextInv == OutboxInv /\ [Next]_vars => OutboxInv'
<1> SUFFICES ASSUME OutboxInv, [Next]_vars PROVE OutboxInv'
  OBVIOUS
<1>1. ASSUME NEW d \in Deliveries, Enqueue(d) PROVE OutboxInv'
  BY <1>1, EnqueueInv
<1>2. ASSUME NEW d \in Deliveries, RetryRead(d) PROVE OutboxInv'
  BY <1>2, RetryReadInv
<1>3. ASSUME NEW d \in Deliveries, RetryCommit(d) PROVE OutboxInv'
  BY <1>3, RetryCommitInv
<1>4. ASSUME NEW d \in Deliveries, BackoffEnds(d) PROVE OutboxInv'
  BY <1>4, BackoffEndsInv
<1>5. CASE Fetch
  BY <1>5, FetchInv
<1>6. CASE Commit
  BY <1>6, CommitInv
<1>7. ASSUME NEW d \in Deliveries, Answered(d) PROVE OutboxInv'
  BY <1>7, AnsweredInv
<1>8. ASSUME NEW d \in Deliveries, Unanswered(d) PROVE OutboxInv'
  BY <1>8, UnansweredInv
<1>9. CASE Crash
  BY <1>9, CrashInv
<1>10. CASE ReceiversChange
  BY <1>10, ReceiversChangeInv
<1>11. CASE UNCHANGED vars
  <2>1. TypeOK'
    BY <1>11 DEF OutboxInv, TypeOK, vars
  <2> QED
    BY <1>11, <2>1, QuietInv DEF vars, pass
<1> QED
  BY <1>1, <1>2, <1>3, <1>4, <1>5, <1>6, <1>7, <1>8, <1>9, <1>10, <1>11 DEF Next, WorkerStep

\* The invariant the theorems rest on: what the worker holds of a pass, what the
\* attempts of a row count, and where a delivery that was taken can be found.
THEOREM OutboxInvariant == Spec => []OutboxInv
  BY InitInv, NextInv, PTL DEF Spec

\* Type correctness of the rows, of the worker's pass and of the retry requests.
THEOREM OutboxTypes == Spec => []TypeOK
  BY OutboxInvariant, PTL DEF OutboxInv

\* process_webhook_deliveries marks a row failed only after AttemptLimit real
\* attempts, whatever crashes, stale retries and merged commits happened.
THEOREM OutboxGivesUpLate == Spec => []GivesUpLate
<1>1. OutboxInv => GivesUpLate
  BY DEF OutboxInv, TypeOK, AttemptsCounted, Counted, GivesUpLate
<1> QED
  BY <1>1, OutboxInvariant, PTL

\* A row is committed as delivered only if a receiver took the event.
THEOREM OutboxDeliveredWasTaken == Spec => []DeliveredWasTaken
<1>1. OutboxInv => DeliveredWasTaken
  BY DEF OutboxInv, Taken, DeliveredWasTaken
<1> QED
  BY <1>1, OutboxInvariant, PTL

\* An event is taken twice only after a crash, a lost answer or a retry by hand.
THEOREM OutboxRepeatsAreExcused == Spec => []RepeatsAreExcused
  BY OutboxInvariant, PTL DEF OutboxInv

-----------------------------------------------------------------------------
(* What the steps do to the statuses. *)

LEMMA EnqueueRow ==
  ASSUME OutboxInv, NEW d \in Deliveries, Enqueue(d)
  PROVE  /\ row[d].status = "absent" /\ row'[d].status = "pending" /\ row[d] = NoRow
         /\ \A e \in Deliveries \ {d} : row'[e] = row[e]
<1>1. row \in [Deliveries -> Rows] /\ row[d] = NoRow
  BY DEF OutboxInv, TypeOK, Enqueue
<1>2. row' = [row EXCEPT ![d] = [NoRow EXCEPT !.status = "pending", !.due = TRUE]]
  BY DEF Enqueue
<1>3. row'[d].status = "pending"
  BY <1>1, <1>2, NoRowIsRow DEF Rows
<1> QED
  BY <1>1, <1>2, <1>3 DEF NoRow

LEMMA RetryCommitRow ==
  ASSUME OutboxInv, NEW d \in Deliveries, RetryCommit(d)
  PROVE  /\ row'[d].status \in {row[d].status, "pending"}
         /\ \A e \in Deliveries \ {d} : row'[e] = row[e]
<1> DEFINE old == request[d]
           again == [old EXCEPT !.status = "pending"]
           merged == Merge(old, again, row[d])
<1>1. old \in Rows /\ row[d] \in Rows /\ row \in [Deliveries -> Rows]
  BY DEF OutboxInv, TypeOK
<1>2. again \in Rows /\ again.status = "pending"
  BY <1>1 DEF Rows, Statuses
<1>3. row' = [row EXCEPT ![d] = [merged EXCEPT !.due = TRUE]]
  BY DEF RetryCommit
<1> HIDE DEF old, again
<1>4. merged \in Rows /\ merged.status \in {row[d].status, "pending"}
  BY <1>1, <1>2, MergeIsRow
<1> HIDE DEF merged
<1>5. [merged EXCEPT !.due = TRUE].status = merged.status
  BY <1>4 DEF Rows
<1> QED
  BY <1>1, <1>3, <1>4, <1>5

LEMMA BackoffEndsRow ==
  ASSUME OutboxInv, NEW d \in Deliveries, BackoffEnds(d)
  PROVE  \A e \in Deliveries : row'[e].status = row[e].status
  BY DEF OutboxInv, TypeOK, BackoffEnds, Rows

LEMMA CommitRow ==
  ASSUME OutboxInv, Commit, NEW d \in Deliveries
  PROVE  row'[d].status = IF d \in InPass /\ work[d].status # loaded[d].status
                          THEN work[d].status ELSE row[d].status
<1>1. row[d] \in Rows /\ loaded[d] \in Rows /\ work[d] \in Rows
  BY DEF OutboxInv, TypeOK
<1>2. row'[d] = IF d \in InPass THEN Merge(loaded[d], work[d], row[d]) ELSE row[d]
  BY DEF Commit
<1> QED
  BY <1>1, <1>2, MergeIsRow

LEMMA PostWork ==
  ASSUME OutboxInv, NEW d \in Deliveries, Answered(d) \/ Unanswered(d)
  PROVE  /\ busy /\ d \in batch
         /\ UNCHANGED <<row, loaded, request>>
         /\ work'[d].status \in {"retrying", "delivered", "failed"}
         /\ \A e \in Deliveries \ {d} : work'[e] = work[e]
<1>1. work \in [Deliveries -> Rows] /\ work[d] \in Rows
  BY DEF OutboxInv, TypeOK
<1>2. PICK received, outcome :
        /\ Post(d, received, outcome)
        /\ \/ \E ok \in BOOLEAN : outcome = AfterAnswer(work[d], ok)
           \/ outcome = AfterError(work[d])
  BY DEF Answered, Unanswered
<1>3. outcome.status \in {"retrying", "delivered", "failed"}
  BY <1>1, <1>2, AnswerIsRow, ErrorIsRow
<1> QED
  BY <1>1, <1>2, <1>3 DEF Post

\* While the worker holds a delivery nobody else settles it: its committed row
\* stays queued; and a retry is only asked of a delivery there is.
HandsOff ==
    /\ \A d \in InPass : row[d].status \in {"pending", "retrying"} /\ work[d].status # "absent"
    /\ \A d \in Deliveries : request[d] # NoRow => row[d].status # "absent"

LEMMA InitHandsOff == Init => HandsOff
  BY AllAbsentIs DEF Init, HandsOff, InPass

\* A row changes outside the worker, and no retry is read.
LEMMA RowHandsOff ==
  ASSUME OutboxInv, HandsOff, NEW d \in Deliveries,
         row'[d].status \in {row[d].status, "pending"},
         \A e \in Deliveries \ {d} : row'[e].status = row[e].status,
         \A e \in Deliveries : request'[e] \in {request[e], NoRow},
         UNCHANGED pass
  PROVE  HandsOff'
  BY DEF HandsOff, InPass, pass

LEMMA NextHandsOff == OutboxInv /\ HandsOff /\ [Next]_vars => HandsOff'
<1> SUFFICES ASSUME OutboxInv, HandsOff, [Next]_vars PROVE HandsOff'
  OBVIOUS
<1>0. /\ request \in [Deliveries -> Rows] /\ row \in [Deliveries -> Rows]
      /\ InPass \subseteq Deliveries
  BY DEF OutboxInv, TypeOK, InPass
<1>1. ASSUME NEW d \in Deliveries, Enqueue(d) PROVE HandsOff'
  <2>1. UNCHANGED <<pass, request>>
    BY <1>1 DEF Enqueue
  <2> QED
    BY <1>1, <2>1, EnqueueRow, RowHandsOff
<1>2. ASSUME NEW d \in Deliveries, RetryRead(d) PROVE HandsOff'
  <2>1. /\ row[d].status # "absent" /\ UNCHANGED <<row, pass>>
        /\ \A e \in Deliveries \ {d} : request'[e] = request[e]
    BY <1>0, <1>2 DEF RetryRead
  <2> QED
    BY <2>1 DEF HandsOff, InPass, pass
<1>3. ASSUME NEW d \in Deliveries, RetryCommit(d) PROVE HandsOff'
  <2>1. UNCHANGED pass /\ \A e \in Deliveries : request'[e] \in {request[e], NoRow}
    BY <1>0, <1>3 DEF RetryCommit
  <2> QED
    BY <1>3, <2>1, RetryCommitRow, RowHandsOff
<1>4. ASSUME NEW d \in Deliveries, BackoffEnds(d) PROVE HandsOff'
  <2>1. UNCHANGED <<pass, request>>
    BY <1>4 DEF BackoffEnds
  <2> QED
    BY <1>4, <2>1, BackoffEndsRow, RowHandsOff
<1>5. CASE Fetch
  <2>1. /\ \A d \in Deliveries : loaded'[d] = IF d \in Due THEN row[d] ELSE NoRow
        /\ work' = loaded' /\ UNCHANGED <<row, request>>
    BY <1>5 DEF Fetch
  <2>2. \A d \in Deliveries : d \in InPass' => d \in Due
    BY <2>1 DEF InPass
  <2>3. \A d \in Due : row[d].status \in {"pending", "retrying"}
    BY DEF Due
  <2>4. InPass' \subseteq Deliveries
    BY DEF InPass
  <2> QED
    BY <2>1, <2>2, <2>3, <2>4 DEF HandsOff
<1>6. CASE Commit
  <2>1. InPass' = {} /\ request' = request
    BY <1>6, AllAbsentIs DEF Commit, EndPass, InPass
  <2>2. \A d \in Deliveries : row[d].status # "absent" => row'[d].status # "absent"
    BY <1>6, CommitRow DEF HandsOff
  <2> QED
    BY <2>1, <2>2 DEF HandsOff
<1>7. ASSUME NEW d \in Deliveries, Answered(d) \/ Unanswered(d) PROVE HandsOff'
  BY <1>0, <1>7, PostWork DEF HandsOff, InPass
<1>8. CASE Crash
  <2>1. InPass' = {} /\ UNCHANGED <<row, request>>
    BY <1>8, AllAbsentIs DEF Crash, EndPass, InPass
  <2> QED
    BY <2>1 DEF HandsOff
<1>9. ReceiversChange \/ UNCHANGED vars => UNCHANGED <<row, pass, request>>
  BY DEF ReceiversChange, vars, pass
<1>10. CASE UNCHANGED <<row, pass, request>>
  BY <1>10 DEF HandsOff, InPass, pass
<1> QED
  BY <1>1, <1>2, <1>3, <1>4, <1>5, <1>6, <1>7, <1>8, <1>9, <1>10 DEF Next, WorkerStep

-----------------------------------------------------------------------------
(* The refinement of the outbox. *)

LEMMA PromiseInit == Init => Promise!Init
<1> SUFFICES ASSUME Init PROVE Promise!Init
  OBVIOUS
<1>1. \A d \in Deliveries : row[d].status = "absent"
  BY AllAbsentIs DEF Init, NoRow
<1>2. stages = [d \in Deliveries |-> "absent"]
  BY <1>1 DEF stages, Stage
<1> QED
  BY <1>2 DEF Init, Promise!Init

\* One committed row changes.
LEMMA StagesExcept ==
  ASSUME NEW d \in Deliveries, \A e \in Deliveries \ {d} : row'[e].status = row[e].status
  PROVE  /\ stages' = [stages EXCEPT ![d] = Stage(row'[d].status)]
         /\ row'[d].status = row[d].status => stages' = stages
  BY DEF stages, Stage

LEMMA EnqueueQueues ==
  ASSUME OutboxInv, NEW d \in Deliveries, Enqueue(d)
  PROVE  Promise!Queue(d)
<1>1. stages[d] = "absent"
  BY EnqueueRow DEF stages, Stage
<1>2. stages' = [stages EXCEPT ![d] = "queued"]
  BY EnqueueRow, StagesExcept DEF Stage
<1> QED
  BY <1>1, <1>2 DEF Enqueue, history, Promise!Queue

LEMMA RetryRequeues ==
  ASSUME OutboxInv, HandsOff, NEW d \in Deliveries, RetryCommit(d)
  PROVE  Promise!Requeue(d)
<1>1. row[d].status # "absent"
  BY DEF HandsOff, RetryCommit
<1>2. stages[d] # "absent"
  BY <1>1 DEF stages, Stage
<1>3. stages' \in {stages, [stages EXCEPT ![d] = "queued"]}
  BY RetryCommitRow, StagesExcept DEF Stage
<1> QED
  BY <1>2, <1>3 DEF RetryCommit, Promise!Requeue

LEMMA PostAttempts ==
  ASSUME OutboxInv, HandsOff, NEW d \in Deliveries, Answered(d) \/ Unanswered(d)
  PROVE  \E taken, lost \in BOOLEAN : Promise!Attempt(d, taken, lost)
<1>1. d \in batch /\ d \in InPass /\ row' = row
  BY PostWork DEF OutboxInv, PassShape
<1>2. stages[d] = "queued" /\ stages' = stages
  BY <1>1 DEF HandsOff, stages, Stage
<1>3. accepted[d] > 0 => d \in excused
  BY <1>1 DEF OutboxInv, TakenOnce
<1>4. PICK taken \in BOOLEAN, lost \in BOOLEAN :
        /\ \E outcome : Post(d, taken, outcome)
        /\ lost => taken
        /\ excused' = IF lost THEN excused \cup {d} ELSE excused
  <2>1. CASE Answered(d)
    <3>1. PICK ok \in BOOLEAN : Post(d, ok, AfterAnswer(work[d], ok))
      BY <2>1 DEF Answered
    <3>2. excused' = IF FALSE THEN excused \cup {d} ELSE excused
      BY <2>1 DEF Answered
    <3> QED
      BY <3>1, <3>2
  <2>2. CASE Unanswered(d)
    BY <2>2 DEF Unanswered
  <2> QED
    BY <2>1, <2>2
<1>5. Promise!Attempt(d, taken, lost)
  BY <1>2, <1>3, <1>4 DEF Post, Promise!Attempt
<1> QED
  BY <1>5

LEMMA CommitSettles ==
  ASSUME OutboxInv, HandsOff, Commit
  PROVE  \E D \in SUBSET Deliveries, F \in SUBSET Deliveries :
            D \cap F = {} /\ Promise!Settle(D, F)
<1> DEFINE D == {d \in InPass : work[d].status = "delivered"}
           F == {d \in InPass : work[d].status = "failed"}
<1>1. D \in SUBSET Deliveries /\ F \in SUBSET Deliveries /\ D \cap F = {} /\ InPass \subseteq Deliveries
  BY DEF InPass
<1>2. \A d \in InPass : /\ row[d].status \in {"pending", "retrying"}
                        /\ loaded[d].status \in {"pending", "retrying"}
                        /\ work[d].status \in {"pending", "retrying", "delivered", "failed"}
  BY <1>1 DEF HandsOff, OutboxInv, PassShape, TypeOK, Rows, Statuses
<1>3. \A d \in D \cup F : stages[d] = "queued"
  BY <1>1, <1>2 DEF stages, Stage
<1>4. \A d \in D : accepted[d] > 0
  BY <1>1 DEF OutboxInv, Taken
<1>5. \A d \in F : tries[d] = AttemptLimit
  <2> SUFFICES ASSUME NEW d \in F PROVE tries[d] = AttemptLimit
    OBVIOUS
  <2>1. tries[d] \in 0 .. AttemptLimit /\ Counted(work[d], d) /\ work[d].status = "failed"
    BY <1>1 DEF OutboxInv, TypeOK, AttemptsCounted
  <2> QED
    BY <2>1 DEF Counted
<1>6. stages' = [d \in Deliveries |-> CASE d \in D -> "delivered"
                                       [] d \in F -> "failed"
                                       [] OTHER -> stages[d]]
  <2> SUFFICES ASSUME NEW d \in Deliveries
               PROVE  Stage(row'[d].status) = CASE d \in D -> "delivered"
                                                [] d \in F -> "failed"
                                                [] OTHER -> Stage(row[d].status)
    BY DEF stages
  <2>1. CASE d \in InPass
    BY <1>2, <2>1, CommitRow DEF Stage
  <2>2. CASE d \notin InPass
    BY <2>2, CommitRow
  <2> QED
    BY <2>1, <2>2
<1>7. Promise!Settle(D, F)
  BY <1>3, <1>4, <1>5, <1>6 DEF Promise!Settle, Commit, history
<1> QED
  BY <1>1, <1>7

LEMMA CrashForgets ==
  ASSUME OutboxInv, HandsOff, Crash
  PROVE  \E D \in SUBSET Deliveries : Promise!Forget(D)
<1> DEFINE D == {d \in InPass \ batch : accepted[d] > 0}
<1>1. D \in SUBSET Deliveries
  BY DEF InPass
<1>2. \A d \in D : stages[d] = "queued" /\ accepted[d] > 0
  BY <1>1 DEF HandsOff, stages, Stage
<1>3. UNCHANGED <<row, tries, accepted>> /\ excused' = excused \cup D
  BY DEF Crash
<1>4. Promise!Forget(D)
  BY <1>2, <1>3 DEF Promise!Forget, stages
<1> QED
  BY <1>1, <1>4

LEMMA PromiseNext == OutboxInv /\ HandsOff /\ [Next]_vars => [Promise!Next]_Promise!vars
<1> SUFFICES ASSUME OutboxInv, HandsOff, [Next]_vars PROVE [Promise!Next]_Promise!vars
  OBVIOUS
<1> USE DEF Promise!Next
<1>1. ASSUME NEW d \in Deliveries, Enqueue(d) PROVE Promise!Next
  BY <1>1, EnqueueQueues
<1>2. ASSUME NEW d \in Deliveries, RetryCommit(d) PROVE Promise!Next
  BY <1>2, RetryRequeues
<1>3. ASSUME NEW d \in Deliveries, Answered(d) \/ Unanswered(d) PROVE Promise!Next
  BY <1>3, PostAttempts
<1>4. CASE Commit
  BY <1>4, CommitSettles
<1>5. CASE Crash
  BY <1>5, CrashForgets
<1>6. ASSUME NEW d \in Deliveries, BackoffEnds(d) PROVE UNCHANGED Promise!vars
  <2>1. stages' = stages
    BY <1>6, BackoffEndsRow DEF stages
  <2> QED
    BY <1>6, <2>1 DEF BackoffEnds, history, Promise!vars
<1>7. (\E d \in Deliveries : RetryRead(d)) \/ Fetch \/ ReceiversChange \/ UNCHANGED vars
        => UNCHANGED <<row, tries, accepted, excused>>
  BY DEF RetryRead, Fetch, ReceiversChange, history, vars
<1>8. CASE UNCHANGED <<row, tries, accepted, excused>>
  BY <1>8 DEF stages, Promise!vars
<1> HIDE DEF Promise!Next
<1> QED
  BY <1>1, <1>2, <1>3, <1>4, <1>5, <1>6, <1>7, <1>8 DEF Next, WorkerStep

\* The worker's passes, their commits and crashes, and the retries by hand implement
\* the abstract outbox: what process_webhook_deliveries merges over rows that moved
\* meanwhile only settles queued deliveries, by what their attempts showed.
THEOREM OutboxRefines == Spec => ImplementsOutbox
  BY PromiseInit, PromiseNext, InitHandsOff, NextHandsOff, OutboxInvariant, PTL
  DEF Spec, ImplementsOutbox, Promise!Spec

PromiseTypes ==
    /\ stages \in [Deliveries -> {"absent", "queued", "delivered", "failed"}]
    /\ tries \in [Deliveries -> 0 .. AttemptLimit]
    /\ accepted \in [Deliveries -> 0 .. 2]

LEMMA PromiseIsTyped ==
  /\ Promise!Init => PromiseTypes
  /\ PromiseTypes /\ [Promise!Next]_Promise!vars => PromiseTypes'
<1>1. Promise!Init => PromiseTypes
  <2>1. 0 \in 0 .. AttemptLimit /\ 0 \in 0 .. 2
    OBVIOUS
  <2> QED
    BY <2>1 DEF Promise!Init, PromiseTypes
<1>2. ASSUME PromiseTypes, [Promise!Next]_Promise!vars PROVE PromiseTypes'
  <2>1. ASSUME NEW d \in Deliveries, Promise!Queue(d) \/ Promise!Requeue(d) PROVE PromiseTypes'
    BY <1>2, <2>1 DEF PromiseTypes, Promise!Queue, Promise!Requeue
  <2>2. ASSUME NEW d \in Deliveries, NEW taken \in BOOLEAN, NEW lost \in BOOLEAN,
               Promise!Attempt(d, taken, lost)
        PROVE  PromiseTypes'
    BY <1>2, <2>2 DEF PromiseTypes, Promise!Attempt
  <2>3. ASSUME NEW D \in SUBSET Deliveries, NEW F \in SUBSET Deliveries, Promise!Settle(D, F)
        PROVE  PromiseTypes'
    BY <1>2, <2>3 DEF PromiseTypes, Promise!Settle
  <2>4. ASSUME NEW D \in SUBSET Deliveries, Promise!Forget(D) PROVE PromiseTypes'
    BY <1>2, <2>4 DEF PromiseTypes, Promise!Forget
  <2>5. CASE UNCHANGED Promise!vars
    BY <1>2, <2>5 DEF PromiseTypes, Promise!vars
  <2> QED
    BY <1>2, <2>1, <2>2, <2>3, <2>4, <2>5 DEF Promise!Next
<1> QED
  BY <1>1, <1>2

LEMMA SettledStays ==
  ASSUME PromiseTypes, [Promise!Next]_Promise!vars,
         NEW d \in Deliveries, stages[d] \in {"delivered", "failed"}
  PROVE  /\ tries'[d] = tries[d] /\ accepted'[d] = accepted[d]
         /\ stages'[d] = stages[d] \/ (stages'[d] = "queued" /\ d \in excused')
<1>1. ASSUME NEW e \in Deliveries, Promise!Queue(e)
      PROVE  stages'[d] = stages[d] /\ UNCHANGED <<tries, accepted>>
  BY <1>1 DEF PromiseTypes, Promise!Queue
<1>2. ASSUME NEW e \in Deliveries, Promise!Requeue(e)
      PROVE  /\ stages'[d] = stages[d] \/ (stages'[d] = "queued" /\ d \in excused')
             /\ UNCHANGED <<tries, accepted>>
  BY <1>2 DEF PromiseTypes, Promise!Requeue
<1>3. ASSUME NEW e \in Deliveries, NEW taken \in BOOLEAN, NEW lost \in BOOLEAN,
             Promise!Attempt(e, taken, lost)
      PROVE  /\ stages'[d] = stages[d]
             /\ tries'[d] = tries[d] /\ accepted'[d] = accepted[d]
  BY <1>3 DEF PromiseTypes, Promise!Attempt
<1>4. ASSUME NEW D \in SUBSET Deliveries, NEW F \in SUBSET Deliveries, Promise!Settle(D, F)
      PROVE  stages'[d] = stages[d] /\ UNCHANGED <<tries, accepted>>
  BY <1>4 DEF PromiseTypes, Promise!Settle
<1>5. ASSUME NEW D \in SUBSET Deliveries, Promise!Forget(D)
      PROVE  stages'[d] = stages[d] /\ UNCHANGED <<tries, accepted>>
  BY <1>5 DEF Promise!Forget
<1>6. UNCHANGED Promise!vars => stages'[d] = stages[d] /\ UNCHANGED <<tries, accepted>>
  BY DEF Promise!vars
<1> QED
  BY <1>1, <1>2, <1>3, <1>4, <1>5, <1>6 DEF Promise!Next

\* The abstract outbox leaves a settled delivery alone until a retry queues it again.
THEOREM PromiseLeavesSettledAlone == Promise!Spec => Promise!SettledIsLeftAlone
<1>1. PromiseTypes /\ [Promise!Next]_Promise!vars =>
        [\A d \in Deliveries : stages[d] \in {"delivered", "failed"} =>
           /\ tries'[d] = tries[d] /\ accepted'[d] = accepted[d]
           /\ stages'[d] = stages[d] \/ (stages'[d] = "queued" /\ d \in excused')]_Promise!vars
  BY SettledStays
<1> QED
  BY <1>1, PromiseIsTyped, PTL DEF Promise!Spec, Promise!SettledIsLeftAlone

\* A delivery that was taken or given up is not posted again and keeps its status,
\* whatever a stale pass commits over it, until a retry by hand queues it again.
THEOREM OutboxLeavesSettledAlone == Spec => Promise!SettledIsLeftAlone
  BY OutboxRefines, PromiseLeavesSettledAlone DEF ImplementsOutbox
=============================================================================
