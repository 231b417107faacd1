--------------------------- MODULE WebhookDelivery ---------------------------
(***************************************************************************)
(* The webhook outbox: webhook_deliveries rows, the background worker that *)
(* sends them (services/v3_platform.py process_webhook_deliveries, run by  *)
(* scripts/run_worker.py) and the retry request of the API.                *)
(*                                                                         *)
(* The worker reads the due rows in one SELECT, posts them one after the   *)
(* other and writes everything it learned in one commit; until then its    *)
(* rows are objects in memory and other transactions see the old ones.     *)
(* SQLAlchemy writes only the columns whose value differs from the loaded  *)
(* one, so a commit merges with whatever was committed in between.         *)
(*                                                                         *)
(* Endpoints are created and listed, never changed: the rows queued for an *)
(* endpoint find it active.  The batch limit (100) and the backoff's       *)
(* length are left out.                                                    *)
(***************************************************************************)
EXTENDS Naturals, FiniteSets

CONSTANTS
    Deliveries,     \* rows of webhook_deliveries
    AttemptLimit,   \* attempts after which the worker gives up: 5
    RetryLimit      \* bound: no manual retry of a row with this many attempts

ASSUME AttemptLimitAssumption == AttemptLimit \in Nat \ {0}
ASSUME RetryLimitAssumption == RetryLimit \in Nat

VARIABLES
    row,        \* the committed rows
    batch,      \* rows the worker has still to post in this pass
    loaded,     \* rows of this pass as the worker read them
    work,       \* the same rows as it has changed them
    busy,       \* the worker is in a pass
    request,    \* retry requests: rows read, not yet committed, as they were read
    up,         \* the receivers answer HTTP
    tries,      \* history: posts attempted, counted up to AttemptLimit
    accepted,   \* history: posts a receiver took, counted up to 2
    excused,    \* history: rows whose delivery a crash or a retry repeats
    owed        \* history: rows with a committed retry and no attempt since

pass == <<batch, loaded, work, busy>>
history == <<tries, accepted, excused, owed>>
vars == <<row, batch, loaded, work, busy, request, up, tries, accepted, excused, owed>>

Statuses == {"absent", "pending", "retrying", "delivered", "failed"}

\* answered: response_status is set.  due: next_attempt_at is NULL or past.
Rows == [status : Statuses, attempts : Nat, answered : BOOLEAN, due : BOOLEAN]

NoRow == [status |-> "absent", attempts |-> 0, answered |-> FALSE, due |-> FALSE]

TypeOK ==
    /\ row \in [Deliveries -> Rows]
    /\ batch \in SUBSET Deliveries
    /\ loaded \in [Deliveries -> Rows]
    /\ work \in [Deliveries -> Rows]
    /\ busy \in BOOLEAN
    /\ request \in [Deliveries -> Rows]
    /\ up \in BOOLEAN
    /\ tries \in [Deliveries -> 0 .. AttemptLimit]
    /\ accepted \in [Deliveries -> 0 .. 2]
    /\ excused \in SUBSET Deliveries
    /\ owed \in SUBSET Deliveries

AllAbsent == [d \in Deliveries |-> NoRow]

Init ==
    /\ row = AllAbsent
    /\ batch = {} /\ loaded = AllAbsent /\ work = AllAbsent /\ busy = FALSE
    /\ request = AllAbsent
    /\ up \in BOOLEAN
    /\ tries = [d \in Deliveries |-> 0]
    /\ accepted = [d \in Deliveries |-> 0]
    /\ excused = {} /\ owed = {}

\* Faulty variant: only the changed columns are left in the row.
MergeChangedOnly(old, new, current) ==
    [c \in {f \in DOMAIN current : new[f] # old[f]} |-> new[c]]

\* The UPDATE of an object that was loaded as old, is now new, when the
\* committed row is current: the columns that differ are written.
Merge(old, new, current) ==
    [c \in DOMAIN current |-> IF new[c] # old[c] THEN new[c] ELSE current[c]]

-----------------------------------------------------------------------------
(* The API. *)

\* enqueue_webhook_event, committed with the business change it reports.
Enqueue(d) ==
    /\ row[d] = NoRow
    /\ row' = [row EXCEPT ![d] = [NoRow EXCEPT !.status = "pending", !.due = TRUE]]
    /\ UNCHANGED <<pass, request, up, history>>

\* retry_webhook_delivery: SELECT, then assign and commit.
RetryRead(d) ==
    /\ row[d].status # "absent" /\ row[d].attempts < RetryLimit
    /\ request[d] = NoRow
    /\ request' = [request EXCEPT ![d] = row[d]]
    /\ UNCHANGED <<row, pass, up, history>>

RetryCommit(d) ==
    /\ request[d] # NoRow
    /\ row' = [row EXCEPT ![d] = [Merge(request[d],
                                        [request[d] EXCEPT !.status = "pending"],
                                        row[d]) EXCEPT !.due = TRUE]]
    /\ request' = [request EXCEPT ![d] = NoRow]
    /\ excused' = excused \cup {d}
    /\ owed' = owed \cup {d}
    /\ UNCHANGED <<pass, up, tries, accepted>>

-----------------------------------------------------------------------------
(* The worker. *)

\* Faulty variant: the query leaves the failed and delivered rows in.
DueWhateverStatus == {d \in Deliveries : row[d].status # "absent" /\ row[d].due}

\* Faulty variant: the query leaves the retrying rows out.
DueFirstTime == {d \in Deliveries : row[d].status = "pending" /\ row[d].due}

Due == {d \in Deliveries : row[d].status \in {"pending", "retrying"} /\ row[d].due}

Fetch ==
    /\ ~busy
    /\ Due # {}
    /\ busy' = TRUE
    /\ batch' = Due
    /\ loaded' = [d \in Deliveries |-> IF d \in Due THEN row[d] ELSE NoRow]
    /\ work' = loaded'
    /\ UNCHANGED <<row, request, up, history>>

\* Faulty variant: the attempt is counted where it is made and again where the
\* error is handled.
AfterErrorCountingTwice(r) ==
    LET n == r.attempts + 1
    IN  [r EXCEPT !.attempts = n,
                  !.status = IF n >= AttemptLimit THEN "failed" ELSE "retrying",
                  !.due = n >= AttemptLimit]

\* The except branch: give up or back off.  An attempt that raised before any
\* answer is counted only while the row has no response_status.
AfterError(r) ==
    LET n == r.attempts + IF r.answered THEN 0 ELSE 1
    IN  [r EXCEPT !.attempts = n,
                  !.status = IF n >= AttemptLimit THEN "failed" ELSE "retrying",
                  !.due = n >= AttemptLimit]

\* An HTTP answer, 2xx or not; not 2xx raises into the except branch.
AfterAnswer(r, ok) ==
    LET counted == [r EXCEPT !.attempts = @ + 1, !.answered = TRUE]
    IN  IF ok THEN [counted EXCEPT !.status = "delivered", !.due = TRUE]
              ELSE AfterError(counted)

\* One post.  received: it reached a receiver that took it.
Post(d, received, outcome) ==
    /\ busy /\ d \in batch
    /\ batch' = batch \ {d}
    /\ work' = [work EXCEPT ![d] = outcome]
    /\ tries' = [tries EXCEPT ![d] = IF @ < AttemptLimit THEN @ + 1 ELSE @]
    /\ accepted' = [accepted EXCEPT ![d] = IF received /\ @ < 2 THEN @ + 1 ELSE @]
    /\ owed' = owed \ {d}
    /\ UNCHANGED <<row, loaded, busy, request, up>>

Answered(d) ==
    /\ up
    /\ \E ok \in BOOLEAN : Post(d, ok, AfterAnswer(work[d], ok))
    /\ UNCHANGED excused

\* No connection, a refused destination, or a timeout after the receiver has
\* taken the event.
Unanswered(d) ==
    /\ ~up
    /\ \/ Post(d, FALSE, AfterError(work[d])) /\ UNCHANGED excused
       \/ Post(d, TRUE, AfterError(work[d])) /\ excused' = excused \cup {d}

EndPass == busy' = FALSE /\ batch' = {} /\ loaded' = AllAbsent /\ work' = AllAbsent

InPass == {d \in Deliveries : loaded[d] # NoRow}

Commit ==
    /\ busy /\ batch = {}
    /\ row' = [d \in Deliveries |->
                 IF d \in InPass THEN Merge(loaded[d], work[d], row[d]) ELSE row[d]]
    /\ EndPass
    /\ UNCHANGED <<request, up, history>>

\* The worker dies, or its commit fails: the pass leaves nothing behind, and
\* what it had posted will be posted again.
Crash ==
    /\ busy
    /\ EndPass
    /\ excused' = excused \cup {d \in InPass \ batch : accepted[d] > 0}
    /\ UNCHANGED <<row, request, up, tries, accepted, owed>>

-----------------------------------------------------------------------------
(* The environment. *)

BackoffEnds(d) ==
    /\ row[d].status \in {"pending", "retrying"} /\ ~row[d].due
    /\ row' = [row EXCEPT ![d].due = TRUE]
    /\ UNCHANGED <<pass, request, up, history>>

ReceiversChange ==
    /\ up' = ~up
    /\ UNCHANGED <<row, pass, request, history>>

WorkerStep == Fetch \/ Commit \/ \E d \in Deliveries : Answered(d) \/ Unanswered(d)

Next ==
    \/ \E d \in Deliveries : Enqueue(d) \/ RetryRead(d) \/ RetryCommit(d) \/ BackoffEnds(d)
    \/ WorkerStep \/ Crash \/ ReceiversChange

Spec == Init /\ [][Next]_vars

\* The worker polls for ever and is restarted when it dies (compose.yaml
\* restart: unless-stopped); time passes.
FairSpec ==
    /\ Spec
    /\ WF_vars(WorkerStep)
    /\ \A d \in Deliveries : WF_vars(BackoffEnds(d))

-----------------------------------------------------------------------------
(* Properties. *)

\* The worker gives up on a delivery only after AttemptLimit real attempts: an
\* error answer is not counted both where it is read and where it is handled.
GivesUpLate == \A d \in Deliveries : row[d].status = "failed" => tries[d] >= AttemptLimit

\* A delivery is marked delivered only if a receiver took it.
DeliveredWasTaken ==
    \A d \in Deliveries : row[d].status = "delivered" => accepted[d] > 0

\* One worker sends an event twice only when it must: after a crash between
\* post and commit, an answer that was lost, or a retry by hand.
RepeatsAreExcused == \A d \in Deliveries : accepted[d] > 1 => d \in excused

\* The refinement: a delivery is where its committed row says.
Stage(status) == IF status \in {"pending", "retrying"} THEN "queued" ELSE status
stages == [d \in Deliveries |-> Stage(row[d].status)]

Promise == INSTANCE Outbox WITH state <- stages

\* The worker's passes, commits that merge and crashes, together with retries that
\* read a row long before they write it, implement the outbox: a delivery is only
\* attempted while it is queued, and is settled by what its attempts showed.
ImplementsOutbox == Promise!Spec

\* Once the receivers answer and the worker survives for good, every queued
\* delivery is delivered or given up, whatever came before.
EveryDeliveryEnds ==
    <>[]up /\ <>[][~Crash]_vars => \A d \in Deliveries :
                row[d].status \in {"pending", "retrying"} ~>
                row[d].status \in {"delivered", "failed"}

\* frontend developer-workspace.tsx:108 "Webhook retry queued": a delivery for
\* which a retry was committed is attempted again before it counts as failed.
RetryIsHonoured ==
    [][\A d \in owed : row[d].status # "failed" => row'[d].status # "failed"]_vars
=============================================================================
