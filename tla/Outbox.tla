-------------------------------- MODULE Outbox --------------------------------
(***************************************************************************)
(* What the webhook outbox promises, without passes, transactions or rows  *)
(* read earlier than they are written: a delivery is queued, attempted     *)
(* while it is queued, and settled.  WebhookDelivery implements this.      *)
(***************************************************************************)
EXTENDS Naturals

CONSTANTS Deliveries, AttemptLimit

VARIABLES
    state,      \* "absent", "queued", "delivered" or "failed"
    tries,      \* attempts made, counted up to AttemptLimit
    accepted,   \* attempts a receiver took, counted up to 2
    excused     \* deliveries a crash, a lost answer or a retry by hand may repeat

vars == <<state, tries, accepted, excused>>

Init ==
    /\ state = [d \in Deliveries |-> "absent"]
    /\ tries = [d \in Deliveries |-> 0]
    /\ accepted = [d \in Deliveries |-> 0]
    /\ excused = {}

Queue(d) ==
    /\ state[d] = "absent"
    /\ state' = [state EXCEPT ![d] = "queued"]
    /\ UNCHANGED <<tries, accepted, excused>>

\* A retry by hand queues the delivery again, or comes to nothing: the row it read
\* was still queued.
Requeue(d) ==
    /\ state[d] # "absent"
    /\ state' \in {state, [state EXCEPT ![d] = "queued"]}
    /\ excused' = excused \cup {d}
    /\ UNCHANGED <<tries, accepted>>

\* lost: a receiver took the delivery and its answer never came.
Attempt(d, taken, lost) ==
    /\ state[d] = "queued"
    /\ accepted[d] > 0 => d \in excused
    /\ lost => taken
    /\ tries' = [tries EXCEPT ![d] = IF @ < AttemptLimit THEN @ + 1 ELSE @]
    /\ accepted' = [accepted EXCEPT ![d] = IF taken /\ @ < 2 THEN @ + 1 ELSE @]
    /\ excused' = IF lost THEN excused \cup {d} ELSE excused
    /\ UNCHANGED state

\* The worker commits what it learned: some of the queued deliveries were taken,
\* of some it has had enough.
Settle(Taken, GivenUp) ==
    /\ \A d \in Taken \cup GivenUp : state[d] = "queued"
    /\ \A d \in Taken : accepted[d] > 0
    /\ \A d \in GivenUp : tries[d] = AttemptLimit
    /\ state' = [d \in Deliveries |-> CASE d \in Taken -> "delivered"
                                        [] d \in GivenUp -> "failed"
                                        [] OTHER -> state[d]]
    /\ UNCHANGED <<tries, accepted, excused>>

\* A crash: what the receivers took in this pass is not known to be taken.
Forget(D) ==
    /\ \A d \in D : state[d] = "queued" /\ accepted[d] > 0
    /\ excused' = excused \cup D
    /\ UNCHANGED <<state, tries, accepted>>

Next ==
    \/ \E d \in Deliveries : Queue(d) \/ Requeue(d)
    \/ \E d \in Deliveries, taken, lost \in BOOLEAN : Attempt(d, taken, lost)
    \/ \E Taken \in SUBSET Deliveries, GivenUp \in SUBSET Deliveries :
          Taken \cap GivenUp = {} /\ Settle(Taken, GivenUp)
    \/ \E D \in SUBSET Deliveries : Forget(D)

Spec == Init /\ [][Next]_vars

-----------------------------------------------------------------------------
(* Properties, which every implementation inherits. *)

\* A settled delivery is left alone: nobody attempts it, and it stays as it was
\* settled, until a retry by hand queues it again.
SettledIsLeftAlone ==
    [][\A d \in Deliveries : state[d] \in {"delivered", "failed"} =>
         /\ tries'[d] = tries[d] /\ accepted'[d] = accepted[d]
         /\ state'[d] = state[d] \/ (state'[d] = "queued" /\ d \in excused')]_vars
=============================================================================
