------------------------- MODULE NotificationOutbox -------------------------
(***************************************************************************)
(* The delivery queue of identity notifications: Invitations of a Tenant,  *)
(* Invitations of the Platform and codes that verify an email.             *)
(*                                                                         *)
(* A row is written by the transaction that issues a secret and cancelled  *)
(* by the one that replaces or ends it.  Workers claim rows under a lease, *)
(* look whether the parent still needs the message, hand it to the         *)
(* Notification service and record the outcome, each in a statement of its *)
(* own: anything may happen in between, and a worker may stop anywhere.    *)
(*                                                                         *)
(* The version of a row grows with every claim and every outcome; a claim  *)
(* is known by its attempt, and the version check of an outcome is that    *)
(* the row is still claimed by this attempt.  The payload is sealed until  *)
(* the row is settled.                                                     *)
(***************************************************************************)
EXTENDS Naturals

CONSTANTS
  Deliveries,   \* identities of the rows
  Workers,      \* concurrent dispatchers
  MaxAttempts,  \* identityNotificationMaxAttempts (20)
  MaxClaims     \* bound: claims of one row; no dispatcher stops in the last one

VARIABLES
  outbox,     \* the rows
  worker,     \* what each dispatcher holds in memory
  submitted   \* how often the Notification service was called for a row

outboxVars == <<outbox, worker, submitted>>

Settled == {"delivered", "cancelled"}
Live == {"pending", "claimed", "attention_required"}

Attempts == 0..MaxClaims
DeliveryRow == [status : {"absent"} \cup Live \cup Settled, attempt : Attempts,
                lapsed : BOOLEAN, sealed : BOOLEAN]
Idle == [phase |-> "idle"]
Claim == [phase : {"claimed", "submitting"}, id : Deliveries, attempt : Attempts]
Outcome == {"delivered", "pending", "cancelled", "attention_required"}
Answer == [phase : {"finishing"}, id : Deliveries, attempt : Attempts,
           outcome : Outcome]

OutboxTypeOK ==
  /\ outbox \in [Deliveries -> DeliveryRow]
  /\ worker \in [Workers -> {Idle} \cup Claim \cup Answer]
  /\ submitted \in [Deliveries -> Attempts]

OutboxInit ==
  /\ outbox = [d \in Deliveries |->
       [status |-> "absent", attempt |-> 0, lapsed |-> FALSE, sealed |-> FALSE]]
  /\ worker = [w \in Workers |-> Idle]
  /\ submitted = [d \in Deliveries |-> 0]

-----------------------------------------------------------------------------
(* What the transactions of the parents do with their rows. *)

NewDelivery ==
  [status |-> "pending", attempt |-> 0, lapsed |-> FALSE, sealed |-> TRUE]

CancelDelivery(row) ==
  IF row.status \in Live
    THEN [row EXCEPT !.status = "cancelled", !.lapsed = FALSE, !.sealed = FALSE]
    ELSE row

-----------------------------------------------------------------------------
(* The dispatcher. *)

Claimable(row) ==
  \/ row.status = "pending"
  \/ row.status = "claimed" /\ row.lapsed

ClaimNotification(row) ==
  [row EXCEPT !.status = "claimed", !.attempt = @ + 1, !.lapsed = FALSE]

ClaimIdentityNotification(w, d) ==
  /\ worker[w] = Idle
  /\ Claimable(outbox[d]) /\ outbox[d].attempt < MaxClaims
  /\ outbox' = [outbox EXCEPT ![d] = ClaimNotification(@)]
  /\ worker' = [worker EXCEPT ![w] =
       [phase |-> "claimed", id |-> d, attempt |-> outbox'[d].attempt]]
  /\ UNCHANGED submitted

\* The claim is still the current one.
ClaimHeld(c) ==
  outbox[c.id].status = "claimed" /\ outbox[c.id].attempt = c.attempt

Finishing(w, outcome) ==
  worker' = [worker EXCEPT ![w] =
    [phase |-> "finishing", id |-> @.id, attempt |-> @.attempt, outcome |-> outcome]]

AttemptsExceeded(attempt) == attempt > MaxAttempts

\* The payload was read with the claim.  It cannot be opened (a retired key) or
\* does not fit the parent: nobody can deliver it.
SubmittableBy(w, readable) ==
  readable /\ ~AttemptsExceeded(worker[w].attempt)

\* Nothing is sent for a parent that ended, was reissued or ran out.
CurrentIdentityNotification(w, current) ==
  /\ worker[w].phase = "claimed"
  /\ \/ /\ ~(ClaimHeld(worker[w]) /\ current)
        /\ Finishing(w, "cancelled")
     \/ /\ ClaimHeld(worker[w]) /\ current
        /\ \E readable \in BOOLEAN :
             IF SubmittableBy(w, readable)
               THEN worker' = [worker EXCEPT ![w].phase = "submitting"]
               ELSE Finishing(w, "attention_required")
  /\ UNCHANGED <<outbox, submitted>>

\* What a failed submission becomes: attention when it is permanent or the last
\* one allowed, else another attempt, unless the parent would be over by then.
FailureOutcomes(attempt) ==
  IF attempt >= MaxAttempts THEN {"attention_required"}
                            ELSE {"attention_required", "pending", "cancelled"}

\* The service accepts the message, refuses it, or its answer is lost: the
\* request identity is the row's, so a second submission is the same message.
SubmitIdentityNotification(w) ==
  /\ worker[w].phase = "submitting"
  /\ submitted' = [submitted EXCEPT ![worker[w].id] = @ + 1]
  /\ \E outcome \in {"delivered"} \cup FailureOutcomes(worker[w].attempt) :
       Finishing(w, outcome)
  /\ UNCHANGED outbox

FinishNotification(row, outcome) ==
  [row EXCEPT !.status = outcome, !.lapsed = FALSE,
              !.sealed = outcome \notin Settled]

\* Somebody else has settled or claimed the row meanwhile: superseded.
FinishIdentityNotification(w) ==
  /\ worker[w].phase = "finishing"
  /\ outbox' = IF ClaimHeld(worker[w])
                 THEN [outbox EXCEPT ![worker[w].id] =
                         FinishNotification(@, worker[w].outcome)]
                 ELSE outbox
  /\ worker' = [worker EXCEPT ![w] = Idle]
  /\ UNCHANGED submitted

\* The process stops, or a statement fails: the row stays claimed.
AbandonNotification(w) ==
  /\ worker[w] # Idle /\ worker[w].attempt < MaxClaims
  /\ worker' = [worker EXCEPT ![w] = Idle]
  /\ UNCHANGED <<outbox, submitted>>

\* identityNotificationLease (five minutes) passes since the claim.
LeaseLapses(d) ==
  /\ outbox[d].status = "claimed" /\ ~outbox[d].lapsed
  /\ outbox' = [outbox EXCEPT ![d].lapsed = TRUE]
  /\ UNCHANGED <<worker, submitted>>

DispatchNext(w, Current(_)) ==
  \/ \E d \in Deliveries : ClaimIdentityNotification(w, d)
  \/ worker[w] # Idle /\ CurrentIdentityNotification(w, Current(worker[w].id))
  \/ SubmitIdentityNotification(w)
  \/ FinishIdentityNotification(w)
=============================================================================
