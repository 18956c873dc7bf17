-------------------------- MODULE PasswordActions --------------------------
(***************************************************************************)
(* Setting and resetting a password by mail: the request, the action it    *)
(* creates, the notification that carries the action's token, and the      *)
(* completion that spends it.                                              *)
(*                                                                         *)
(* A request looks its account up first and is stored in a transaction of  *)
(* its own: the purpose it carries may be out of date by then.  The token  *)
(* is derived when the notification is sent, so a message stands for its   *)
(* operation.  A dispatcher claims a notification under a lease, submits   *)
(* it and records the outcome, each in a step of its own, and may stop in  *)
(* between; the version that fences its outcome is the attempt.            *)
(*                                                                         *)
(* That a reset also ends the Sessions of its person is in the modules of  *)
(* those Sessions, as ResetPassword.                                       *)
(***************************************************************************)
EXTENDS Naturals, FiniteSets

CONSTANTS
  People,         \* normalized accounts
  Operations,     \* operation identities
  RequestKeys,    \* idempotency keys of requests
  CompletionKeys, \* idempotency keys of completions
  Passwords,      \* new passwords
  Dispatchers,    \* concurrent dispatchers
  MaxAttempts,    \* passwordActionNotificationMaxAttempts (20)
  MaxClaims,      \* bound: claims of one notification
  MaxAsked,       \* bound: requests between lookup and transaction
  None            \* no value

ASSUME PasswordActionsAssumption ==
  /\ MaxAttempts \in Nat \ {0} /\ MaxClaims \in Nat /\ MaxClaims > MaxAttempts
  /\ MaxAsked \in Nat /\ None \notin Operations \cup Passwords
  /\ None # "initial" /\ IsFiniteSet(Operations)

VARIABLES
  account,    \* principals, verified emails and password_credentials
  asked,      \* requests in flight, with what their lookup found
  request,    \* password_action_requests
  action,     \* password_actions
  latest,     \* the operation last stored for a person
  note,       \* notification_outbox
  dispatcher, \* what each dispatcher holds in memory
  letters,    \* operations whose token the Notification service has
  completed   \* password_action_completions

passwordVars == <<account, asked, request, action, latest, note, dispatcher, letters, completed>>

Purposes == {"setup", "reset"}
AccountRow == [known : BOOLEAN, password : Passwords \cup {"initial", None},
               version : 0..(Cardinality(Operations) + 1)]
Asked == [person : People, key : RequestKeys, purpose : Purposes \cup {"unknown"}]
ASSUME RequestAssumption == None \notin Asked

ActionRow == [status : {"none", "active", "replaced", "consumed"}, person : People \cup {None},
              purpose : Purposes \cup {"unknown"}, over : BOOLEAN]
NoteRow == [status : {"none", "pending", "claimed", "delivered", "cancelled", "attention_required"},
            attempt : 0..MaxClaims, waiting : BOOLEAN, lapsed : BOOLEAN]
Resting == [phase |-> "resting"]
NotificationClaim == [phase : {"claimed", "accepted", "failed", "rejected"}, op : Operations,
                      attempt : 1..MaxClaims]
Completion == [key : CompletionKeys, op : Operations, person : People, password : Passwords,
               version : Nat]

PasswordTypeOK ==
  /\ account \in [People -> AccountRow]
  /\ asked \subseteq Asked
  /\ \A o \in Operations : request[o] = None \/ request[o] \in Asked
  /\ action \in [Operations -> ActionRow]
  /\ latest \in [People -> Operations \cup {None}]
  /\ note \in [Operations -> NoteRow]
  /\ dispatcher \in [Dispatchers -> {Resting} \cup NotificationClaim]
  /\ letters \subseteq Operations
  /\ completed \subseteq Completion

\* Accounts nobody has, accounts without a password and accounts with one.
PasswordInit ==
  /\ account \in [People -> {[known |-> FALSE, password |-> None, version |-> 0],
                             [known |-> TRUE, password |-> None, version |-> 0],
                             [known |-> TRUE, password |-> "initial", version |-> 1]}]
  /\ asked = {}
  /\ request = [o \in Operations |-> None]
  /\ action = [o \in Operations |->
       [status |-> "none", person |-> None, purpose |-> "unknown", over |-> FALSE]]
  /\ latest = [p \in People |-> None]
  /\ note = [o \in Operations |->
       [status |-> "none", attempt |-> 0, waiting |-> FALSE, lapsed |-> FALSE]]
  /\ dispatcher = [d \in Dispatchers |-> Resting]
  /\ letters = {} /\ completed = {}

-----------------------------------------------------------------------------
(* Requests. *)

\* The row of a verified email of an active Human.
PasswordActionTarget(p) == {row \in {account[p]} : row.known}

LookupPasswordActionTarget(p) ==
  IF PasswordActionTarget(p) = {} THEN "unknown"
  ELSE IF account[p].password = None THEN "setup" ELSE "reset"

\* What was found is kept with the request until its transaction.
AskPasswordAction(p, k) ==
  /\ Cardinality(asked) < MaxAsked
  /\ asked' = asked \cup {[person |-> p, key |-> k, purpose |-> LookupPasswordActionTarget(p)]}
  /\ UNCHANGED <<account, request, action, latest, note, dispatcher, letters, completed>>

GetPasswordActionRequestByIdempotencyKey(k) ==
  {o \in Operations : request[o] # None /\ request[o].key = k}

\* A key that was used answers with its operation or is a conflict; neither
\* changes anything.
RequestAnsweredBefore(r) ==
  /\ GetPasswordActionRequestByIdempotencyKey(r.key) # {}
  /\ asked' = asked \ {r}
  /\ UNCHANGED <<account, request, action, latest, note, dispatcher, letters, completed>>

\* Only the request itself is stored.
CreateUnknownPasswordActionRequest(o, r) ==
  /\ request' = [request EXCEPT ![o] = r]
  /\ UNCHANGED <<action, latest, note>>

CreateKnownPasswordActionRequest(o, r) == request' = [request EXCEPT ![o] = r]

\* The actions a new one replaces, of whatever purpose.
ReplaceActivePasswordActions(p) ==
  {o \in Operations : action[o].person = p /\ action[o].status = "active"}

Cancelled(row) ==
  IF row.status \in {"pending", "claimed"}
  THEN [row EXCEPT !.status = "cancelled", !.waiting = FALSE, !.lapsed = FALSE] ELSE row

CancelReplacedPasswordActionNotifications(row) == Cancelled(row)

CancelPasswordActionNotification(row) == Cancelled(row)

CreatePasswordAction(p, purpose) ==
  [status |-> "active", person |-> p, purpose |-> purpose, over |-> FALSE]

CreatePasswordActionNotification ==
  [status |-> "pending", attempt |-> 0, waiting |-> FALSE, lapsed |-> FALSE]

StoreKnownRequest(o, r) ==
  LET old == ReplaceActivePasswordActions(r.person)
  IN /\ CreateKnownPasswordActionRequest(o, r)
     /\ action' = [x \in Operations |->
          IF x = o THEN CreatePasswordAction(r.person, r.purpose)
          ELSE IF x \in old THEN [action[x] EXCEPT !.status = "replaced"] ELSE action[x]]
     /\ note' = [x \in Operations |->
          IF x = o THEN CreatePasswordActionNotification
          ELSE IF x \in old THEN CancelReplacedPasswordActionNotifications(note[x]) ELSE note[x]]
     /\ latest' = [latest EXCEPT ![r.person] = o]

\* One transaction under the lock of the key and of the person.
RequestPasswordAction(r) ==
  \/ RequestAnsweredBefore(r)
  \/ /\ GetPasswordActionRequestByIdempotencyKey(r.key) = {}
     /\ \E o \in Operations :
          /\ request[o] = None
          /\ IF r.purpose = "unknown" THEN CreateUnknownPasswordActionRequest(o, r)
                                      ELSE StoreKnownRequest(o, r)
     /\ asked' = asked \ {r}
     /\ UNCHANGED <<account, dispatcher, letters, completed>>

-----------------------------------------------------------------------------
(* Completion. *)

GetPasswordActionCompletionByIdempotencyKey(k) == {e \in completed : e.key = k}

\* Mutant: an action that was spent may be spent again.
ActionUnexpired(o) == action[o].status \in {"active", "consumed"} /\ ~action[o].over

LockPasswordAction(o) == action[o].status = "active" /\ ~action[o].over

ConsumePasswordAction(o) == action' = [action EXCEPT ![o].status = "consumed"]

UpdatePasswordCredentialForReset(p, new) ==
  /\ account[p].password # None
  /\ account' = [account EXCEPT ![p].password = new, ![p].version = @ + 1]

\* A second identity or credential of the person is a conflict.
CreatePasswordCredential(p, new) ==
  /\ account[p].password = None
  /\ account' = [account EXCEPT ![p].password = new, ![p].version = 1]

CreatePasswordActionCompletion(o, new, k) ==
  completed' = completed \cup
    {[key |-> k, op |-> o, person |-> action[o].person, password |-> new,
      version |-> account'[action[o].person].version]}

\* One transaction.  A repeated completion with its key is answered from the
\* receipt.
CommitPasswordAction(o, new, k) ==
  LET p == action[o].person
  IN /\ GetPasswordActionCompletionByIdempotencyKey(k) = {}
     /\ LockPasswordAction(o)
     /\ ConsumePasswordAction(o)
     /\ \/ action[o].purpose = "reset" /\ UpdatePasswordCredentialForReset(p, new)
        \/ action[o].purpose = "setup" /\ CreatePasswordCredential(p, new)
     /\ note' = [note EXCEPT ![o] = CancelPasswordActionNotification(@)]
     /\ CreatePasswordActionCompletion(o, new, k)
     /\ UNCHANGED <<asked, request, latest, dispatcher, letters>>

\* The token names its operation, person and purpose.
CompletePasswordAction(o, new, k) == o \in letters /\ CommitPasswordAction(o, new, k)

ActionElapses(o) ==
  /\ action[o].status = "active" /\ ~action[o].over
  /\ action' = [action EXCEPT ![o].over = TRUE]
  /\ UNCHANGED <<account, asked, request, latest, note, dispatcher, letters, completed>>

\* An account is created elsewhere.
AccountAppears(p) ==
  /\ ~account[p].known
  /\ account' \in {[account EXCEPT ![p] = [known |-> TRUE, password |-> None, version |-> 0]],
                   [account EXCEPT ![p] = [known |-> TRUE, password |-> "initial", version |-> 1]]}
  /\ UNCHANGED <<asked, request, action, latest, note, dispatcher, letters, completed>>

-----------------------------------------------------------------------------
(* Notifications. *)

\* Pending and due, or claimed by a dispatcher whose lease has lapsed, while
\* the action is good.
DueNotification(o) ==
  /\ \/ note[o].status = "pending" /\ ~note[o].waiting
     \/ note[o].status = "claimed" /\ note[o].lapsed
  /\ action[o].status = "active" /\ ~action[o].over

ClaimPasswordActionNotification(d, o) ==
  /\ dispatcher[d] = Resting
  /\ DueNotification(o) /\ note[o].attempt < MaxClaims
  /\ note' = [note EXCEPT ![o] = [status |-> "claimed", attempt |-> @.attempt + 1,
                                  waiting |-> FALSE, lapsed |-> FALSE]]
  /\ dispatcher' = [dispatcher EXCEPT ![d] =
       [phase |-> "claimed", op |-> o, attempt |-> note[o].attempt + 1]]
  /\ UNCHANGED <<account, asked, request, action, latest, letters, completed>>

\* An error is for good when the service refused, and worth another try when
\* it may not have answered.
classifyPasswordActionNotificationError(outcome, has) ==
  (outcome = "accepted" => has) /\ (outcome = "rejected" => ~has)

\* The token is issued and the service is called with the operation as the
\* idempotency key of the message.  What the service answers, or fails to
\* answer, is the outcome: it has the message when it accepts and may have it
\* when the answer is lost.  The claim is as good as when it was made, so an
\* action that ran out meanwhile is sent all the same.
SubmitPasswordActionNotification(d) ==
  LET c == dispatcher[d]
  IN /\ c.phase = "claimed"
     /\ \E outcome \in {"accepted", "failed", "rejected"}, has \in BOOLEAN :
          /\ classifyPasswordActionNotificationError(outcome, has)
          /\ dispatcher' = [dispatcher EXCEPT ![d].phase = outcome]
          /\ letters' = IF has THEN letters \cup {c.op} ELSE letters
     /\ UNCHANGED <<account, asked, request, action, latest, note, completed>>

\* The row is still claimed at the version the claim gave it.
ExpectedVersion(c) == note[c.op].status = "claimed" /\ note[c.op].attempt = c.attempt

DeliveredNote(row) == [row EXCEPT !.status = "delivered", !.lapsed = FALSE]
AttentionNote(row) == [row EXCEPT !.status = "attention_required", !.lapsed = FALSE]
RescheduledNote(row) == [row EXCEPT !.status = "pending", !.waiting = TRUE, !.lapsed = FALSE]

\* A conflict of versions changes nothing and is only reported.
MarkPasswordActionNotificationDelivered(c) ==
  note' = [note EXCEPT ![c.op] = IF ExpectedVersion(c) THEN DeliveredNote(@) ELSE @]

MarkPasswordActionNotificationAttentionRequired(c) ==
  note' = [note EXCEPT ![c.op] = IF ExpectedVersion(c) THEN AttentionNote(@) ELSE @]

ReschedulePasswordActionNotification(c) ==
  note' = [note EXCEPT ![c.op] = IF ExpectedVersion(c) THEN RescheduledNote(@) ELSE @]

\* Whether the next attempt would come after the action has run out is up to
\* the clock.
passwordActionNotificationBackoff(c) == IF action[c.op].over THEN {TRUE} ELSE BOOLEAN

finishFailure(c) ==
  \E late \in passwordActionNotificationBackoff(c) :
    IF c.phase = "rejected" \/ c.attempt >= MaxAttempts \/ late
    THEN MarkPasswordActionNotificationAttentionRequired(c)
    ELSE ReschedulePasswordActionNotification(c)

\* The end of DispatchNext.
RecordOutcome(d) ==
  LET c == dispatcher[d]
  IN /\ c.phase \in {"accepted", "failed", "rejected"}
     /\ IF c.phase = "accepted" THEN MarkPasswordActionNotificationDelivered(c) ELSE finishFailure(c)
     /\ dispatcher' = [dispatcher EXCEPT ![d] = Resting]
     /\ UNCHANGED <<account, asked, request, action, latest, letters, completed>>

\* The claim stays behind.
DispatcherStops(d) ==
  /\ dispatcher[d] # Resting /\ note[dispatcher[d].op].attempt < MaxAttempts
  /\ dispatcher' = [dispatcher EXCEPT ![d] = Resting]
  /\ UNCHANGED <<account, asked, request, action, latest, note, letters, completed>>

LeaseLapses(o) ==
  /\ note[o].status = "claimed" /\ ~note[o].lapsed
  /\ note' = [note EXCEPT ![o].lapsed = TRUE]
  /\ UNCHANGED <<account, asked, request, action, latest, dispatcher, letters, completed>>

BackoffEnds(o) ==
  /\ note[o].status = "pending" /\ note[o].waiting
  /\ note' = [note EXCEPT ![o].waiting = FALSE]
  /\ UNCHANGED <<account, asked, request, action, latest, dispatcher, letters, completed>>

PasswordNext ==
  \/ \E p \in People : \/ AccountAppears(p)
                       \/ \E k \in RequestKeys : AskPasswordAction(p, k)
  \/ \E r \in asked : RequestPasswordAction(r)
  \/ \E o \in Operations :
       \/ ActionElapses(o) \/ LeaseLapses(o) \/ BackoffEnds(o)
       \/ \E new \in Passwords, k \in CompletionKeys : CompletePasswordAction(o, new, k)
       \/ \E d \in Dispatchers : ClaimPasswordActionNotification(d, o)
  \/ \E d \in Dispatchers :
       SubmitPasswordActionNotification(d) \/ RecordOutcome(d) \/ DispatcherStops(d)

-----------------------------------------------------------------------------
(* What a password action promises. *)

\* However requests overlap, only the action stored last for a person can
\* change his password: a link from before it is dead.
OnlyLatestActionIsLive ==
  \A o \in Operations : action[o].status = "active" => latest[action[o].person] = o

\* Every change of a password spent an action of its own: the completions of
\* a person have different actions and different versions, and the last one
\* is the password in force.
EveryChangeHasItsAction ==
  /\ \A e, f \in completed : e.person = f.person /\ e # f => e.op # f.op /\ e.version # f.version
  /\ \A e \in completed : e.version <= account[e.person].version
  /\ \A e \in completed : e.version = account[e.person].version =>
       e.password = account[e.person].password

\* A setup never overwrites: a password that exists is changed by a reset.
SetupNeverOverwrites ==
  [][\A p \in People : account[p].password # None /\ account'[p].version # account[p].version =>
       \E o \in Operations : action[o].person = p /\ action[o].purpose = "reset"
                               /\ action[o].status = "active" /\ action'[o].status = "consumed"]_passwordVars

\* The notification of an action that was spent or replaced is closed with it,
\* so that no row with a dead token waits to be claimed.
LiveNotificationsAreCurrent ==
  \A o \in Operations : note[o].status \in {"pending", "claimed"} => action[o].status = "active"

\* Dispatchers with a claim on an operation whose message is still to be sent.
Senders(o) == {d \in Dispatchers : dispatcher[d].phase = "claimed" /\ dispatcher[d].op = o}

\* What was delivered, cancelled or given up stays so: the outcome of a
\* dispatcher whose lease lapsed does not overwrite that of its successor.  The
\* dispatchers that may still send it are those that had claimed it before,
\* and none joins them (SubmitPasswordActionNotification checks nothing again).
SettledNotificationsStay ==
  [][\A o \in Operations :
       note[o].status \in {"delivered", "cancelled", "attention_required"} =>
         note'[o] = note[o] /\ Senders(o)' \subseteq Senders(o)]_passwordVars

\* A password changes only by the latest action of its owner and each action
\* once; what was replaced or settled is not taken up again by any dispatcher,
\* though one that claimed it before may still send the dead token
\* (CompletePasswordAction, the notification dispatcher).
PasswordsAreProtected ==
  /\ [](PasswordTypeOK /\ OnlyLatestActionIsLive /\ EveryChangeHasItsAction
          /\ LiveNotificationsAreCurrent)
  /\ SetupNeverOverwrites /\ SettledNotificationsStay
=============================================================================
