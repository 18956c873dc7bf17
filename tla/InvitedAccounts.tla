-------------------------- MODULE InvitedAccounts --------------------------
(***************************************************************************)
(* An account for somebody who was invited and has none: a challenge whose *)
(* code goes to the invited address, and the completion that creates the   *)
(* Human with his password.                                                *)
(*                                                                         *)
(* A request always answers with a challenge, so that it tells nothing; a  *)
(* code is made and sent only when the address is eligible.  Every request *)
(* and completion holds the lock under which Humans are created and the    *)
(* guards of the Tenants with an open Invitation, and is one step.         *)
(*                                                                         *)
(* The accounts are those of PasswordActions.                              *)
(***************************************************************************)
EXTENDS PasswordActions

CONSTANTS
  Challenges,   \* challenge identities
  AccountKeys,  \* idempotency keys of requests and of completions
  MaxGuesses    \* InvitedAccountVerificationAttempts (5)

ASSUME InvitedAccountsAssumption == MaxGuesses \in Nat \ {0}

VARIABLES
  invitation, \* whether a person has an open Invitation of a Tenant or the Platform
  challenge,  \* iam_invited_account_verifications
  delivery,   \* iam_invited_account_outbox
  sending,    \* how far a dispatcher is that holds a delivery in memory
  codes,      \* challenges whose code is in the mail
  guesses     \* wrong codes a pending challenge was compared with

challengeVars == <<invitation, challenge, delivery, sending, codes, guesses>>

InvitedAccountVerification ==
  [status : {"none", "pending", "superseded", "expired", "exhausted", "consumed"},
   person : People \cup {None}, coded : BOOLEAN, failed : 0..MaxGuesses, over : BOOLEAN,
   key : AccountKeys \cup {None}, completion : AccountKeys \cup {None}]
DeliveryStatus == {"none", "pending", "claimed", "delivered", "cancelled", "attention_required"}

InvitedTypeOK ==
  /\ invitation \in [People -> {"none", "open", "closed"}]
  /\ challenge \in [Challenges -> InvitedAccountVerification]
  /\ delivery \in [Challenges -> DeliveryStatus]
  /\ sending \in [Challenges -> {"idle", "claimed", "current"}]
  /\ codes \subseteq Challenges
  /\ guesses \in [Challenges -> Nat]

InvitedInit ==
  /\ invitation = [p \in People |-> "none"]
  /\ challenge = [c \in Challenges |->
       [status |-> "none", person |-> None, coded |-> FALSE, failed |-> 0, over |-> FALSE,
        key |-> None, completion |-> None]]
  /\ delivery = [c \in Challenges |-> "none"]
  /\ sending = [c \in Challenges |-> "idle"]
  /\ codes = {}
  /\ guesses = [c \in Challenges |-> 0]

\* What the unit of work leaves alone: whatever is not an account.
withinInvitedAccount ==
  UNCHANGED <<asked, request, action, latest, note, dispatcher, letters, completed, invitation, sending, codes>>

\* The Invitations whose boundaries are locked.
InvitedAccountTenantBoundaries(p) == invitation[p] = "open"

InvitedAccountEligibility(p) == ~account[p].known /\ InvitedAccountTenantBoundaries(p)

FindInvitedAccountRequest(k) == {c \in Challenges : challenge[c].key = k}

SupersedeInvitedAccountVerifications(row, p) ==
  IF row.person = p /\ row.status = "pending" THEN [row EXCEPT !.status = "superseded"] ELSE row

\* The deliveries of a person whose challenges, as they are now, are closed.
CancelInactiveInvitedAccountDeliveries(p, rows, d) ==
  [c \in Challenges |->
     IF rows[c].person = p /\ rows[c].status # "pending"
          /\ d[c] \in {"pending", "claimed", "attention_required"}
     THEN "cancelled" ELSE d[c]]

CreateInvitedAccountVerification(p, k, eligible) ==
  [status |-> "pending", person |-> p, coded |-> eligible, failed |-> 0, over |-> FALSE,
   key |-> k, completion |-> None]

CreateInvitedAccountDelivery(eligible) == IF eligible THEN "pending" ELSE "none"

\* A key that was used is answered with its challenge, or is a conflict.
RequestInvitedAccountVerification(c, p, k) ==
  /\ FindInvitedAccountRequest(k) = {}
  /\ LET eligible == InvitedAccountEligibility(p)
         superseded == [x \in Challenges |-> SupersedeInvitedAccountVerifications(challenge[x], p)]
     IN /\ challenge' = [superseded EXCEPT ![c] = CreateInvitedAccountVerification(p, k, eligible)]
        /\ delivery' = [CancelInactiveInvitedAccountDeliveries(p, superseded, delivery)
                          EXCEPT ![c] = CreateInvitedAccountDelivery(eligible)]
  /\ UNCHANGED <<account, guesses>> /\ withinInvitedAccount

\* Under a fresh challenge identity.
RequestVerification(c, p, k) ==
  challenge[c].status = "none" /\ RequestInvitedAccountVerification(c, p, k)

GetInvitedAccountVerification(c) == challenge[c]

ExpireInvitedAccountVerification(row) == [row EXCEPT !.status = "expired"]

FailInvitedAccountVerification(row) ==
  [row EXCEPT !.failed = @ + 1, !.status = IF row.failed + 1 = MaxGuesses THEN "exhausted" ELSE @]

\* A denial is committed: it closes a pending challenge that ran out, or
\* counts.
denied(c, increment) ==
  LET row == GetInvitedAccountVerification(c)
  IN /\ challenge' = [challenge EXCEPT ![c] =
          IF row.over THEN ExpireInvitedAccountVerification(row)
          ELSE IF increment THEN FailInvitedAccountVerification(row) ELSE row]
     /\ delivery' = CancelInactiveInvitedAccountDeliveries(row.person, challenge', delivery)

\* What is compared before the code.
Presentable(c, p) ==
  LET row == GetInvitedAccountVerification(c)
  IN row.person = p /\ row.coded /\ ~row.over /\ row.failed < MaxGuesses

\* With his verified email, password identity and credential.
CreateInvitedHuman(p, new) ==
  account' = [account EXCEPT ![p] = [known |-> TRUE, password |-> new, version |-> 1]]

\* A completion key is used once.
ConsumeInvitedAccountVerification(c, k) ==
  /\ \A x \in Challenges : challenge[x].completion # k
  /\ challenge' = [challenge EXCEPT ![c].status = "consumed", ![c].completion = k]

\* Mutant: whoever was eligible when he asked is eligible.
EligibleBefore(c, p, right) == Presentable(c, p) /\ right /\ ~account[p].known

\* Who has the code is asked again whether he is still invited and still has
\* no account.
MayComplete(c, p, right) == Presentable(c, p) /\ right /\ InvitedAccountEligibility(p)

\* A completion of a pending challenge.  On a closed one every answer is a
\* denial that changes nothing, or the receipt of the same completion.
CompleteInvitedAccount(c, p, right, new, k) ==
  /\ challenge[c].status = "pending"
  /\ IF MayComplete(c, p, right)
     THEN /\ CreateInvitedHuman(p, new)
          /\ ConsumeInvitedAccountVerification(c, k)
          /\ delivery' = CancelInactiveInvitedAccountDeliveries(p, challenge', delivery)
          /\ UNCHANGED guesses
     ELSE /\ denied(c, TRUE)
          /\ guesses' = [guesses EXCEPT ![c] = IF Presentable(c, p) /\ ~right THEN @ + 1 ELSE @]
          /\ UNCHANGED account
  /\ withinInvitedAccount

\* Only the mail has the code.
Complete(c, p, right, new, k) ==
  (right => c \in codes) /\ CompleteInvitedAccount(c, p, right, new, k)

ChallengeElapses(c) ==
  /\ challenge[c].status = "pending" /\ ~challenge[c].over
  /\ challenge' = [challenge EXCEPT ![c].over = TRUE]
  /\ UNCHANGED <<account, delivery, guesses>> /\ withinInvitedAccount

\* Invitations are made, accepted, cancelled and run out elsewhere.
InvitationMoves(p) ==
  /\ invitation' \in {[invitation EXCEPT ![p] = x] : x \in {"open", "closed"} \ {invitation[p]}}
  /\ UNCHANGED <<passwordVars, challenge, delivery, sending, codes, guesses>>

\* A claim looks at the delivery alone; one whose dispatcher stopped is taken up
\* again when its lease has lapsed.
ClaimAccountVerificationNotification(c) ==
  /\ delivery[c] \in {"pending", "claimed"} /\ sending[c] = "idle"
  /\ delivery' = [delivery EXCEPT ![c] = "claimed"]
  /\ sending' = [sending EXCEPT ![c] = "claimed"]
  /\ UNCHANGED <<passwordVars, invitation, challenge, codes, guesses>>

\* What the dispatcher asks in a statement of its own, before it sends.
CurrentAccountVerificationNotification(c) ==
  /\ delivery[c] = "claimed"
  /\ challenge[c].status = "pending" /\ ~challenge[c].over /\ challenge[c].failed < MaxGuesses

\* Written while the claim still stands.
FinishAccountVerificationNotification(c, outcome) ==
  IF delivery[c] = "claimed" THEN [delivery EXCEPT ![c] = outcome] ELSE delivery

\* A claim that is not current any more is cancelled, or its dispatcher stops.
CheckAccountVerification(c) ==
  /\ sending[c] = "claimed"
  /\ \/ /\ CurrentAccountVerificationNotification(c)
        /\ sending' = [sending EXCEPT ![c] = "current"]
        /\ UNCHANGED delivery
     \/ /\ ~CurrentAccountVerificationNotification(c)
        /\ sending' = [sending EXCEPT ![c] = "idle"]
        /\ delivery' \in {delivery, FinishAccountVerificationNotification(c, "cancelled")}
  /\ UNCHANGED <<passwordVars, invitation, challenge, codes, guesses>>

\* The service takes the message, refuses it or does not answer, and the
\* dispatcher records what it knows, or stops.  What could only be tried again
\* after the code has expired is cancelled.
DispatchAccountVerification(c) ==
  /\ sending[c] = "current"
  /\ sending' = [sending EXCEPT ![c] = "idle"]
  /\ codes' \in {codes, codes \cup {c}}
  /\ \E outcome \in {"pending", "claimed", "cancelled", "attention_required"}
                      \cup (IF c \in codes' THEN {"delivered"} ELSE {}) :
       delivery' = FinishAccountVerificationNotification(c, outcome)
  /\ UNCHANGED <<passwordVars, invitation, challenge, guesses>>

InvitedNext ==
  \/ \E p \in People : InvitationMoves(p)
  \/ \E c \in Challenges :
       \/ ChallengeElapses(c) \/ ClaimAccountVerificationNotification(c)
       \/ CheckAccountVerification(c) \/ DispatchAccountVerification(c)
       \/ \E p \in People, k \in AccountKeys :
            \/ RequestVerification(c, p, k)
            \/ \E right \in BOOLEAN, new \in Passwords : Complete(c, p, right, new, k)

\* Accounts, whichever way they come and change.
accountVars == <<passwordVars, challengeVars>>
AccountsInit == PasswordInit /\ InvitedInit
AccountsNext == InvitedNext \/ (PasswordNext /\ UNCHANGED challengeVars)
AccountsSpec == AccountsInit /\ [][AccountsNext]_accountVars

-----------------------------------------------------------------------------
(* What the creation of accounts promises. *)

\* A completion creates an account only for somebody whose Invitation is open
\* at that moment, however long ago the code was asked for, and never a second
\* one.
AccountsAreInvited ==
  [][\A c \in Challenges :
       challenge[c].status # "consumed" /\ challenge'[c].status = "consumed" =>
         LET p == challenge[c].person
         IN invitation[p] = "open" /\ ~account[p].known /\ account'[p].known]_<<account, challengeVars>>

\* A code can be guessed at MaxGuesses times, whatever denials, requests and
\* deliveries come in between.
GuessesAreBounded ==
  \A c \in Challenges :
    guesses[c] <= MaxGuesses /\ (guesses[c] = MaxGuesses => challenge[c].status # "pending")

\* Asking again closes what was asked before: a person never has two codes
\* that both open his account.
OneChallengeIsOpen ==
  \A c, d \in Challenges :
    challenge[c].status = "pending" /\ challenge[d].status = "pending"
      /\ challenge[c].person = challenge[d].person => c = d

\* The delivery of a challenge that was superseded, used up, spent or found
\* expired is closed with it: nobody claims it afterwards, and its code is not
\* kept.  A dispatcher that had found it current may still send it, but it opens
\* nothing (CancelInactiveInvitedAccountDeliveries).
CodesFollowChallenges ==
  \A c \in Challenges :
    delivery[c] \in {"pending", "claimed", "attention_required"} => challenge[c].status = "pending"

\* An account comes from one open code that was guessed at a bounded number of
\* times, for somebody who is still invited (Complete, denied).
InvitedAccountsAreEarned ==
  /\ [](InvitedTypeOK /\ GuessesAreBounded /\ OneChallengeIsOpen /\ CodesFollowChallenges)
  /\ AccountsAreInvited
=============================================================================
