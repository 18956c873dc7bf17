------------------------- MODULE InvitationsProofs -------------------------
(***************************************************************************)
(* What is proved of Invitations for any number of people, Invitations,    *)
(* roles, dispatchers, generations, attempts and removals.                 *)
(***************************************************************************)
EXTENDS Invitations, FiniteSetTheorems, TLAPS

(***************************************************************************)
(* People and their Memberships.                                           *)
(***************************************************************************)
\* An Invitation that exists has a generation and is addressed to a person; it
\* is not dated after the removals there were.
Dated ==
  \A i \in Invites :
    /\ inv[i].status = "absent" <=> inv[i].generation = 0
    /\ inv[i].status # "absent" =>
         inv[i].email \in People /\ inv[i].created <= member[inv[i].email].removals

\* A Membership row is the one in use or one that was removed.
Counted ==
  \A p \in People :
    /\ joined[p] = member[p].removals + (IF member[p].status = "active" THEN 1 ELSE 0)
    /\ member[p].status = "none" => member[p].removals = 0

\* Accepted Invitations are of different times, all before the next Membership row.
Honoured(p) ==
  /\ IsFiniteSet(AcceptedBy(p)) /\ joined[p] = Cardinality(AcceptedBy(p))
  /\ \A i \in AcceptedBy(p) : inv[i].created < joined[p]
  /\ \A i, j \in AcceptedBy(p) : inv[i].created = inv[j].created => i = j

\* A credential that is not locked has a failure left.
Unlocked == \A p \in People : ~cred[p].locked => cred[p].failures < MaxFailures

PeopleInv == Dated /\ Counted /\ (\A p \in People : Honoured(p)) /\ Unlocked

(***************************************************************************)
(* The outbox.                                                             *)
(***************************************************************************)
Phase(w) == worker[w].phase

\* Rows are written generation by generation, and one that is not has no attempts.
Written ==
  \A d \in Deliveries :
    IF outbox[d].status = "absent" THEN outbox[d].attempt = 0
    ELSE d.generation <= inv[d.inv].generation

\* The dispatchers that may still submit a message with an attempt allowed.
Holders(d) ==
  {w \in Workers : /\ Phase(w) \in {"claimed", "submitting"} /\ worker[w].id = d
                   /\ worker[w].attempt <= MaxAttempts}

\* Every submission, done or still possible, has an attempt of its own.
SubmissionsCounted ==
  \A d \in Deliveries :
    /\ IsFiniteSet(Holders(d))
    /\ submitted[d] + Cardinality(Holders(d)) <= outbox[d].attempt
    /\ submitted[d] + Cardinality(Holders(d)) <= MaxAttempts

\* Nobody submits beyond the attempts allowed, and who reports a delivery, or a
\* row that says so, follows a submission.
Reported ==
  /\ \A w \in Workers : Phase(w) = "submitting" => worker[w].attempt <= MaxAttempts
  /\ \A w \in Workers : Phase(w) = "finishing" /\ worker[w].outcome = "delivered" =>
       submitted[worker[w].id] > 0
  /\ \A d \in Deliveries : outbox[d].status = "delivered" => submitted[d] > 0

Sealed == \A d \in Deliveries : outbox[d].sealed = (outbox[d].status \in Outbox!Live)

OutboxInv == Written /\ OnlyCurrentDeliveryIsLive /\ SubmissionsCounted /\ Reported /\ Sealed

IInv == TypeOK /\ PeopleInv /\ InvitationGrantsExistingRoles /\ OutboxInv

-----------------------------------------------------------------------------
(***************************************************************************)
(* What administrators and recipients do to Invitations, their roles and   *)
(* messages: some end or are cleared, at most a few get a new generation.  *)
(***************************************************************************)
IsNew(d, fresh) == d.inv \in fresh /\ d.generation = inv[d.inv].generation + 1

Moves(over, fresh) ==
  /\ over \in SUBSET Invites /\ fresh \in SUBSET Invites
  /\ \A j \in fresh :
       /\ inv'[j].status = "pending" /\ inv'[j].generation = inv[j].generation + 1
       /\ inv'[j].roles \subseteq roles
       /\ j \in over \/ inv[j].status = "absent"
  /\ \A j \in over \ fresh :
       /\ inv'[j].status \in Ended /\ inv'[j].generation = inv[j].generation
       /\ inv'[j].roles = inv[j].roles
  /\ \A j \in Invites \ (over \cup fresh) :
       /\ inv'[j].status = inv[j].status /\ inv'[j].generation = inv[j].generation
       /\ inv'[j].roles = inv[j].roles
  /\ refs' = {x \in refs : x[1] \notin over}
               \cup {x \in Invites \X CustomRoles : x[1] \in fresh /\ x[2] \in inv'[x[1]].roles}
  /\ \A d \in Deliveries :
       outbox'[d] = IF IsNew(d, fresh) THEN Outbox!NewDelivery
                    ELSE IF d.inv \in over THEN Outbox!CancelDelivery(outbox[d]) ELSE outbox[d]
  /\ UNCHANGED <<worker, submitted>>

\* The parts of a row of the outbox.
LEMMA RowTypes ==
  ASSUME TypeOK
  PROVE  /\ \A d \in Deliveries :
              /\ d.inv \in Invites /\ d.generation \in 1..MaxGeneration
              /\ outbox[d] \in Outbox!DeliveryRow /\ outbox[d].attempt \in Nat /\ submitted[d] \in Nat
         /\ \A i \in Invites : inv[i] \in InvitationRow /\ inv[i].generation \in Nat
         /\ MaxGeneration \in Nat /\ MaxAttempts \in Nat /\ MaxClaims \in Nat
  <1>1. MaxGeneration \in Nat /\ MaxAttempts \in Nat /\ MaxClaims \in Nat
    BY InvitationsAssumption
  <1>2. \A i \in Invites : inv[i] \in InvitationRow
    BY DEF TypeOK
  <1>3. \A i \in Invites : inv[i].generation \in Nat
    BY <1>1, <1>2 DEF InvitationRow
  <1>4. \A d \in Deliveries : d.inv \in Invites /\ d.generation \in 1..MaxGeneration
    BY DEF Deliveries
  <1>5. \A d \in Deliveries : outbox[d] \in Outbox!DeliveryRow /\ submitted[d] \in 0..MaxClaims
    BY DEF TypeOK, Outbox!OutboxTypeOK, Outbox!Attempts
  <1>6. \A d \in Deliveries : outbox[d].attempt \in 0..MaxClaims
    BY <1>5 DEF Outbox!DeliveryRow, Outbox!Attempts
  <1> QED
    BY <1>1, <1>2, <1>3, <1>4, <1>5, <1>6

\* A cancelled row keeps its attempts.
LEMMA Cancelled ==
  ASSUME NEW row \in Outbox!DeliveryRow, row.sealed = (row.status \in Outbox!Live),
         NEW new, new = Outbox!CancelDelivery(row)
  PROVE  /\ new \in Outbox!DeliveryRow /\ new.attempt = row.attempt
         /\ new.sealed = (new.status \in Outbox!Live) /\ new.status \notin Outbox!Live
         /\ new.status = "absent" <=> row.status = "absent"
         /\ new.status = "delivered" => row.status = "delivered"
         /\ row.status \in Outbox!Settled => new = row
  <1>0. /\ row.status \in {"absent"} \cup Outbox!Live \cup Outbox!Settled
        /\ row.attempt \in Outbox!Attempts
    BY DEF Outbox!DeliveryRow
  <1>1. CASE row.status \in Outbox!Live
    <2>1. new = [row EXCEPT !.status = "cancelled", !.lapsed = FALSE, !.sealed = FALSE]
      BY <1>1 DEF Outbox!CancelDelivery
    <2>2. new = [status |-> "cancelled", attempt |-> row.attempt, lapsed |-> FALSE, sealed |-> FALSE]
      BY <2>1 DEF Outbox!DeliveryRow
    <2>3. new.sealed = FALSE /\ new.status = "cancelled" /\ new.attempt = row.attempt
      BY <2>2
    <2>4. new \in Outbox!DeliveryRow
      BY <1>0, <2>2 DEF Outbox!DeliveryRow, Outbox!Settled
    <2>5. new.status \notin Outbox!Live
      BY <2>3 DEF Outbox!Live
    <2>6. (new.status \in Outbox!Live) = FALSE
      BY <2>5
    <2>8. new.sealed = (new.status \in Outbox!Live)
      BY <2>3, <2>6, Zenon
    <2>7. row.status # "absent" /\ row.status # "delivered" /\ row.status \notin Outbox!Settled
      BY <1>1 DEF Outbox!Live, Outbox!Settled
    <2> QED
      BY <2>3, <2>4, <2>5, <2>8, <2>7, Zenon
  <1>2. CASE row.status \notin Outbox!Live
    <2>1. new = row
      BY <1>2 DEF Outbox!CancelDelivery
    <2> QED
      BY <1>2, <2>1, Zenon
  <1> QED
    BY <1>1, <1>2

LEMMA MovesOutbox ==
  ASSUME TypeOK, TypeOK', Dated, OutboxInv, NEW over, NEW fresh, Moves(over, fresh)
  PROVE  /\ OutboxInv'
         /\ \A d \in Deliveries : outbox[d].status \in Outbox!Settled => outbox'[d] = outbox[d]
  <1> USE DEF OutboxInv
  <1>1. \A d \in Deliveries :
          outbox'[d] = IF IsNew(d, fresh) THEN Outbox!NewDelivery
                       ELSE IF d.inv \in over THEN Outbox!CancelDelivery(outbox[d]) ELSE outbox[d]
    BY DEF Moves
  <1>2. ASSUME NEW d \in Deliveries, IsNew(d, fresh)
        PROVE  outbox[d].status = "absent" /\ outbox[d].attempt = 0 /\ outbox'[d] = Outbox!NewDelivery
    BY <1>1, <1>2, RowTypes DEF Written, IsNew
  <1>3. Outbox!NewDelivery.status = "pending" /\ Outbox!NewDelivery.attempt = 0 /\ Outbox!NewDelivery.sealed = TRUE
    BY DEF Outbox!NewDelivery
  <1>4. ASSUME NEW d \in Deliveries, ~ IsNew(d, fresh), d.inv \in over
        PROVE  /\ outbox'[d].attempt = outbox[d].attempt
               /\ outbox'[d].sealed = (outbox'[d].status \in Outbox!Live) /\ outbox'[d].status \notin Outbox!Live
               /\ outbox'[d].status = "absent" <=> outbox[d].status = "absent"
               /\ outbox'[d].status = "delivered" => outbox[d].status = "delivered"
               /\ outbox[d].status \in Outbox!Settled => outbox'[d] = outbox[d]
    <2>1. outbox'[d] = Outbox!CancelDelivery(outbox[d])
      BY <1>1, <1>4
    <2>2. outbox[d] \in Outbox!DeliveryRow /\ outbox[d].sealed = (outbox[d].status \in Outbox!Live)
      BY RowTypes DEF Sealed
    <2> QED
      BY <2>1, <2>2, Cancelled
  <1>5. ASSUME NEW d \in Deliveries, ~ IsNew(d, fresh), d.inv \notin over PROVE outbox'[d] = outbox[d]
    BY <1>1, <1>5
  <1>6. \A d \in Deliveries : outbox'[d].attempt = outbox[d].attempt
    BY <1>2, <1>3, <1>4, <1>5
  <1>7. \A d \in Deliveries : outbox'[d].status = "absent" => outbox[d].status = "absent" /\ ~ IsNew(d, fresh)
    BY <1>2, <1>3, <1>4, <1>5
  <1>8. \A i \in Invites : inv[i].generation <= inv'[i].generation
    BY RowTypes DEF Moves
  <1>9. Written'
    <2> SUFFICES ASSUME NEW d \in Deliveries
                 PROVE  IF outbox'[d].status = "absent" THEN outbox'[d].attempt = 0
                        ELSE d.generation <= inv'[d.inv].generation
      BY DEF Written
    <2>1. CASE outbox'[d].status = "absent"
      BY <1>6, <1>7, <2>1 DEF Written
    <2>2. CASE outbox'[d].status # "absent" /\ ~ IsNew(d, fresh)
      <3>1. outbox[d].status # "absent"
        BY <1>4, <1>5, <2>2
      <3>2. d.generation <= inv[d.inv].generation
        BY <3>1 DEF Written
      <3>3. inv'[d.inv].generation \in Nat
        BY RowTypes DEF TypeOK, InvitationRow
      <3> QED
        BY <1>8, <2>2, <3>2, <3>3, RowTypes
    <2>3. CASE outbox'[d].status # "absent" /\ IsNew(d, fresh)
      <3>1. inv'[d.inv].generation = d.generation
        BY <2>3 DEF IsNew, Moves
      <3> QED
        BY <2>3, <3>1, RowTypes
    <2> QED
      BY <2>1, <2>2, <2>3
  <1>10. OnlyCurrentDeliveryIsLive'
    <2>1. ASSUME NEW d \in Deliveries, outbox'[d].status \in Outbox!Live
          PROVE  inv'[d.inv].status = "pending" /\ inv'[d.inv].generation = d.generation
      <3>1. CASE IsNew(d, fresh)
        BY <3>1 DEF IsNew, Moves
      <3>2. CASE ~ IsNew(d, fresh)
        <4>1. d.inv \notin over /\ outbox'[d] = outbox[d]
          BY <1>4, <1>5, <2>1, <3>2
        <4>2. inv[d.inv].status = "pending" /\ inv[d.inv].generation = d.generation
          BY <2>1, <4>1 DEF OnlyCurrentDeliveryIsLive
        <4>3. d.inv \in Invites \ (over \cup fresh)
          BY <4>1, <4>2, RowTypes DEF Moves
        <4> QED
          BY <4>2, <4>3 DEF Moves
      <3> QED
        BY <3>1, <3>2
    <2>2. ASSUME NEW i \in Invites, inv'[i].status = "pending"
          PROVE  outbox'[[inv |-> i, generation |-> inv'[i].generation]].status # "absent"
      <3>1. CASE i \in fresh
        <4>1. PICK d : d = [inv |-> i, generation |-> inv'[i].generation]
          OBVIOUS
        <4>2. inv'[i].generation = inv[i].generation + 1 /\ inv'[i].generation \in 1..MaxGeneration
          <5>1. inv'[i].generation = inv[i].generation + 1
            BY <3>1 DEF Moves
          <5>2. inv'[i].generation \in 0..MaxGeneration
            BY DEF TypeOK, InvitationRow
          <5> QED
            BY <5>1, <5>2, RowTypes
        <4>3. d \in Deliveries /\ IsNew(d, fresh)
          BY <3>1, <4>1, <4>2 DEF Deliveries, IsNew
        <4> QED
          BY <1>2, <1>3, <4>1, <4>3
      <3>2. CASE i \notin fresh
        <4>1. i \notin over
          BY <2>2, <3>2 DEF Moves, Ended
        <4>2. inv[i].status = "pending" /\ inv'[i].generation = inv[i].generation
          BY <2>2, <3>2, <4>1 DEF Moves
        <4>3. PICK d : d = [inv |-> i, generation |-> inv[i].generation]
          OBVIOUS
        <4>4. outbox[d].status # "absent" /\ d.inv = i
          BY <4>2, <4>3 DEF OnlyCurrentDeliveryIsLive
        <4>5. d \in Deliveries
          <5>1. inv[i].generation \in 0..MaxGeneration /\ inv[i].generation # 0
            BY <4>2 DEF TypeOK, InvitationRow, Dated
          <5> QED
            BY <4>3, <5>1, RowTypes DEF Deliveries
        <4>6. outbox'[d] = outbox[d]
          BY <1>5, <3>2, <4>1, <4>4, <4>5 DEF IsNew
        <4> QED
          BY <4>2, <4>3, <4>4, <4>6
      <3> QED
        BY <3>1, <3>2
    <2> QED
      BY <2>1, <2>2 DEF OnlyCurrentDeliveryIsLive
  <1>11. SubmissionsCounted'
    <2>1. \A d : Holders(d)' = Holders(d)
      BY DEF Moves, Holders, Phase
    <2>2. submitted' = submitted
      BY DEF Moves
    <2> QED
      BY <1>6, <2>1, <2>2 DEF SubmissionsCounted
  <1>12. Reported'
    <2>1. UNCHANGED <<worker, submitted>>
      BY DEF Moves
    <2>2. \A d \in Deliveries : outbox'[d].status = "delivered" => outbox[d].status = "delivered"
      BY <1>2, <1>3, <1>4, <1>5
    <2> QED
      BY <2>1, <2>2 DEF Reported, Phase
  <1>13. Sealed'
    <2>1. \A d \in Deliveries : outbox'[d].sealed = (outbox'[d].status \in Outbox!Live)
      BY <1>2, <1>3, <1>4, <1>5 DEF Sealed, Outbox!Live
    <2> QED
      BY <2>1 DEF Sealed
  <1>14. \A d \in Deliveries : outbox[d].status \in Outbox!Settled => outbox'[d] = outbox[d]
    BY <1>2, <1>4, <1>5 DEF Outbox!Settled
  <1> QED
    BY <1>9, <1>10, <1>11, <1>12, <1>13, <1>14

-----------------------------------------------------------------------------
(***************************************************************************)
(* What the statements on the rows of an Invitation return.                *)
(***************************************************************************)
LEMMA NewRow ==
  ASSUME TypeOK, NEW p \in People, NEW rs \in SUBSET CustomRoles, NEW row, row = CreateTenantInvitation(p, rs)
  PROVE  /\ row \in InvitationRow /\ row.status = "pending" /\ row.email = p /\ row.roles = rs
         /\ row.generation = 1 /\ row.created = member[p].removals
  <1>1. member[p].removals \in 0..MaxRemovals
    BY DEF TypeOK, MembershipRow
  <1>2. row = [status |-> "pending", email |-> p, roles |-> rs, generation |-> 1,
               elapsed |-> FALSE, created |-> member[p].removals]
    BY DEF CreateTenantInvitation
  <1>3. 1 \in 0..MaxGeneration
    BY InvitationsAssumption
  <1> QED
    BY <1>1, <1>2, <1>3 DEF InvitationRow

LEMMA EndedRow ==
  ASSUME NEW row \in InvitationRow, NEW status \in Ended, NEW new, new = [row EXCEPT !.status = status]
  PROVE  /\ new \in InvitationRow /\ new.status = status /\ new.email = row.email
         /\ new.roles = row.roles /\ new.generation = row.generation /\ new.created = row.created
  <1>1. new = [status |-> status, email |-> row.email, roles |-> row.roles, generation |-> row.generation,
               elapsed |-> row.elapsed, created |-> row.created]
    BY DEF InvitationRow
  <1>2. /\ row.email \in People \cup {None} /\ row.roles \in SUBSET CustomRoles
        /\ row.generation \in 0..MaxGeneration /\ row.elapsed \in BOOLEAN /\ row.created \in 0..MaxRemovals
    BY DEF InvitationRow
  <1> QED
    BY <1>1, <1>2 DEF InvitationRow

LEMMA ResentRow ==
  ASSUME NEW row \in InvitationRow, row.generation < MaxGeneration, NEW new, new = ResendTenantInvitation(row)
  PROVE  /\ new \in InvitationRow /\ new.status = "pending" /\ new.email = row.email
         /\ new.roles = row.roles /\ new.generation = row.generation + 1 /\ new.created = row.created
  <1>1. new = [status |-> "pending", email |-> row.email, roles |-> row.roles,
               generation |-> row.generation + 1, elapsed |-> FALSE, created |-> row.created]
    BY DEF InvitationRow, ResendTenantInvitation
  <1>2. /\ row.email \in People \cup {None} /\ row.roles \in SUBSET CustomRoles
        /\ row.generation \in 0..MaxGeneration /\ row.created \in 0..MaxRemovals
    BY DEF InvitationRow
  <1>3. row.generation + 1 \in 0..MaxGeneration
    BY <1>2, InvitationsAssumption
  <1> QED
    BY <1>1, <1>2, <1>3 DEF InvitationRow

LEMMA CancelledType ==
  ASSUME NEW row \in Outbox!DeliveryRow
  PROVE  Outbox!CancelDelivery(row) \in Outbox!DeliveryRow
  <1>1. row.attempt \in Outbox!Attempts
    BY DEF Outbox!DeliveryRow
  <1>2. CASE row.status \in Outbox!Live
    <2>1. Outbox!CancelDelivery(row)
            = [status |-> "cancelled", attempt |-> row.attempt, lapsed |-> FALSE, sealed |-> FALSE]
      BY <1>2 DEF Outbox!CancelDelivery, Outbox!DeliveryRow
    <2> QED
      BY <1>1, <2>1 DEF Outbox!DeliveryRow, Outbox!Settled
  <1>3. CASE row.status \notin Outbox!Live
    BY <1>3 DEF Outbox!CancelDelivery
  <1> QED
    BY <1>2, <1>3

LEMMA NewDeliveryType == Outbox!NewDelivery \in Outbox!DeliveryRow
  <1>1. 0 \in Outbox!Attempts
    BY InvitationsAssumption DEF Outbox!Attempts
  <1> QED
    BY <1>1 DEF Outbox!NewDelivery, Outbox!DeliveryRow, Outbox!Live

\* The messages of some Invitations are cancelled.
LEMMA ClearedRows ==
  ASSUME TypeOK, NEW over, UNCHANGED <<worker, submitted>>,
         outbox' = [d \in Deliveries |->
                      IF d.inv \in over THEN Outbox!CancelDelivery(outbox[d]) ELSE outbox[d]]
  PROVE  /\ (Outbox!OutboxTypeOK)'
         /\ \A d \in Deliveries :
              outbox'[d] = IF d.inv \in over THEN Outbox!CancelDelivery(outbox[d]) ELSE outbox[d]
  <1>1. \A d \in Deliveries :
          outbox'[d] = IF d.inv \in over THEN Outbox!CancelDelivery(outbox[d]) ELSE outbox[d]
    OBVIOUS
  <1>2. \A d \in Deliveries : outbox[d] \in Outbox!DeliveryRow
    BY RowTypes
  <1>3. \A d \in Deliveries : outbox'[d] \in Outbox!DeliveryRow
    BY <1>1, <1>2, CancelledType
  <1>4. outbox' \in [Deliveries -> Outbox!DeliveryRow]
    BY <1>3
  <1> QED
    BY <1>1, <1>4 DEF TypeOK, Outbox!OutboxTypeOK

\* The messages of an Invitation are cancelled and one of a new generation is queued.
LEMMA IssuedRows ==
  ASSUME TypeOK, NEW old, NEW i, NEW g, UNCHANGED <<worker, submitted>>,
         outbox' = CreateTenantInvitationDelivery(CancelTenantInvitationDeliveries(outbox, old), i, g)
  PROVE  /\ (Outbox!OutboxTypeOK)'
         /\ \A d \in Deliveries :
              outbox'[d] = IF d.inv = i /\ d.generation = g THEN Outbox!NewDelivery
                           ELSE IF d.inv = old THEN Outbox!CancelDelivery(outbox[d]) ELSE outbox[d]
  <1>1. PICK rows : rows = CancelTenantInvitationDeliveries(outbox, old)
    OBVIOUS
  <1>2. /\ rows \in [Deliveries -> Outbox!DeliveryRow]
        /\ \A d \in Deliveries :
             rows[d] = IF d.inv = old THEN Outbox!CancelDelivery(outbox[d]) ELSE outbox[d]
    <2>1. rows = [d \in Deliveries |-> IF d.inv = old THEN Outbox!CancelDelivery(outbox[d]) ELSE outbox[d]]
      BY <1>1 DEF CancelTenantInvitationDeliveries
    <2>2. \A d \in Deliveries : outbox[d] \in Outbox!DeliveryRow
      BY RowTypes
    <2> QED
      BY <2>1, <2>2, CancelledType
  <1>3. \A d \in Deliveries : d = [inv |-> i, generation |-> g] <=> d.inv = i /\ d.generation = g
    BY DEF Deliveries
  <1>4. outbox' = [rows EXCEPT ![[inv |-> i, generation |-> g]] = Outbox!NewDelivery]
    BY <1>1 DEF CreateTenantInvitationDelivery
  <1>5. PICK key : key = [inv |-> i, generation |-> g]
    OBVIOUS
  <1>6. \A d \in Deliveries : outbox'[d] = IF d = key THEN Outbox!NewDelivery ELSE rows[d]
    BY <1>2, <1>4, <1>5
  <1>7. outbox' \in [Deliveries -> Outbox!DeliveryRow]
    BY <1>2, <1>4, <1>5, NewDeliveryType
  <1>8. \A d \in Deliveries : d = key <=> d.inv = i /\ d.generation = g
    BY <1>3, <1>5
  <1> QED
    BY <1>2, <1>6, <1>7, <1>8 DEF TypeOK, Outbox!OutboxTypeOK

-----------------------------------------------------------------------------
(***************************************************************************)
(* Roles, and people who do not join.                                      *)
(***************************************************************************)
\* The reference rows follow the Invitations; what a member gets exists.
LEMMA MovesRoles ==
  ASSUME TypeOK, TypeOK', Dated, InvitationGrantsExistingRoles, NEW over, NEW fresh, Moves(over, fresh),
         roles' = roles, \A x \in bound' : x \in bound \/ x[2] \in roles
  PROVE  InvitationGrantsExistingRoles'
  <1>1. \A x \in Invites \X CustomRoles :
          x \in refs' <=> inv'[x[1]].status = "pending" /\ x[2] \in inv'[x[1]].roles
    <2> SUFFICES ASSUME NEW i \in Invites, NEW r \in CustomRoles
                 PROVE  <<i, r>> \in refs' <=> inv'[i].status = "pending" /\ r \in inv'[i].roles
      OBVIOUS
    <2>1. <<i, r>> \in refs <=> inv[i].status = "pending" /\ r \in inv[i].roles
      BY DEF InvitationGrantsExistingRoles
    <2>2. <<i, r>> \in refs' <=> \/ <<i, r>> \in refs /\ i \notin over
                                 \/ i \in fresh /\ r \in inv'[i].roles
      BY DEF Moves
    <2>3. CASE i \in fresh
      <3>1. inv'[i].status = "pending" /\ (i \in over \/ inv[i].status = "absent")
        BY <2>3 DEF Moves
      <3> QED
        BY <2>1, <2>2, <2>3, <3>1
    <2>4. CASE i \in over \ fresh
      <3>1. inv'[i].status # "pending"
        BY <2>4 DEF Moves, Ended
      <3> QED
        BY <2>2, <2>4, <3>1
    <2>5. CASE i \notin over /\ i \notin fresh
      <3>1. inv'[i].status = inv[i].status /\ inv'[i].roles = inv[i].roles
        BY <2>5 DEF Moves
      <3> QED
        BY <2>1, <2>2, <2>5, <3>1
    <2> QED
      BY <2>3, <2>4, <2>5
  <1>2. refs' \subseteq Invites \X CustomRoles
    BY DEF TypeOK
  <1>3. refs' = {x \in Invites \X CustomRoles : inv'[x[1]].status = "pending" /\ x[2] \in inv'[x[1]].roles}
    BY <1>1, <1>2
  <1>4. \A x \in refs' : x[2] \in roles
    <2> SUFFICES ASSUME NEW x \in refs' PROVE x[2] \in roles
      OBVIOUS
    <2>1. x \in refs \/ (x[1] \in fresh /\ x[2] \in inv'[x[1]].roles)
      BY DEF Moves
    <2>2. CASE x \in refs
      BY <2>2 DEF InvitationGrantsExistingRoles
    <2>3. CASE x[1] \in fresh /\ x[2] \in inv'[x[1]].roles
      BY <2>3 DEF Moves
    <2> QED
      BY <2>1, <2>2, <2>3
  <1>5. \A x \in bound' : x[2] \in roles
    BY DEF InvitationGrantsExistingRoles
  <1> QED
    BY <1>3, <1>4, <1>5 DEF InvitationGrantsExistingRoles

\* Nobody joins or is removed; an Invitation keeps its addressee and its date.
SamePeople ==
  /\ UNCHANGED <<member, joined>>
  /\ \A j \in Invites :
       /\ inv'[j].status = "accepted" <=> inv[j].status = "accepted"
       /\ inv[j].status # "absent" =>
            /\ inv'[j].email = inv[j].email /\ inv'[j].created = inv[j].created
            /\ inv'[j].status # "absent" /\ inv'[j].generation # 0
       /\ inv[j].status = "absent" =>
            \/ inv'[j] = inv[j]
            \/ /\ inv'[j].status # "absent" /\ inv'[j].generation # 0
               /\ inv'[j].email \in People /\ inv'[j].created = member[inv'[j].email].removals

LEMMA SamePeopleKept ==
  ASSUME TypeOK, Dated, Counted, \A p \in People : Honoured(p), SamePeople
  PROVE  Dated' /\ Counted' /\ \A p \in People : Honoured(p)'
  <1>1. member' = member /\ joined' = joined
    BY DEF SamePeople
  <1>2. \A p \in People : member[p].removals \in Nat
    BY InvitationsAssumption DEF TypeOK, MembershipRow
  <1>3. Dated'
    <2> SUFFICES ASSUME NEW i \in Invites
                 PROVE  /\ inv'[i].status = "absent" <=> inv'[i].generation = 0
                        /\ inv'[i].status # "absent" =>
                             inv'[i].email \in People /\ inv'[i].created <= member[inv'[i].email].removals
      BY <1>1 DEF Dated
    <2>1. CASE inv[i].status # "absent"
      BY <2>1 DEF Dated, SamePeople
    <2>2. CASE inv[i].status = "absent"
      BY <1>2, <2>2 DEF Dated, SamePeople
    <2> QED
      BY <2>1, <2>2
  <1>4. Counted'
    BY <1>1 DEF Counted
  <1>5. ASSUME NEW p \in People PROVE Honoured(p)'
    <2>1. AcceptedBy(p)' = AcceptedBy(p)
      BY DEF AcceptedBy, SamePeople
    <2>2. \A i \in AcceptedBy(p) : inv'[i].created = inv[i].created
      BY DEF AcceptedBy, SamePeople
    <2>3. Honoured(p)
      OBVIOUS
    <2> QED
      BY <1>1, <2>1, <2>2, <2>3 DEF Honoured
  <1> QED
    BY <1>3, <1>4, <1>5

-----------------------------------------------------------------------------
(***************************************************************************)
(* The commands of administrators are such moves.                          *)
(***************************************************************************)
\* What a command is shown to do.
Administered ==
  /\ TypeOK' /\ SamePeople /\ UNCHANGED <<roles, bound, cred, proof>>
  /\ \E over, fresh : Moves(over, fresh)

LEMMA IssuedReferences ==
  ASSUME TypeOK, NEW old \in Invites, NEW i \in Invites, NEW rs \in SUBSET CustomRoles,
         refs' = AddTenantInvitationRole(ClearTenantInvitationRoles(refs, old), i, rs), inv'[i].roles = rs
  PROVE  /\ refs' \subseteq Invites \X CustomRoles
         /\ refs' = {x \in refs : x[1] \notin {old}}
              \cup {x \in Invites \X CustomRoles : x[1] \in {i} /\ x[2] \in inv'[x[1]].roles}
  <1>1. refs' = {x \in refs : x[1] # old} \cup ({i} \X rs)
    BY DEF AddTenantInvitationRole, ClearTenantInvitationRoles
  <1>2. {i} \X rs = {x \in Invites \X CustomRoles : x[1] \in {i} /\ x[2] \in inv'[x[1]].roles}
    OBVIOUS
  <1>3. {x \in refs : x[1] # old} = {x \in refs : x[1] \notin {old}}
    OBVIOUS
  <1>4. refs \subseteq Invites \X CustomRoles
    BY DEF TypeOK
  <1> QED
    BY <1>1, <1>2, <1>3, <1>4

LEMMA CreateAdministers ==
  ASSUME TypeOK, Dated, NEW i \in Invites, NEW p \in People, NEW rs \in SUBSET CustomRoles,
         CreateInvitation(i, p, rs)
  PROVE  Administered
  <1>1. /\ inv[i].status = "absent" /\ rs \subseteq roles /\ UNCHANGED roles
        /\ UNCHANGED <<member, bound, joined, open, sessions, cred, proof, receipts, worker, submitted>>
    BY DEF CreateInvitation, mutate, accountVars, RolesExist
  <1>2. PICK row : row = CreateTenantInvitation(p, rs)
    OBVIOUS
  <1>3. /\ row \in InvitationRow /\ row.status = "pending" /\ row.email = p /\ row.roles = rs
        /\ row.generation = 1 /\ row.created = member[p].removals
    BY <1>2, NewRow
  <1>4. inv[i].generation = 0 /\ inv \in [Invites -> InvitationRow]
    BY <1>1 DEF Dated, TypeOK
  <1>5. PICK old \in Invites :
          /\ \A j \in Invites \ {i, old} : inv'[j] = inv[j]
          /\ inv' \in [Invites -> InvitationRow] /\ inv'[i] = row
          /\ old # i => /\ inv[old].status = "pending" /\ inv'[old].status = "expired"
                        /\ inv'[old].email = inv[old].email /\ inv'[old].roles = inv[old].roles
                        /\ inv'[old].generation = inv[old].generation
                        /\ inv'[old].created = inv[old].created
          /\ refs' = AddTenantInvitationRole(ClearTenantInvitationRoles(refs, old), i, rs)
          /\ outbox' = CreateTenantInvitationDelivery(CancelTenantInvitationDeliveries(outbox, old), i, 1)
    <2>1. CASE FindPendingTenantInvitation(p) = {} /\ inv' = [inv EXCEPT ![i] = CreateTenantInvitation(p, rs)]
                 /\ IssueReferences(i, rs, 1)
      <3>1. inv' = [inv EXCEPT ![i] = row]
        BY <1>2, <2>1
      <3>2. /\ \A j \in Invites \ {i} : inv'[j] = inv[j]
            /\ inv' \in [Invites -> InvitationRow] /\ inv'[i] = row
        BY <1>3, <1>4, <3>1
      <3> QED
        BY <2>1, <3>2 DEF IssueReferences
    <2>2. CASE ReplaceExpired(i, p, rs)
      <3>1. PICK old \in FindPendingTenantInvitation(p) :
              /\ inv' = [inv EXCEPT ![old] = TransitionTenantInvitationTerminal(@, "expired"),
                                    ![i] = CreateTenantInvitation(p, rs)]
              /\ refs' = AddTenantInvitationRole(ClearTenantInvitationRoles(refs, old), i, rs)
              /\ outbox' = CreateTenantInvitationDelivery(CancelTenantInvitationDeliveries(outbox, old), i, 1)
        BY <2>2 DEF ReplaceExpired
      <3>2. old \in Invites /\ inv[old].status = "pending" /\ old # i
        BY <1>1, <3>1 DEF FindPendingTenantInvitation
      <3>3. PICK end : end = [inv[old] EXCEPT !.status = "expired"]
        OBVIOUS
      <3>4. /\ end \in InvitationRow /\ end.status = "expired" /\ end.email = inv[old].email
            /\ end.roles = inv[old].roles /\ end.generation = inv[old].generation
            /\ end.created = inv[old].created
        <4>1. inv[old] \in InvitationRow /\ "expired" \in Ended
          BY <1>4, <3>2 DEF Ended
        <4> QED
          BY <3>3, <4>1, EndedRow
      <3>5. inv' = [inv EXCEPT ![old] = end, ![i] = row]
        BY <1>2, <1>4, <3>1, <3>2, <3>3 DEF TransitionTenantInvitationTerminal
      <3>6. /\ \A j \in Invites \ {i, old} : inv'[j] = inv[j]
            /\ inv' \in [Invites -> InvitationRow] /\ inv'[i] = row /\ inv'[old] = end
        BY <1>3, <1>4, <3>2, <3>4, <3>5
      <3> QED
        BY <3>1, <3>2, <3>4, <3>6
    <2> QED
      BY <2>1, <2>2 DEF CreateInvitation
  <1>6. /\ refs' \subseteq Invites \X CustomRoles
        /\ refs' = {x \in refs : x[1] \notin {old}}
             \cup {x \in Invites \X CustomRoles : x[1] \in {i} /\ x[2] \in inv'[x[1]].roles}
    BY <1>3, <1>5, IssuedReferences
  <1>7. /\ (Outbox!OutboxTypeOK)'
        /\ \A d \in Deliveries :
             outbox'[d] = IF d.inv = i /\ d.generation = 1 THEN Outbox!NewDelivery
                          ELSE IF d.inv = old THEN Outbox!CancelDelivery(outbox[d]) ELSE outbox[d]
    BY <1>1, <1>5, IssuedRows
  <1>8. TypeOK'
    BY <1>1, <1>5, <1>6, <1>7 DEF TypeOK
  <1>9. SamePeople
    <2> SUFFICES ASSUME NEW j \in Invites
                 PROVE  /\ inv'[j].status = "accepted" <=> inv[j].status = "accepted"
                        /\ inv[j].status # "absent" =>
                             /\ inv'[j].email = inv[j].email /\ inv'[j].created = inv[j].created
                             /\ inv'[j].status # "absent" /\ inv'[j].generation # 0
                        /\ inv[j].status = "absent" =>
                             \/ inv'[j] = inv[j]
                             \/ /\ inv'[j].status # "absent" /\ inv'[j].generation # 0
                                /\ inv'[j].email \in People
                                /\ inv'[j].created = member[inv'[j].email].removals
      BY <1>1 DEF SamePeople
    <2>1. CASE j = i
      BY <1>1, <1>3, <1>5, <2>1
    <2>2. CASE j = old /\ j # i
      BY <1>5, <2>2 DEF Dated
    <2>3. CASE j # old /\ j # i
      BY <1>5, <2>3 DEF Dated
    <2> QED
      BY <2>1, <2>2, <2>3
  <1>10. Moves({old}, {i})
    <2>1. \A d \in Deliveries : IsNew(d, {i}) <=> d.inv = i /\ d.generation = 1
      BY <1>4 DEF IsNew
    <2>2. \A d \in Deliveries :
            outbox'[d] = IF IsNew(d, {i}) THEN Outbox!NewDelivery
                         ELSE IF d.inv \in {old} THEN Outbox!CancelDelivery(outbox[d]) ELSE outbox[d]
      BY <1>7, <2>1
    <2>3. /\ inv'[i].status = "pending" /\ inv'[i].generation = inv[i].generation + 1
          /\ inv'[i].roles \subseteq roles /\ inv[i].status = "absent"
      BY <1>1, <1>3, <1>4, <1>5
    <2>4. \A j \in {old} \ {i} : /\ inv'[j].status \in Ended /\ inv'[j].generation = inv[j].generation
                                 /\ inv'[j].roles = inv[j].roles
      BY <1>5 DEF Ended
    <2>5. \A j \in Invites \ ({old} \cup {i}) :
            /\ inv'[j].status = inv[j].status /\ inv'[j].generation = inv[j].generation
            /\ inv'[j].roles = inv[j].roles
      BY <1>5
    <2> QED
      BY <1>1, <1>6, <2>2, <2>3, <2>4, <2>5 DEF Moves
  <1> QED
    BY <1>1, <1>8, <1>9, <1>10 DEF Administered

LEMMA ResendAdministers ==
  ASSUME TypeOK, Dated, NEW i \in Invites, ResendInvitation(i)
  PROVE  Administered
  <1>1. /\ inv[i].status \in {"pending", "expired"} /\ inv[i].roles \subseteq roles /\ UNCHANGED roles
        /\ UNCHANGED <<member, bound, joined, open, sessions, cred, proof, receipts, worker, submitted>>
    BY DEF ResendInvitation, mutate, accountVars, RolesExist
  <1>2. PICK row : row = ResendTenantInvitation(inv[i])
    OBVIOUS
  <1>3. inv \in [Invites -> InvitationRow] /\ inv[i].generation \in Nat /\ inv[i].roles \in SUBSET CustomRoles
    BY RowTypes DEF TypeOK, InvitationRow
  <1>4. /\ row \in InvitationRow /\ row.status = "pending" /\ row.email = inv[i].email
        /\ row.roles = inv[i].roles /\ row.generation = inv[i].generation + 1 /\ row.created = inv[i].created
    <2>1. inv[i] \in InvitationRow /\ inv[i].generation < MaxGeneration
      BY <1>3 DEF ResendInvitation
    <2> QED
      BY <1>2, <2>1, ResentRow
  <1>5. inv' = [inv EXCEPT ![i] = row]
    BY <1>2, <1>3 DEF ResendInvitation
  <1>6. /\ inv' \in [Invites -> InvitationRow] /\ inv'[i] = row
        /\ \A j \in Invites \ {i} : inv'[j] = inv[j]
    BY <1>3, <1>4, <1>5
  <1>7. /\ refs' = AddTenantInvitationRole(ClearTenantInvitationRoles(refs, i), i, inv[i].roles)
        /\ outbox' = CreateTenantInvitationDelivery(
                       CancelTenantInvitationDeliveries(outbox, i), i, inv[i].generation + 1)
    BY DEF ResendInvitation, IssueReferences
  <1>8. /\ refs' \subseteq Invites \X CustomRoles
        /\ refs' = {x \in refs : x[1] \notin {i}}
             \cup {x \in Invites \X CustomRoles : x[1] \in {i} /\ x[2] \in inv'[x[1]].roles}
    <2>1. inv[i].roles \in SUBSET CustomRoles /\ inv'[i].roles = inv[i].roles
      BY <1>3, <1>4, <1>6
    <2> QED
      BY <1>7, <2>1, IssuedReferences
  <1>9. /\ (Outbox!OutboxTypeOK)'
        /\ \A d \in Deliveries :
             outbox'[d] = IF d.inv = i /\ d.generation = inv[i].generation + 1 THEN Outbox!NewDelivery
                          ELSE IF d.inv = i THEN Outbox!CancelDelivery(outbox[d]) ELSE outbox[d]
    BY <1>1, <1>7, IssuedRows
  <1>10. TypeOK'
    BY <1>1, <1>6, <1>8, <1>9 DEF TypeOK
  <1>11. SamePeople
    <2> SUFFICES ASSUME NEW j \in Invites
                 PROVE  /\ inv'[j].status = "accepted" <=> inv[j].status = "accepted"
                        /\ inv[j].status # "absent" =>
                             /\ inv'[j].email = inv[j].email /\ inv'[j].created = inv[j].created
                             /\ inv'[j].status # "absent" /\ inv'[j].generation # 0
                        /\ inv[j].status = "absent" => inv'[j] = inv[j]
      BY <1>1 DEF SamePeople
    <2>1. CASE j = i
      BY <1>1, <1>3, <1>4, <1>6, <2>1
    <2>2. CASE j # i
      BY <1>6, <2>2 DEF Dated
    <2> QED
      BY <2>1, <2>2
  <1>12. Moves({i}, {i})
    <2>1. \A d \in Deliveries : IsNew(d, {i}) <=> d.inv = i /\ d.generation = inv[i].generation + 1
      BY DEF IsNew
    <2>2. \A d \in Deliveries :
            outbox'[d] = IF IsNew(d, {i}) THEN Outbox!NewDelivery
                         ELSE IF d.inv \in {i} THEN Outbox!CancelDelivery(outbox[d]) ELSE outbox[d]
      BY <1>9, <2>1
    <2>3. /\ inv'[i].status = "pending" /\ inv'[i].generation = inv[i].generation + 1
          /\ inv'[i].roles \subseteq roles
      BY <1>1, <1>4, <1>6
    <2>4. \A j \in Invites \ ({i} \cup {i}) :
            /\ inv'[j].status = inv[j].status /\ inv'[j].generation = inv[j].generation
            /\ inv'[j].roles = inv[j].roles
      BY <1>6
    <2> QED
      BY <1>1, <1>8, <2>2, <2>3, <2>4 DEF Moves
  <1> QED
    BY <1>1, <1>10, <1>11, <1>12 DEF Administered

\* Some open Invitations end together.
LEMMA EndingMoves ==
  ASSUME TypeOK, NEW over \in SUBSET Invites, NEW status \in Ended,
         inv' = [i \in Invites |-> IF i \in over THEN [inv[i] EXCEPT !.status = status] ELSE inv[i]],
         refs' = {x \in refs : x[1] \notin over},
         outbox' = [d \in Deliveries |->
                      IF d.inv \in over THEN Outbox!CancelDelivery(outbox[d]) ELSE outbox[d]],
         UNCHANGED <<worker, submitted>>
  PROVE  /\ inv' \in [Invites -> InvitationRow] /\ refs' \subseteq Invites \X CustomRoles
         /\ (Outbox!OutboxTypeOK)' /\ Moves(over, {})
         /\ \A j \in Invites : /\ j \in over => inv'[j].status = status
                               /\ j \notin over => inv'[j] = inv[j]
                               /\ inv'[j].email = inv[j].email /\ inv'[j].created = inv[j].created
                               /\ inv'[j].generation = inv[j].generation
  <1>1. \A j \in Invites : /\ j \in over => inv'[j] = [inv[j] EXCEPT !.status = status]
                           /\ j \notin over => inv'[j] = inv[j]
    OBVIOUS
  <1>2. ASSUME NEW j \in Invites
        PROVE  /\ inv'[j] \in InvitationRow /\ inv'[j].email = inv[j].email /\ inv'[j].roles = inv[j].roles
               /\ inv'[j].generation = inv[j].generation /\ inv'[j].created = inv[j].created
               /\ j \in over => inv'[j].status = status
               /\ j \notin over => inv'[j] = inv[j]
    <2>1. inv[j] \in InvitationRow
      BY RowTypes
    <2>2. CASE j \in over
      <3>1. inv'[j] = [inv[j] EXCEPT !.status = status]
        BY <1>1, <2>2
      <3> QED
        BY <2>1, <2>2, <3>1, EndedRow
    <2>3. CASE j \notin over
      BY <1>1, <2>1, <2>3
    <2> QED
      BY <2>2, <2>3
  <1>3. inv' \in [Invites -> InvitationRow]
    BY <1>2
  <1>4. refs' \subseteq Invites \X CustomRoles
    BY DEF TypeOK
  <1>5. /\ (Outbox!OutboxTypeOK)'
        /\ \A d \in Deliveries :
             outbox'[d] = IF d.inv \in over THEN Outbox!CancelDelivery(outbox[d]) ELSE outbox[d]
    BY ClearedRows
  <1>6. Moves(over, {})
    <2>1. \A d \in Deliveries :
            outbox'[d] = IF IsNew(d, {}) THEN Outbox!NewDelivery
                         ELSE IF d.inv \in over THEN Outbox!CancelDelivery(outbox[d]) ELSE outbox[d]
      BY <1>5 DEF IsNew
    <2>2. refs' = {x \in refs : x[1] \notin over}
                    \cup {x \in Invites \X CustomRoles : x[1] \in {} /\ x[2] \in inv'[x[1]].roles}
      OBVIOUS
    <2>3. \A j \in over \ {} : /\ inv'[j].status \in Ended /\ inv'[j].generation = inv[j].generation
                               /\ inv'[j].roles = inv[j].roles
      BY <1>2
    <2>4. \A j \in Invites \ (over \cup {}) :
            /\ inv'[j].status = inv[j].status /\ inv'[j].generation = inv[j].generation
            /\ inv'[j].roles = inv[j].roles
      BY <1>2
    <2> QED
      BY <2>1, <2>2, <2>3, <2>4 DEF Moves
  <1> QED
    BY <1>2, <1>3, <1>4, <1>5, <1>6

LEMMA EndingAdministers ==
  ASSUME TypeOK, Dated, NEW over \in SUBSET Invites, NEW status \in {"cancelled", "expired"},
         \A i \in over : inv[i].status = "pending",
         inv' = [i \in Invites |-> IF i \in over THEN [inv[i] EXCEPT !.status = status] ELSE inv[i]],
         refs' = {x \in refs : x[1] \notin over},
         outbox' = [d \in Deliveries |->
                      IF d.inv \in over THEN Outbox!CancelDelivery(outbox[d]) ELSE outbox[d]],
         UNCHANGED roles, mutate
  PROVE  Administered
  <1>1. UNCHANGED <<member, bound, joined, open, sessions, cred, proof, receipts, worker, submitted>>
    BY DEF mutate, accountVars
  <1>2. /\ inv' \in [Invites -> InvitationRow] /\ refs' \subseteq Invites \X CustomRoles
        /\ (Outbox!OutboxTypeOK)' /\ Moves(over, {})
        /\ \A j \in Invites : /\ j \in over => inv'[j].status = status
                              /\ j \notin over => inv'[j] = inv[j]
                              /\ inv'[j].email = inv[j].email /\ inv'[j].created = inv[j].created
                              /\ inv'[j].generation = inv[j].generation
    <2>1. status \in Ended /\ UNCHANGED <<worker, submitted>>
      BY <1>1 DEF Ended
    <2> QED
      BY <2>1, EndingMoves
  <1>3. TypeOK'
    BY <1>1, <1>2 DEF TypeOK
  <1>4. SamePeople
    <2> SUFFICES ASSUME NEW j \in Invites
                 PROVE  /\ inv'[j].status = "accepted" <=> inv[j].status = "accepted"
                        /\ inv[j].status # "absent" =>
                             /\ inv'[j].email = inv[j].email /\ inv'[j].created = inv[j].created
                             /\ inv'[j].status # "absent" /\ inv'[j].generation # 0
                        /\ inv[j].status = "absent" => inv'[j] = inv[j]
      BY <1>1 DEF SamePeople
    <2>1. CASE j \in over
      BY <1>2, <2>1 DEF Dated
    <2>2. CASE j \notin over
      BY <1>2, <2>2 DEF Dated
    <2> QED
      BY <2>1, <2>2
  <1> QED
    BY <1>1, <1>2, <1>3, <1>4 DEF Administered

LEMMA CancelAdministers ==
  ASSUME TypeOK, Dated, NEW i \in Invites, CancelInvitation(i)
  PROVE  Administered
  <1>1. {i} \in SUBSET Invites /\ \A j \in {i} : inv[j].status = "pending"
    BY DEF CancelInvitation, EndInvitation
  <1>2. inv' = [j \in Invites |-> IF j \in {i} THEN [inv[j] EXCEPT !.status = "cancelled"] ELSE inv[j]]
    <2>1. inv' = [inv EXCEPT ![i] = [inv[i] EXCEPT !.status = "cancelled"]] /\ inv \in [Invites -> InvitationRow]
      BY DEF CancelInvitation, EndInvitation, TransitionTenantInvitationTerminal, TypeOK
    <2> QED
      BY <2>1
  <1>3. refs' = {x \in refs : x[1] \notin {i}}
    BY DEF CancelInvitation, EndInvitation, clearInvitationReferences, ClearTenantInvitationRoles
  <1>4. outbox' = [d \in Deliveries |->
                     IF d.inv \in {i} THEN Outbox!CancelDelivery(outbox[d]) ELSE outbox[d]]
    <2>1. outbox' = [d \in Deliveries |->
                     IF d.inv = i THEN Outbox!CancelDelivery(outbox[d]) ELSE outbox[d]]
      BY DEF CancelInvitation, EndInvitation, clearInvitationReferences, CancelTenantInvitationDeliveries
    <2> QED
      BY <2>1
  <1>5. UNCHANGED roles /\ mutate
    BY DEF CancelInvitation
  <1> QED
    BY <1>1, <1>2, <1>3, <1>4, <1>5, EndingAdministers

LEMMA ExpireAdministers ==
  ASSUME TypeOK, Dated, NEW some \in SUBSET Invites, expire(some)
  PROVE  Administered
  <1>1. PICK over : over = {i \in some : inv[i].status = "pending" /\ inv[i].elapsed}
    OBVIOUS
  <1>2. over \in SUBSET Invites /\ \A j \in over : inv[j].status = "pending"
    BY <1>1
  <1>3. /\ inv' = [j \in Invites |-> IF j \in over THEN [inv[j] EXCEPT !.status = "expired"] ELSE inv[j]]
        /\ refs' = {x \in refs : x[1] \notin over}
        /\ outbox' = [d \in Deliveries |->
                        IF d.inv \in over THEN Outbox!CancelDelivery(outbox[d]) ELSE outbox[d]]
        /\ UNCHANGED roles /\ mutate
    BY <1>1 DEF expire, TransitionTenantInvitationTerminal
  <1> QED
    BY <1>2, <1>3, EndingAdministers

LEMMA ElapsesAdministers ==
  ASSUME TypeOK, Dated, NEW i \in Invites, InvitationElapses(i)
  PROVE  Administered
  <1>1. UNCHANGED <<refs, roles, member, bound, joined, open, sessions, cred, proof, receipts,
                    outbox, worker, submitted>>
    BY DEF InvitationElapses, accountVars, outboxVars
  <1>2. inv \in [Invites -> InvitationRow] /\ inv[i] \in InvitationRow
    BY DEF TypeOK
  <1>3. PICK row : row = [inv[i] EXCEPT !.elapsed = TRUE]
    OBVIOUS
  <1>4. /\ row \in InvitationRow /\ row.status = inv[i].status /\ row.email = inv[i].email
        /\ row.roles = inv[i].roles /\ row.generation = inv[i].generation /\ row.created = inv[i].created
    <2>1. row = [status |-> inv[i].status, email |-> inv[i].email, roles |-> inv[i].roles,
                 generation |-> inv[i].generation, elapsed |-> TRUE, created |-> inv[i].created]
      BY <1>2, <1>3 DEF InvitationRow
    <2>2. /\ inv[i].status \in {"absent", "pending"} \cup Ended /\ inv[i].email \in People \cup {None}
          /\ inv[i].roles \in SUBSET CustomRoles /\ inv[i].generation \in 0..MaxGeneration
          /\ inv[i].created \in 0..MaxRemovals
      BY <1>2 DEF InvitationRow
    <2> QED
      BY <2>1, <2>2 DEF InvitationRow
  <1>5. inv' = [inv EXCEPT ![i] = row]
    BY <1>2, <1>3 DEF InvitationElapses
  <1>6. /\ inv' \in [Invites -> InvitationRow]
        /\ \A j \in Invites :
             /\ inv'[j].status = inv[j].status /\ inv'[j].email = inv[j].email
             /\ inv'[j].roles = inv[j].roles /\ inv'[j].generation = inv[j].generation
             /\ inv'[j].created = inv[j].created /\ (inv[j].status = "absent" => inv'[j] = inv[j])
    <2>1. inv[i].status = "pending"
      BY DEF InvitationElapses
    <2> QED
      BY <1>2, <1>4, <1>5, <2>1
  <1>7. TypeOK'
    BY <1>1, <1>6 DEF TypeOK, Outbox!OutboxTypeOK
  <1>8. SamePeople
    BY <1>1, <1>6 DEF SamePeople, Dated
  <1>9. Moves({}, {})
    BY <1>1, <1>6 DEF Moves, IsNew
  <1> QED
    BY <1>1, <1>7, <1>8, <1>9 DEF Administered

-----------------------------------------------------------------------------
(***************************************************************************)
(* Every step keeps the invariant and drops late results.                  *)
(***************************************************************************)
StaysSettled == \A d \in Deliveries : outbox[d].status \in Outbox!Settled => outbox'[d] = outbox[d]

CurrentProof ==
  \A p \in People :
    ( /\ proof[p] # NoProof /\ proof'[p] # proof[p]
      /\ joined'[p] # joined[p] \/ cred'[p].failures > cred[p].failures )
    => proof[p].hash = cred[p].hash /\ ~cred[p].locked

Kept == IInv' /\ StaysSettled /\ CurrentProof

LEMMA AdministeredKept ==
  ASSUME IInv, Administered
  PROVE  Kept
  <1>1. PICK over, fresh : Moves(over, fresh)
    BY DEF Administered
  <1>2. /\ TypeOK /\ TypeOK' /\ Dated /\ OutboxInv /\ InvitationGrantsExistingRoles
        /\ UNCHANGED <<roles, bound, cred, proof>> /\ SamePeople
    BY DEF IInv, PeopleInv, Administered
  <1>3. OutboxInv' /\ StaysSettled
    BY <1>1, <1>2, MovesOutbox DEF StaysSettled
  <1>4. InvitationGrantsExistingRoles'
    <2>1. roles' = roles /\ \A x \in bound' : x \in bound \/ x[2] \in roles
      BY <1>2
    <2> QED
      BY <1>1, <1>2, <2>1, MovesRoles
  <1>5. Dated' /\ Counted' /\ \A p \in People : Honoured(p)'
    <2>1. Counted /\ \A p \in People : Honoured(p)
      BY DEF IInv, PeopleInv
    <2> QED
      BY <1>2, <2>1, SamePeopleKept
  <1>6. Unlocked'
    BY <1>2 DEF IInv, PeopleInv, Unlocked
  <1>7. PeopleInv'
    BY <1>5, <1>6 DEF PeopleInv
  <1>8. CurrentProof
    BY <1>2 DEF CurrentProof
  <1> QED
    BY <1>2, <1>3, <1>4, <1>7, <1>8 DEF Kept, IInv

LEMMA OutboxUnchanged ==
  ASSUME OutboxInv, UNCHANGED <<inv, outbox, worker, submitted>>
  PROVE  OutboxInv'
  <1>1. Written' /\ OnlyCurrentDeliveryIsLive' /\ Reported' /\ Sealed'
    BY DEF OutboxInv, Written, OnlyCurrentDeliveryIsLive, Reported, Sealed, Phase
  <1>2. SubmissionsCounted'
    BY DEF OutboxInv, SubmissionsCounted, Holders, Phase
  <1> QED
    BY <1>1, <1>2 DEF OutboxInv

\* Nothing happens to Invitations, Memberships or messages.
LEMMA AccountsKept ==
  ASSUME IInv, UNCHANGED <<tenantVars, outboxVars>>, TypeOK', Unlocked'
  PROVE  IInv' /\ StaysSettled
  <1>1. UNCHANGED <<inv, refs, roles, member, bound, joined, outbox, worker, submitted>>
    BY DEF tenantVars, outboxVars
  <1>2. Dated' /\ Counted' /\ InvitationGrantsExistingRoles'
    BY <1>1 DEF IInv, PeopleInv, Dated, Counted, InvitationGrantsExistingRoles
  <1>3. \A p \in People : Honoured(p)'
    BY <1>1 DEF IInv, PeopleInv, Honoured, AcceptedBy
  <1>4. OutboxInv'
    BY <1>1, OutboxUnchanged DEF IInv
  <1>5. PeopleInv'
    BY <1>2, <1>3 DEF PeopleInv
  <1> QED
    BY <1>1, <1>2, <1>4, <1>5 DEF IInv, StaysSettled

LEMMA DeleteRoleKept ==
  ASSUME IInv, NEW r \in CustomRoles, DeleteRole(r)
  PROVE  Kept
  <1>1. UNCHANGED <<inv, refs, member, bound, joined, open, sessions, cred, proof, receipts,
                    outbox, worker, submitted>>
    BY DEF DeleteRole, mutate, accountVars
  <1>2. roles' = roles \ {r} /\ ~ CustomTenantRoleReferenced(r)
    BY DEF DeleteRole
  <1>3. TypeOK'
    BY <1>1, <1>2 DEF IInv, TypeOK, Outbox!OutboxTypeOK
  <1>4. InvitationGrantsExistingRoles'
    <2>1. \A x \in refs \cup bound : x[2] \in roles /\ x[2] # r
      <3>1. \A x \in refs : x[1] \in Invites /\ x = <<x[1], x[2]>>
        BY DEF IInv, TypeOK
      <3>2. \A x \in bound : x[1] \in People /\ x = <<x[1], x[2]>>
        BY DEF IInv, TypeOK
      <3>3. \A x \in refs \cup bound : x[2] \in roles
        BY DEF IInv, InvitationGrantsExistingRoles
      <3> QED
        BY <1>2, <3>1, <3>2, <3>3 DEF CustomTenantRoleReferenced
    <2>2. \A x \in refs' \cup bound' : x[2] \in roles'
      BY <1>1, <1>2, <2>1
    <2>3. refs' = {x \in Invites \X CustomRoles :
                     inv'[x[1]].status = "pending" /\ x[2] \in inv'[x[1]].roles}
      BY <1>1 DEF IInv, InvitationGrantsExistingRoles
    <2> QED
      BY <2>2, <2>3 DEF InvitationGrantsExistingRoles
  <1>5. PeopleInv'
    BY <1>1 DEF IInv, PeopleInv, Dated, Counted, Honoured, AcceptedBy, Unlocked
  <1>6. OutboxInv'
    BY <1>1, OutboxUnchanged DEF IInv
  <1> QED
    BY <1>1, <1>3, <1>4, <1>5, <1>6 DEF Kept, IInv, StaysSettled, CurrentProof

LEMMA RemoveMemberKept ==
  ASSUME IInv, NEW p \in People, RemoveMember(p)
  PROVE  Kept
  <1>1. UNCHANGED <<inv, refs, roles, joined, open, sessions, cred, proof, receipts,
                    outbox, worker, submitted>>
    BY DEF RemoveMember, accountVars, outboxVars
  <1>2. /\ member[p].status = "active" /\ member[p].removals < MaxRemovals
        /\ member[p].removals \in Nat /\ member \in [People -> MembershipRow]
        /\ bound' \subseteq bound
    BY InvitationsAssumption DEF RemoveMember, IInv, TypeOK, MembershipRow
  <1>3. PICK row : row = [status |-> "removed", removals |-> member[p].removals + 1]
    OBVIOUS
  <1>4. member' = [member EXCEPT ![p] = row] /\ row \in MembershipRow
    BY <1>2, <1>3, InvitationsAssumption DEF RemoveMember, MembershipRow
  <1>5. /\ member'[p] = row /\ member' \in [People -> MembershipRow]
        /\ \A q \in People \ {p} : member'[q] = member[q]
    BY <1>2, <1>4
  <1>6. TypeOK'
    BY <1>1, <1>2, <1>5 DEF IInv, TypeOK, Outbox!OutboxTypeOK
  <1>7. Dated'
    <2>1. \A q \in People : member[q].removals \in Nat /\ member[q].removals <= member'[q].removals
                              /\ member'[q].removals \in Nat
      <3>1. \A q \in People : member[q].removals \in Nat
        BY <1>2, InvitationsAssumption DEF MembershipRow
      <3> QED
        BY <1>2, <1>3, <1>5, <3>1
    <2>2. \A i \in Invites : inv[i].created \in Nat
      BY InvitationsAssumption DEF IInv, TypeOK, InvitationRow
    <2> QED
      BY <1>1, <2>1, <2>2 DEF IInv, PeopleInv, Dated
  <1>8. Counted'
    <2> SUFFICES ASSUME NEW q \in People
                 PROVE  /\ joined[q] = member'[q].removals + (IF member'[q].status = "active" THEN 1 ELSE 0)
                        /\ member'[q].status = "none" => member'[q].removals = 0
      BY <1>1 DEF Counted
    <2>1. CASE q = p
      BY <1>2, <1>3, <1>5, <2>1 DEF IInv, PeopleInv, Counted
    <2>2. CASE q # p
      BY <1>5, <2>2 DEF IInv, PeopleInv, Counted
    <2> QED
      BY <2>1, <2>2
  <1>9. (\A q \in People : Honoured(q)') /\ Unlocked'
    BY <1>1 DEF IInv, PeopleInv, Honoured, AcceptedBy, Unlocked
  <1>10. InvitationGrantsExistingRoles'
    BY <1>1, <1>2 DEF IInv, InvitationGrantsExistingRoles
  <1>11. OutboxInv'
    BY <1>1, OutboxUnchanged DEF IInv
  <1>12. PeopleInv'
    BY <1>7, <1>8, <1>9 DEF PeopleInv
  <1> QED
    BY <1>1, <1>6, <1>10, <1>11, <1>12 DEF Kept, IInv, StaysSettled, CurrentProof

-----------------------------------------------------------------------------
(***************************************************************************)
(* The recipient.                                                          *)
(***************************************************************************)
\* An acceptance opens the Membership row its Invitation is dated for.
LEMMA AcceptKept ==
  ASSUME IInv, NEW p \in People, NEW a \in Attempt, accept(p, a), WithinInvitationAcceptance,
         cred' \in [People -> Credential], proof' \in [People -> {NoProof} \cup Proof], Unlocked'
  PROVE  IInv' /\ StaysSettled /\ (\A q \in People \ {p} : joined'[q] = joined[q])
  <1> DEFINE i == a.id
  <1>1. /\ i \in Invites /\ inv[i].status = "pending" /\ inv[i].email = p
        /\ inv[i].roles \subseteq roles /\ ExistingMembershipAllows(p, i)
        /\ UNCHANGED <<roles, open, sessions, worker, submitted>>
    BY DEF Attempt, accept, TokenMatches, ValidateRoles, WithinInvitationAcceptance
  <1>2. /\ TypeOK /\ Dated /\ Counted /\ OutboxInv /\ InvitationGrantsExistingRoles
        /\ \A q \in People : Honoured(q)
    BY DEF IInv, PeopleInv
  <1>3. /\ member' = [member EXCEPT ![p].status = "active"]
        /\ bound' = bound \cup ({p} \X inv[i].roles)
        /\ joined' = [joined EXCEPT ![p] = joined[p] + 1]
    BY <1>2 DEF accept, CreateMembership, TypeOK
  <1> HIDE DEF i
  <1>4. /\ inv' = [j \in Invites |-> IF j \in {i} THEN [inv[j] EXCEPT !.status = "accepted"] ELSE inv[j]]
        /\ refs' = {x \in refs : x[1] \notin {i}}
        /\ outbox' = [d \in Deliveries |->
                        IF d.inv \in {i} THEN Outbox!CancelDelivery(outbox[d]) ELSE outbox[d]]
    <2>1. /\ inv' = [inv EXCEPT ![i] = AcceptTenantInvitation(inv[i])]
          /\ clearInvitationReferences(i) /\ inv \in [Invites -> InvitationRow]
      BY <1>2 DEF accept, ConsumeInvitation, TypeOK, i
    <2>2. outbox' = [d \in Deliveries |->
                       IF d.inv = i THEN Outbox!CancelDelivery(outbox[d]) ELSE outbox[d]]
      BY <2>1 DEF clearInvitationReferences, CancelTenantInvitationDeliveries
    <2>3. refs' = {x \in refs : x[1] # i}
      BY <2>1 DEF clearInvitationReferences, ClearTenantInvitationRoles
    <2>4. inv' = [j \in Invites |-> IF j \in {i} THEN [inv[j] EXCEPT !.status = "accepted"] ELSE inv[j]]
      BY <2>1 DEF AcceptTenantInvitation
    <2> QED
      BY <2>2, <2>3, <2>4
  <1>5. /\ inv' \in [Invites -> InvitationRow] /\ refs' \subseteq Invites \X CustomRoles
        /\ (Outbox!OutboxTypeOK)' /\ Moves({i}, {})
        /\ \A j \in Invites : /\ j \in {i} => inv'[j].status = "accepted"
                              /\ j \notin {i} => inv'[j] = inv[j]
                              /\ inv'[j].email = inv[j].email /\ inv'[j].created = inv[j].created
                              /\ inv'[j].generation = inv[j].generation
    <2>1. "accepted" \in Ended /\ {i} \in SUBSET Invites /\ UNCHANGED <<worker, submitted>>
      BY <1>1 DEF Ended
    <2> QED
      BY <1>2, <1>4, <2>1, EndingMoves
  <1>6. /\ member[p] \in MembershipRow /\ member[p].removals \in 0..MaxRemovals
        /\ joined[p] \in Nat /\ inv[i].created \in Nat /\ MaxRemovals \in Nat
    BY <1>1, <1>2, InvitationsAssumption DEF TypeOK, MembershipRow, InvitationRow
  <1>7. joined[p] = member[p].removals /\ inv[i].created = joined[p] /\ member[p].status # "active"
    BY <1>1, <1>2, <1>6 DEF Counted, Dated, ExistingMembershipAllows
  <1>8. PICK row : row = [status |-> "active", removals |-> member[p].removals]
    OBVIOUS
  <1>9. /\ member' \in [People -> MembershipRow] /\ member'[p] = row
        /\ \A q \in People \ {p} : member'[q] = member[q]
    <2>1. [member[p] EXCEPT !.status = "active"] = row /\ row \in MembershipRow
      BY <1>6, <1>8 DEF MembershipRow
    <2>2. member' = [member EXCEPT ![p] = row] /\ member \in [People -> MembershipRow]
      BY <1>2, <1>3, <2>1 DEF TypeOK
    <2> QED
      BY <2>1, <2>2
  <1>10. /\ joined' \in [People -> 0..(MaxRemovals + 1)] /\ joined'[p] = joined[p] + 1
         /\ \A q \in People \ {p} : joined'[q] = joined[q]
    <2>1. joined[p] + 1 \in 0..(MaxRemovals + 1) /\ joined \in [People -> 0..(MaxRemovals + 1)]
      BY <1>2, <1>6, <1>7 DEF TypeOK
    <2> QED
      BY <1>3, <2>1
  <1>11. receipts' \in [Keys -> Receipt]
    <2>1. receipts' = [receipts EXCEPT ![a.key] = [person |-> p, id |-> i]] /\ receipts \in [Keys -> Receipt]
      BY <1>2 DEF accept, SaveReceipt, TypeOK, i
    <2>2. [person |-> p, id |-> i] \in Receipt
      BY <1>1 DEF Receipt
    <2> QED
      BY <2>1, <2>2
  <1>12. TypeOK'
    <2>1. roles' \subseteq CustomRoles /\ open' \in BOOLEAN /\ sessions' \subseteq People
      BY <1>1, <1>2 DEF TypeOK
    <2>2. bound' \subseteq People \X CustomRoles
      BY <1>1, <1>2, <1>3 DEF TypeOK
    <2> QED
      BY <1>5, <1>9, <1>10, <1>11, <2>1, <2>2 DEF TypeOK
  <1>13. OutboxInv' /\ StaysSettled
    BY <1>2, <1>5, <1>12, MovesOutbox DEF StaysSettled
  <1>14. InvitationGrantsExistingRoles'
    <2>1. roles' = roles /\ \A x \in bound' : x \in bound \/ x[2] \in roles
      BY <1>1, <1>3
    <2> QED
      BY <1>2, <1>5, <1>12, <2>1, MovesRoles
  <1>15. Dated'
    <2>1. \A q \in People : member'[q].removals = member[q].removals
      BY <1>8, <1>9
    <2> QED
      BY <1>1, <1>2, <1>5, <2>1 DEF Dated
  <1>16. Counted'
    <2> SUFFICES ASSUME NEW q \in People
                 PROVE  /\ joined'[q] = member'[q].removals + (IF member'[q].status = "active" THEN 1 ELSE 0)
                        /\ member'[q].status = "none" => member'[q].removals = 0
      BY DEF Counted
    <2>1. CASE q = p
      BY <1>6, <1>7, <1>8, <1>9, <1>10, <2>1
    <2>2. CASE q # p
      BY <1>2, <1>9, <1>10, <2>2 DEF Counted
    <2> QED
      BY <2>1, <2>2
  <1>17. ASSUME NEW q \in People PROVE Honoured(q)'
    <2>1. CASE q = p
      <3>1. AcceptedBy(p)' = AcceptedBy(p) \cup {i} /\ i \notin AcceptedBy(p)
        BY <1>1, <1>5 DEF AcceptedBy
      <3>2. Honoured(p)
        BY <1>2
      <3>3. /\ IsFiniteSet(AcceptedBy(p) \cup {i})
            /\ Cardinality(AcceptedBy(p) \cup {i}) = Cardinality(AcceptedBy(p)) + 1
        BY <3>1, <3>2, FS_AddElement DEF Honoured
      <3>4. \A j \in AcceptedBy(p) \cup {i} : inv'[j].created = inv[j].created /\ inv[j].created \in Nat
        BY <1>1, <1>2, <1>5, InvitationsAssumption DEF AcceptedBy, TypeOK, InvitationRow
      <3>5. \A j \in AcceptedBy(p) : inv[j].created < joined[p]
        BY <3>2 DEF Honoured
      <3>6. \A j \in AcceptedBy(p) \cup {i} : inv'[j].created < joined'[p]
        BY <1>6, <1>7, <1>10, <3>4, <3>5
      <3>7. \A j, k \in AcceptedBy(p) \cup {i} : inv'[j].created = inv'[k].created => j = k
        <4> SUFFICES ASSUME NEW j \in AcceptedBy(p) \cup {i}, NEW k \in AcceptedBy(p) \cup {i},
                            inv[j].created = inv[k].created
                     PROVE  j = k
          BY <3>4
        <4>1. CASE j \in AcceptedBy(p) /\ k \in AcceptedBy(p)
          BY <3>2, <4>1 DEF Honoured
        <4>2. CASE j = i /\ k \in AcceptedBy(p)
          BY <1>6, <1>7, <3>4, <3>5, <4>2
        <4>3. CASE k = i /\ j \in AcceptedBy(p)
          BY <1>6, <1>7, <3>4, <3>5, <4>3
        <4> QED
          BY <4>1, <4>2, <4>3
      <3>8. joined'[p] = Cardinality(AcceptedBy(p) \cup {i})
        BY <1>10, <3>2, <3>3 DEF Honoured
      <3> QED
        BY <2>1, <3>1, <3>3, <3>6, <3>7, <3>8 DEF Honoured
    <2>2. CASE q # p
      <3>1. AcceptedBy(q)' = AcceptedBy(q)
        BY <1>1, <1>5, <2>2 DEF AcceptedBy
      <3>2. \A j \in AcceptedBy(q) : inv'[j].created = inv[j].created
        BY <1>5 DEF AcceptedBy
      <3>3. joined'[q] = joined[q] /\ Honoured(q)
        BY <1>2, <1>10, <2>2
      <3> QED
        BY <3>1, <3>2, <3>3 DEF Honoured
    <2> QED
      BY <2>1, <2>2
  <1>18. PeopleInv'
    BY <1>15, <1>16, <1>17 DEF PeopleInv
  <1> QED
    BY <1>10, <1>12, <1>13, <1>14, <1>18 DEF IInv

\* The parts of a credential and of a proof in flight.
LEMMA AccountTypes ==
  ASSUME TypeOK, NEW p \in People
  PROVE  /\ cred[p] \in Credential /\ cred[p].hash \in 0..MaxHash /\ cred[p].failures \in 0..MaxFailures
         /\ cred[p].locked \in BOOLEAN
         /\ proof[p].phase = "verified" =>
              /\ proof[p].hash \in 1..MaxHash /\ proof[p].attempt \in Attempt /\ proof[p] # NoProof
         /\ proof[p].phase = "denied" => proof[p].hash \in 0..MaxHash /\ proof[p] # NoProof
         /\ MaxFailures \in Nat /\ MaxHash \in Nat
  <1>1. cred[p] \in Credential /\ proof[p] \in {NoProof} \cup Proof
    BY DEF TypeOK
  <1>2. NoProof.phase = "none"
    BY DEF NoProof
  <1> QED
    BY <1>1, <1>2, InvitationsAssumption DEF Credential, Proof

LEMMA AcceptBySessionKept ==
  ASSUME IInv, NEW p \in People, NEW a \in Attempt, AcceptBySession(p, a)
  PROVE  Kept
  <1>1. accept(p, a) /\ WithinInvitationAcceptance /\ UNCHANGED <<cred, proof>>
    BY DEF AcceptBySession
  <1>2. /\ cred' \in [People -> Credential] /\ proof' \in [People -> {NoProof} \cup Proof] /\ Unlocked'
    BY <1>1 DEF IInv, TypeOK, PeopleInv, Unlocked
  <1>3. IInv' /\ StaysSettled
    BY <1>1, <1>2, AcceptKept
  <1>4. CurrentProof
    BY <1>1 DEF CurrentProof
  <1> QED
    BY <1>3, <1>4 DEF Kept

LEMMA ResetRow ==
  ASSUME NEW c \in Credential
  PROVE  /\ ResetPasswordLoginFailures(c) = [hash |-> c.hash, failures |-> 0, locked |-> FALSE]
         /\ ResetPasswordLoginFailures(c) \in Credential
  <1>1. ResetPasswordLoginFailures(c) = [hash |-> c.hash, failures |-> 0, locked |-> FALSE]
    <2>1. PICK new : new = [c EXCEPT !.failures = 0, !.locked = FALSE]
      OBVIOUS
    <2>2. new = [hash |-> c.hash, failures |-> 0, locked |-> FALSE]
      BY <2>1 DEF Credential
    <2> QED
      BY <2>1, <2>2, Zenon DEF ResetPasswordLoginFailures
  <1>2. 0 \in 0..MaxFailures
    BY InvitationsAssumption
  <1> QED
    BY <1>1, <1>2 DEF Credential

LEMMA AcceptByPasswordKept ==
  ASSUME IInv, NEW p \in People, AcceptByPassword(p)
  PROVE  Kept
  <1>1. /\ proof[p].phase = "verified" /\ invitationPasswordActive(p) /\ proof[p].hash = cred[p].hash
        /\ cred' = [cred EXCEPT ![p] = ResetPasswordLoginFailures(cred[p])]
        /\ proof' = [proof EXCEPT ![p] = NoProof] /\ WithinInvitationAcceptance
    BY DEF AcceptByPassword, validateInvitationPassword
  <1>2. TypeOK /\ cred \in [People -> Credential] /\ proof \in [People -> {NoProof} \cup Proof]
    BY DEF IInv, TypeOK
  <1>3. PICK row : row = [hash |-> cred[p].hash, failures |-> 0, locked |-> FALSE]
    OBVIOUS
  <1>4. ResetPasswordLoginFailures(cred[p]) = row /\ row \in Credential
    <2>1. cred[p] \in Credential /\ cred[p].hash \in 0..MaxHash /\ 0 \in 0..MaxFailures
      BY <1>2, AccountTypes
    <2> QED
      BY <1>3, <2>1, ResetRow
  <1>5. /\ cred' \in [People -> Credential] /\ cred'[p] = row /\ \A q \in People \ {p} : cred'[q] = cred[q]
        /\ proof' \in [People -> {NoProof} \cup Proof] /\ \A q \in People \ {p} : proof'[q] = proof[q]
    BY <1>1, <1>2, <1>4
  <1>6. Unlocked'
    <2>1. row.failures < MaxFailures
      BY <1>3, InvitationsAssumption
    <2> QED
      BY <1>5, <2>1 DEF IInv, PeopleInv, Unlocked
  <1>7. CurrentProof
    <2>1. ~ cred[p].locked
      BY <1>1 DEF invitationPasswordActive
    <2>2. \A q \in People \ {p} : proof'[q] = proof[q]
      BY <1>5
    <2> QED
      BY <1>1, <2>1, <2>2 DEF CurrentProof
  <1>8. CASE accept(p, proof[p].attempt)
    <2>1. PICK a \in Attempt : accept(p, a)
      BY <1>1, <1>2, <1>8, AccountTypes
    <2>2. IInv' /\ StaysSettled
      BY <1>1, <1>5, <1>6, <2>1, AcceptKept
    <2> QED
      BY <1>7, <2>2 DEF Kept
  <1>9. CASE UNCHANGED <<inv, refs, outbox, member, bound, joined, receipts>>
    <2>1. UNCHANGED <<tenantVars, outboxVars>> /\ UNCHANGED <<open, sessions>>
      BY <1>1, <1>9 DEF WithinInvitationAcceptance, tenantVars, outboxVars
    <2>2. TypeOK'
      BY <1>2, <1>5, <1>9, <2>1 DEF TypeOK, tenantVars, outboxVars, Outbox!OutboxTypeOK
    <2>3. IInv' /\ StaysSettled
      BY <1>6, <2>1, <2>2, AccountsKept
    <2> QED
      BY <1>7, <2>3 DEF Kept
  <1> QED
    BY <1>8, <1>9 DEF AcceptByPassword

\* Types when only accounts change.
LEMMA AccountStepTypes ==
  ASSUME TypeOK, UNCHANGED <<tenantVars, receipts, outboxVars>>, open' \in BOOLEAN, sessions' \subseteq People,
         cred' \in [People -> Credential], proof' \in [People -> {NoProof} \cup Proof]
  PROVE  TypeOK'
  <1>1. UNCHANGED <<inv, refs, roles, member, bound, joined, receipts, outbox, worker, submitted>>
    BY DEF tenantVars, outboxVars
  <1> QED
    BY <1>1 DEF TypeOK, Outbox!OutboxTypeOK

LEMMA VerifyPasswordKept ==
  ASSUME IInv, NEW p \in People, NEW a \in Attempt, NEW valid \in BOOLEAN, VerifyPassword(p, a, valid)
  PROVE  Kept
  <1>1. UNCHANGED <<tenantVars, open, sessions, cred, receipts, outboxVars>> /\ joined' = joined
    BY DEF VerifyPassword, tenantVars
  <1>2. TypeOK /\ proof \in [People -> {NoProof} \cup Proof]
    BY DEF IInv, TypeOK
  <1>3. PICK yes : yes = [phase |-> "verified", hash |-> cred[p].hash, attempt |-> a]
    OBVIOUS
  <1>4. PICK no : no = [phase |-> "denied", hash |-> cred[p].hash, increment |-> invitationPasswordActive(p)]
    OBVIOUS
  <1>5. no \in Proof
    <2>1. invitationPasswordActive(p) \in BOOLEAN
      BY DEF invitationPasswordActive
    <2> QED
      BY <1>2, <1>4, <2>1, AccountTypes DEF Proof
  <1>6. invitationPasswordActive(p) => yes \in Proof
    BY <1>2, <1>3, AccountTypes DEF invitationPasswordActive, Proof
  <1>7. proof' = [proof EXCEPT ![p] = IF valid /\ invitationPasswordActive(p) THEN yes ELSE no]
    BY <1>3, <1>4 DEF VerifyPassword, ReadInvitationPassword
  <1>8. proof' \in [People -> {NoProof} \cup Proof]
    BY <1>2, <1>5, <1>6, <1>7
  <1>9. TypeOK'
    BY <1>1, <1>2, <1>8, AccountStepTypes DEF TypeOK
  <1>10. Unlocked'
    BY <1>1 DEF IInv, PeopleInv, Unlocked
  <1>11. IInv' /\ StaysSettled
    BY <1>1, <1>9, <1>10, AccountsKept
  <1>12. CurrentProof
    BY <1>1, AccountTypes, <1>2 DEF CurrentProof
  <1> QED
    BY <1>11, <1>12 DEF Kept

LEMMA RefuseAcceptanceKept ==
  ASSUME IInv, NEW p \in People, RefuseAcceptance(p)
  PROVE  Kept
  <1>1. UNCHANGED <<tenantVars, open, sessions, cred, receipts, outboxVars>> /\ joined' = joined
    BY DEF RefuseAcceptance, tenantVars
  <1>2. TypeOK /\ proof \in [People -> {NoProof} \cup Proof] /\ proof[p].phase = "verified"
    BY DEF IInv, TypeOK, RefuseAcceptance
  <1>3. PICK no : no = [phase |-> "denied", hash |-> proof[p].hash, increment |-> FALSE]
    OBVIOUS
  <1>4. no \in Proof
    <2>1. proof[p].hash \in 0..MaxHash
      BY <1>2, AccountTypes
    <2> QED
      BY <1>3, <2>1 DEF Proof
  <1>5. proof' = [proof EXCEPT ![p] = IF validateInvitationPassword(p) THEN NoProof ELSE no]
    BY <1>2, <1>3 DEF RefuseAcceptance
  <1>6. proof' \in [People -> {NoProof} \cup Proof]
    BY <1>2, <1>4, <1>5
  <1>7. TypeOK'
    BY <1>1, <1>2, <1>6, AccountStepTypes DEF TypeOK
  <1>8. Unlocked'
    BY <1>1 DEF IInv, PeopleInv, Unlocked
  <1>9. IInv' /\ StaysSettled
    BY <1>1, <1>7, <1>8, AccountsKept
  <1>10. CurrentProof
    BY <1>1, AccountTypes, <1>2 DEF CurrentProof
  <1> QED
    BY <1>9, <1>10 DEF Kept

LEMMA FailureRow ==
  ASSUME NEW c \in Credential, ~ c.locked => c.failures < MaxFailures, ~ c.locked,
         NEW new, new = RecordPasswordLoginFailure(c)
  PROVE  /\ new \in Credential /\ (~ new.locked => new.failures < MaxFailures)
  <1>1. /\ c.hash \in 0..MaxHash /\ c.failures \in Nat /\ c.failures + 1 \in 0..MaxFailures
        /\ MaxFailures \in Nat
    BY InvitationsAssumption DEF Credential
  <1>2. new = [hash |-> c.hash, failures |-> c.failures + 1, locked |-> c.failures + 1 >= MaxFailures]
    BY DEF RecordPasswordLoginFailure, Credential
  <1>3. CASE c.failures + 1 >= MaxFailures
    <2>1. (c.failures + 1 >= MaxFailures) = TRUE
      BY <1>3
    <2>2. new = [hash |-> c.hash, failures |-> c.failures + 1, locked |-> TRUE]
      BY <1>2, <2>1, Zenon
    <2> QED
      BY <1>1, <2>2 DEF Credential
  <1>4. CASE ~ (c.failures + 1 >= MaxFailures)
    <2>1. (c.failures + 1 >= MaxFailures) = FALSE
      BY <1>4
    <2>2. new = [hash |-> c.hash, failures |-> c.failures + 1, locked |-> FALSE]
      BY <1>2, <2>1, Zenon
    <2>3. c.failures + 1 < MaxFailures
      BY <1>1, <1>4
    <2> QED
      BY <1>1, <2>2, <2>3 DEF Credential
  <1> QED
    BY <1>3, <1>4

LEMMA RecordFailureKept ==
  ASSUME IInv, NEW p \in People, RecordInvitationPasswordFailure(p)
  PROVE  Kept
  <1>1. UNCHANGED <<tenantVars, open, sessions, receipts, outboxVars>> /\ joined' = joined
    BY DEF RecordInvitationPasswordFailure, tenantVars
  <1>2. /\ TypeOK /\ cred \in [People -> Credential] /\ proof \in [People -> {NoProof} \cup Proof]
        /\ proof' = [proof EXCEPT ![p] = NoProof] /\ \A q \in People : cred[q].failures \in Nat
    BY AccountTypes DEF IInv, TypeOK, RecordInvitationPasswordFailure
  <1>3. proof' \in [People -> {NoProof} \cup Proof] /\ \A q \in People \ {p} : proof'[q] = proof[q]
    BY <1>2
  <1>4. CASE CountsAgainst(p)
    <2>1. ~ cred[p].locked /\ proof[p].hash = cred[p].hash
      BY <1>4 DEF CountsAgainst, invitationPasswordActive
    <2>2. PICK new : new = RecordPasswordLoginFailure(cred[p])
      OBVIOUS
    <2>3. new \in Credential /\ (~ new.locked => new.failures < MaxFailures)
      <3>1. cred[p] \in Credential /\ (~ cred[p].locked => cred[p].failures < MaxFailures)
        BY <1>2 DEF IInv, PeopleInv, Unlocked
      <3> QED
        BY <2>1, <2>2, <3>1, FailureRow
    <2>4. cred' = [cred EXCEPT ![p] = new]
      BY <1>4, <2>2 DEF RecordInvitationPasswordFailure
    <2>5. /\ cred' \in [People -> Credential] /\ cred'[p] = new
          /\ \A q \in People \ {p} : cred'[q] = cred[q]
      BY <1>2, <2>3, <2>4
    <2>6. Unlocked'
      BY <2>3, <2>5 DEF IInv, PeopleInv, Unlocked
    <2>7. TypeOK'
      BY <1>1, <1>2, <1>3, <2>5, AccountStepTypes DEF TypeOK
    <2>8. IInv' /\ StaysSettled
      BY <1>1, <2>6, <2>7, AccountsKept
    <2>9. CurrentProof
      BY <1>3, <2>1 DEF CurrentProof
    <2> QED
      BY <2>8, <2>9 DEF Kept
  <1>5. CASE ~ CountsAgainst(p)
    <2>1. cred' = cred
      BY <1>5 DEF RecordInvitationPasswordFailure
    <2>2. Unlocked'
      BY <2>1 DEF IInv, PeopleInv, Unlocked
    <2>3. TypeOK'
      BY <1>1, <1>2, <1>3, <2>1, AccountStepTypes DEF TypeOK
    <2>4. IInv' /\ StaysSettled
      BY <1>1, <2>2, <2>3, AccountsKept
    <2>5. CurrentProof
      BY <1>1, <1>2, <2>1 DEF CurrentProof
    <2> QED
      BY <2>4, <2>5 DEF Kept
  <1> QED
    BY <1>4, <1>5

\* Sessions, the target and passwords change under the eyes of nobody.
LEMMA OthersKept ==
  ASSUME IInv,
         TargetChanges \/ \E p \in People : SessionChanges(p) \/ PasswordChanges(p) \/ LockEnds(p)
  PROVE  Kept
  <1>1. UNCHANGED <<tenantVars, proof, receipts, outboxVars>>
    BY DEF TargetChanges, SessionChanges, PasswordChanges, LockEnds
  <1>2. TypeOK /\ cred \in [People -> Credential] /\ Unlocked
    BY DEF IInv, TypeOK, PeopleInv
  <1>3. open' \in BOOLEAN /\ sessions' \subseteq People
    BY <1>2 DEF TargetChanges, SessionChanges, PasswordChanges, LockEnds, TypeOK
  <1>4. cred' \in [People -> Credential] /\ Unlocked'
    <2>1. CASE UNCHANGED cred
      BY <1>2, <2>1 DEF Unlocked
    <2>2. ASSUME NEW p \in People, PasswordChanges(p) \/ LockEnds(p)
          PROVE  cred' \in [People -> Credential] /\ Unlocked'
      <3>1. PICK row : row.failures = 0 /\ row \in Credential /\ cred' = [cred EXCEPT ![p] = row]
        <4>1. CASE PasswordChanges(p)
          <5>1. cred' = [cred EXCEPT ![p] = [hash |-> cred[p].hash + 1, failures |-> 0, locked |-> FALSE]]
            BY <1>2, <4>1 DEF PasswordChanges
          <5>2. cred[p].hash + 1 \in 0..MaxHash /\ 0 \in 0..MaxFailures
            BY <1>2, <4>1, AccountTypes DEF PasswordChanges
          <5> QED
            BY <5>1, <5>2 DEF Credential
        <4>2. CASE LockEnds(p)
          <5>1. cred' = [cred EXCEPT ![p] = [hash |-> cred[p].hash, failures |-> 0, locked |-> FALSE]]
            BY <1>2, <4>2 DEF LockEnds, Credential
          <5>2. cred[p].hash \in 0..MaxHash /\ 0 \in 0..MaxFailures
            BY <1>2, AccountTypes
          <5> QED
            BY <5>1, <5>2 DEF Credential
        <4> QED
          BY <2>2, <4>1, <4>2
      <3>2. 0 < MaxFailures
        BY InvitationsAssumption
      <3> QED
        BY <1>2, <3>1, <3>2 DEF Unlocked
    <2> QED
      BY <2>1, <2>2 DEF TargetChanges, SessionChanges
  <1>5. TypeOK'
    BY <1>1, <1>2, <1>3, <1>4, AccountStepTypes DEF TypeOK
  <1>6. IInv' /\ StaysSettled
    BY <1>1, <1>4, <1>5, AccountsKept
  <1>7. CurrentProof
    BY <1>1 DEF CurrentProof
  <1> QED
    BY <1>6, <1>7 DEF Kept

-----------------------------------------------------------------------------
(***************************************************************************)
(* The dispatchers.                                                        *)
(***************************************************************************)
LEMMA WorkerTypes ==
  ASSUME TypeOK, NEW w \in Workers
  PROVE  /\ worker[w] \in {Outbox!Idle} \cup Outbox!Claim \cup Outbox!Answer
         /\ worker[w].phase \in {"claimed", "submitting", "finishing"} =>
              worker[w].id \in Deliveries /\ worker[w].attempt \in 0..MaxClaims
         /\ worker[w].phase \in {"claimed", "submitting"} => worker[w] \in Outbox!Claim
         /\ worker[w].phase = "finishing" => worker[w].outcome \in Outbox!Outcome
         /\ Outbox!Idle.phase = "idle"
  <1>1. worker[w] \in {Outbox!Idle} \cup Outbox!Claim \cup Outbox!Answer
    BY DEF TypeOK, Outbox!OutboxTypeOK
  <1>2. Outbox!Idle.phase = "idle"
    BY DEF Outbox!Idle
  <1>3. worker[w] \in Outbox!Claim =>
          /\ worker[w].phase \in {"claimed", "submitting"}
          /\ worker[w].id \in Deliveries /\ worker[w].attempt \in 0..MaxClaims
    BY DEF Outbox!Claim, Outbox!Attempts
  <1>4. worker[w] \in Outbox!Answer =>
          /\ worker[w].phase = "finishing" /\ worker[w].outcome \in Outbox!Outcome
          /\ worker[w].id \in Deliveries /\ worker[w].attempt \in 0..MaxClaims
    BY DEF Outbox!Answer, Outbox!Attempts
  <1> QED
    BY <1>1, <1>2, <1>3, <1>4

LEMMA WorkersKept ==
  ASSUME TypeOK, NEW w \in Workers, NEW new \in {Outbox!Idle} \cup Outbox!Claim \cup Outbox!Answer,
         worker' = [worker EXCEPT ![w] = new]
  PROVE  /\ worker' \in [Workers -> {Outbox!Idle} \cup Outbox!Claim \cup Outbox!Answer]
         /\ worker'[w] = new /\ \A v \in Workers \ {w} : worker'[v] = worker[v]
  BY DEF TypeOK, Outbox!OutboxTypeOK

LEMMA QueueKept ==
  ASSUME IInv, UNCHANGED <<tenantVars, accountVars>>, (Outbox!OutboxTypeOK)', OutboxInv', StaysSettled
  PROVE  Kept
  <1>1. UNCHANGED <<inv, refs, roles, member, bound, joined, open, sessions, cred, proof, receipts>>
    BY DEF tenantVars, accountVars
  <1>2. TypeOK'
    BY <1>1 DEF IInv, TypeOK
  <1>3. PeopleInv' /\ InvitationGrantsExistingRoles'
    BY <1>1 DEF IInv, PeopleInv, Dated, Counted, Honoured, AcceptedBy, Unlocked, InvitationGrantsExistingRoles
  <1>4. CurrentProof
    BY <1>1 DEF CurrentProof
  <1> QED
    BY <1>2, <1>3, <1>4 DEF Kept, IInv

\* A row that waited is rewritten.
LEMMA RowRewritten ==
  ASSUME TypeOK, OutboxInv, inv' = inv, NEW d \in Deliveries, outbox[d].status \in Outbox!Live,
         NEW row \in Outbox!DeliveryRow, row.status # "absent", row.sealed = (row.status \in Outbox!Live),
         outbox' = [outbox EXCEPT ![d] = row]
  PROVE  /\ outbox' \in [Deliveries -> Outbox!DeliveryRow] /\ outbox'[d] = row
         /\ \A e \in Deliveries \ {d} : outbox'[e] = outbox[e]
         /\ Written' /\ OnlyCurrentDeliveryIsLive' /\ Sealed' /\ StaysSettled
  <1>1. /\ outbox' \in [Deliveries -> Outbox!DeliveryRow] /\ outbox'[d] = row
        /\ \A e \in Deliveries \ {d} : outbox'[e] = outbox[e]
    BY DEF TypeOK, Outbox!OutboxTypeOK
  <1>2. outbox[d].status # "absent" /\ outbox[d].status \notin Outbox!Settled
    BY DEF Outbox!Live, Outbox!Settled
  <1>3. Written'
    BY <1>1, <1>2 DEF OutboxInv, Written
  <1>4. OnlyCurrentDeliveryIsLive'
    <2>1. \A e \in Deliveries : outbox'[e].status \in Outbox!Live => outbox[e].status \in Outbox!Live
      BY <1>1
    <2>2. ASSUME NEW i \in Invites, inv[i].status = "pending"
          PROVE  outbox'[[inv |-> i, generation |-> inv[i].generation]].status # "absent"
      <3>1. PICK e : e = [inv |-> i, generation |-> inv[i].generation]
        OBVIOUS
      <3>2. outbox[e].status # "absent"
        BY <2>2, <3>1 DEF OutboxInv, OnlyCurrentDeliveryIsLive
      <3>3. outbox'[e] = IF e = d THEN row ELSE outbox[e]
        <4>1. CASE e = d
          BY <1>1, <4>1
        <4>2. CASE e # d
          BY <4>2 DEF TypeOK, Outbox!OutboxTypeOK
        <4> QED
          BY <4>1, <4>2
      <3> QED
        BY <3>1, <3>2, <3>3
    <2> QED
      BY <2>1, <2>2 DEF OutboxInv, OnlyCurrentDeliveryIsLive
  <1>5. Sealed'
    <2>1. \A e \in Deliveries : outbox'[e].sealed = (outbox'[e].status \in Outbox!Live)
      <3> SUFFICES ASSUME NEW e \in Deliveries PROVE outbox'[e].sealed = (outbox'[e].status \in Outbox!Live)
        OBVIOUS
      <3>1. CASE e = d
        BY <1>1, <3>1, Zenon
      <3>2. CASE e # d
        <4>1. outbox'[e] = outbox[e]
          BY <1>1, <3>2
        <4> QED
          BY <4>1, Zenon DEF OutboxInv, Sealed
      <3> QED
        BY <3>1, <3>2
    <2> QED
      BY <2>1 DEF Sealed
  <1>6. StaysSettled
    BY <1>1, <1>2 DEF StaysSettled
  <1> QED
    BY <1>1, <1>3, <1>4, <1>5, <1>6

\* Nobody gets the right to submit.
LEMMA HoldersShrink ==
  ASSUME TypeOK, SubmissionsCounted, submitted' = submitted,
         \A d \in Deliveries : Holders(d)' \subseteq Holders(d) /\ outbox'[d].attempt = outbox[d].attempt
  PROVE  SubmissionsCounted'
  <1> SUFFICES ASSUME NEW d \in Deliveries
               PROVE  /\ IsFiniteSet(Holders(d)')
                      /\ submitted[d] + Cardinality(Holders(d)') <= outbox'[d].attempt
                      /\ submitted[d] + Cardinality(Holders(d)') <= MaxAttempts
    BY DEF SubmissionsCounted
  <1>1. IsFiniteSet(Holders(d)) /\ Holders(d)' \subseteq Holders(d)
    BY DEF SubmissionsCounted
  <1>2. /\ IsFiniteSet(Holders(d)') /\ Cardinality(Holders(d)') <= Cardinality(Holders(d))
    BY <1>1, FS_Subset
  <1>3. Cardinality(Holders(d)') \in Nat /\ Cardinality(Holders(d)) \in Nat
    BY <1>1, <1>2, FS_CardinalityType
  <1>4. submitted[d] \in Nat /\ outbox[d].attempt \in Nat /\ MaxAttempts \in Nat
    BY RowTypes
  <1> QED
    BY <1>2, <1>3, <1>4 DEF SubmissionsCounted

LEMMA ClaimRow ==
  ASSUME NEW row \in Outbox!DeliveryRow, Outbox!Claimable(row), row.attempt < MaxClaims,
         row.sealed = (row.status \in Outbox!Live), NEW new, new = Outbox!ClaimNotification(row)
  PROVE  /\ new \in Outbox!DeliveryRow /\ new.status = "claimed" /\ new.attempt = row.attempt + 1
         /\ row.status \in Outbox!Live /\ row.status \in {"pending", "claimed"}
         /\ new.sealed = (new.status \in Outbox!Live) /\ new.attempt \in Outbox!Attempts
  <1>1. row.attempt \in 0..MaxClaims /\ row.sealed \in BOOLEAN
    BY DEF Outbox!DeliveryRow, Outbox!Attempts
  <1>2. row.status \in {"pending", "claimed"} /\ row.status \in Outbox!Live /\ "claimed" \in Outbox!Live
    BY DEF Outbox!Claimable, Outbox!Live
  <1>3. row.sealed = TRUE
    BY <1>2
  <1>4. new = [status |-> "claimed", attempt |-> row.attempt + 1, lapsed |-> FALSE, sealed |-> row.sealed]
    BY DEF Outbox!ClaimNotification, Outbox!DeliveryRow
  <1>5. row.attempt + 1 \in Outbox!Attempts
    BY <1>1, InvitationsAssumption DEF Outbox!Attempts
  <1>6. new \in Outbox!DeliveryRow
    BY <1>1, <1>2, <1>4, <1>5 DEF Outbox!DeliveryRow
  <1>7. new.sealed = TRUE /\ new.status = "claimed" /\ new.attempt = row.attempt + 1
    BY <1>3, <1>4
  <1>8. (new.status \in Outbox!Live) = TRUE
    BY <1>2, <1>7
  <1>9. new.sealed = (new.status \in Outbox!Live)
    BY <1>7, <1>8, Zenon
  <1> QED
    BY <1>2, <1>5, <1>6, <1>7, <1>9

\* Who claims a row holds an attempt that nobody else has.
LEMMA ClaimKept ==
  ASSUME IInv, NEW w \in Workers, NEW d \in Deliveries, Outbox!ClaimIdentityNotification(w, d),
         UNCHANGED <<tenantVars, accountVars>>
  PROVE  Kept
  <1>1. TypeOK /\ OutboxInv /\ inv' = inv /\ outbox[d] \in Outbox!DeliveryRow
    BY RowTypes DEF IInv, tenantVars
  <1>2. PICK row : row = Outbox!ClaimNotification(outbox[d])
    OBVIOUS
  <1>3. /\ row \in Outbox!DeliveryRow /\ row.status = "claimed" /\ row.attempt = outbox[d].attempt + 1
        /\ outbox[d].status \in Outbox!Live /\ outbox[d].status \in {"pending", "claimed"}
        /\ row.sealed = (row.status \in Outbox!Live) /\ row.attempt \in Outbox!Attempts
    <2>1. /\ Outbox!Claimable(outbox[d]) /\ outbox[d].attempt < MaxClaims
          /\ outbox[d].sealed = (outbox[d].status \in Outbox!Live)
      BY <1>1 DEF Outbox!ClaimIdentityNotification, OutboxInv, Sealed
    <2> QED
      BY <1>1, <1>2, <2>1, ClaimRow
  <1>4. outbox' = [outbox EXCEPT ![d] = row]
    BY <1>2 DEF Outbox!ClaimIdentityNotification
  <1>5. /\ outbox' \in [Deliveries -> Outbox!DeliveryRow] /\ outbox'[d] = row
        /\ \A e \in Deliveries \ {d} : outbox'[e] = outbox[e]
        /\ Written' /\ OnlyCurrentDeliveryIsLive' /\ Sealed' /\ StaysSettled
    <2>1. row.status # "absent"
      BY <1>3
    <2> QED
      BY <1>1, <1>3, <1>4, <2>1, RowRewritten
  <1>6. PICK new : new = [phase |-> "claimed", id |-> d, attempt |-> row.attempt]
    OBVIOUS
  <1>7. worker[w] = Outbox!Idle /\ worker' = [worker EXCEPT ![w] = new] /\ submitted' = submitted
    BY <1>5, <1>6 DEF Outbox!ClaimIdentityNotification
  <1>8. /\ new \in Outbox!Claim /\ new.phase = "claimed" /\ new.id = d /\ new.attempt = row.attempt
    BY <1>3, <1>6 DEF Outbox!Claim
  <1>9. /\ worker' \in [Workers -> {Outbox!Idle} \cup Outbox!Claim \cup Outbox!Answer]
        /\ worker'[w] = new /\ \A v \in Workers \ {w} : worker'[v] = worker[v]
    BY <1>1, <1>7, <1>8, WorkersKept
  <1>10. (Outbox!OutboxTypeOK)'
    BY <1>1, <1>5, <1>7, <1>9 DEF TypeOK, Outbox!OutboxTypeOK
  <1>11. Reported'
    <2>1. worker'[w].phase = "claimed"
      BY <1>8, <1>9
    <2>2. \A e \in Deliveries : outbox'[e].status = "delivered" => outbox[e].status = "delivered"
      BY <1>3, <1>5
    <2> QED
      BY <1>1, <1>7, <1>9, <2>1, <2>2 DEF OutboxInv, Reported, Phase
  <1>12. SubmissionsCounted'
    <2> SUFFICES ASSUME NEW e \in Deliveries
                 PROVE  /\ IsFiniteSet(Holders(e)')
                        /\ submitted[e] + Cardinality(Holders(e)') <= outbox'[e].attempt
                        /\ submitted[e] + Cardinality(Holders(e)') <= MaxAttempts
      BY <1>7 DEF SubmissionsCounted
    <2>1. /\ IsFiniteSet(Holders(e)) /\ Cardinality(Holders(e)) \in Nat
          /\ submitted[e] + Cardinality(Holders(e)) <= outbox[e].attempt
          /\ submitted[e] + Cardinality(Holders(e)) <= MaxAttempts
      BY <1>1, FS_CardinalityType DEF OutboxInv, SubmissionsCounted
    <2>2. submitted[e] \in Nat /\ outbox[e].attempt \in Nat /\ MaxAttempts \in Nat
      BY <1>1, RowTypes
    <2>3. w \notin Holders(e)
      BY <1>1, <1>7, WorkerTypes DEF Holders, Phase
    <2>4. CASE e = d /\ row.attempt <= MaxAttempts
      <3>1. Holders(e)' = Holders(e) \cup {w}
        BY <1>8, <1>9, <2>4 DEF Holders, Phase
      <3>2. /\ IsFiniteSet(Holders(e) \cup {w})
            /\ Cardinality(Holders(e) \cup {w}) = Cardinality(Holders(e)) + 1
        BY <2>1, <2>3, FS_AddElement
      <3> QED
        BY <1>3, <1>5, <2>1, <2>2, <2>4, <3>1, <3>2
    <2>5. CASE ~ (e = d /\ row.attempt <= MaxAttempts)
      <3>1. Holders(e)' = Holders(e)
        BY <1>8, <1>9, <2>3, <2>5 DEF Holders, Phase
      <3>2. outbox[e].attempt <= outbox'[e].attempt /\ outbox'[e].attempt \in Nat
        BY <1>3, <1>5, <2>2
      <3> QED
        BY <2>1, <2>2, <3>1, <3>2
    <2> QED
      BY <2>4, <2>5
  <1>13. OutboxInv'
    BY <1>5, <1>11, <1>12 DEF OutboxInv
  <1> QED
    BY <1>5, <1>10, <1>13, QueueKept

\* A dispatcher changes what it holds in memory and gets no right by it.
LEMMA MemoryKept ==
  ASSUME IInv, NEW w \in Workers, NEW new \in {Outbox!Idle} \cup Outbox!Claim \cup Outbox!Answer,
         worker' = [worker EXCEPT ![w] = new], UNCHANGED <<outbox, submitted>>,
         UNCHANGED <<tenantVars, accountVars>>,
         new.phase \in {"claimed", "submitting"} =>
           /\ worker[w].phase \in {"claimed", "submitting"} /\ new.id = worker[w].id
           /\ new.attempt = worker[w].attempt,
         new.phase = "submitting" => new.attempt <= MaxAttempts,
         new.phase = "finishing" => new.outcome # "delivered"
  PROVE  Kept
  <1>1. TypeOK /\ OutboxInv /\ inv' = inv
    BY DEF IInv, tenantVars
  <1>2. /\ worker' \in [Workers -> {Outbox!Idle} \cup Outbox!Claim \cup Outbox!Answer]
        /\ worker'[w] = new /\ \A v \in Workers \ {w} : worker'[v] = worker[v]
    BY <1>1, WorkersKept
  <1>3. (Outbox!OutboxTypeOK)'
    BY <1>1, <1>2 DEF TypeOK, Outbox!OutboxTypeOK
  <1>4. Written' /\ OnlyCurrentDeliveryIsLive' /\ Sealed'
    BY <1>1 DEF OutboxInv, Written, OnlyCurrentDeliveryIsLive, Sealed
  <1>5. SubmissionsCounted'
    <2>1. \A d \in Deliveries : Holders(d)' \subseteq Holders(d)
      BY <1>2 DEF Holders, Phase
    <2> QED
      BY <1>1, <2>1, HoldersShrink DEF OutboxInv
  <1>6. Reported'
    <2>1. \A v \in Workers \ {w} : worker'[v] = worker[v]
      BY <1>2
    <2>2. /\ worker'[w].phase = "submitting" => worker'[w].attempt <= MaxAttempts
          /\ worker'[w].phase = "finishing" => worker'[w].outcome # "delivered"
      BY <1>2
    <2> QED
      BY <1>1, <2>1, <2>2 DEF OutboxInv, Reported, Phase
  <1>7. OutboxInv' /\ StaysSettled
    BY <1>4, <1>5, <1>6 DEF OutboxInv, StaysSettled
  <1> QED
    BY <1>3, <1>7, QueueKept

\* The answer a dispatcher holds after Finishing.
LEMMA FinishingForm ==
  ASSUME TypeOK, NEW w \in Workers, worker[w].phase \in {"claimed", "submitting"},
         NEW outcome \in Outbox!Outcome, Outbox!Finishing(w, outcome)
  PROVE  \E new \in Outbox!Answer :
           /\ worker' = [worker EXCEPT ![w] = new] /\ new.phase = "finishing" /\ new.outcome = outcome
           /\ new.id = worker[w].id
  <1>1. PICK new : new = [phase |-> "finishing", id |-> worker[w].id, attempt |-> worker[w].attempt,
                          outcome |-> outcome]
    OBVIOUS
  <1>2. worker[w].id \in Deliveries /\ worker[w].attempt \in Outbox!Attempts
    BY WorkerTypes DEF Outbox!Attempts
  <1>3. new \in Outbox!Answer /\ new.phase = "finishing" /\ new.outcome = outcome /\ new.id = worker[w].id
    BY <1>1, <1>2 DEF Outbox!Answer
  <1>4. worker' = [worker EXCEPT ![w] = new]
    BY <1>1 DEF Outbox!Finishing, TypeOK, Outbox!OutboxTypeOK
  <1> QED
    BY <1>3, <1>4

LEMMA CurrentKept ==
  ASSUME IInv, NEW w \in Workers, NEW current, Outbox!CurrentIdentityNotification(w, current),
         UNCHANGED <<tenantVars, accountVars>>
  PROVE  Kept
  <1>1. /\ TypeOK /\ worker[w].phase = "claimed" /\ UNCHANGED <<outbox, submitted>>
        /\ \/ Outbox!Finishing(w, "cancelled")
           \/ Outbox!Finishing(w, "attention_required")
           \/ /\ worker[w].attempt <= MaxAttempts
              /\ worker' = [worker EXCEPT ![w].phase = "submitting"]
    <2>1. worker[w].phase = "claimed" /\ TypeOK
      BY DEF Outbox!CurrentIdentityNotification, IInv
    <2>2. worker[w].attempt \in Nat /\ MaxAttempts \in Nat
      BY <2>1, WorkerTypes, RowTypes
    <2> QED
      BY <2>1, <2>2 DEF Outbox!CurrentIdentityNotification, Outbox!SubmittableBy, Outbox!AttemptsExceeded
  <1>2. ASSUME NEW outcome \in {"cancelled", "attention_required"}, Outbox!Finishing(w, outcome) PROVE Kept
    <2>1. PICK new \in Outbox!Answer :
            worker' = [worker EXCEPT ![w] = new] /\ new.phase = "finishing" /\ new.outcome = outcome
      BY <1>1, <1>2, FinishingForm DEF Outbox!Outcome
    <2>2. /\ new \in {Outbox!Idle} \cup Outbox!Claim \cup Outbox!Answer
          /\ new.phase \notin {"claimed", "submitting"} /\ new.outcome # "delivered"
      BY <1>2, <2>1
    <2> QED
      BY <1>1, <2>1, <2>2, MemoryKept
  <1>3. CASE worker[w].attempt <= MaxAttempts /\ worker' = [worker EXCEPT ![w].phase = "submitting"]
    <2>1. PICK new : new = [phase |-> "submitting", id |-> worker[w].id, attempt |-> worker[w].attempt]
      OBVIOUS
    <2>2. worker[w] \in Outbox!Claim /\ worker[w].id \in Deliveries /\ worker[w].attempt \in Outbox!Attempts
      BY <1>1, WorkerTypes DEF Outbox!Attempts
    <2>3. /\ new \in Outbox!Claim /\ new.phase = "submitting" /\ new.id = worker[w].id
          /\ new.attempt = worker[w].attempt
      BY <2>1, <2>2 DEF Outbox!Claim
    <2>4. [worker[w] EXCEPT !.phase = "submitting"] = new
      BY <2>1, <2>2 DEF Outbox!Claim
    <2>5. worker' = [worker EXCEPT ![w] = new]
      BY <1>1, <1>3, <2>4 DEF TypeOK, Outbox!OutboxTypeOK
    <2>6. /\ new \in {Outbox!Idle} \cup Outbox!Claim \cup Outbox!Answer
          /\ worker[w].phase \in {"claimed", "submitting"} /\ new.phase # "finishing"
          /\ new.attempt <= MaxAttempts
      BY <1>1, <1>3, <2>3
    <2> QED
      BY <1>1, <2>3, <2>5, <2>6, MemoryKept
  <1> QED
    BY <1>1, <1>2, <1>3

\* A submission uses up the attempt it was made with.
LEMMA SubmitKept ==
  ASSUME IInv, NEW w \in Workers, Outbox!SubmitIdentityNotification(w), UNCHANGED <<tenantVars, accountVars>>
  PROVE  Kept
  <1>1. TypeOK /\ OutboxInv /\ inv' = inv /\ outbox' = outbox /\ worker[w].phase = "submitting"
    BY DEF IInv, tenantVars, Outbox!SubmitIdentityNotification
  <1>2. PICK d \in Deliveries : d = worker[w].id
    BY <1>1, WorkerTypes
  <1>3. PICK outcome \in Outbox!Outcome : Outbox!Finishing(w, outcome)
    BY DEF Outbox!SubmitIdentityNotification, Outbox!FailureOutcomes, Outbox!Outcome
  <1>4. PICK new \in Outbox!Answer :
          worker' = [worker EXCEPT ![w] = new] /\ new.phase = "finishing" /\ new.id = d
    BY <1>1, <1>2, <1>3, FinishingForm
  <1>5. /\ worker' \in [Workers -> {Outbox!Idle} \cup Outbox!Claim \cup Outbox!Answer]
        /\ worker'[w] = new /\ \A v \in Workers \ {w} : worker'[v] = worker[v]
    BY <1>1, <1>4, WorkersKept
  <1>6. submitted' = [submitted EXCEPT ![d] = submitted[d] + 1] /\ submitted \in [Deliveries -> 0..MaxClaims]
    BY <1>1, <1>2 DEF Outbox!SubmitIdentityNotification, TypeOK, Outbox!OutboxTypeOK, Outbox!Attempts
  <1>7. /\ submitted'[d] = submitted[d] + 1 /\ \A e \in Deliveries \ {d} : submitted'[e] = submitted[e]
        /\ \A e \in Deliveries : submitted[e] \in Nat
    BY <1>1, <1>6, RowTypes
  <1>8. SubmissionsCounted'
    <2> SUFFICES ASSUME NEW e \in Deliveries
                 PROVE  /\ IsFiniteSet(Holders(e)')
                        /\ submitted'[e] + Cardinality(Holders(e)') <= outbox[e].attempt
                        /\ submitted'[e] + Cardinality(Holders(e)') <= MaxAttempts
      BY <1>1 DEF SubmissionsCounted
    <2>1. /\ IsFiniteSet(Holders(e)) /\ Cardinality(Holders(e)) \in Nat
          /\ submitted[e] + Cardinality(Holders(e)) <= outbox[e].attempt
          /\ submitted[e] + Cardinality(Holders(e)) <= MaxAttempts
      BY <1>1, FS_CardinalityType DEF OutboxInv, SubmissionsCounted
    <2>2. submitted[e] \in Nat /\ outbox[e].attempt \in Nat /\ MaxAttempts \in Nat
      BY <1>1, RowTypes
    <2>3. CASE e = d
      <3>1. w \in Holders(e)
        BY <1>1, <1>2, <2>3 DEF Holders, Phase, OutboxInv, Reported
      <3>2. Holders(e)' = Holders(e) \ {w}
        BY <1>4, <1>5 DEF Holders, Phase
      <3>3. /\ IsFiniteSet(Holders(e) \ {w})
            /\ Cardinality(Holders(e) \ {w}) = Cardinality(Holders(e)) - 1
        BY <2>1, <3>1, FS_RemoveElement
      <3> QED
        BY <1>7, <2>1, <2>2, <2>3, <3>2, <3>3
    <2>4. CASE e # d
      <3>1. Holders(e)' = Holders(e)
        BY <1>1, <1>2, <1>4, <1>5, <2>4 DEF Holders, Phase
      <3> QED
        BY <1>7, <2>1, <2>4, <3>1
    <2> QED
      BY <2>3, <2>4
  <1>9. submitted' \in [Deliveries -> Outbox!Attempts]
    <2>1. submitted'[d] <= MaxAttempts
      <3>1. /\ IsFiniteSet(Holders(d)') /\ submitted'[d] + Cardinality(Holders(d)') <= MaxAttempts
        BY <1>8 DEF SubmissionsCounted
      <3>2. Cardinality(Holders(d)') \in Nat
        BY <3>1, FS_CardinalityType
      <3> QED
        BY <1>7, <3>1, <3>2, InvitationsAssumption
    <2>2. submitted'[d] \in 0..MaxClaims
      BY <1>7, <2>1, InvitationsAssumption
    <2> QED
      BY <1>6, <1>7, <2>2 DEF Outbox!Attempts
  <1>10. (Outbox!OutboxTypeOK)'
    BY <1>1, <1>5, <1>9 DEF TypeOK, Outbox!OutboxTypeOK
  <1>11. Reported'
    <2>1. \A e \in Deliveries : submitted[e] > 0 => submitted'[e] > 0
      BY <1>7
    <2>2. submitted'[d] > 0
      BY <1>7
    <2>3. /\ \A v \in Workers : Phase(v)' = "submitting" => worker'[v].attempt <= MaxAttempts
      BY <1>1, <1>4, <1>5 DEF OutboxInv, Reported, Phase
    <2>4. ASSUME NEW v \in Workers, worker'[v].phase = "finishing", worker'[v].outcome = "delivered"
          PROVE  submitted'[worker'[v].id] > 0
      <3>1. CASE v = w
        BY <1>4, <1>5, <2>2, <3>1
      <3>2. CASE v # w
        <4>1. worker'[v] = worker[v]
          BY <1>5, <3>2
        <4>2. submitted[worker[v].id] > 0 /\ worker[v].id \in Deliveries
          BY <1>1, <2>4, <4>1, WorkerTypes DEF OutboxInv, Reported, Phase
        <4> QED
          BY <2>1, <4>1, <4>2
      <3> QED
        BY <3>1, <3>2
    <2> QED
      BY <1>1, <2>1, <2>3, <2>4 DEF OutboxInv, Reported, Phase
  <1>12. Written' /\ OnlyCurrentDeliveryIsLive' /\ Sealed'
    BY <1>1 DEF OutboxInv, Written, OnlyCurrentDeliveryIsLive, Sealed
  <1>13. OutboxInv' /\ StaysSettled
    BY <1>1, <1>8, <1>11, <1>12 DEF OutboxInv, StaysSettled
  <1> QED
    BY <1>10, <1>13, QueueKept

LEMMA FinishRow ==
  ASSUME NEW row \in Outbox!DeliveryRow, NEW outcome \in Outbox!Outcome,
         NEW new, new = Outbox!FinishNotification(row, outcome)
  PROVE  /\ new \in Outbox!DeliveryRow /\ new.status = outcome /\ new.attempt = row.attempt
         /\ new.sealed = (new.status \in Outbox!Live) /\ new.status # "absent"
  <1>1. new = [status |-> outcome, attempt |-> row.attempt, lapsed |-> FALSE,
               sealed |-> (outcome \notin Outbox!Settled)]
    BY DEF Outbox!FinishNotification, Outbox!DeliveryRow
  <1>2. row.attempt \in Outbox!Attempts /\ outcome \in {"absent"} \cup Outbox!Live \cup Outbox!Settled
    BY DEF Outbox!DeliveryRow, Outbox!Outcome, Outbox!Live, Outbox!Settled
  <1>3. CASE outcome \in Outbox!Settled
    <2>1. (outcome \notin Outbox!Settled) = FALSE /\ (outcome \in Outbox!Live) = FALSE
      BY <1>3 DEF Outbox!Settled, Outbox!Live
    <2>2. new = [status |-> outcome, attempt |-> row.attempt, lapsed |-> FALSE, sealed |-> FALSE]
      BY <1>1, <2>1, Zenon
    <2>3. new.sealed = FALSE /\ new.status = outcome /\ new.attempt = row.attempt
      BY <2>2
    <2>4. new.sealed = (new.status \in Outbox!Live)
      BY <2>1, <2>3, Zenon
    <2>5. new \in Outbox!DeliveryRow
      BY <1>2, <2>2 DEF Outbox!DeliveryRow
    <2> QED
      BY <2>3, <2>4, <2>5 DEF Outbox!Outcome
  <1>4. CASE outcome \notin Outbox!Settled
    <2>1. (outcome \notin Outbox!Settled) = TRUE /\ (outcome \in Outbox!Live) = TRUE
      BY <1>4 DEF Outbox!Settled, Outbox!Live, Outbox!Outcome
    <2>2. new = [status |-> outcome, attempt |-> row.attempt, lapsed |-> FALSE, sealed |-> TRUE]
      BY <1>1, <2>1, Zenon
    <2>3. new.sealed = TRUE /\ new.status = outcome /\ new.attempt = row.attempt
      BY <2>2
    <2>4. new.sealed = (new.status \in Outbox!Live)
      BY <2>1, <2>3, Zenon
    <2>5. new \in Outbox!DeliveryRow
      BY <1>2, <2>2 DEF Outbox!DeliveryRow
    <2> QED
      BY <2>3, <2>4, <2>5 DEF Outbox!Outcome
  <1> QED
    BY <1>3, <1>4

\* An outcome is recorded only by the claim that the row still has.
LEMMA FinishKept ==
  ASSUME IInv, NEW w \in Workers, Outbox!FinishIdentityNotification(w), UNCHANGED <<tenantVars, accountVars>>
  PROVE  Kept
  <1>1. /\ TypeOK /\ OutboxInv /\ inv' = inv /\ submitted' = submitted /\ worker[w].phase = "finishing"
        /\ worker' = [worker EXCEPT ![w] = Outbox!Idle]
    BY DEF IInv, tenantVars, Outbox!FinishIdentityNotification
  <1>2. CASE ~ Outbox!ClaimHeld(worker[w])
    <2>1. UNCHANGED <<outbox, submitted>>
      BY <1>1, <1>2 DEF Outbox!FinishIdentityNotification
    <2>2. Outbox!Idle.phase \notin {"claimed", "submitting", "finishing"}
      BY DEF Outbox!Idle
    <2> QED
      BY <1>1, <2>1, <2>2, MemoryKept
  <1>3. CASE Outbox!ClaimHeld(worker[w])
    <2>1. PICK d \in Deliveries, outcome \in Outbox!Outcome : d = worker[w].id /\ outcome = worker[w].outcome
      BY <1>1, WorkerTypes
    <2>2. PICK row : row = Outbox!FinishNotification(outbox[d], outcome)
      OBVIOUS
    <2>3. outbox' = [outbox EXCEPT ![d] = row]
      BY <1>3, <2>1, <2>2 DEF Outbox!FinishIdentityNotification
    <2>4. /\ row \in Outbox!DeliveryRow /\ row.status = outcome /\ row.attempt = outbox[d].attempt
          /\ row.sealed = (row.status \in Outbox!Live) /\ row.status # "absent"
      <3>1. outbox[d] \in Outbox!DeliveryRow
        BY <1>1, RowTypes
      <3> QED
        BY <2>2, <3>1, FinishRow
    <2>5. outbox[d].status \in Outbox!Live
      BY <1>3, <2>1 DEF Outbox!ClaimHeld, Outbox!Live
    <2>6. /\ outbox' \in [Deliveries -> Outbox!DeliveryRow] /\ outbox'[d] = row
          /\ \A e \in Deliveries \ {d} : outbox'[e] = outbox[e]
          /\ Written' /\ OnlyCurrentDeliveryIsLive' /\ Sealed' /\ StaysSettled
      BY <1>1, <2>3, <2>4, <2>5, RowRewritten
    <2>7. /\ worker' \in [Workers -> {Outbox!Idle} \cup Outbox!Claim \cup Outbox!Answer]
          /\ worker'[w] = Outbox!Idle /\ \A v \in Workers \ {w} : worker'[v] = worker[v]
          /\ Outbox!Idle.phase = "idle"
      BY <1>1, WorkersKept, WorkerTypes
    <2>8. (Outbox!OutboxTypeOK)'
      BY <1>1, <2>6, <2>7 DEF TypeOK, Outbox!OutboxTypeOK
    <2>9. SubmissionsCounted'
      <3>1. \A e \in Deliveries : Holders(e)' \subseteq Holders(e) /\ outbox'[e].attempt = outbox[e].attempt
        BY <2>4, <2>6, <2>7 DEF Holders, Phase
      <3> QED
        BY <1>1, <3>1, HoldersShrink DEF OutboxInv
    <2>10. Reported'
      <3>1. \A e \in Deliveries : outbox'[e].status = "delivered" => submitted[e] > 0
        <4>1. row.status = "delivered" => submitted[d] > 0
          BY <1>1, <2>1, <2>4 DEF OutboxInv, Reported, Phase
        <4> QED
          BY <1>1, <2>6, <4>1 DEF OutboxInv, Reported
      <3> QED
        BY <1>1, <2>7, <3>1 DEF OutboxInv, Reported, Phase
    <2>11. OutboxInv'
      BY <2>6, <2>9, <2>10 DEF OutboxInv
    <2> QED
      BY <2>6, <2>8, <2>11, QueueKept
  <1> QED
    BY <1>2, <1>3

LEMMA LapseKept ==
  ASSUME IInv, NEW d \in Deliveries, Outbox!LeaseLapses(d), UNCHANGED <<tenantVars, accountVars>>
  PROVE  Kept
  <1>1. /\ TypeOK /\ OutboxInv /\ inv' = inv /\ UNCHANGED <<worker, submitted>>
        /\ outbox[d].status = "claimed" /\ outbox[d] \in Outbox!DeliveryRow
    BY RowTypes DEF IInv, tenantVars, Outbox!LeaseLapses
  <1>2. PICK row : row = [outbox[d] EXCEPT !.lapsed = TRUE]
    OBVIOUS
  <1>3. /\ row \in Outbox!DeliveryRow /\ row.status = "claimed" /\ row.attempt = outbox[d].attempt
        /\ row.sealed = outbox[d].sealed
    <2>1. row = [status |-> outbox[d].status, attempt |-> outbox[d].attempt, lapsed |-> TRUE,
                 sealed |-> outbox[d].sealed]
      BY <1>1, <1>2 DEF Outbox!DeliveryRow
    <2>2. /\ outbox[d].status \in {"absent"} \cup Outbox!Live \cup Outbox!Settled
          /\ outbox[d].attempt \in Outbox!Attempts /\ outbox[d].sealed \in BOOLEAN
      BY <1>1 DEF Outbox!DeliveryRow
    <2> QED
      BY <1>1, <2>1, <2>2 DEF Outbox!DeliveryRow
  <1>4. row.sealed = (row.status \in Outbox!Live)
    <2>1. outbox[d].sealed = (outbox[d].status \in Outbox!Live) /\ row.status = outbox[d].status
      BY <1>1, <1>3 DEF OutboxInv, Sealed
    <2> QED
      BY <1>3, <2>1, Zenon
  <1>5. outbox' = [outbox EXCEPT ![d] = row]
    BY <1>1, <1>2 DEF Outbox!LeaseLapses, TypeOK, Outbox!OutboxTypeOK
  <1>6. /\ outbox' \in [Deliveries -> Outbox!DeliveryRow] /\ outbox'[d] = row
        /\ \A e \in Deliveries \ {d} : outbox'[e] = outbox[e]
        /\ Written' /\ OnlyCurrentDeliveryIsLive' /\ Sealed' /\ StaysSettled
    <2>1. row.status # "absent" /\ outbox[d].status \in Outbox!Live
      BY <1>1, <1>3 DEF Outbox!Live
    <2> QED
      BY <1>1, <1>3, <1>4, <1>5, <2>1, RowRewritten
  <1>7. (Outbox!OutboxTypeOK)'
    BY <1>1, <1>6 DEF TypeOK, Outbox!OutboxTypeOK
  <1>8. SubmissionsCounted'
    <2>1. \A e \in Deliveries : Holders(e)' \subseteq Holders(e) /\ outbox'[e].attempt = outbox[e].attempt
      BY <1>1, <1>3, <1>6 DEF Holders, Phase
    <2> QED
      BY <1>1, <2>1, HoldersShrink DEF OutboxInv
  <1>9. Reported'
    BY <1>1, <1>3, <1>6 DEF OutboxInv, Reported, Phase
  <1>10. OutboxInv'
    BY <1>6, <1>8, <1>9 DEF OutboxInv
  <1> QED
    BY <1>6, <1>7, <1>10, QueueKept

LEMMA QueueStepKept ==
  ASSUME IInv, (\E w \in Workers : Dispatch(w)) \/ QueueFails
  PROVE  Kept
  <1>1. UNCHANGED <<tenantVars, accountVars>>
    BY DEF Dispatch, QueueFails
  <1>2. ASSUME NEW w \in Workers, Dispatch(w) PROVE Kept
    <2>1. \/ \E d \in Deliveries : Outbox!ClaimIdentityNotification(w, d)
          \/ \E current : Outbox!CurrentIdentityNotification(w, current)
          \/ Outbox!SubmitIdentityNotification(w)
          \/ Outbox!FinishIdentityNotification(w)
      BY <1>2 DEF Dispatch, Outbox!DispatchNext
    <2> QED
      BY <1>1, <2>1, ClaimKept, CurrentKept, SubmitKept, FinishKept
  <1>3. ASSUME NEW w \in Workers, Outbox!AbandonNotification(w) PROVE Kept
    <2>1. worker' = [worker EXCEPT ![w] = Outbox!Idle] /\ UNCHANGED <<outbox, submitted>>
      BY <1>3 DEF Outbox!AbandonNotification
    <2>2. Outbox!Idle.phase \notin {"claimed", "submitting", "finishing"}
      BY DEF Outbox!Idle
    <2> QED
      BY <1>1, <2>1, <2>2, MemoryKept
  <1>4. ASSUME NEW d \in Deliveries, Outbox!LeaseLapses(d) PROVE Kept
    BY <1>1, <1>4, LapseKept
  <1> QED
    BY <1>2, <1>3, <1>4 DEF QueueFails

-----------------------------------------------------------------------------
(***************************************************************************)
(* The theorems.                                                           *)
(***************************************************************************)
LEMMA InitIInv == Init => IInv
  <1> SUFFICES ASSUME Init PROVE IInv
    OBVIOUS
  <1>1. /\ MaxRemovals \in Nat /\ MaxFailures \in Nat /\ 0 < MaxFailures /\ MaxGeneration \in Nat
        /\ MaxHash \in Nat /\ 1 \in 0..MaxHash /\ MaxClaims \in Nat /\ MaxAttempts \in Nat
        /\ 0 \in Outbox!Attempts
    BY InvitationsAssumption DEF Outbox!Attempts
  <1>2. inv \in [Invites -> InvitationRow]
    BY <1>1 DEF Init, InvitationRow
  <1>3. (Outbox!OutboxTypeOK)
    BY <1>1 DEF Init, Outbox!OutboxInit, Outbox!OutboxTypeOK, Outbox!DeliveryRow
  <1>4. TypeOK
    <2>1. member \in [People -> MembershipRow] /\ cred \in [People -> Credential]
      BY <1>1 DEF Init, MembershipRow, Credential
    <2>2. joined \in [People -> 0..(MaxRemovals + 1)] /\ receipts \in [Keys -> Receipt]
      BY <1>1 DEF Init, Receipt
    <2> QED
      BY <1>2, <1>3, <2>1, <2>2 DEF Init, TypeOK
  <1>5. Dated /\ Counted /\ Unlocked
    BY <1>1 DEF Init, Dated, Counted, Unlocked
  <1>6. ASSUME NEW p \in People PROVE Honoured(p)
    <2>1. AcceptedBy(p) = {} /\ joined[p] = 0
      BY DEF Init, AcceptedBy
    <2>2. IsFiniteSet({}) /\ Cardinality({}) = 0
      BY FS_EmptySet
    <2> QED
      BY <2>1, <2>2 DEF Honoured
  <1>7. InvitationGrantsExistingRoles
    BY DEF Init, InvitationGrantsExistingRoles
  <1>8. Written /\ OnlyCurrentDeliveryIsLive
    BY DEF Init, Outbox!OutboxInit, Written, OnlyCurrentDeliveryIsLive, Outbox!Live
  <1>9. SubmissionsCounted
    <2> SUFFICES ASSUME NEW d \in Deliveries
                 PROVE  /\ IsFiniteSet(Holders(d))
                        /\ submitted[d] + Cardinality(Holders(d)) <= outbox[d].attempt
                        /\ submitted[d] + Cardinality(Holders(d)) <= MaxAttempts
      BY DEF SubmissionsCounted
    <2>1. Holders(d) = {} /\ submitted[d] = 0 /\ outbox[d].attempt = 0
      BY DEF Init, Outbox!OutboxInit, Outbox!Idle, Holders, Phase
    <2>2. IsFiniteSet({}) /\ Cardinality({}) = 0
      BY FS_EmptySet
    <2> QED
      BY <1>1, <2>1, <2>2
  <1>10. Reported
    BY DEF Init, Outbox!OutboxInit, Outbox!Idle, Reported, Phase
  <1>11. Sealed
    <2> SUFFICES ASSUME NEW d \in Deliveries PROVE outbox[d].sealed = (outbox[d].status \in Outbox!Live)
      BY DEF Sealed
    <2>1. outbox[d].sealed = FALSE /\ outbox[d].status = "absent"
      BY DEF Init, Outbox!OutboxInit
    <2>2. (outbox[d].status \in Outbox!Live) = FALSE
      BY <2>1 DEF Outbox!Live
    <2> QED
      BY <2>1, <2>2, Zenon
  <1> QED
    BY <1>4, <1>5, <1>6, <1>7, <1>8, <1>9, <1>10, <1>11 DEF IInv, PeopleInv, OutboxInv

LEMMA NextKept ==
  ASSUME IInv, [Next]_vars
  PROVE  Kept
  <1>1. TypeOK /\ Dated
    BY DEF IInv, PeopleInv
  <1>2. CASE UNCHANGED vars
    <2>1. /\ UNCHANGED <<tenantVars, outboxVars>>
          /\ UNCHANGED <<open, sessions, cred, proof, receipts, joined>>
      BY <1>2 DEF vars, accountVars, tenantVars
    <2>2. TypeOK' /\ Unlocked'
      <3>1. Unlocked'
        BY <2>1 DEF IInv, PeopleInv, Unlocked
      <3> QED
        BY <1>1, <2>1, <3>1, AccountStepTypes DEF TypeOK
    <2>3. IInv' /\ StaysSettled
      BY <2>1, <2>2, AccountsKept
    <2>4. CurrentProof
      BY <2>1 DEF CurrentProof
    <2> QED
      BY <2>3, <2>4 DEF Kept
  <1>3. ASSUME NEW i \in Invites, NEW p \in People, NEW rs \in SUBSET CustomRoles, CreateInvitation(i, p, rs)
        PROVE  Kept
    BY <1>1, <1>3, CreateAdministers, AdministeredKept
  <1>4. ASSUME NEW i \in Invites, ResendInvitation(i) PROVE Kept
    BY <1>1, <1>4, ResendAdministers, AdministeredKept
  <1>5. ASSUME NEW i \in Invites, CancelInvitation(i) PROVE Kept
    BY <1>1, <1>5, CancelAdministers, AdministeredKept
  <1>6. ASSUME NEW i \in Invites, InvitationElapses(i) PROVE Kept
    BY <1>1, <1>6, ElapsesAdministers, AdministeredKept
  <1>7. ASSUME NEW some \in SUBSET Invites, expire(some) PROVE Kept
    BY <1>1, <1>7, ExpireAdministers, AdministeredKept
  <1>8. ASSUME NEW i \in Invites, GetInvitation(i) PROVE Kept
    <2>1. {i} \in SUBSET Invites /\ expire({i})
      BY <1>8 DEF GetInvitation
    <2> QED
      BY <1>7, <2>1
  <1>9. ASSUME NEW status, ListInvitations(status) PROVE Kept
    <2>1. ListTenantInvitations(status) \in SUBSET Invites /\ expire(ListTenantInvitations(status))
      BY <1>9 DEF ListInvitations, ListTenantInvitations
    <2> QED
      BY <1>7, <2>1
  <1>10. ASSUME NEW r \in CustomRoles, ExpireForRole(r) PROVE Kept
    <2>1. /\ ListExpiredTenantInvitationsForRole(r) \in SUBSET Invites
          /\ expire(ListExpiredTenantInvitationsForRole(r))
      BY <1>10 DEF ExpireForRole, ListExpiredTenantInvitationsForRole
    <2> QED
      BY <1>7, <2>1
  <1>11. ASSUME NEW r \in CustomRoles, DeleteRole(r) PROVE Kept
    BY <1>11, DeleteRoleKept
  <1>12. ASSUME NEW p \in People,
                RemoveMember(p) \/ AcceptByPassword(p) \/ RefuseAcceptance(p)
                  \/ RecordInvitationPasswordFailure(p)
         PROVE  Kept
    BY <1>12, RemoveMemberKept, AcceptByPasswordKept, RefuseAcceptanceKept, RecordFailureKept
  <1>13. CASE TargetChanges \/ \E p \in People : SessionChanges(p) \/ PasswordChanges(p) \/ LockEnds(p)
    BY <1>13, OthersKept
  <1>14. ASSUME NEW p \in People, NEW a \in Attempt, AcceptBySession(p, a) PROVE Kept
    BY <1>14, AcceptBySessionKept
  <1>15. ASSUME NEW p \in People, NEW a \in Attempt, NEW valid \in BOOLEAN, VerifyPassword(p, a, valid)
         PROVE  Kept
    BY <1>15, VerifyPasswordKept
  <1>16. CASE (\E w \in Workers : Dispatch(w)) \/ QueueFails
    BY <1>16, QueueStepKept
  <1> QED
    BY <1>2, <1>3, <1>4, <1>5, <1>6, <1>8, <1>9, <1>10, <1>11, <1>12, <1>13, <1>14, <1>15, <1>16 DEF Next

\* IInv is inductive: it holds initially and every step keeps it.
THEOREM InvariantTheorem == Spec => []IInv
  <1>1. Init => IInv
    BY InitIInv
  <1>2. IInv /\ [Next]_vars => IInv'
    BY NextKept DEF Kept
  <1> QED
    BY <1>1, <1>2, PTL DEF Spec

\* The type invariant of the Invitations, their accounts and their outbox.
THEOREM TypesTheorem == Spec => []TypeOK
  <1>1. IInv => TypeOK
    BY DEF IInv
  <1> QED
    BY <1>1, InvariantTheorem, PTL

\* Every Membership row of a person was given for one Invitation addressed to
\* him, no two for the same time between removals, and no reference or binding
\* names a deleted role, for any interleaving of administrators and recipients
\* (AcceptTenant, CreateInvitation, DeleteRole).
THEOREM HonouredTheorem == Spec => []InvitationsAreHonoured
  <1>1. IInv => InvitationsAreHonoured
    BY DEF IInv, PeopleInv, Honoured, InvitationsAreHonoured, JoinsAreInvited
  <1> QED
    BY <1>1, InvariantTheorem, PTL

\* The outbox holds the current token of every open Invitation and no other,
\* and no message is submitted more often than allowed, however many dispatchers
\* stop, lose their leases or answer late (clearInvitationReferences, Claim,
\* Finish).
THEOREM CurrentMessagesTheorem == Spec => []MessagesAreCurrent
  <1>1. IInv => MessagesAreCurrent
    <2> SUFFICES ASSUME IInv PROVE MessagesAreCurrent
      OBVIOUS
    <2>1. TypeOK /\ OutboxInv
      BY DEF IInv
    <2>2. ASSUME NEW d \in Deliveries PROVE submitted[d] <= MaxAttempts
      <3>1. IsFiniteSet(Holders(d)) /\ submitted[d] + Cardinality(Holders(d)) <= MaxAttempts
        BY <2>1 DEF OutboxInv, SubmissionsCounted
      <3>2. Cardinality(Holders(d)) \in Nat /\ submitted[d] \in Nat /\ MaxAttempts \in Nat
        BY <2>1, <3>1, FS_CardinalityType, RowTypes
      <3> QED
        BY <3>1, <3>2
    <2>3. \A d \in Deliveries : outbox[d].status = "delivered" => submitted[d] > 0
      BY <2>1 DEF OutboxInv, Reported
    <2>4. DeliveryIsAccountable
      BY <2>1, <2>2, <2>3, Zenon DEF OutboxInv, Sealed, DeliveryIsAccountable
    <2> QED
      BY <2>1, <2>4 DEF OutboxInv, MessagesAreCurrent
  <1> QED
    BY <1>1, InvariantTheorem, PTL

\* A message that was delivered or cancelled stays so, and a password verified
\* before it changed or was locked admits nobody and is not counted against its
\* successor, at every step (FinishIdentityNotification,
\* validateInvitationPassword, RecordInvitationPasswordFailure).
THEOREM LateResultsTheorem == Spec => LateResultsAreDropped
  <1>1. IInv /\ [Next]_vars => [\A d \in Deliveries :
          outbox[d].status \in Outbox!Settled => outbox'[d] = outbox[d]]_vars
    BY NextKept DEF Kept, StaysSettled
  <1>2. IInv /\ [Next]_vars => [\A p \in People :
          ( /\ proof[p] # NoProof /\ proof'[p] # proof[p]
            /\ joined'[p] # joined[p] \/ cred'[p].failures > cred[p].failures )
          => proof[p].hash = cred[p].hash /\ ~cred[p].locked]_vars
    BY NextKept DEF Kept, CurrentProof
  <1> QED
    BY <1>1, <1>2, InvariantTheorem, PTL DEF Spec, LateResultsAreDropped, SettledStaysSettled, ProofIsCurrent
=============================================================================
