--------------------------- MODULE MCInvitations ---------------------------
EXTENDS Invitations, TLC

Symmetry == Permutations(People) \cup Permutations(Invites) \cup Permutations(Workers)
              \cup Permutations(Keys)

NewCredential == [hash |-> 1, failures |-> 0, locked |-> FALSE]

\* Nobody claims a message yet, and one person at most uses a password.
Unclaimed ==
  /\ \A d \in Deliveries : outbox[d].attempt = 0
  /\ \A p, q \in People : p # q =>
       \E x \in {p, q} : proof[x] = NoProof /\ cred[x] = NewCredential

\* One Invitation, and nobody uses a password or a Session.
NoAccounts ==
  /\ Cardinality({i \in Invites : inv[i].status # "absent"}) <= 1
  /\ open /\ sessions = {} /\ roles = CustomRoles
  /\ \A p \in People : proof[p] = NoProof /\ cred[p] = NewCredential

\* The union of two explorations, not their product: recipients and
\* administrators, and administrators and dispatchers.
Scenarios == Unclaimed \/ NoAccounts
=============================================================================
