----------------------------- MODULE OIDCFlows -----------------------------
(***************************************************************************)
(* Logging in with, and linking, an identity of an OIDC provider, in a     *)
(* Tenant (console) and on the Platform (boss).                            *)
(*                                                                         *)
(* A flow is begun, spends its operation when the browser comes back,      *)
(* exchanges the code at the provider and ends in a transaction: four      *)
(* steps with the world moving between them.  A state stands for itself,   *)
(* its nonce and its code verifier, which are made and kept together; a    *)
(* subject for its issuer and subject.                                     *)
(*                                                                         *)
(* A seat is a Session with its Grant; what ends and ages it is in the     *)
(* modules of Sessions.                                                    *)
(***************************************************************************)
EXTENDS Naturals, FiniteSets

CONSTANTS
  Humans,     \* people with a verified email
  Subjects,   \* identities at the provider
  States,     \* state secrets
  OIDCKeys,   \* idempotency keys of Begin
  Seats,      \* Sessions that may link an identity
  NoOne       \* no value

Boundaries == {"tenant", "platform"}

VARIABLES
  operation, \* the operation store in Redis
  code,      \* authorization codes the provider has issued and not seen again
  flow,      \* completions in flight
  identity,  \* identities: the person a subject is linked to
  email,     \* the person whose verified email the provider vouches for
  seat,      \* the Sessions
  enters,    \* people whose Membership, Tenant and lifecycle let them in
  done       \* completions: the login Sessions and identities made

oidcVars == <<operation, code, flow, identity, email, seat, enters, done>>

OIDCOperation ==
  [status : {"unused", "stored", "gone"}, kind : {"login", "identity_link"},
   boundary : Boundaries, key : OIDCKeys \cup {NoOne}, seat : Seats \cup {NoOne},
   version : 0..2, proof : BOOLEAN]
Claims == [seat : Seats \cup {NoOne}, version : 0..2]
Flow == [state : States, kind : {"login", "identity_link"}, boundary : Boundaries,
         claims : Claims, subject : Subjects \cup {NoOne}, from : States \cup {NoOne}]
SeatRow == [person : Humans, boundary : Boundaries, active : BOOLEAN, version : 1..2,
            fresh : BOOLEAN, live : BOOLEAN]
Completed == [state : States, from : States, kind : {"login", "identity_link"},
              subject : Subjects, person : Humans, times : 1..2]

OIDCTypeOK ==
  /\ operation \in [States -> OIDCOperation]
  /\ code \subseteq [state : States, subject : Subjects]
  /\ flow \subseteq Flow
  /\ identity \in [Subjects -> Humans \cup {NoOne}]
  /\ email \in [Subjects -> Humans]
  /\ seat \in [Seats -> SeatRow]
  /\ enters \subseteq Humans
  /\ done \subseteq Completed

OIDCInit ==
  /\ operation = [st \in States |->
       [status |-> "unused", kind |-> "login", boundary |-> "tenant", key |-> NoOne,
        seat |-> NoOne, version |-> 0, proof |-> FALSE]]
  /\ code = {} /\ flow = {} /\ done = {}
  /\ email \in [Subjects -> Humans]
  /\ \E linked \in SUBSET Subjects :
       identity = [x \in Subjects |-> IF x \in linked THEN email[x] ELSE NoOne]
  /\ seat \in [Seats -> [person : Humans, boundary : Boundaries, active : {TRUE},
                         version : {1}, fresh : {TRUE}, live : {TRUE}]]
  /\ enters = Humans

-----------------------------------------------------------------------------
(* Begin. *)

Stored == {st \in States : operation[st].status = "stored"}

\* A key in use answers with its operation, or is a conflict.
CreateOrGet(st, o) ==
  /\ operation[st].status = "unused"
  /\ \A x \in Stored : operation[x].key # o.key
  /\ operation' = [operation EXCEPT ![st] = o]

LoginOperation(b, k) ==
  [status |-> "stored", kind |-> "login", boundary |-> b, key |-> k,
   seat |-> NoOne, version |-> 0, proof |-> FALSE]

BeginLogin(st, k) == CreateOrGet(st, LoginOperation("tenant", k))

BossBeginLogin(st, k) == CreateOrGet(st, LoginOperation("platform", k))

\* The audience chooses the flow.
HumanBeginLogin(st, k) ==
  /\ BeginLogin(st, k) \/ BossBeginLogin(st, k)
  /\ UNCHANGED <<code, flow, identity, email, seat, enters, done>>

\* The row of an unexpired Session whose person may enter, if there is one.
OIDCReauthenticationRow(s) == {row \in {seat[s]} : row.person \in enters}

LookupOIDCReauthentication(c) == {row \in OIDCReauthenticationRow(c.seat) : row.boundary = "tenant"}

\* The Session and Grant are those of the credential and active, and the
\* Session was entered recently.
validOIDCReauthentication(c, row) == row.active /\ row.version = c.version /\ row.fresh

validateIdentityLinkClaims(c) ==
  \E row \in LookupOIDCReauthentication(c) : row.live /\ validOIDCReauthentication(c, row)

\* The claims of an unexpired credential of the Platform.
BossClaims(c) == seat[c.seat].live /\ seat[c.seat].boundary = "platform"

\* The authorization is current and the Session was entered recently.
BossCurrent(c, row) == row.active /\ row.version = c.version /\ row.fresh

BossValidate(c) == BossClaims(c) /\ \E row \in OIDCReauthenticationRow(c.seat) : BossCurrent(c, row)

ClaimsOf(s) == [seat |-> s, version |-> seat[s].version]

LinkOperation(s, k, browser) ==
  [status |-> "stored", kind |-> "identity_link", boundary |-> seat[s].boundary,
   key |-> k, seat |-> s, version |-> seat[s].version, proof |-> browser]

\* Only who creates the operation gets its browser proof.
BeginIdentityLink(st, s, k, browser) ==
  validateIdentityLinkClaims(ClaimsOf(s)) /\ CreateOrGet(st, LinkOperation(s, k, browser))

BossBeginIdentityLink(st, s, k, browser) ==
  BossValidate(ClaimsOf(s)) /\ CreateOrGet(st, LinkOperation(s, k, browser))

HumanBeginIdentityLink(st, s, k, browser) ==
  /\ BeginIdentityLink(st, s, k, browser) \/ BossBeginIdentityLink(st, s, k, browser)
  /\ UNCHANGED <<code, flow, identity, email, seat, enters, done>>

\* The provider authenticates somebody and issues a code for the request it
\* was sent.
AuthorizationURL(st, x) ==
  /\ st \in Stored
  /\ [state |-> st, subject |-> x] \notin code
  /\ code' = code \cup {[state |-> st, subject |-> x]}
  /\ UNCHANGED <<operation, flow, identity, email, seat, enters, done>>

-----------------------------------------------------------------------------
(* Complete. *)

\* The operation and its key leave the store together.
Consume(st) ==
  /\ st \in Stored
  /\ operation' = [operation EXCEPT ![st].status = "gone"]

NewFlow(st, claims) ==
  [state |-> st, kind |-> operation[st].kind, boundary |-> operation[st].boundary,
   claims |-> claims, subject |-> NoOne, from |-> NoOne]

\* The redirect chooses the boundary and the kind; an operation of another is
\* spent in vain.
validOperation(st, kind, b) == operation[st].kind = kind /\ operation[st].boundary = b

SpentByLogin(st, b) ==
  IF validOperation(st, "login", b) THEN {NewFlow(st, [seat |-> NoOne, version |-> 0])} ELSE {}

CompleteLogin(st) == Consume(st) /\ flow' = flow \cup SpentByLogin(st, "tenant")

BossCompleteLogin(st) == Consume(st) /\ flow' = flow \cup SpentByLogin(st, "platform")

HumanCompleteLogin(st) ==
  /\ CompleteLogin(st) \/ BossCompleteLogin(st)
  /\ UNCHANGED <<code, identity, email, seat, enters, done>>

\* A credential is validated before the operation is spent, and has to be of
\* the Session and Grant that began.
PresentCredential(st, b, s) ==
  /\ seat[s].boundary = b
  /\ Consume(st)
  /\ flow' = IF /\ validOperation(st, "identity_link", b)
                /\ operation[st].seat = s /\ operation[st].version = seat[s].version
             THEN flow \cup {NewFlow(st, ClaimsOf(s))} ELSE flow

\* A browser proof stands for the credential that began, and is validated
\* after the operation is spent.
PresentBrowserProof(st, b, right, Valid(_)) ==
  LET o == operation[st]
      c == [seat |-> o.seat, version |-> o.version]
  IN /\ Consume(st)
     /\ flow' = IF validOperation(st, "identity_link", b) /\ o.proof /\ right /\ Valid(c)
                THEN flow \cup {NewFlow(st, c)} ELSE flow

CompleteIdentityLink(st) ==
  \/ \E s \in Seats : validateIdentityLinkClaims(ClaimsOf(s)) /\ PresentCredential(st, "tenant", s)
  \/ \E right \in BOOLEAN : PresentBrowserProof(st, "tenant", right, validateIdentityLinkClaims)

BossCompleteIdentityLink(st) ==
  \/ \E s \in Seats : BossValidate(ClaimsOf(s)) /\ PresentCredential(st, "platform", s)
  \/ \E right \in BOOLEAN : PresentBrowserProof(st, "platform", right, BossValidate)

HumanCompleteIdentityLink(st) ==
  /\ CompleteIdentityLink(st) \/ BossCompleteIdentityLink(st)
  /\ UNCHANGED <<code, identity, email, seat, enters, done>>

\* The code was issued for the nonce and the code challenge of this flow.
ExchangeAndVerify(f, c) == c.state = f.state

OIDCLoginState(x) == identity[x]

\* The identity is its owner's, who may enter.
LookupOIDCLogin(x) == OIDCLoginState(x) = email[x] /\ OIDCLoginState(x) \in enters

\* A flow that is denied is only audited, under whatever boundary it is in.
recordOIDCLoginFailure(f) == flow' = flow \ {f}

recordOIDCIdentityLinkFailure(f) == flow' = flow \ {f}

\* The exchange spends the code; a login looks its identity up afterwards.
ExchangeCode(f, c) ==
  /\ f.subject = NoOne
  /\ code' = code \ {c}
  /\ IF ExchangeAndVerify(f, c) /\ (f.kind = "login" => LookupOIDCLogin(c.subject))
     THEN flow' = (flow \ {f}) \cup {[f EXCEPT !.subject = c.subject, !.from = c.state]}
     ELSE IF f.kind = "login" THEN recordOIDCLoginFailure(f) ELSE recordOIDCIdentityLinkFailure(f)
  /\ UNCHANGED <<operation, identity, email, seat, enters, done>>

\* The provider does not answer, or the process stops: the operation is spent.
classifyOIDCProviderExchangeError(f) ==
  /\ f.subject = NoOne
  /\ recordOIDCLoginFailure(f)
  /\ UNCHANGED <<operation, code, identity, email, seat, enters, done>>

Times(f) == 1 + Cardinality({d \in done : d.state = f.state})

CompletedFlow(f, p) ==
  [state |-> f.state, from |-> f.from, kind |-> f.kind, subject |-> f.subject, person |-> p,
   times |-> Times(f)]

\* Mutant: what was looked up before is what counts.
LookedUp(f) == identity[f.subject] # NoOne

LockOIDCLoginAuthentication(f) ==
  identity[f.subject] = email[f.subject] /\ identity[f.subject] \in enters

\* The Session, its Grant, Family and token, as one.
createOIDCSessionGraph(f) == done' = done \cup {CompletedFlow(f, identity[f.subject])}

CommitOIDCLogin(f) ==
  /\ f.kind = "login" /\ f.subject # NoOne
  /\ IF LockOIDCLoginAuthentication(f) THEN createOIDCSessionGraph(f) ELSE UNCHANGED done
  /\ flow' = flow \ {f}
  /\ UNCHANGED <<operation, code, identity, email, seat, enters>>

\* When the credential runs out and how recently the Session was entered were
\* compared with the time the completion began.
LockOIDCLinkAuthentication(f) ==
  LET row == seat[f.claims.seat]
  IN row.active /\ row.version = f.claims.version /\ row.person \in enters

\* The Platform compares both again.
LockPlatformIdentityLinkAuthentication(f) ==
  LockOIDCLinkAuthentication(f) /\ BossClaims(f.claims) /\ BossCurrent(f.claims, seat[f.claims.seat])

LookupVerifiedEmailOwner(x) == email[x]

LookupOIDCIdentityOwner(x) == identity[x]

\* The verified email of the identity is that of the person who links it, and
\* the identity is nobody's, not even his.
MayLink(f) ==
  /\ LookupVerifiedEmailOwner(f.subject) = seat[f.claims.seat].person
  /\ LookupOIDCIdentityOwner(f.subject) = NoOne

CreateOIDCIdentity(x, p) == identity' = [identity EXCEPT ![x] = p]

\* The link or the audit of its denial, and the end of the flow.
EndLink(f, may) ==
  LET p == seat[f.claims.seat].person
  IN /\ f.kind = "identity_link" /\ f.subject # NoOne
     /\ IF may
        THEN CreateOIDCIdentity(f.subject, p) /\ done' = done \cup {CompletedFlow(f, p)}
        ELSE UNCHANGED <<identity, done>>
     /\ recordOIDCIdentityLinkFailure(f)
     /\ UNCHANGED <<operation, code, email, seat, enters>>

LinkOIDCIdentity(f) ==
  f.boundary = "tenant" /\ EndLink(f, LockOIDCLinkAuthentication(f) /\ MayLink(f))

\* Under the lock of the Platform's administration.
WithinPlatformIdentityLink(f) ==
  f.boundary = "platform" /\ EndLink(f, LockPlatformIdentityLinkAuthentication(f) /\ MayLink(f))

-----------------------------------------------------------------------------
(* The world. *)

\* The operation and its key run out together.
OperationExpires(st) ==
  /\ st \in Stored
  /\ operation' = [operation EXCEPT ![st].status = "gone"]
  /\ UNCHANGED <<code, flow, identity, email, seat, enters, done>>

SeatMoves(s) ==
  /\ \/ seat[s].active /\ seat' = [seat EXCEPT ![s].active = FALSE, ![s].version = 2]
     \/ seat[s].version = 1 /\ seat' = [seat EXCEPT ![s].version = 2]
     \/ seat[s].fresh /\ seat' = [seat EXCEPT ![s].fresh = FALSE]
     \/ seat[s].live /\ seat' = [seat EXCEPT ![s].live = FALSE]
  /\ UNCHANGED <<operation, code, flow, identity, email, enters, done>>

HumanSuspended(p) ==
  /\ p \in enters
  /\ enters' = enters \ {p}
  /\ UNCHANGED <<operation, code, flow, identity, email, seat, done>>

OIDCNext ==
  \/ \E st \in States :
       \/ OperationExpires(st) \/ HumanCompleteIdentityLink(st) \/ HumanCompleteLogin(st)
       \/ \E k \in OIDCKeys : HumanBeginLogin(st, k)
       \/ \E s \in Seats, k \in OIDCKeys, browser \in BOOLEAN : HumanBeginIdentityLink(st, s, k, browser)
       \/ \E x \in Subjects : AuthorizationURL(st, x)
  \/ \E f \in flow :
       \/ classifyOIDCProviderExchangeError(f) \/ CommitOIDCLogin(f) \/ LinkOIDCIdentity(f)
       \/ WithinPlatformIdentityLink(f)
       \/ \E c \in code : ExchangeCode(f, c)
  \/ \E s \in Seats : SeatMoves(s)
  \/ \E p \in Humans : HumanSuspended(p)

OIDCSpec == OIDCInit /\ [][OIDCNext]_oidcVars

-----------------------------------------------------------------------------
(* What the flows promise. *)

\* A state leads to one Session or one identity at most, however often the
\* browser comes back with it, and to none after it came back to the wrong
\* redirect.
StatesAreSpentOnce ==
  /\ \A d \in done : d.times = 1
  /\ \A f \in flow : operation[f.state].status = "gone" /\ \A d \in done : d.state # f.state

\* Flows of different browsers do not mix: what a flow made came from the code
\* that the provider issued for it.
CodesStayWithTheirFlow == \A d \in done : d.from = d.state

\* A key stands for one operation at a time: repeating Begin after a lost
\* answer does not leave a second one behind.
OneOperationPerKey ==
  \A x, y \in Stored : operation[x].key = operation[y].key => x = y

\* An identity is linked by a Session that is current when the link is made,
\* not only when the flow began or the browser came back.
LinksAreCurrent ==
  [][\A x \in Subjects : identity[x] # identity'[x] =>
       /\ identity[x] = NoOne
       /\ \E s \in Seats, f \in flow :
            /\ f.claims.seat = s /\ f.subject = x /\ f \notin flow'
            /\ seat[s].active /\ seat[s].version = operation[f.state].version
            /\ identity'[x] = seat[s].person]_oidcVars

\* An identity belongs to the person whose verified email it carries: nobody
\* links the identity of somebody else, or one that would let him in as two.
IdentitiesFollowEmails == \A x \in Subjects : identity[x] \in {NoOne, email[x]}

\* A login Session is made for a person who may enter at that moment, though
\* he was looked up before.
LoginsAreCurrent ==
  [][\A d \in done' \ done : d.kind = "login" => d.person = identity[d.subject] /\ d.person \in enters]_oidcVars

\* A flow ends in at most one Session or link, of the browser and the person it
\* began with, by rows that are current when it commits.
FlowsAreSafe ==
  /\ [](OIDCTypeOK /\ StatesAreSpentOnce /\ CodesStayWithTheirFlow /\ OneOperationPerKey
          /\ IdentitiesFollowEmails)
  /\ LinksAreCurrent /\ LoginsAreCurrent
=============================================================================
