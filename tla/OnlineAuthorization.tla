------------------------- MODULE OnlineAuthorization --------------------------
(***************************************************************************)
(* What the Gateway asks on every call: CheckPermission                    *)
(* (biz/authorization.go) and ValidatePrincipal                            *)
(* (biz/principal_validation.go), for an Access Token or an API Key.       *)
(*                                                                         *)
(* Nothing is locked: a request is a series of single statements, and the  *)
(* rows it reads may change between any two of them.  Only the last one    *)
(* reads everything in one statement.  The answer is given after the audit *)
(* event it needs was stored.  Requests share no state, so one is modelled *)
(* against all changes of the rows.  Operations of the Platform's scope go *)
(* to the Platform's evaluator (PlatformSessions).                         *)
(***************************************************************************)
EXTENDS Naturals, Sequences, SequencesExt

CONSTANTS
  Expiry,           \* when the presented credential expires
  MaxOnlineClock,   \* bound on time
  MaxFactChanges,   \* bound on changes of rows during a request
  LifecycleObservation \* data.lifecycleObservation: other services may ignore the lifecycle

ASSUME OnlineAssumption ==
  /\ {Expiry, MaxOnlineClock, MaxFactChanges} \subseteq Nat
  /\ LifecycleObservation \in BOOLEAN

VARIABLES
  facts,       \* what is true of the rows the request is about
  factChanges, \* changes made to them
  onlineClock, \* the clock of this process
  query,       \* the request
  keyUsed,     \* the API Key's use was observed
  decisions,   \* audit events stored for the request
  together     \* history: all the request needs was true at one of its instants

onlineVars == <<facts, factChanges, onlineClock, query, keyUsed, decisions, together>>

TenantFacts == {"access", "fresh", "lifecycle"}
OwnFacts == {"principal", "membership", "session", "grant", "version", "key", "permission"}
Holds(f) == f \in facts

\* Revoking a key, a Session or a Grant and raising a Grant's version is final.
Final == {"session", "grant", "version", "key"}

\* The order in which a missing fact is the reason of a denial.
TokenReasons == <<"principal", "membership", "access", "fresh", "lifecycle",
                  "session", "grant", "version", "permission">>
KeyReasons == <<"principal", "membership", "access", "fresh", "lifecycle", "permission">>

Policies == [token: BOOLEAN, key: BOOLEAN, iam: BOOLEAN, known: BOOLEAN]

Idle == [step |-> "idle", call |-> "check", credential |-> "none", proof |-> "good",
         home |-> TRUE, policy |-> [token |-> TRUE, key |-> TRUE, iam |-> TRUE, known |-> TRUE],
         start |-> 0, now |-> 0, answer |-> "none", actor |-> "anonymous",
         bound |-> FALSE, reason |-> "none"]

observationOnly == LifecycleObservation /\ ~query.policy.iam

\* What this request does not ask for.
Waived ==
  (IF observationOnly THEN {"fresh", "lifecycle"} ELSE {})
    \cup (IF query.call = "validate" THEN {"permission"} ELSE {})

FirstOutside(reasons, known) ==
  LET missing == SelectSeq(reasons, LAMBDA f : f \notin known)
  IN IF missing = <<>> THEN "none" ELSE Head(missing)

FirstMissing(reasons) == FirstOutside(reasons, facts \cup Waived)

Reasons == IF query.credential = "key" THEN KeyReasons ELSE TokenReasons

\* All that the answer "allowed" claims, at one instant.
AllHold ==
  /\ FirstMissing(Reasons) = "none"
  /\ query.credential = "key" => Holds("key")

OnlineInit ==
  /\ facts \in SUBSET (TenantFacts \cup OwnFacts)
  /\ factChanges = 0
  /\ onlineClock = 0
  /\ query = Idle
  /\ keyUsed = FALSE
  /\ decisions = {}
  /\ together = FALSE

-----------------------------------------------------------------------------
rest == <<facts, factChanges, onlineClock, together>>

Goto(step) == query' = [query EXCEPT !.step = step]

Reply(answer) ==
  query' = [query EXCEPT !.step = "answered", !.answer = answer]

\* The answer is given once its audit event is stored, in the Tenant's boundary
\* or, as long as no Tenant is proven, in that of anonymous Principals.
ReplyRecorded(answer, actor, bound, reason) ==
  query' = [query EXCEPT !.step = "record", !.answer = answer,
                         !.actor = actor, !.bound = bound, !.reason = reason]

recordPrincipalValidationFailure(actor, bound, reason) ==
  ReplyRecorded("invalid", actor, bound, reason)
recordAuthorizationAuthenticationFailure(reason) ==
  ReplyRecorded("invalid", "anonymous", FALSE, reason)
deny(reason) == ReplyRecorded("denied", "owner", TRUE, reason)
denyUnbound(reason) == ReplyRecorded("denied", "anonymous", FALSE, reason)
validatedPrincipalResult == ReplyRecorded("allowed", "owner", TRUE, "none")

\* A failed authentication before the credential is proven.
Unproven ==
  \/ query.call = "check" /\ recordAuthorizationAuthenticationFailure("credential")
  \/ query.call = "validate" /\ recordPrincipalValidationFailure("anonymous", FALSE, "credential")

ReceiveCheckPermission(credential, proof, home, policy) ==
  /\ query.step = "idle"
  /\ query' = [Idle EXCEPT !.step = "policy", !.credential = credential, !.proof = proof,
                           !.home = home, !.policy = policy, !.start = onlineClock]
  /\ UNCHANGED <<facts, factChanges, onlineClock, keyUsed, decisions>>
  /\ together' = AllHold'

ReceiveValidatePrincipal(credential, proof, policy) ==
  /\ query.step = "idle"
  /\ query' = [Idle EXCEPT !.step = "policy", !.call = "validate", !.credential = credential,
                           !.proof = proof, !.policy = policy, !.start = onlineClock]
  /\ UNCHANGED <<facts, factChanges, onlineClock, keyUsed, decisions>>
  /\ together' = AllHold'

\* A stale revision or an unknown operation is refused before the credential is
\* looked at.
RegisteredPolicy == query.policy.known
validatePrincipalPolicy == RegisteredPolicy
credentialKindAllowed ==
  IF query.credential = "key" THEN query.policy.key ELSE query.policy.token

StartReading ==
  /\ credentialKindAllowed
  /\ Goto(IF query.credential = "key" THEN "boundary" ELSE "verify")

CheckPermission ==
  /\ query.step = "policy" /\ query.call = "check"
  /\ \/ ~RegisteredPolicy /\ Reply("refused")
     \/ RegisteredPolicy /\ query.credential = "none" /\ Unproven
     \/ /\ RegisteredPolicy /\ query.credential # "none"
        /\ \/ StartReading
           \/ ~credentialKindAllowed /\ denyUnbound("kind")
  /\ UNCHANGED <<rest, keyUsed, decisions>>

ValidatePrincipal ==
  /\ query.step = "policy" /\ query.call = "validate"
  /\ \/ ~validatePrincipalPolicy /\ Reply("refused")
     \/ validatePrincipalPolicy /\ query.credential = "none" /\ Unproven
     \/ /\ validatePrincipalPolicy /\ query.credential # "none"
        /\ \/ StartReading
           \/ ~credentialKindAllowed /\ recordPrincipalValidationFailure("anonymous", FALSE, "kind")
  /\ UNCHANGED <<rest, keyUsed, decisions>>

(***************************************************************************)
(* Access Tokens.                                                          *)
(***************************************************************************)
\* The codec checks signature, issuer, claims and lifetime by its own clock.
Verify == query.proof = "good" /\ onlineClock < Expiry

\* A Platform token is genuine and has no Tenant: CheckPermission refuses it
\* without an audit event, ValidatePrincipal with one.
VerifyToken ==
  /\ query.step = "verify"
  /\ \/ ~Verify /\ Unproven
     \/ /\ Verify /\ query.credential = "platform"
        /\ \/ query.call = "check" /\ Reply("invalid")
           \/ query.call = "validate" /\ recordPrincipalValidationFailure("anonymous", FALSE, "credential")
     \/ /\ Verify /\ query.credential = "token"
        /\ \/ ~query.home /\ deny("tenant")
           \/ query.home /\ Goto("access")
  /\ UNCHANGED <<rest, keyUsed, decisions>>

(***************************************************************************)
(* API Keys: the boundary names the Tenant, then the secret is compared    *)
(* and the key's status read a first time.                                 *)
(***************************************************************************)
ParseAPIKeyCredential == query.proof # "malformed"
FoundBoundary == query.proof # "unknown"

GetAPIKeyBoundary ==
  /\ query.step = "boundary"
  /\ \/ ~(ParseAPIKeyCredential /\ FoundBoundary) /\ Unproven
     \/ /\ ParseAPIKeyCredential /\ FoundBoundary
        /\ query' = [query EXCEPT !.step = "credential", !.now = onlineClock]
  /\ UNCHANGED <<rest, keyUsed, decisions>>

SecretMatches == query.proof = "good"
ReadAPIKeyStatus == Holds("key")
KeyUsable == ReadAPIKeyStatus /\ query.now < Expiry

LookupAPIKeyCredential ==
  /\ query.step = "credential"
  /\ \/ ~(SecretMatches /\ KeyUsable) /\ Unproven
     \/ SecretMatches /\ KeyUsable /\ Goto("access")
  /\ UNCHANGED <<rest, keyUsed, decisions>>

(***************************************************************************)
(* LookupAuthorization and LookupAPIKeyAuthorization: Tenant Access, then  *)
(* the lifecycle's freshness, then one statement for all the rest.  The    *)
(* Tenant was initialized when the credential was issued, so it has a row. *)
(***************************************************************************)
GetTenantAccessStatusForAuthorization ==
  /\ query.step = "access"
  /\ Goto("fresh")
  /\ UNCHANGED <<rest, keyUsed, decisions>>

\* ErrTenantLifecycleStale: CheckPermission takes it for an unavailable
\* dependency, ValidatePrincipal for a failure of the Tenant's credential.
LifecycleStale ==
  \/ query.call = "check" /\ Reply("unavailable")
  \/ /\ query.call = "validate"
     /\ recordPrincipalValidationFailure(
          IF query.credential = "key" THEN "owner" ELSE "anonymous", TRUE, "fresh")

FreshEnough == observationOnly \/ Holds("fresh")

GetTenantLifecycleFreshnessForAuthorization ==
  /\ query.step = "fresh"
  /\ \/ ~FreshEnough /\ LifecycleStale
     \/ FreshEnough /\ Goto("row")
  /\ UNCHANGED <<rest, keyUsed, decisions>>

\* Mutant: the Grant's version is not compared with the token's.
AnyVersion == FirstMissing(SelectSeq(TokenReasons, LAMBDA f : f # "version"))

authorizationDenialReason == FirstMissing(TokenReasons)
apiKeyAuthorizationDenialReason == FirstMissing(KeyReasons)
validateAccessTokenPrincipalState == FirstMissing(TokenReasons)
validateAPIKeyPrincipalState == FirstMissing(KeyReasons)

LookupAuthorization ==
  /\ query.step = "row" /\ query.credential = "token"
  /\ \/ ~FreshEnough /\ LifecycleStale
     \/ /\ FreshEnough /\ query.call = "check"
        /\ \/ authorizationDenialReason # "none" /\ deny(authorizationDenialReason)
           \/ authorizationDenialReason = "none" /\ Reply("allowed")
     \/ /\ FreshEnough /\ query.call = "validate"
        /\ \/ /\ validateAccessTokenPrincipalState # "none"
              /\ recordPrincipalValidationFailure("owner", TRUE, validateAccessTokenPrincipalState)
           \/ /\ validateAccessTokenPrincipalState = "none"
              /\ validatedPrincipalResult
  /\ UNCHANGED <<rest, keyUsed, decisions>>

StillUsable == KeyUsable

KeyDenial == IF query.home THEN apiKeyAuthorizationDenialReason ELSE "tenant"

LookupAPIKeyAuthorization ==
  /\ query.step = "row" /\ query.credential = "key"
  /\ \/ ~FreshEnough /\ LifecycleStale
     \/ FreshEnough /\ ~StillUsable /\ Unproven
     \/ /\ FreshEnough /\ StillUsable /\ query.call = "check"
        /\ \/ KeyDenial # "none" /\ deny(KeyDenial)
           \/ KeyDenial = "none" /\ Goto("observe")
     \/ /\ FreshEnough /\ StillUsable /\ query.call = "validate"
        /\ \/ /\ validateAPIKeyPrincipalState # "none"
              /\ recordPrincipalValidationFailure("owner", TRUE, validateAPIKeyPrincipalState)
           \/ validateAPIKeyPrincipalState = "none" /\ Goto("observe")
  /\ UNCHANGED <<rest, keyUsed, decisions>>

ObserveUse ==
  /\ query.step = "observe"
  /\ keyUsed' = TRUE
  /\ \/ query.call = "check" /\ Reply("allowed")
     \/ query.call = "validate" /\ validatedPrincipalResult
  /\ UNCHANGED <<rest, decisions>>

(***************************************************************************)
(* The audit event, in the Tenant's or the anonymous Principal boundary.   *)
(***************************************************************************)
principalValidationAuditEvent ==
  [result |-> query.answer, actor |-> query.actor, bound |-> query.bound, reason |-> query.reason]

AppendSecurityAuditEvent ==
  /\ query.bound /\ query.actor = "owner"
  /\ decisions' = decisions \cup {principalValidationAuditEvent}

appendAnonymousTenantAudit ==
  /\ query.bound /\ query.actor = "anonymous"
  /\ decisions' = decisions \cup {principalValidationAuditEvent}

appendAnonymousPrincipalAudit ==
  /\ ~query.bound
  /\ decisions' = decisions \cup {[principalValidationAuditEvent EXCEPT !.actor = "anonymous"]}

RecordTenantPrincipalValidation ==
  query.call = "validate" /\ (AppendSecurityAuditEvent \/ appendAnonymousTenantAudit)
RecordUnboundPrincipalValidation == query.call = "validate" /\ appendAnonymousPrincipalAudit
RecordDeniedAuthorization ==
  query.call = "check" /\ (AppendSecurityAuditEvent \/ appendAnonymousTenantAudit)
RecordUnboundAuthorization == query.call = "check" /\ appendAnonymousPrincipalAudit

StoreEvent ==
  \/ RecordTenantPrincipalValidation \/ RecordUnboundPrincipalValidation
  \/ RecordDeniedAuthorization \/ RecordUnboundAuthorization

RecordDecision ==
  /\ query.step = "record"
  /\ StoreEvent
  /\ Goto("answered")
  /\ UNCHANGED <<rest, keyUsed>>

\* A statement fails, or is executed and its answer lost.
StatementFails ==
  /\ query.step \in {"boundary", "credential", "access", "fresh", "row", "observe", "record"}
  /\ query' = [query EXCEPT !.step = "answered", !.answer = "unavailable"]
  /\ \/ UNCHANGED <<keyUsed, decisions>>
     \/ query.step = "observe" /\ keyUsed' = TRUE /\ UNCHANGED decisions
     \/ query.step = "record" /\ StoreEvent /\ UNCHANGED keyUsed
  /\ UNCHANGED rest

(***************************************************************************)
(* The rows' owners and time.                                              *)
(***************************************************************************)
FactChanges(f) ==
  /\ query.step \notin {"idle", "record", "answered"}
  /\ query.credential = "key" => f \in ToSet(KeyReasons) \cup {"key"}
  /\ query.credential = "token" => f \in ToSet(TokenReasons)
  /\ factChanges < MaxFactChanges
  /\ f \in Final => Holds(f)
  /\ facts' = IF Holds(f) THEN facts \ {f} ELSE facts \cup {f}
  /\ factChanges' = factChanges + 1
  /\ UNCHANGED <<onlineClock, query, keyUsed, decisions>>
  /\ together' = (together \/ AllHold')

TimePasses ==
  /\ query.step # "answered" /\ onlineClock < MaxOnlineClock
  /\ onlineClock' = onlineClock + 1
  /\ UNCHANGED <<facts, factChanges, query, keyUsed, decisions, together>>

TokenSteps ==
  \/ VerifyToken \/ LookupAuthorization
  \/ /\ query.credential = "token"
     /\ GetTenantAccessStatusForAuthorization \/ GetTenantLifecycleFreshnessForAuthorization

KeySteps ==
  \/ GetAPIKeyBoundary \/ LookupAPIKeyCredential \/ LookupAPIKeyAuthorization \/ ObserveUse
  \/ /\ query.credential = "key"
     /\ GetTenantAccessStatusForAuthorization \/ GetTenantLifecycleFreshnessForAuthorization

checkAccessToken == query.call = "check" /\ TokenSteps
checkAPIKey == query.call = "check" /\ KeySteps
validateAccessTokenPrincipal == query.call = "validate" /\ TokenSteps
validateAPIKeyPrincipal == query.call = "validate" /\ KeySteps

OnlineNext ==
  \/ \E c \in {"token", "platform", "key", "none"}, p \in {"good", "wrong", "unknown", "malformed"},
        home \in BOOLEAN, policy \in Policies :
       ReceiveCheckPermission(c, p, home, policy) \/ ReceiveValidatePrincipal(c, p, policy)
  \/ CheckPermission \/ ValidatePrincipal
  \/ checkAPIKey \/ validateAPIKeyPrincipal \/ validateAccessTokenPrincipal \/ checkAccessToken
  \/ RecordDecision \/ StatementFails
  \/ \E f \in TenantFacts \cup OwnFacts : FactChanges(f)
  \/ TimePasses

OnlineSpec == OnlineInit /\ [][OnlineNext]_onlineVars

-----------------------------------------------------------------------------
Answers == {"none", "allowed", "denied", "invalid", "refused", "unavailable"}

\* The request and what it leaves behind have their types.
OnlineTypeOK ==
  /\ facts \subseteq TenantFacts \cup OwnFacts
  /\ query.answer \in Answers
  /\ query.step = "answered" => query.answer # "none"
  /\ keyUsed \in BOOLEAN
  /\ \A d \in decisions : d.result \in Answers \ {"none"}

\* Whatever is revoked, suspended or granted between the statements of a
\* request, "allowed" (and a validation stored as one) means that everything it
\* claims was true at ONE instant since the request came in, for the caller's
\* own Tenant, and that the credential had not expired when it came in.
AllowedAtOneInstant ==
  (query.answer = "allowed" \/ \E d \in decisions : d.result = "allowed") =>
    /\ together
    /\ query.proof = "good" /\ query.home /\ query.start < Expiry

\* No answer about a Tenant's credential leaves without the audit event that
\* records it, an allowed CheckPermission excepted, which for an API Key is
\* observed as a use instead.
AnswersAreRecorded ==
  query.step = "answered" =>
    /\ (\/ query.answer = "denied"
        \/ query.answer = "invalid" /\ query.credential # "platform"
        \/ query.answer = "allowed" /\ query.call = "validate")
       => principalValidationAuditEvent \in decisions
    /\ query.answer = "allowed" /\ query.credential = "key" => keyUsed

\* An event is put to the credential's owner or to its Tenant only when the
\* caller proved to hold an unexpired credential: nobody is blamed for a guess
\* that used the name of their key.
BlameIsProven ==
  \A d \in decisions : d.actor = "owner" \/ d.bound =>
    query.proof = "good" /\ query.start < Expiry /\ query.credential \in {"token", "key"}

\* An answer was true at one instant, is on record, and blames nobody unproven
\* (ValidatePrincipal, CheckPermission).
AnswersAreSound ==
  OnlineTypeOK /\ AllowedAtOneInstant /\ AnswersAreRecorded /\ BlameIsProven
=============================================================================
