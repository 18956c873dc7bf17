-------------------------- MODULE CredentialsProofs --------------------------
(***************************************************************************)
(* What is proved of online authorization, of the limits on logins and     *)
(* calls, of OIDC flows, of accounts and their passwords and of paged      *)
(* lists, for any number of people, keys, clients, states, operations,     *)
(* dispatchers and readers.                                                *)
(***************************************************************************)
EXTENDS InvitedAccounts, OIDCFlows, Throttles, OnlineAuthorization, Listings,
        FiniteSetTheorems, TLAPS

(***************************************************************************)
(* Online authorization.                                                   *)
(***************************************************************************)
QueryFields == {"step", "call", "credential", "proof", "home", "policy", "start", "now",
                "answer", "actor", "bound", "reason"}

\* The caller proved to hold an unexpired credential.
Proven ==
  query.proof = "good" /\ query.start < Expiry /\ query.credential \in {"token", "key"}

QueryOK ==
  /\ DOMAIN query = QueryFields
  /\ facts \subseteq TenantFacts \cup OwnFacts /\ keyUsed \in BOOLEAN
  /\ onlineClock \in Nat /\ query.start \in Nat /\ query.now \in Nat /\ query.start <= onlineClock
  /\ query.answer \in Answers /\ query.actor \in {"owner", "anonymous"} /\ query.bound \in BOOLEAN
  /\ query.answer = "none" <=> query.step \notin {"record", "answered"}
  /\ query.call \in {"check", "validate"} /\ (query.call = "validate" => query.home)
  /\ query.step = "idle" => decisions = {}

\* What was proven by each step of a request.
StepsKnow ==
  /\ query.step \in {"boundary", "credential", "observe"} => query.credential = "key"
  /\ query.step = "credential" \/ (query.step \in {"access", "fresh", "row"} /\ query.credential = "key")
       => query.start <= query.now
  /\ query.step \in {"access", "fresh", "row", "observe"} => Proven
  /\ query.step \in {"access", "fresh", "row"} /\ query.credential = "token" => query.home
  /\ query.step = "observe" => together /\ query.home
  /\ query.step = "record" =>
       /\ query.answer \in {"allowed", "denied", "invalid"}
       /\ query.actor = "owner" \/ query.bound => Proven
       /\ query.actor = "owner" => query.bound

\* All the request needs holds now only if the history says so.
TogetherIsKept == query.step # "idle" /\ AllHold => together

AllowedIsKept ==
  /\ query.answer = "allowed" => together /\ Proven /\ query.home /\ (query.credential = "key" => keyUsed)
  /\ \A d \in decisions :
       /\ d.result \in Answers \ {"none"}
       /\ d.actor = "owner" \/ d.bound => Proven
       /\ d.result = "allowed" => together /\ Proven /\ query.home

OnlineInv == QueryOK /\ StepsKnow /\ TogetherIsKept /\ AllowedIsKept /\ AnswersAreRecorded

LEMMA OnlineBounds == Expiry \in Nat
  BY OnlineAssumption

LEMMA OnlineInitially == OnlineInit => OnlineInv
  <1> SUFFICES ASSUME OnlineInit PROVE OnlineInv
    OBVIOUS
  <1>1. /\ query.step = "idle" /\ query.answer = "none" /\ query.call = "check" /\ query.home = TRUE
        /\ query.start = 0 /\ query.now = 0 /\ query.actor = "anonymous" /\ query.bound = FALSE
        /\ query.credential = "none" /\ DOMAIN query = QueryFields
    BY DEF OnlineInit, Idle, QueryFields
  <1>2. QueryOK
    <2>1. /\ facts \subseteq TenantFacts \cup OwnFacts /\ keyUsed \in BOOLEAN /\ onlineClock = 0 /\ decisions = {}
      BY DEF OnlineInit
    <2>2. query.answer \in Answers
      BY <1>1 DEF Answers
    <2>3. /\ query.actor \in {"owner", "anonymous"} /\ query.bound \in BOOLEAN
          /\ (query.call = "validate" => query.home) /\ query.call \in {"check", "validate"}
      BY <1>1
    <2>4. query.answer = "none" <=> query.step \notin {"record", "answered"}
      BY <1>1
    <2>5. onlineClock \in Nat /\ query.start \in Nat /\ query.now \in Nat /\ query.start <= onlineClock
      BY <1>1, <2>1
    <2> QED
      BY <1>1, <2>1, <2>2, <2>3, <2>4, <2>5, Zenon DEF QueryOK
  <1> QED
    BY <1>1, <1>2 DEF OnlineInv, OnlineInit, StepsKnow, TogetherIsKept, AllowedIsKept, AnswersAreRecorded

\* What a step of the request leaves as it is.
Same ==
  /\ query'.call = query.call /\ query'.credential = query.credential /\ query'.proof = query.proof
  /\ query'.home = query.home /\ query'.policy = query.policy /\ query'.start = query.start
  /\ DOMAIN query' = QueryFields

LEMMA GotoKeeps ==
  ASSUME QueryOK, NEW step, Goto(step)
  PROVE  /\ Same /\ query'.step = step /\ query'.now = query.now /\ query'.answer = query.answer
         /\ query'.actor = query.actor /\ query'.bound = query.bound /\ query'.reason = query.reason
  BY DEF QueryOK, Goto, Same, QueryFields

LEMMA ReplyKeeps ==
  ASSUME QueryOK, NEW a, Reply(a)
  PROVE  /\ Same /\ query'.step = "answered" /\ query'.now = query.now /\ query'.answer = a
         /\ query'.actor = query.actor /\ query'.bound = query.bound /\ query'.reason = query.reason
  BY DEF QueryOK, Reply, Same, QueryFields

LEMMA RecordedKeeps ==
  ASSUME QueryOK, NEW a, NEW actor, NEW bound, NEW reason, ReplyRecorded(a, actor, bound, reason)
  PROVE  /\ Same /\ query'.step = "record" /\ query'.now = query.now /\ query'.answer = a
         /\ query'.actor = actor /\ query'.bound = bound /\ query'.reason = reason
  BY DEF QueryOK, ReplyRecorded, Same, QueryFields

LEMMA HoldsStill ==
  ASSUME QueryOK, query.step # "idle", Same, facts' = facts, together' = together, TogetherIsKept
  PROVE  TogetherIsKept' /\ (Proven' <=> Proven)
  <1>1. Waived' = Waived /\ Reasons' = Reasons
    BY DEF Waived, Reasons, observationOnly, Same
  <1>2. AllHold' <=> AllHold
    BY <1>1 DEF AllHold, FirstMissing, Holds, Same
  <1> QED
    BY <1>2 DEF TogetherIsKept, Proven, Same

\* A step that goes on, with nothing stored.
LEMMA GoesOn ==
  ASSUME OnlineInv, query.step \notin {"idle", "record", "answered"}, Same, UNCHANGED rest,
         decisions' = decisions, keyUsed' = keyUsed,
         query'.step \in {"verify", "boundary", "credential", "access", "fresh", "row", "observe"},
         query'.now \in Nat, query'.answer = query.answer, query'.actor = query.actor, query'.bound = query.bound,
         StepsKnow'
  PROVE  OnlineInv'
  <1>0. /\ QueryOK /\ TogetherIsKept /\ facts' = facts /\ together' = together /\ onlineClock' = onlineClock
    BY DEF OnlineInv, rest
  <1>1. TogetherIsKept' /\ (Proven' <=> Proven)
    BY <1>0, HoldsStill
  <1>2. QueryOK'
    BY <1>0 DEF QueryOK, Same
  <1>3. AllowedIsKept'
    BY <1>0, <1>1 DEF OnlineInv, AllowedIsKept, Same
  <1> QED
    BY <1>1, <1>2, <1>3 DEF OnlineInv, AnswersAreRecorded

\* An answer without an audit event.
LEMMA AnswersAtOnce ==
  ASSUME OnlineInv, query.step \notin {"idle", "record", "answered"}, UNCHANGED rest, decisions' = decisions,
         keyUsed' \in BOOLEAN, keyUsed => keyUsed',
         NEW a \in Answers \ {"none"}, Reply(a), a # "denied",
         a = "invalid" => query.credential = "platform",
         a = "allowed" => query.call = "check" /\ together /\ Proven /\ query.home /\ (query.credential = "key" => keyUsed')
  PROVE  OnlineInv'
  <1>0. /\ QueryOK /\ TogetherIsKept /\ facts' = facts /\ together' = together /\ onlineClock' = onlineClock
    BY DEF OnlineInv, rest
  <1>a. /\ Same /\ query'.step = "answered" /\ query'.now = query.now /\ query'.answer = a
        /\ query'.actor = query.actor /\ query'.bound = query.bound
    BY <1>0, ReplyKeeps
  <1>1. TogetherIsKept' /\ (Proven' <=> Proven)
    BY <1>0, <1>a, HoldsStill
  <1>2. QueryOK'
    BY <1>0, <1>a DEF QueryOK, Same
  <1>3. AllowedIsKept'
    BY <1>0, <1>a, <1>1 DEF OnlineInv, AllowedIsKept, Same
  <1>4. StepsKnow'
    BY <1>a DEF StepsKnow
  <1>5. AnswersAreRecorded'
    BY <1>a DEF AnswersAreRecorded, Same
  <1> QED
    BY <1>1, <1>2, <1>3, <1>4, <1>5 DEF OnlineInv

\* An answer that waits for its audit event.
LEMMA AnswersOnRecord ==
  ASSUME OnlineInv, query.step \notin {"idle", "record", "answered"}, UNCHANGED rest, decisions' = decisions,
         keyUsed' \in BOOLEAN, keyUsed => keyUsed',
         NEW a \in {"allowed", "denied", "invalid"}, NEW actor \in {"owner", "anonymous"}, NEW bound \in BOOLEAN, NEW reason,
         ReplyRecorded(a, actor, bound, reason),
         actor = "owner" => bound, bound => Proven,
         a = "allowed" => together /\ Proven /\ query.home /\ (query.credential = "key" => keyUsed')
  PROVE  OnlineInv'
  <1>0. /\ QueryOK /\ TogetherIsKept /\ facts' = facts /\ together' = together /\ onlineClock' = onlineClock
    BY DEF OnlineInv, rest
  <1>a. /\ Same /\ query'.step = "record" /\ query'.now = query.now /\ query'.answer = a
        /\ query'.actor = actor /\ query'.bound = bound
    BY <1>0, RecordedKeeps
  <1>1. TogetherIsKept' /\ (Proven' <=> Proven)
    BY <1>0, <1>a, HoldsStill
  <1>2. QueryOK'
    <2>1. a \in Answers /\ a # "none"
      BY DEF Answers
    <2> QED
      BY <1>0, <1>a, <2>1 DEF QueryOK, Same
  <1>3. AllowedIsKept'
    BY <1>0, <1>a, <1>1 DEF OnlineInv, AllowedIsKept, Same
  <1>4. StepsKnow'
    BY <1>a, <1>1 DEF StepsKnow
  <1>5. AnswersAreRecorded'
    BY <1>a DEF AnswersAreRecorded
  <1> QED
    BY <1>1, <1>2, <1>3, <1>4, <1>5 DEF OnlineInv

LEMMA UnprovenSteps ==
  ASSUME OnlineInv, query.step \notin {"idle", "record", "answered"}, UNCHANGED rest, decisions' = decisions,
         keyUsed' = keyUsed, Unproven
  PROVE  OnlineInv'
  <1>1. ReplyRecorded("invalid", "anonymous", FALSE, "credential")
    BY DEF Unproven, recordAuthorizationAuthenticationFailure, recordPrincipalValidationFailure
  <1>2. keyUsed' \in BOOLEAN
    BY DEF OnlineInv, QueryOK
  <1> QED
    BY <1>1, <1>2, AnswersOnRecord

LEMMA ReceiveSteps ==
  ASSUME OnlineInv, NEW c, NEW p, NEW home \in BOOLEAN, NEW policy,
         ReceiveCheckPermission(c, p, home, policy) \/ ReceiveValidatePrincipal(c, p, policy)
  PROVE  OnlineInv'
  <1>0. /\ query.step = "idle" /\ facts' = facts /\ onlineClock' = onlineClock /\ keyUsed' = keyUsed
        /\ decisions' = decisions /\ (together' <=> AllHold') /\ QueryOK /\ decisions = {}
    BY DEF ReceiveCheckPermission, ReceiveValidatePrincipal, OnlineInv, QueryOK
  <1>1. /\ query'.step = "policy" /\ query'.answer = "none" /\ query'.call \in {"check", "validate"}
        /\ (query'.call = "validate" => query'.home) /\ query'.start = onlineClock /\ query'.now = 0
        /\ query'.actor = "anonymous" /\ query'.bound = FALSE /\ DOMAIN query' = QueryFields
    BY DEF ReceiveCheckPermission, ReceiveValidatePrincipal, Idle, QueryFields
  <1>2. QueryOK'
    <2>1. query'.answer \in Answers
      BY <1>1 DEF Answers
    <2>2. /\ query'.actor \in {"owner", "anonymous"} /\ query'.bound \in BOOLEAN
          /\ query'.answer = "none" <=> query'.step \notin {"record", "answered"}
      BY <1>1
    <2>3. onlineClock' \in Nat /\ query'.start \in Nat /\ query'.now \in Nat /\ query'.start <= onlineClock'
      BY <1>0, <1>1 DEF QueryOK
    <2>4. facts' \subseteq TenantFacts \cup OwnFacts /\ keyUsed' \in BOOLEAN /\ decisions' = {}
      BY <1>0 DEF QueryOK
    <2> QED
      BY <1>1, <2>1, <2>2, <2>3, <2>4, Zenon DEF QueryOK
  <1> QED
    BY <1>0, <1>1, <1>2 DEF OnlineInv, StepsKnow, TogetherIsKept, AllowedIsKept, AnswersAreRecorded

LEMMA PolicySteps == OnlineInv /\ (CheckPermission \/ ValidatePrincipal) => OnlineInv'
  <1> SUFFICES ASSUME OnlineInv, CheckPermission \/ ValidatePrincipal PROVE OnlineInv'
    OBVIOUS
  <1>0. query.step = "policy" /\ UNCHANGED rest /\ decisions' = decisions /\ keyUsed' = keyUsed /\ keyUsed' \in BOOLEAN
        /\ QueryOK
    BY DEF CheckPermission, ValidatePrincipal, OnlineInv, QueryOK
  <1>1. CASE Reply("refused")
    BY <1>0, <1>1, AnswersAtOnce DEF Answers
  <1>2. CASE Unproven
    BY <1>0, <1>2, UnprovenSteps
  <1>3. CASE denyUnbound("kind") \/ recordPrincipalValidationFailure("anonymous", FALSE, "kind")
    <2>1. CASE ReplyRecorded("denied", "anonymous", FALSE, "kind")
      BY <1>0, <2>1, AnswersOnRecord
    <2>2. CASE ReplyRecorded("invalid", "anonymous", FALSE, "kind")
      BY <1>0, <2>2, AnswersOnRecord
    <2> QED
      BY <1>3, <2>1, <2>2 DEF denyUnbound, recordPrincipalValidationFailure
  <1>4. CASE StartReading
    <2> PICK step \in {"boundary", "verify"} : step = IF query.credential = "key" THEN "boundary" ELSE "verify"
      OBVIOUS
    <2>1. /\ Same /\ query'.step = step /\ query'.now = query.now /\ query'.answer = query.answer
          /\ query'.actor = query.actor /\ query'.bound = query.bound
      BY <1>0, <1>4, GotoKeeps DEF StartReading
    <2>2. StepsKnow'
      BY <2>1 DEF StepsKnow, Same
    <2>3. query'.now \in Nat
      BY <1>0, <2>1 DEF QueryOK
    <2> QED
      BY <1>0, <2>1, <2>2, <2>3, GoesOn
  <1> QED
    BY <1>1, <1>2, <1>3, <1>4 DEF CheckPermission, ValidatePrincipal

LEMMA VerifyTokenSteps == OnlineInv /\ VerifyToken => OnlineInv'
  <1> SUFFICES ASSUME OnlineInv, VerifyToken PROVE OnlineInv'
    OBVIOUS
  <1>0. query.step = "verify" /\ UNCHANGED rest /\ decisions' = decisions /\ keyUsed' = keyUsed /\ keyUsed' \in BOOLEAN
        /\ QueryOK
    BY DEF VerifyToken, OnlineInv, QueryOK
  <1>1. CASE Unproven
    BY <1>0, <1>1, UnprovenSteps
  <1>2. CASE query.credential = "platform" /\ Reply("invalid")
    BY <1>0, <1>2, AnswersAtOnce DEF Answers
  <1>3. CASE recordPrincipalValidationFailure("anonymous", FALSE, "credential")
    <2>1. ReplyRecorded("invalid", "anonymous", FALSE, "credential")
      BY <1>3 DEF recordPrincipalValidationFailure
    <2> QED
      BY <1>0, <2>1, AnswersOnRecord
  <1>4. CASE /\ Verify /\ query.credential = "token"
             /\ \/ ~query.home /\ deny("tenant")
                \/ query.home /\ Goto("access")
    <2>1. Proven
      BY <1>0, <1>4, OnlineBounds DEF Verify, Proven, QueryOK
    <2>2. CASE deny("tenant")
      <3>1. ReplyRecorded("denied", "owner", TRUE, "tenant")
        BY <2>2 DEF deny
      <3> QED
        BY <1>0, <2>1, <3>1, AnswersOnRecord
    <2>3. CASE query.home /\ Goto("access")
      <3>1. /\ Same /\ query'.step = "access" /\ query'.now = query.now /\ query'.answer = query.answer
            /\ query'.actor = query.actor /\ query'.bound = query.bound
        BY <1>0, <2>3, GotoKeeps
      <3>2. StepsKnow'
        BY <1>4, <2>1, <2>3, <3>1 DEF StepsKnow, Same, Proven
      <3>3. query'.now \in Nat
        BY <1>0, <3>1 DEF QueryOK
      <3> QED
        BY <1>0, <3>1, <3>2, <3>3, GoesOn
    <2> QED
      BY <1>4, <2>2, <2>3
  <1> QED
    BY <1>1, <1>2, <1>3, <1>4 DEF VerifyToken

LEMMA BoundarySteps == OnlineInv /\ (GetAPIKeyBoundary \/ LookupAPIKeyCredential) => OnlineInv'
  <1> SUFFICES ASSUME OnlineInv, GetAPIKeyBoundary \/ LookupAPIKeyCredential PROVE OnlineInv'
    OBVIOUS
  <1>0. /\ query.step \in {"boundary", "credential"} /\ query.credential = "key"
        /\ UNCHANGED rest /\ decisions' = decisions /\ keyUsed' = keyUsed /\ QueryOK
    BY DEF GetAPIKeyBoundary, LookupAPIKeyCredential, OnlineInv, StepsKnow
  <1>1. CASE Unproven
    BY <1>0, <1>1, UnprovenSteps
  <1>2. CASE query' = [query EXCEPT !.step = "credential", !.now = onlineClock]
    <2>1. /\ Same /\ query'.step = "credential" /\ query'.now = onlineClock /\ query'.answer = query.answer
          /\ query'.actor = query.actor /\ query'.bound = query.bound
      BY <1>0, <1>2 DEF QueryOK, Same, QueryFields
    <2>2. query'.now \in Nat /\ query'.start <= query'.now
      BY <1>0, <2>1 DEF QueryOK, Same
    <2>3. StepsKnow'
      BY <1>0, <2>1, <2>2 DEF StepsKnow, Same
    <2> QED
      BY <1>0, <2>1, <2>2, <2>3, GoesOn
  <1>3. CASE query.step = "credential" /\ SecretMatches /\ KeyUsable /\ Goto("access")
    <2>1. /\ Same /\ query'.step = "access" /\ query'.now = query.now /\ query'.answer = query.answer
          /\ query'.actor = query.actor /\ query'.bound = query.bound
      BY <1>0, <1>3, GotoKeeps
    <2>2. query.start <= query.now
      BY <1>3 DEF OnlineInv, StepsKnow
    <2>3. Proven
      BY <1>0, <1>3, <2>2, OnlineBounds DEF SecretMatches, KeyUsable, Proven, QueryOK
    <2>4. StepsKnow'
      BY <1>0, <2>1, <2>2, <2>3 DEF StepsKnow, Same, Proven
    <2>5. query'.now \in Nat
      BY <1>0, <2>1 DEF QueryOK
    <2> QED
      BY <1>0, <2>1, <2>4, <2>5, GoesOn
  <1> QED
    BY <1>1, <1>2, <1>3 DEF GetAPIKeyBoundary, LookupAPIKeyCredential

\* A stale lifecycle, in a step where the credential is proven.
LEMMA StaleSteps ==
  ASSUME OnlineInv, query.step \in {"fresh", "row"}, UNCHANGED rest, decisions' = decisions,
         keyUsed' = keyUsed, LifecycleStale
  PROVE  OnlineInv'
  <1>0. Proven /\ keyUsed' \in BOOLEAN /\ query.step \notin {"idle", "record", "answered"}
    BY DEF OnlineInv, StepsKnow, QueryOK
  <1>1. CASE Reply("unavailable")
    BY <1>0, <1>1, AnswersAtOnce DEF Answers
  <1>2. CASE ReplyRecorded("invalid", "owner", TRUE, "fresh")
    BY <1>0, <1>2, AnswersOnRecord
  <1>3. CASE ReplyRecorded("invalid", "anonymous", TRUE, "fresh")
    BY <1>0, <1>3, AnswersOnRecord
  <1> QED
    BY <1>1, <1>2, <1>3 DEF LifecycleStale, recordPrincipalValidationFailure

LEMMA FreshnessSteps ==
  ASSUME OnlineInv, query.credential \in {"token", "key"},
         GetTenantAccessStatusForAuthorization \/ GetTenantLifecycleFreshnessForAuthorization
  PROVE  OnlineInv'
  <1>0. /\ query.step \in {"access", "fresh"} /\ UNCHANGED rest /\ decisions' = decisions /\ keyUsed' = keyUsed /\ QueryOK
    BY DEF GetTenantAccessStatusForAuthorization, GetTenantLifecycleFreshnessForAuthorization, OnlineInv
  <1>1. CASE query.step = "fresh" /\ LifecycleStale
    BY <1>0, <1>1, StaleSteps
  <1>2. CASE Goto("fresh") \/ Goto("row")
    <2> PICK step \in {"fresh", "row"} : Goto(step)
      BY <1>2
    <2>1. /\ Same /\ query'.step = step /\ query'.now = query.now /\ query'.answer = query.answer
          /\ query'.actor = query.actor /\ query'.bound = query.bound
      BY <1>0, GotoKeeps
    <2>2. StepsKnow'
      BY <1>0, <2>1 DEF OnlineInv, StepsKnow, Same, Proven
    <2>3. query'.now \in Nat
      BY <1>0, <2>1 DEF QueryOK
    <2> QED
      BY <1>0, <2>1, <2>2, <2>3, GoesOn
  <1> QED
    BY <1>1, <1>2 DEF GetTenantAccessStatusForAuthorization, GetTenantLifecycleFreshnessForAuthorization

LEMMA TokenRowSteps == OnlineInv /\ LookupAuthorization => OnlineInv'
  <1> SUFFICES ASSUME OnlineInv, LookupAuthorization PROVE OnlineInv'
    OBVIOUS
  <1>0. /\ query.step = "row" /\ query.credential = "token" /\ UNCHANGED rest /\ decisions' = decisions
        /\ keyUsed' = keyUsed /\ keyUsed' \in BOOLEAN /\ Proven /\ query.home
    BY DEF LookupAuthorization, OnlineInv, StepsKnow, QueryOK
  <1>1. CASE LifecycleStale
    BY <1>0, <1>1, StaleSteps
  <1>2. FirstMissing(TokenReasons) = "none" => together
    BY <1>0 DEF OnlineInv, TogetherIsKept, AllHold, Reasons
  <1>3. CASE query.call = "check" /\ authorizationDenialReason = "none" /\ Reply("allowed")
    BY <1>0, <1>2, <1>3, AnswersAtOnce DEF authorizationDenialReason, Answers
  <1>4. CASE deny(authorizationDenialReason)
    <2> PICK reason : ReplyRecorded("denied", "owner", TRUE, reason)
      BY <1>4 DEF deny
    <2> QED
      BY <1>0, AnswersOnRecord
  <1>5. CASE recordPrincipalValidationFailure("owner", TRUE, validateAccessTokenPrincipalState)
    <2> PICK reason : ReplyRecorded("invalid", "owner", TRUE, reason)
      BY <1>5 DEF recordPrincipalValidationFailure
    <2> QED
      BY <1>0, AnswersOnRecord
  <1>6. CASE validateAccessTokenPrincipalState = "none" /\ validatedPrincipalResult
    <2>1. ReplyRecorded("allowed", "owner", TRUE, "none")
      BY <1>6 DEF validatedPrincipalResult
    <2> QED
      BY <1>0, <1>2, <1>6, <2>1, AnswersOnRecord DEF validateAccessTokenPrincipalState
  <1> QED
    BY <1>1, <1>3, <1>4, <1>5, <1>6 DEF LookupAuthorization

LEMMA KeyRowSteps == OnlineInv /\ LookupAPIKeyAuthorization => OnlineInv'
  <1> SUFFICES ASSUME OnlineInv, LookupAPIKeyAuthorization PROVE OnlineInv'
    OBVIOUS
  <1>0. /\ query.step = "row" /\ query.credential = "key" /\ UNCHANGED rest /\ decisions' = decisions
        /\ keyUsed' = keyUsed /\ keyUsed' \in BOOLEAN /\ Proven /\ QueryOK
    BY DEF LookupAPIKeyAuthorization, OnlineInv, StepsKnow, QueryOK
  <1>1. CASE LifecycleStale
    BY <1>0, <1>1, StaleSteps
  <1>2. CASE Unproven
    BY <1>0, <1>2, UnprovenSteps
  <1>3. CASE deny(KeyDenial)
    <2> PICK reason : ReplyRecorded("denied", "owner", TRUE, reason)
      BY <1>3 DEF deny
    <2> QED
      BY <1>0, AnswersOnRecord
  <1>4. CASE recordPrincipalValidationFailure("owner", TRUE, validateAPIKeyPrincipalState)
    <2> PICK reason : ReplyRecorded("invalid", "owner", TRUE, reason)
      BY <1>4 DEF recordPrincipalValidationFailure
    <2> QED
      BY <1>0, AnswersOnRecord
  <1>5. CASE /\ StillUsable /\ Goto("observe")
             /\ (query.call = "check" /\ KeyDenial = "none") \/ (query.call = "validate" /\ validateAPIKeyPrincipalState = "none")
    <2>1. query.home /\ FirstMissing(KeyReasons) = "none"
      BY <1>0, <1>5 DEF KeyDenial, apiKeyAuthorizationDenialReason, validateAPIKeyPrincipalState, QueryOK
    <2>2. Holds("key")
      BY <1>5 DEF StillUsable, KeyUsable, ReadAPIKeyStatus
    <2>3. together
      BY <1>0, <2>1, <2>2 DEF OnlineInv, TogetherIsKept, AllHold, Reasons
    <2>4. /\ Same /\ query'.step = "observe" /\ query'.now = query.now /\ query'.answer = query.answer
          /\ query'.actor = query.actor /\ query'.bound = query.bound
      BY <1>0, <1>5, GotoKeeps
    <2>5. together' = together
      BY <1>0 DEF rest
    <2>6. StepsKnow'
      BY <1>0, <2>1, <2>3, <2>4, <2>5 DEF StepsKnow, Same, Proven
    <2>7. query'.now \in Nat
      BY <1>0, <2>4 DEF QueryOK
    <2> QED
      BY <1>0, <2>4, <2>6, <2>7, GoesOn
  <1> QED
    BY <1>1, <1>2, <1>3, <1>4, <1>5 DEF LookupAPIKeyAuthorization

LEMMA ObserveSteps == OnlineInv /\ ObserveUse => OnlineInv'
  <1> SUFFICES ASSUME OnlineInv, ObserveUse PROVE OnlineInv'
    OBVIOUS
  <1>0. /\ query.step = "observe" /\ UNCHANGED rest /\ decisions' = decisions /\ keyUsed' = TRUE
        /\ Proven /\ together /\ query.home
    BY DEF ObserveUse, OnlineInv, StepsKnow
  <1>1. CASE query.call = "check" /\ Reply("allowed")
    BY <1>0, <1>1, AnswersAtOnce DEF Answers
  <1>2. CASE validatedPrincipalResult
    <2>1. ReplyRecorded("allowed", "owner", TRUE, "none")
      BY <1>2 DEF validatedPrincipalResult
    <2> QED
      BY <1>0, <2>1, AnswersOnRecord
  <1> QED
    BY <1>1, <1>2 DEF ObserveUse

\* The event stored is the one of the answer, whatever boundary it is stored in.
LEMMA StoredIsTheAnswer ==
  ASSUME OnlineInv, query.step = "record", StoreEvent
  PROVE  /\ decisions' = decisions \cup {principalValidationAuditEvent}
         /\ principalValidationAuditEvent.result = query.answer
         /\ principalValidationAuditEvent.actor = query.actor
         /\ principalValidationAuditEvent.bound = query.bound
  <1>1. ~query.bound => [principalValidationAuditEvent EXCEPT !.actor = "anonymous"] = principalValidationAuditEvent
    <2> SUFFICES ASSUME ~query.bound
                 PROVE  [principalValidationAuditEvent EXCEPT !.actor = "anonymous"] = principalValidationAuditEvent
      OBVIOUS
    <2>1. query.actor = "anonymous"
      BY DEF OnlineInv, StepsKnow, QueryOK
    <2> QED
      BY <2>1 DEF principalValidationAuditEvent
  <1>2. decisions' = decisions \cup {principalValidationAuditEvent}
    BY <1>1 DEF StoreEvent, RecordTenantPrincipalValidation, RecordUnboundPrincipalValidation,
         RecordDeniedAuthorization, RecordUnboundAuthorization, AppendSecurityAuditEvent,
         appendAnonymousTenantAudit, appendAnonymousPrincipalAudit
  <1> QED
    BY <1>2 DEF principalValidationAuditEvent

LEMMA StoringKeeps ==
  ASSUME OnlineInv, query.step = "record", StoreEvent, UNCHANGED rest, keyUsed' = keyUsed,
         Same, query'.now = query.now, query'.step = "answered", query'.answer \in {query.answer, "unavailable"},
         query'.actor = query.actor, query'.bound = query.bound, query'.reason = query.reason
  PROVE  OnlineInv'
  <1>0. /\ QueryOK /\ TogetherIsKept /\ facts' = facts /\ together' = together /\ onlineClock' = onlineClock
        /\ AllowedIsKept /\ StepsKnow
    BY DEF OnlineInv, rest
  <1>a. query.answer \in {"allowed", "denied", "invalid"}
    BY <1>0 DEF StepsKnow
  <1>1. TogetherIsKept' /\ (Proven' <=> Proven)
    BY <1>0, HoldsStill
  <1>2. QueryOK'
    <2>1. query'.answer \in Answers /\ query'.answer # "none"
      BY <1>a DEF Answers
    <2> QED
      BY <1>0, <2>1 DEF QueryOK, Same
  <1>b. PICK e : e = principalValidationAuditEvent
    OBVIOUS
  <1>c. decisions' = decisions \cup {e} /\ e.result = query.answer /\ e.actor = query.actor /\ e.bound = query.bound
    BY <1>b, StoredIsTheAnswer
  <1>3. AllowedIsKept'
    <2>1. query'.answer = "allowed" => together' /\ Proven' /\ query'.home /\ (query'.credential = "key" => keyUsed')
      BY <1>0, <1>1, <1>a DEF AllowedIsKept, Same
    <2>2. ASSUME NEW d \in decisions'
          PROVE  /\ d.result \in Answers \ {"none"}
                 /\ d.actor = "owner" \/ d.bound => Proven'
                 /\ d.result = "allowed" => together' /\ Proven' /\ query'.home
      <3>1. CASE d \in decisions
        BY <1>0, <1>1, <3>1 DEF AllowedIsKept, Same
      <3>2. CASE d = e
        BY <1>0, <1>1, <1>a, <1>c, <3>2 DEF AllowedIsKept, StepsKnow, Same, Answers
      <3> QED
        BY <1>c, <2>2, <3>1, <3>2
    <2> QED
      BY <2>1, <2>2 DEF AllowedIsKept
  <1>4. StepsKnow'
    BY DEF StepsKnow
  <1>5. AnswersAreRecorded'
    <2>1. query'.answer = query.answer => principalValidationAuditEvent' = e
      BY <1>b DEF principalValidationAuditEvent
    <2>2. query'.answer # query.answer => query'.answer = "unavailable"
      OBVIOUS
    <2> QED
      BY <1>c, <1>3, <2>1, <2>2 DEF AnswersAreRecorded, AllowedIsKept
  <1> QED
    BY <1>1, <1>2, <1>3, <1>4, <1>5 DEF OnlineInv

LEMMA RecordSteps == OnlineInv /\ RecordDecision => OnlineInv'
  <1> SUFFICES ASSUME OnlineInv, RecordDecision PROVE OnlineInv'
    OBVIOUS
  <1>1. query.step = "record" /\ StoreEvent /\ UNCHANGED rest /\ keyUsed' = keyUsed /\ QueryOK
    BY DEF RecordDecision, OnlineInv
  <1>2. /\ Same /\ query'.step = "answered" /\ query'.now = query.now /\ query'.answer = query.answer
        /\ query'.actor = query.actor /\ query'.bound = query.bound /\ query'.reason = query.reason
    BY <1>1, GotoKeeps DEF RecordDecision
  <1> QED
    BY <1>1, <1>2, StoringKeeps

LEMMA FailureSteps == OnlineInv /\ StatementFails => OnlineInv'
  <1> SUFFICES ASSUME OnlineInv, StatementFails PROVE OnlineInv'
    OBVIOUS
  <1>0. /\ QueryOK /\ TogetherIsKept /\ facts' = facts /\ together' = together /\ onlineClock' = onlineClock
        /\ AllowedIsKept /\ StepsKnow /\ UNCHANGED rest
    BY DEF OnlineInv, rest, StatementFails
  <1>a. Reply("unavailable")
    BY DEF StatementFails, Reply
  <1>b. /\ Same /\ query'.step = "answered" /\ query'.now = query.now /\ query'.answer = "unavailable"
        /\ query'.actor = query.actor /\ query'.bound = query.bound /\ query'.reason = query.reason
    BY <1>0, <1>a, ReplyKeeps
  <1>1. CASE query.step = "record" /\ StoreEvent /\ UNCHANGED keyUsed
    BY <1>0, <1>1, <1>b, StoringKeeps
  <1>2. CASE decisions' = decisions /\ keyUsed' \in {keyUsed, TRUE}
    <2>0. query.step # "idle"
      BY DEF StatementFails
    <2>1. TogetherIsKept' /\ (Proven' <=> Proven)
      BY <1>0, <1>b, <2>0, HoldsStill
    <2>2. QueryOK'
      <3>1. query'.answer \in Answers /\ query'.answer # "none"
        BY <1>b DEF Answers
      <3>2. keyUsed' \in BOOLEAN
        BY <1>0, <1>2 DEF QueryOK
      <3> QED
        BY <1>0, <1>b, <3>1, <3>2 DEF QueryOK, Same
    <2>3. AllowedIsKept'
      BY <1>0, <1>2, <1>b, <2>1 DEF AllowedIsKept, Same
    <2>4. StepsKnow' /\ AnswersAreRecorded'
      BY <1>b DEF StepsKnow, AnswersAreRecorded
    <2> QED
      BY <2>1, <2>2, <2>3, <2>4 DEF OnlineInv
  <1> QED
    BY <1>1, <1>2 DEF StatementFails

LEMMA ChangeSteps == OnlineInv /\ (\E f \in TenantFacts \cup OwnFacts : FactChanges(f)) => OnlineInv'
  <1> SUFFICES ASSUME OnlineInv, NEW f \in TenantFacts \cup OwnFacts, FactChanges(f) PROVE OnlineInv'
    OBVIOUS
  <1>0. /\ QueryOK /\ StepsKnow /\ AllowedIsKept /\ query' = query /\ onlineClock' = onlineClock /\ keyUsed' = keyUsed
        /\ decisions' = decisions /\ (together => together') /\ (AllHold' => together')
        /\ query.step \notin {"idle", "record", "answered"}
    BY DEF OnlineInv, FactChanges
  <1>1. facts' \subseteq TenantFacts \cup OwnFacts
    BY <1>0 DEF FactChanges, QueryOK
  <1>2. QueryOK'
    BY <1>0, <1>1 DEF QueryOK
  <1>3. Proven' <=> Proven
    BY <1>0 DEF Proven
  <1>4. StepsKnow' /\ AllowedIsKept' /\ TogetherIsKept' /\ AnswersAreRecorded'
    BY <1>0, <1>3 DEF StepsKnow, AllowedIsKept, TogetherIsKept, AnswersAreRecorded
  <1> QED
    BY <1>2, <1>4 DEF OnlineInv

LEMMA OnlineTimePasses == OnlineInv /\ (TimePasses \/ UNCHANGED onlineVars) => OnlineInv'
  <1> SUFFICES ASSUME OnlineInv, TimePasses \/ UNCHANGED onlineVars PROVE OnlineInv'
    OBVIOUS
  <1>0. /\ query' = query /\ facts' = facts /\ keyUsed' = keyUsed /\ decisions' = decisions /\ together' = together
        /\ onlineClock' \in {onlineClock, onlineClock + 1}
    BY DEF TimePasses, onlineVars
  <1>1. QueryOK'
    <2>1. QueryOK
      BY DEF OnlineInv
    <2>2. onlineClock' \in Nat /\ query'.start <= onlineClock'
      BY <1>0, <2>1 DEF QueryOK
    <2> QED
      BY <1>0, <2>1, <2>2 DEF QueryOK
  <1>2. (Proven' <=> Proven) /\ (AllHold' <=> AllHold)
    BY <1>0 DEF Proven, AllHold, FirstMissing, Reasons, Waived, observationOnly, Holds
  <1>3. StepsKnow' /\ AllowedIsKept' /\ TogetherIsKept' /\ AnswersAreRecorded'
    BY <1>0, <1>2 DEF OnlineInv, StepsKnow, AllowedIsKept, TogetherIsKept, AnswersAreRecorded, principalValidationAuditEvent
  <1> QED
    BY <1>1, <1>3 DEF OnlineInv

LEMMA OnlineSteps == OnlineInv /\ [OnlineNext]_onlineVars => OnlineInv'
  <1> SUFFICES ASSUME OnlineInv, [OnlineNext]_onlineVars PROVE OnlineInv'
    OBVIOUS
  <1>1. CASE TokenSteps
    BY <1>1, VerifyTokenSteps, TokenRowSteps, FreshnessSteps DEF TokenSteps
  <1>2. CASE KeySteps
    BY <1>2, BoundarySteps, KeyRowSteps, ObserveSteps, FreshnessSteps DEF KeySteps
  <1>3. CASE \E c \in {"token", "platform", "key", "none"}, p \in {"good", "wrong", "unknown", "malformed"},
                home \in BOOLEAN, policy \in Policies :
               ReceiveCheckPermission(c, p, home, policy) \/ ReceiveValidatePrincipal(c, p, policy)
    BY <1>3, ReceiveSteps
  <1> QED
    BY <1>1, <1>2, <1>3, PolicySteps, RecordSteps, FailureSteps, ChangeSteps, OnlineTimePasses
       DEF OnlineNext, checkAPIKey, validateAPIKeyPrincipal, validateAccessTokenPrincipal, checkAccessToken

LEMMA OnlineImplies == OnlineInv => AnswersAreSound
  <1> SUFFICES ASSUME OnlineInv PROVE AnswersAreSound
    OBVIOUS
  <1>1. OnlineTypeOK
    BY DEF OnlineInv, QueryOK, AllowedIsKept, OnlineTypeOK
  <1>2. AllowedAtOneInstant
    BY DEF OnlineInv, AllowedIsKept, AllowedAtOneInstant, Proven
  <1>3. BlameIsProven
    BY DEF OnlineInv, AllowedIsKept, BlameIsProven, Proven
  <1> QED
    BY <1>1, <1>2, <1>3 DEF OnlineInv, AnswersAreSound

\* Whatever becomes of the rows between the statements of CheckPermission and
\* ValidatePrincipal, an "allowed" was true at one instant of the request, every
\* answer about a Tenant's credential is on record, and no audit event blames
\* anybody whose credential was not proven.
THEOREM OnlineTheorem == OnlineSpec => []AnswersAreSound
  <1>1. OnlineInit => OnlineInv
    BY OnlineInitially
  <1>2. OnlineInv /\ [OnlineNext]_onlineVars => OnlineInv'
    BY OnlineSteps
  <1>3. OnlineInv => AnswersAreSound
    BY OnlineImplies
  <1> QED
    BY <1>1, <1>2, <1>3, PTL DEF OnlineSpec

(***************************************************************************)
(* Failed logins, limited operations and uses of API Keys.                 *)
(***************************************************************************)
\* The logins past their check that may still count in a bucket.
InFlight(b) == {c \in Clients : login[c] # Nobody /\ b \in keys(c)}

\* A bucket counts; what it may still be charged keeps within the bound; from the
\* limit on it is blocked as long as it lives.
BucketOK(b) ==
  /\ bucket[b].count \in Nat /\ bucket[b].blocked \in 0..Window /\ bucket[b].ttl \in 0..Window
  /\ bucket[b].count + Cardinality(InFlight(b)) < Limit + Cardinality(Clients)
  /\ bucket[b].count > 0 => bucket[b].ttl > 0
  /\ bucket[b].count >= Limit => bucket[b].blocked = bucket[b].ttl

LoginsOK ==
  /\ \A b \in Buckets : BucketOK(b)
  /\ bucket \in [Buckets -> [count : Nat, blocked : 0..Window, ttl : 0..Window]]
  /\ DOMAIN login = Clients
  /\ \A c \in Clients : login[c] = Nobody \/ login[c] \in Accounts \X Addresses

CountersOK ==
  /\ counter \in [Limited -> [count : 0..(MaxUses + 1), ttl : 0..Window]]
  /\ passed \in [Limited -> Nat]
  /\ \A x \in Limited : passed[x] <= counter[x].count /\ passed[x] <= MaxUses

UsesOK ==
  /\ pendingUse \in [APIKeys -> 0..MaxTime] /\ lastUsed \in [APIKeys -> 0..MaxTime]
  /\ observed \in [APIKeys -> 0..MaxTime]
  /\ batch \in [Flushers -> [key : APIKeys \cup {Nobody}, at : 0..MaxTime, saved : BOOLEAN]]
  /\ UsesAreNotLost
  /\ \A f \in Flushers : batch[f].key # Nobody /\ batch[f].saved =>
       batch[f].at <= lastUsed[batch[f].key] + Granularity

ThrottleInv == LoginsOK /\ CountersOK /\ UsesOK

LEMMA ThrottleBounds ==
  /\ Limit \in 2..31 /\ Limit \in Nat /\ BaseDelay \in Nat \ {0} /\ Window \in Nat /\ Window > 1
  /\ MaxUses \in Nat \ {0} /\ Granularity \in Nat /\ MaxTime \in Nat
  /\ IsFiniteSet(Clients) /\ Accounts \cap Addresses = {} /\ Cardinality(Clients) \in Nat
  BY ThrottlesAssumption, FS_CardinalityType

LEMMA InFlightIsBounded ==
  ASSUME NEW b
  PROVE  /\ IsFiniteSet(InFlight(b)) /\ Cardinality(InFlight(b)) \in Nat
         /\ Cardinality(InFlight(b)) <= Cardinality(Clients)
  <1>1. InFlight(b) \subseteq Clients
    BY DEF InFlight
  <1> QED
    BY <1>1, ThrottleBounds, FS_Subset, FS_CardinalityType

LEMMA ThrottleInitially == ThrottleInit => ThrottleInv
  <1> SUFFICES ASSUME ThrottleInit PROVE ThrottleInv
    OBVIOUS
  <1>1. ASSUME NEW b \in Buckets PROVE BucketOK(b)
    <2>1. bucket[b].count = 0 /\ bucket[b].blocked = 0 /\ bucket[b].ttl = 0
      BY DEF ThrottleInit, NoBucket
    <2>2. InFlight(b) = {}
      BY DEF ThrottleInit, InFlight
    <2> QED
      BY <2>1, <2>2, FS_EmptySet, ThrottleBounds DEF BucketOK
  <1>2. LoginsOK
    BY <1>1, ThrottleBounds DEF LoginsOK, ThrottleInit, NoBucket
  <1>3. CountersOK
    BY ThrottleBounds DEF CountersOK, ThrottleInit
  <1>4. UsesOK
    BY ThrottleBounds DEF UsesOK, UsesAreNotLost, ThrottleInit
  <1> QED
    BY <1>2, <1>3, <1>4 DEF ThrottleInv

LEMMA PowersAreNumbers ==
  /\ 2^0 \in Nat /\ 2^1 \in Nat /\ 2^2 \in Nat /\ 2^3 \in Nat /\ 2^4 \in Nat /\ 2^5 \in Nat /\ 2^6 \in Nat /\ 2^7 \in Nat
  /\ 2^8 \in Nat /\ 2^9 \in Nat /\ 2^10 \in Nat /\ 2^11 \in Nat /\ 2^12 \in Nat /\ 2^13 \in Nat /\ 2^14 \in Nat /\ 2^15 \in Nat
  /\ 2^16 \in Nat /\ 2^17 \in Nat /\ 2^18 \in Nat /\ 2^19 \in Nat /\ 2^20 \in Nat /\ 2^21 \in Nat /\ 2^22 \in Nat /\ 2^23 \in Nat
  /\ 2^24 \in Nat /\ 2^25 \in Nat /\ 2^26 \in Nat /\ 2^27 \in Nat /\ 2^28 \in Nat /\ 2^29 \in Nat /\ 2^30 \in Nat
  OBVIOUS

\* The delay is a number of ticks within the window.
LEMMA DelayIsBounded ==
  ASSUME NEW n \in Nat \ {0} PROVE Delay(n) \in 0..Window
  <1>1. CASE n >= Limit
    BY <1>1, ThrottleBounds DEF Delay
  <1>2. CASE n < Limit
    <2>1. Smaller(n, Limit) - 1 = n - 1 /\ n - 1 \in 0..30
      BY <1>2, ThrottleBounds DEF Smaller
    <2>2. 2^(n - 1) \in Nat
      <3> PICK m \in 0..30 : m = n - 1
        BY <2>1
      <3>0. m \in {0, 1, 2, 3, 4, 5, 6, 7, 8, 9, 10, 11, 12, 13, 14, 15, 16, 17, 18, 19, 20, 21, 22, 23, 24, 25, 26, 27, 28, 29, 30}
        OBVIOUS
      <3>1. 2^m \in Nat
        BY <3>0, PowersAreNumbers
      <3> QED
        BY <3>1
    <2>3. BaseDelay * 2^(n - 1) \in Nat
      BY <2>2, ThrottleBounds
    <2>4. Delay(n) = Smaller(BaseDelay * 2^(n - 1), Window)
      BY <1>2, <2>1, ThrottleBounds DEF Delay
    <2> QED
      BY <2>3, <2>4, ThrottleBounds DEF Smaller
  <1> QED
    BY <1>1, <1>2, ThrottleBounds

\* A login that ends is no longer in flight, and one that begins is in its own
\* buckets only.
LEMMA InFlightEnds ==
  ASSUME LoginsOK, NEW c \in Clients, login' = [login EXCEPT ![c] = Nobody], NEW b
  PROVE  InFlight(b)' = InFlight(b) \ {c}
  <1>1. \A x \in Clients : login'[x] = IF x = c THEN Nobody ELSE login[x]
    BY DEF LoginsOK
  <1>2. \A x \in Clients \ {c} : keys(x)' = keys(x)
    BY <1>1 DEF keys
  <1> QED
    BY <1>1, <1>2 DEF InFlight

LEMMA CheckSteps ==
  ASSUME LoginsOK, NEW c \in Clients, NEW account_ \in Accounts, NEW address \in Addresses,
         Check(c, account_, address)
  PROVE  LoginsOK'
  <1>0. /\ login[c] = Nobody /\ bucket' = bucket /\ login' = [login EXCEPT ![c] = <<account_, address>>]
        /\ ~(bucket[account_].blocked > 0) /\ ~(bucket[address].blocked > 0)
    BY DEF Check, Blocked
  <1>1. /\ DOMAIN login' = Clients /\ login'[c] = <<account_, address>>
        /\ \A x \in Clients \ {c} : login'[x] = login[x] /\ keys(x)' = keys(x)
    BY <1>0 DEF LoginsOK, keys
  <1>2. ASSUME NEW b \in Buckets PROVE BucketOK(b)'
    <2>1. CASE b \in {account_, address}
      <3>1. BucketOK(b) /\ ~(bucket[b].blocked > 0)
        BY <1>0, <1>2, <2>1 DEF LoginsOK
      <3>2. bucket[b].count < Limit
        BY <3>1, ThrottleBounds DEF BucketOK
      <3>3. /\ Cardinality(InFlight(b)') \in Nat /\ Cardinality(InFlight(b)') <= Cardinality(Clients)
        <4>1. InFlight(b)' \subseteq Clients
          BY DEF InFlight
        <4> QED
          BY <4>1, ThrottleBounds, FS_Subset, FS_CardinalityType
      <3> QED
        BY <1>0, <3>1, <3>2, <3>3, ThrottleBounds DEF BucketOK
    <2>2. CASE b \notin {account_, address}
      <3>1. keys(c)' = {account_, address}
        BY <1>1 DEF keys
      <3>2. InFlight(b)' = InFlight(b)
        BY <1>0, <1>1, <2>2, <3>1 DEF InFlight
      <3>3. BucketOK(b)
        BY <1>2 DEF LoginsOK
      <3> QED
        BY <1>0, <3>2, <3>3 DEF BucketOK
    <2> QED
      BY <2>1, <2>2
  <1>3. \A x \in Clients : login'[x] = Nobody \/ login'[x] \in Accounts \X Addresses
    BY <1>1 DEF LoginsOK
  <1> QED
    BY <1>0, <1>1, <1>2, <1>3 DEF LoginsOK

\* What an ended login leaves of the buckets in its way.
LEMMA EndSteps ==
  ASSUME LoginsOK, NEW c \in Clients, login[c] # Nobody, login' = [login EXCEPT ![c] = Nobody],
         bucket' \in [Buckets -> [count : Nat, blocked : 0..Window, ttl : 0..Window]],
         \A b \in Buckets :
           \/ bucket'[b] \in {bucket[b], NoBucket}
           \/ b \in keys(c) /\ bucket'[b] = Failed(bucket[b])
  PROVE  LoginsOK'
  <1>1. /\ DOMAIN login' = Clients
        /\ \A x \in Clients : login'[x] = Nobody \/ login'[x] \in Accounts \X Addresses
    BY DEF LoginsOK
  <1>2. ASSUME NEW b \in Buckets PROVE BucketOK(b)'
    <2>0. BucketOK(b)
      BY <1>2 DEF LoginsOK
    <2>1. InFlight(b)' = InFlight(b) \ {c}
      BY InFlightEnds
    <2>2. IsFiniteSet(InFlight(b)) /\ Cardinality(InFlight(b)) \in Nat /\ Cardinality(InFlight(b)) <= Cardinality(Clients)
      BY InFlightIsBounded
    <2>3. /\ Cardinality(InFlight(b)') \in Nat /\ Cardinality(InFlight(b)') <= Cardinality(InFlight(b))
          /\ c \in InFlight(b) => Cardinality(InFlight(b)') = Cardinality(InFlight(b)) - 1
      BY <2>1, <2>2, FS_RemoveElement, FS_CardinalityType, FS_Subset
    <2>4. CASE bucket'[b] = bucket[b]
      BY <2>0, <2>2, <2>3, <2>4, ThrottleBounds DEF BucketOK
    <2>5. CASE bucket'[b] = NoBucket
      <3>1. bucket'[b].count = 0 /\ bucket'[b].blocked = 0 /\ bucket'[b].ttl = 0
        BY <2>5 DEF NoBucket
      <3> QED
        BY <2>2, <2>3, <3>1, ThrottleBounds DEF BucketOK
    <2>6. CASE b \in keys(c) /\ bucket'[b] = Failed(bucket[b])
      <3>1. c \in InFlight(b)
        BY <2>6 DEF InFlight
      <3>2. /\ bucket'[b].count = bucket[b].count + 1 /\ bucket'[b].ttl = Window
            /\ bucket'[b].blocked = Delay(bucket[b].count + 1)
        BY <2>6 DEF Failed
      <3>3. bucket[b].count \in Nat
        BY <2>0 DEF BucketOK
      <3>4. bucket'[b].blocked \in 0..Window
        BY <3>2, <3>3, DelayIsBounded
      <3>5. bucket'[b].count >= Limit => bucket'[b].blocked = Window
        BY <3>2 DEF Delay
      <3> QED
        BY <2>0, <2>2, <2>3, <3>1, <3>2, <3>3, <3>4, <3>5, ThrottleBounds DEF BucketOK
    <2> QED
      BY <2>4, <2>5, <2>6
  <1> QED
    BY <1>1, <1>2 DEF LoginsOK

LEMMA FailSteps == ASSUME LoginsOK, NEW c \in Clients, RecordFailure(c) PROVE LoginsOK'
  <1>0. /\ login[c] # Nobody /\ login' = [login EXCEPT ![c] = Nobody]
        /\ bucket' = [b \in Buckets |-> IF b \in keys(c) THEN Failed(bucket[b]) ELSE bucket[b]]
    BY DEF RecordFailure
  <1>1. \A b \in Buckets : Failed(bucket[b]) \in [count : Nat, blocked : 0..Window, ttl : 0..Window]
    <2> TAKE b \in Buckets
    <2>1. bucket[b].count \in Nat
      BY DEF LoginsOK
    <2>2. Delay(bucket[b].count + 1) \in 0..Window
      BY <2>1, DelayIsBounded
    <2> QED
      BY <2>1, <2>2, ThrottleBounds DEF Failed
  <1>2. bucket' \in [Buckets -> [count : Nat, blocked : 0..Window, ttl : 0..Window]]
    BY <1>0, <1>1 DEF LoginsOK
  <1>3. \A b \in Buckets :
           \/ bucket'[b] \in {bucket[b], NoBucket}
           \/ b \in keys(c) /\ bucket'[b] = Failed(bucket[b])
    BY <1>0
  <1> QED
    BY <1>0, <1>2, <1>3, EndSteps

LEMMA ResetSteps == ASSUME LoginsOK, NEW c \in Clients, Reset(c) PROVE LoginsOK'
  <1>0. /\ login[c] # Nobody /\ login' = [login EXCEPT ![c] = Nobody]
        /\ bucket' \in {bucket, [bucket EXCEPT ![login[c][1]] = NoBucket]}
    BY DEF Reset
  <1>1. NoBucket \in [count : Nat, blocked : 0..Window, ttl : 0..Window]
    BY ThrottleBounds DEF NoBucket
  <1>2. bucket' \in [Buckets -> [count : Nat, blocked : 0..Window, ttl : 0..Window]]
    BY <1>0, <1>1 DEF LoginsOK
  <1>3. \A b \in Buckets :
           \/ bucket'[b] \in {bucket[b], NoBucket}
           \/ b \in keys(c) /\ bucket'[b] = Failed(bucket[b])
    BY <1>0 DEF LoginsOK
  <1> QED
    BY <1>0, <1>2, <1>3, EndSteps

LEMMA AgedRow ==
  ASSUME NEW row \in [count : Nat, blocked : 0..Window, ttl : 0..Window]
  PROVE  /\ Aged(row) \in [count : Nat, blocked : 0..Window, ttl : 0..Window]
         /\ \/ Aged(row) = NoBucket /\ row.ttl <= 1
            \/ /\ Aged(row).count = row.count /\ Aged(row).ttl = row.ttl - 1 /\ row.ttl > 1
               /\ Aged(row).blocked = IF row.blocked = 0 THEN 0 ELSE row.blocked - 1
  <1>1. CASE row.ttl <= 1
    BY <1>1, ThrottleBounds DEF Aged, NoBucket
  <1>2. CASE ~(row.ttl <= 1)
    <2>1. row.blocked \in 0..Window /\ row.ttl \in 0..Window /\ row.count \in Nat
      OBVIOUS
    <2> PICK t \in 0..Window : t = row.ttl - 1
      BY <1>2, <2>1, ThrottleBounds
    <2> PICK l \in 0..Window : l = IF row.blocked = 0 THEN 0 ELSE row.blocked - 1
      BY <2>1, ThrottleBounds
    <2>2. Aged(row) = [row EXCEPT !.ttl = t, !.blocked = l]
      BY <1>2 DEF Aged
    <2>3. Aged(row) = [count |-> row.count, blocked |-> l, ttl |-> t]
      BY <2>2
    <2>4. row.ttl > 1
      BY <1>2, <2>1, ThrottleBounds
    <2>5. Aged(row).count = row.count /\ Aged(row).ttl = t /\ Aged(row).blocked = l
      BY <2>3
    <2> QED
      BY <2>1, <2>3, <2>4, <2>5
  <1> QED
    BY <1>1, <1>2

LEMMA TickSteps == LoginsOK /\ Tick => LoginsOK'
  <1> SUFFICES ASSUME LoginsOK, Tick PROVE LoginsOK'
    OBVIOUS
  <1>0. bucket' = [b \in Buckets |-> Aged(bucket[b])] /\ login' = login
    BY DEF Tick
  <1>1. bucket' \in [Buckets -> [count : Nat, blocked : 0..Window, ttl : 0..Window]]
    BY <1>0, AgedRow DEF LoginsOK
  <1>2. ASSUME NEW b \in Buckets PROVE BucketOK(b)'
    <2>0. BucketOK(b) /\ bucket[b] \in [count : Nat, blocked : 0..Window, ttl : 0..Window] /\ bucket'[b] = Aged(bucket[b])
      BY <1>0, <1>2 DEF LoginsOK
    <2>1. InFlight(b)' = InFlight(b)
      BY <1>0 DEF InFlight, keys
    <2>2. Cardinality(InFlight(b)) \in Nat /\ Cardinality(InFlight(b)) <= Cardinality(Clients)
      BY InFlightIsBounded
    <2>3. CASE Aged(bucket[b]) = NoBucket
      <3>1. bucket'[b].count = 0 /\ bucket'[b].blocked = 0 /\ bucket'[b].ttl = 0
        BY <2>0, <2>3 DEF NoBucket
      <3> QED
        BY <2>1, <2>2, <3>1, ThrottleBounds DEF BucketOK
    <2>4. CASE /\ Aged(bucket[b]).count = bucket[b].count /\ Aged(bucket[b]).ttl = bucket[b].ttl - 1 /\ bucket[b].ttl > 1
               /\ Aged(bucket[b]).blocked = IF bucket[b].blocked = 0 THEN 0 ELSE bucket[b].blocked - 1
      BY <2>0, <2>1, <2>2, <2>4, ThrottleBounds DEF BucketOK
    <2> QED
      BY <2>0, <2>3, <2>4, AgedRow
  <1> QED
    BY <1>0, <1>1, <1>2 DEF LoginsOK

LEMMA LoginsStay == LoginsOK /\ UNCHANGED throttleVars => LoginsOK'
  <1> SUFFICES ASSUME LoginsOK, UNCHANGED throttleVars PROVE LoginsOK'
    OBVIOUS
  <1>1. bucket' = bucket /\ login' = login
    BY DEF throttleVars
  <1>2. \A b \in Buckets : InFlight(b)' = InFlight(b)
    BY <1>1 DEF InFlight, keys
  <1> QED
    BY <1>1, <1>2 DEF LoginsOK, BucketOK

\* Counters.
LEMMA CountedRow ==
  ASSUME NEW row \in [count : 0..(MaxUses + 1), ttl : 0..Window], row.count <= MaxUses
  PROVE  /\ Counted(row) \in [count : 0..(MaxUses + 1), ttl : 0..Window]
         /\ Counted(row).count = row.count + 1
  BY ThrottleBounds DEF Counted

LEMMA AcquireSteps == ASSUME CountersOK, NEW xs, acquire(xs), xs \subseteq Limited PROVE CountersOK'
  <1>0. /\ \A x \in xs : counter[x].count < MaxUses
        /\ counter' = [x \in Limited |-> IF x \in xs THEN Counted(counter[x]) ELSE counter[x]]
        /\ passed' = [x \in Limited |-> IF x \in xs THEN passed[x] + 1 ELSE passed[x]]
    BY DEF acquire, HasRoom
  <1>1. ASSUME NEW x \in Limited
        PROVE  /\ counter'[x] \in [count : 0..(MaxUses + 1), ttl : 0..Window] /\ passed'[x] \in Nat
               /\ passed'[x] <= counter'[x].count /\ passed'[x] <= MaxUses
    <2>0. /\ counter[x] \in [count : 0..(MaxUses + 1), ttl : 0..Window] /\ passed[x] \in Nat
          /\ passed[x] <= counter[x].count /\ passed[x] <= MaxUses /\ counter[x].count \in Nat
      BY <1>1, ThrottleBounds DEF CountersOK
    <2>1. CASE x \in xs
      <3>1. counter[x].count < MaxUses /\ counter'[x] = Counted(counter[x]) /\ passed'[x] = passed[x] + 1
        BY <1>0, <2>1
      <3>2. counter[x].count <= MaxUses
        BY <2>0, <3>1, ThrottleBounds
      <3>3. /\ counter'[x] \in [count : 0..(MaxUses + 1), ttl : 0..Window]
            /\ counter'[x].count = counter[x].count + 1
        BY <2>0, <3>1, <3>2, CountedRow
      <3> QED
        BY <2>0, <3>1, <3>3, ThrottleBounds
    <2>2. CASE x \notin xs
      BY <1>0, <2>0, <2>2
    <2> QED
      BY <2>1, <2>2
  <1> QED
    BY <1>0, <1>1 DEF CountersOK

LEMMA CallSteps == ASSUME CountersOK, NEW x \in Limited, CountCall(x) PROVE CountersOK'
  <1>0. /\ counter[x].count <= MaxUses /\ counter' = [counter EXCEPT ![x] = Counted(counter[x])]
        /\ passed' = [passed EXCEPT ![x] = IF counter[x].count + 1 > MaxUses THEN passed[x] ELSE passed[x] + 1]
    BY DEF CountCall
  <1>1. /\ counter[x] \in [count : 0..(MaxUses + 1), ttl : 0..Window] /\ passed[x] \in Nat
        /\ passed[x] <= counter[x].count /\ passed[x] <= MaxUses /\ counter[x].count \in Nat
    BY ThrottleBounds DEF CountersOK
  <1>2. /\ Counted(counter[x]) \in [count : 0..(MaxUses + 1), ttl : 0..Window]
        /\ Counted(counter[x]).count = counter[x].count + 1
    BY <1>0, <1>1, CountedRow
  <1>3. counter'[x] = Counted(counter[x]) /\ \A y \in Limited \ {x} : counter'[y] = counter[y] /\ passed'[y] = passed[y]
    BY <1>0 DEF CountersOK
  <1>4. passed'[x] \in Nat /\ passed'[x] <= counter[x].count + 1 /\ passed'[x] <= MaxUses
    BY <1>0, <1>1, ThrottleBounds DEF CountersOK
  <1>5. /\ counter' \in [Limited -> [count : 0..(MaxUses + 1), ttl : 0..Window]]
        /\ passed' \in [Limited -> Nat]
    <2>1. DOMAIN counter' = Limited /\ DOMAIN passed' = Limited
      BY <1>0 DEF CountersOK
    <2>2. passed' \in [Limited -> Nat]
      <3>1. (IF counter[x].count + 1 > MaxUses THEN passed[x] ELSE passed[x] + 1) \in Nat
        BY <1>1
      <3> QED
        BY <1>0, <3>1 DEF CountersOK
    <2> QED
      BY <1>0, <1>2, <2>2 DEF CountersOK
  <1> QED
    BY <1>2, <1>3, <1>4, <1>5 DEF CountersOK

LEMMA CountersTick == CountersOK /\ Tick => CountersOK'
  <1> SUFFICES ASSUME CountersOK, Tick PROVE CountersOK'
    OBVIOUS
  <1>0. /\ counter' = [x \in Limited |->
             IF counter[x].ttl <= 1 THEN [count |-> 0, ttl |-> 0] ELSE [counter[x] EXCEPT !.ttl = @ - 1]]
        /\ passed' = [x \in Limited |-> IF counter'[x].ttl = 0 THEN 0 ELSE passed[x]]
    BY DEF Tick
  <1>1. ASSUME NEW x \in Limited
        PROVE  /\ counter'[x] \in [count : 0..(MaxUses + 1), ttl : 0..Window] /\ passed'[x] \in Nat
               /\ passed'[x] <= counter'[x].count /\ passed'[x] <= MaxUses
    <2>0. /\ counter[x] \in [count : 0..(MaxUses + 1), ttl : 0..Window] /\ passed[x] \in Nat
          /\ passed[x] <= counter[x].count /\ passed[x] <= MaxUses /\ counter[x].count \in 0..(MaxUses + 1)
          /\ counter[x].ttl \in 0..Window
      BY <1>1 DEF CountersOK
    <2>1. CASE counter[x].ttl <= 1
      <3>1. counter'[x] = [count |-> 0, ttl |-> 0] /\ passed'[x] = 0
        BY <1>0, <2>1
      <3> QED
        BY <3>1, ThrottleBounds
    <2>2. CASE ~(counter[x].ttl <= 1)
      <3> PICK t \in 0..Window : t = counter[x].ttl - 1
        BY <2>0, <2>2, ThrottleBounds
      <3>1. counter'[x] = [counter[x] EXCEPT !.ttl = t]
        BY <1>0, <2>2
      <3>2. /\ counter'[x] \in [count : 0..(MaxUses + 1), ttl : 0..Window]
            /\ counter'[x].count = counter[x].count /\ counter'[x].ttl = t
        BY <2>0, <3>1
      <3>3. passed'[x] = passed[x]
        BY <1>0, <2>0, <2>2, <3>2, ThrottleBounds
      <3> QED
        BY <2>0, <3>2, <3>3
    <2> QED
      BY <2>1, <2>2
  <1> QED
    BY <1>0, <1>1 DEF CountersOK

\* Uses of API Keys.
LEMMA ObservationSteps ==
  ASSUME UsesOK, NEW k \in APIKeys, NEW at \in 1..MaxTime, ObserveAPIKeyUse(k, at)
  PROVE  UsesOK'
  <1>0. /\ pendingUse' = [pendingUse EXCEPT ![k] = Later(pendingUse[k], at)]
        /\ observed' = [observed EXCEPT ![k] = Later(observed[k], at)]
        /\ batch' = batch /\ lastUsed' = lastUsed
    BY DEF ObserveAPIKeyUse
  <1>1. /\ pendingUse[k] \in 0..MaxTime /\ observed[k] \in 0..MaxTime /\ lastUsed[k] \in 0..MaxTime
        /\ observed[k] <= pendingUse[k] \/ observed[k] <= lastUsed[k] + Granularity
    BY DEF UsesOK, UsesAreNotLost
  <1>2. Later(pendingUse[k], at) \in 0..MaxTime /\ Later(observed[k], at) \in 0..MaxTime
    BY <1>1, ThrottleBounds DEF Later
  <1>3. pendingUse' \in [APIKeys -> 0..MaxTime] /\ observed' \in [APIKeys -> 0..MaxTime]
    BY <1>0, <1>2 DEF UsesOK
  <1>4. UsesAreNotLost'
    <2> SUFFICES ASSUME NEW x \in APIKeys
                 PROVE  observed'[x] <= pendingUse'[x] \/ observed'[x] <= lastUsed'[x] + Granularity
      BY DEF UsesAreNotLost
    <2>1. CASE x = k
      <3>1. observed'[x] = Later(observed[k], at) /\ pendingUse'[x] = Later(pendingUse[k], at)
        BY <1>0, <2>1 DEF UsesOK
      <3> QED
        BY <1>0, <1>1, <2>1, <3>1, ThrottleBounds DEF Later
    <2>2. CASE x # k
      BY <1>0, <2>2 DEF UsesOK, UsesAreNotLost
    <2> QED
      BY <2>1, <2>2
  <1> QED
    BY <1>0, <1>3, <1>4 DEF UsesOK

LEMMA ReadSteps == ASSUME UsesOK, NEW f \in Flushers, NEW k \in APIKeys, ReadUse(f, k) PROVE UsesOK'
  <1>0. /\ batch' = [batch EXCEPT ![f] = [key |-> k, at |-> pendingUse[k], saved |-> FALSE]]
        /\ pendingUse' = pendingUse /\ lastUsed' = lastUsed /\ observed' = observed
    BY DEF ReadUse
  <1>1. pendingUse[k] \in 0..MaxTime
    BY DEF UsesOK
  <1>2. batch' \in [Flushers -> [key : APIKeys \cup {Nobody}, at : 0..MaxTime, saved : BOOLEAN]]
    BY <1>0, <1>1 DEF UsesOK
  <1>3. ASSUME NEW g \in Flushers, batch'[g].key # Nobody, batch'[g].saved
        PROVE  batch'[g].at <= lastUsed'[batch'[g].key] + Granularity
    <2>1. g # f /\ batch'[g] = batch[g]
      BY <1>0, <1>3 DEF UsesOK
    <2> QED
      BY <1>0, <1>3, <2>1 DEF UsesOK
  <1> QED
    BY <1>0, <1>2, <1>3 DEF UsesOK, UsesAreNotLost

LEMMA SaveSteps == ASSUME UsesOK, NEW f \in Flushers, SaveUse(f) PROVE UsesOK'
  <1> PICK k \in APIKeys, at \in 0..MaxTime : batch[f].key = k /\ batch[f].at = at /\ k # Nobody
    BY DEF UsesOK, SaveUse
  <1>0. /\ lastUsed' = [lastUsed EXCEPT ![k] = RecordAPIKeyUse(lastUsed[k], at)]
        /\ batch' = [batch EXCEPT ![f].saved = TRUE]
        /\ pendingUse' = pendingUse /\ observed' = observed
    BY DEF SaveUse
  <1>1. \A x \in APIKeys : lastUsed[x] \in 0..MaxTime
    BY DEF UsesOK
  <1>2. /\ RecordAPIKeyUse(lastUsed[k], at) \in 0..MaxTime
        /\ lastUsed[k] <= RecordAPIKeyUse(lastUsed[k], at)
        /\ at <= RecordAPIKeyUse(lastUsed[k], at) + Granularity
    BY <1>1, ThrottleBounds DEF RecordAPIKeyUse
  <1>3. /\ lastUsed' \in [APIKeys -> 0..MaxTime] /\ \A x \in APIKeys : lastUsed[x] <= lastUsed'[x]
        /\ at <= lastUsed'[k] + Granularity
    BY <1>0, <1>1, <1>2, ThrottleBounds DEF UsesOK
  <1>4. /\ batch' \in [Flushers -> [key : APIKeys \cup {Nobody}, at : 0..MaxTime, saved : BOOLEAN]]
        /\ \A g \in Flushers : batch'[g].key = batch[g].key /\ batch'[g].at = batch[g].at
        /\ \A g \in Flushers \ {f} : batch'[g] = batch[g]
    BY <1>0 DEF UsesOK
  <1>5. UsesAreNotLost'
    <2> SUFFICES ASSUME NEW x \in APIKeys
                 PROVE  observed'[x] <= pendingUse'[x] \/ observed'[x] <= lastUsed'[x] + Granularity
      BY DEF UsesAreNotLost
    <2>1. /\ observed[x] <= pendingUse[x] \/ observed[x] <= lastUsed[x] + Granularity
          /\ observed[x] \in 0..MaxTime /\ lastUsed'[x] \in 0..MaxTime /\ lastUsed[x] <= lastUsed'[x]
          /\ lastUsed[x] \in 0..MaxTime
      BY <1>1, <1>3 DEF UsesOK, UsesAreNotLost
    <2> QED
      BY <1>0, <2>1, ThrottleBounds
  <1>6. ASSUME NEW g \in Flushers, batch'[g].key # Nobody, batch'[g].saved
        PROVE  batch'[g].at <= lastUsed'[batch'[g].key] + Granularity
    <2>1. CASE g = f
      BY <1>3, <1>4, <2>1
    <2>2. CASE g # f
      <3> PICK x \in APIKeys, t \in 0..MaxTime : batch[g].key = x /\ batch[g].at = t
        BY <1>4, <1>6 DEF UsesOK
      <3>1. t <= lastUsed[x] + Granularity
        BY <1>4, <1>6, <2>2 DEF UsesOK
      <3>2. lastUsed[x] \in 0..MaxTime /\ lastUsed'[x] \in 0..MaxTime /\ lastUsed[x] <= lastUsed'[x]
        BY <1>1, <1>3
      <3>3. t <= lastUsed'[x] + Granularity
        BY <3>1, <3>2, ThrottleBounds
      <3> QED
        BY <1>4, <3>3
    <2> QED
      BY <2>1, <2>2
  <1> QED
    BY <1>0, <1>3, <1>4, <1>5, <1>6 DEF UsesOK

\* A flusher lets go of its entry, having removed what it recorded or nothing.
LEMMA LetGoSteps ==
  ASSUME UsesOK, NEW f \in Flushers, AcknowledgeUse(f) \/ FlushFails(f)
  PROVE  UsesOK'
  <1> PICK k \in APIKeys, at \in 0..MaxTime : batch[f].key = k /\ batch[f].at = at /\ k # Nobody
    BY DEF UsesOK, AcknowledgeUse, FlushFails
  <1>0. batch' = [batch EXCEPT ![f].key = Nobody] /\ lastUsed' = lastUsed /\ observed' = observed
    BY DEF AcknowledgeUse, FlushFails
  <1>1. /\ batch' \in [Flushers -> [key : APIKeys \cup {Nobody}, at : 0..MaxTime, saved : BOOLEAN]]
        /\ batch'[f].key = Nobody /\ \A g \in Flushers \ {f} : batch'[g] = batch[g]
    BY <1>0 DEF UsesOK
  <1>2. \A g \in Flushers : batch'[g].key # Nobody /\ batch'[g].saved =>
          batch'[g].at <= lastUsed'[batch'[g].key] + Granularity
    BY <1>0, <1>1 DEF UsesOK
  <1>3. CASE pendingUse' = pendingUse
    BY <1>0, <1>1, <1>2, <1>3 DEF UsesOK, UsesAreNotLost
  <1>4. CASE AcknowledgeUse(f)
    <2>1. batch[f].saved /\ pendingUse' = [pendingUse EXCEPT ![k] = RemainingUse(pendingUse[k], at)]
      BY <1>4 DEF AcknowledgeUse
    <2>2. /\ pendingUse[k] \in 0..MaxTime /\ observed[k] \in 0..MaxTime /\ lastUsed[k] \in 0..MaxTime
          /\ observed[k] <= pendingUse[k] \/ observed[k] <= lastUsed[k] + Granularity
          /\ at <= lastUsed[k] + Granularity
      BY <2>1 DEF UsesOK, UsesAreNotLost
    <2>3. /\ RemainingUse(pendingUse[k], at) \in 0..MaxTime
          /\ observed[k] <= RemainingUse(pendingUse[k], at) \/ observed[k] <= lastUsed[k] + Granularity
      BY <2>2, ThrottleBounds DEF RemainingUse
    <2>4. pendingUse' \in [APIKeys -> 0..MaxTime]
      BY <2>1, <2>3 DEF UsesOK
    <2>5. UsesAreNotLost'
      BY <1>0, <2>1, <2>3 DEF UsesOK, UsesAreNotLost
    <2> QED
      BY <1>0, <1>1, <1>2, <2>4, <2>5 DEF UsesOK
  <1> QED
    BY <1>3, <1>4 DEF FlushFails

LEMMA ThrottleSteps ==
  ThrottleInv /\ [ThrottleNext]_<<throttleVars, limiterVars, usageVars>> => ThrottleInv'
  <1> SUFFICES ASSUME ThrottleInv, [ThrottleNext]_<<throttleVars, limiterVars, usageVars>> PROVE ThrottleInv'
    OBVIOUS
  <1>0. /\ LoginsOK /\ CountersOK /\ UsesOK
        /\ UNCHANGED limiterVars => CountersOK'
        /\ UNCHANGED usageVars => UsesOK'
        /\ UNCHANGED throttleVars => LoginsOK'
    BY LoginsStay DEF ThrottleInv, limiterVars, usageVars, CountersOK, UsesOK, UsesAreNotLost
  <1>1. CASE Tick
    BY <1>0, <1>1, TickSteps, CountersTick DEF ThrottleInv, Tick
  <1>2. ASSUME NEW c \in Clients, RecordFailure(c) PROVE ThrottleInv'
    BY <1>0, <1>2, FailSteps DEF ThrottleInv, RecordFailure
  <1>3. ASSUME NEW c \in Clients, Reset(c) PROVE ThrottleInv'
    BY <1>0, <1>3, ResetSteps DEF ThrottleInv, Reset
  <1>4. ASSUME NEW c \in Clients, NEW account_ \in Accounts, NEW address \in Addresses, Check(c, account_, address)
        PROVE  ThrottleInv'
    BY <1>0, <1>4, CheckSteps DEF ThrottleInv, Check
  <1>5. ASSUME NEW x \in Limited, CountCall(x) PROVE ThrottleInv'
    BY <1>0, <1>5, CallSteps DEF ThrottleInv, CountCall
  <1>6. ASSUME NEW xs \in SUBSET Dimensions, acquire(xs) PROVE ThrottleInv'
    BY <1>0, <1>6, AcquireSteps DEF ThrottleInv, acquire, Limited
  <1>7. ASSUME NEW k \in APIKeys, NEW at \in 1..MaxTime, ObserveAPIKeyUse(k, at) PROVE ThrottleInv'
    BY <1>0, <1>7, ObservationSteps DEF ThrottleInv, ObserveAPIKeyUse
  <1>8. ASSUME NEW f \in Flushers, SaveUse(f) PROVE ThrottleInv'
    BY <1>0, <1>8, SaveSteps DEF ThrottleInv, SaveUse
  <1>9. ASSUME NEW f \in Flushers, AcknowledgeUse(f) \/ FlushFails(f) PROVE ThrottleInv'
    BY <1>0, <1>9, LetGoSteps DEF ThrottleInv, AcknowledgeUse, FlushFails
  <1>10. ASSUME NEW f \in Flushers, NEW k \in APIKeys, ReadUse(f, k) PROVE ThrottleInv'
    BY <1>0, <1>10, ReadSteps DEF ThrottleInv, ReadUse
  <1>11. AcquireVerificationRequest \/ AcquireAccountCompletion => \E xs \in SUBSET Dimensions : acquire(xs)
    BY DEF AcquireVerificationRequest, AcquireAccountCompletion, kSubset
  <1>12. CASE UNCHANGED <<throttleVars, limiterVars, usageVars>>
    BY <1>0, <1>12 DEF ThrottleInv
  <1> QED
    BY <1>1, <1>2, <1>3, <1>4, <1>5, <1>6, <1>7, <1>8, <1>9, <1>10, <1>11, <1>12
       DEF ThrottleNext, CheckRefresh, AcquireAPIKeyCreation

LEMMA ThrottleImplies == ThrottleInv => ThrottleTypeOK /\ GuessingIsThrottled /\ LimitsHold /\ UsesAreNotLost
  <1> SUFFICES ASSUME ThrottleInv PROVE ThrottleTypeOK /\ GuessingIsThrottled /\ LimitsHold /\ UsesAreNotLost
    OBVIOUS
  <1>1. \A b \in Buckets : bucket[b].count \in 0..MaxFailed /\ bucket[b].count < Limit + Cardinality(Clients)
    <2> TAKE b \in Buckets
    <2>1. BucketOK(b)
      BY DEF ThrottleInv, LoginsOK
    <2>2. Cardinality(InFlight(b)) \in Nat
      BY InFlightIsBounded
    <2> QED
      BY <2>1, <2>2, ThrottleBounds DEF BucketOK, MaxFailed
  <1>2. GuessingIsThrottled
    BY <1>1 DEF GuessingIsThrottled
  <1>3. bucket \in [Buckets -> [count : 0..MaxFailed, blocked : 0..Window, ttl : 0..Window]]
    BY <1>1 DEF ThrottleInv, LoginsOK
  <1> QED
    BY <1>2, <1>3 DEF ThrottleInv, ThrottleTypeOK, LoginsOK, CountersOK, UsesOK, LimitsHold

\* Only the end of its life takes failures from the bucket of an address.
LEMMA AddressSteps ==
  ThrottleInv /\ [ThrottleNext]_<<throttleVars, limiterVars, usageVars>> =>
    [\A b \in Addresses : bucket'[b].count < bucket[b].count => bucket[b].ttl = 1]_throttleVars
  <1> SUFFICES ASSUME ThrottleInv, [ThrottleNext]_<<throttleVars, limiterVars, usageVars>>,
                      NEW b \in Addresses, bucket'[b].count < bucket[b].count
               PROVE  bucket[b].ttl = 1
    BY DEF throttleVars
  <1>0. /\ b \in Buckets /\ BucketOK(b) /\ bucket[b] \in [count : Nat, blocked : 0..Window, ttl : 0..Window]
        /\ bucket[b].count \in Nat /\ bucket[b].ttl \in 0..Window
    BY DEF ThrottleInv, LoginsOK, Buckets
  <1>1. CASE Tick
    <2>1. bucket'[b] = Aged(bucket[b])
      BY <1>0, <1>1 DEF Tick
    <2>2. bucket[b].ttl <= 1 /\ bucket'[b].count = 0
      BY <1>0, <2>1, AgedRow DEF NoBucket
    <2>3. bucket[b].ttl > 0
      BY <1>0, <2>2 DEF BucketOK
    <2> QED
      BY <1>0, <2>2, <2>3
  <1>2. ASSUME NEW c \in Clients, RecordFailure(c) PROVE FALSE
    <2>1. bucket'[b].count \in {bucket[b].count, bucket[b].count + 1}
      BY <1>0, <1>2 DEF RecordFailure, Failed
    <2> QED
      BY <1>0, <2>1
  <1>3. ASSUME NEW c \in Clients, Reset(c) PROVE FALSE
    <2>1. login[c][1] \in Accounts
      BY <1>3 DEF ThrottleInv, LoginsOK, Reset
    <2>2. b # login[c][1]
      BY <2>1, ThrottleBounds
    <2>3. bucket'[b] = bucket[b]
      BY <1>0, <1>3, <2>2 DEF Reset, ThrottleInv, LoginsOK
    <2> QED
      BY <1>0, <2>3
  <1>4. CASE bucket' = bucket
    BY <1>0, <1>4
  <1> QED
    BY <1>1, <1>2, <1>3, <1>4 DEF ThrottleNext, throttleVars, Check, CheckRefresh, AcquireAPIKeyCreation, CountCall,
       AcquireVerificationRequest, AcquireAccountCompletion, acquire, ObserveAPIKeyUse, SaveUse, AcknowledgeUse,
       FlushFails, ReadUse

\* However logins, limited operations and flushes overlap: wrong passwords are
\* bounded by the limit and the logins already past their check, no counter lets
\* more through than its limit, no observed use of an API Key is lost, and a login
\* frees its account, never its address (RedisLoginThrottle and its siblings).
THEOREM ThrottleTheorem == ThrottleSpec => ThrottlesHold
  <1>1. ThrottleInit => ThrottleInv
    BY ThrottleInitially
  <1>2. ThrottleInv /\ [ThrottleNext]_<<throttleVars, limiterVars, usageVars>> => ThrottleInv'
    BY ThrottleSteps
  <1>3. ThrottleInv => ThrottleTypeOK /\ GuessingIsThrottled /\ LimitsHold /\ UsesAreNotLost
    BY ThrottleImplies
  <1>4. ThrottleInv /\ [ThrottleNext]_<<throttleVars, limiterVars, usageVars>> =>
          [\A b \in Addresses : bucket'[b].count < bucket[b].count => bucket[b].ttl = 1]_throttleVars
    BY AddressSteps
  <1> QED
    BY <1>1, <1>2, <1>3, <1>4, PTL DEF ThrottleSpec, ThrottlesHold, AddressesStayCounted

(***************************************************************************)
(* OIDC flows.                                                             *)
(***************************************************************************)
\* An operation of a link names the seat that began it.
OperationsOK ==
  /\ \A st \in States : operation[st].kind = "identity_link" => operation[st].seat \in Seats
  /\ OneOperationPerKey

\* The operation of a flow is spent, nothing came of it yet, and the flow carries
\* what the operation says and the code it was issued.
FlowOK(f) ==
  /\ operation[f.state].status = "gone"
  /\ \A d \in done : d.state # f.state
  /\ f.subject # NoOne => f.from = f.state
  /\ f.kind = "identity_link" => f.claims.seat \in Seats /\ f.claims.version = operation[f.state].version

\* What is done came of a spent operation, once.
DoneOK(d) == operation[d.state].status = "gone" /\ d.times = 1 /\ d.from = d.state

FlowsOK ==
  /\ \A f \in flow : FlowOK(f)
  /\ \A f, g \in flow : f.state = g.state => f = g
  /\ \A d \in done : DoneOK(d)

OIDCInv == OIDCTypeOK /\ OperationsOK /\ FlowsOK /\ IdentitiesFollowEmails

LEMMA OIDCInitially == OIDCInit => OIDCInv
  <1> SUFFICES ASSUME OIDCInit PROVE OIDCInv
    OBVIOUS
  <1>1. operation \in [States -> OIDCOperation]
    BY DEF OIDCInit, OIDCOperation, Boundaries
  <1>2. identity \in [Subjects -> Humans \cup {NoOne}] /\ IdentitiesFollowEmails
    BY DEF OIDCInit, IdentitiesFollowEmails
  <1>3. seat \in [Seats -> SeatRow]
    <2>1. ASSUME NEW row \in [person : Humans, boundary : Boundaries, active : {TRUE},
                              version : {1}, fresh : {TRUE}, live : {TRUE}]
          PROVE  row \in SeatRow
      <3>1. row.active \in {TRUE} /\ row.fresh \in {TRUE} /\ row.live \in {TRUE} /\ row.version \in {1}
        OBVIOUS
      <3>2. row.active \in BOOLEAN /\ row.fresh \in BOOLEAN /\ row.live \in BOOLEAN
        BY <3>1, Zenon
      <3>3. row.version \in 1..2
        BY <3>1
      <3> QED
        BY <3>2, <3>3 DEF SeatRow
    <2> QED
      BY <2>1 DEF OIDCInit
  <1>4. OIDCTypeOK
    BY <1>1, <1>2, <1>3 DEF OIDCInit, OIDCTypeOK
  <1>5. OperationsOK
    BY DEF OIDCInit, OperationsOK, OneOperationPerKey, Stored
  <1>6. FlowsOK
    BY DEF OIDCInit, FlowsOK
  <1> QED
    BY <1>2, <1>4, <1>5, <1>6 DEF OIDCInv

\* A spent operation stays as it is.
LEMMA FlowsStay ==
  ASSUME FlowsOK, OIDCTypeOK, flow' \subseteq flow, done' = done,
         \A st \in States : operation[st].status = "gone" => operation'[st] = operation[st]
  PROVE  FlowsOK'
  <1>1. \A f \in flow : f.state \in States
    BY DEF OIDCTypeOK, Flow
  <1>2. \A d \in done : d.state \in States
    BY DEF OIDCTypeOK, Completed
  <1> QED
    BY <1>1, <1>2 DEF FlowsOK, FlowOK, DoneOK

LEMMA CreateSteps ==
  ASSUME OIDCInv, NEW st \in States, NEW o \in OIDCOperation, CreateOrGet(st, o), o.status = "stored",
         o.kind = "identity_link" => o.seat \in Seats,
         UNCHANGED <<code, flow, identity, email, seat, enters, done>>
  PROVE  OIDCInv'
  <1>0. /\ operation[st].status = "unused" /\ operation' = [operation EXCEPT ![st] = o]
        /\ \A x \in Stored : operation[x].key # o.key
        /\ OIDCTypeOK /\ OperationsOK /\ FlowsOK /\ IdentitiesFollowEmails
    BY DEF CreateOrGet, OIDCInv
  <1>1. /\ operation' \in [States -> OIDCOperation] /\ operation'[st] = o
        /\ \A x \in States \ {st} : operation'[x] = operation[x]
    BY <1>0 DEF OIDCTypeOK
  <1>2. OIDCTypeOK'
    BY <1>0, <1>1 DEF OIDCTypeOK
  <1>3. FlowsOK'
    <2>1. \A x \in States : operation[x].status = "gone" => operation'[x] = operation[x]
      BY <1>0, <1>1
    <2> QED
      BY <1>0, <2>1, FlowsStay
  <1>4. OperationsOK'
    BY <1>0, <1>1 DEF OperationsOK, OneOperationPerKey, Stored
  <1>5. IdentitiesFollowEmails'
    BY <1>0 DEF IdentitiesFollowEmails
  <1> QED
    BY <1>2, <1>3, <1>4, <1>5 DEF OIDCInv

LEMMA BeginSteps ==
  ASSUME OIDCInv, NEW st \in States, NEW k \in OIDCKeys,
         \/ HumanBeginLogin(st, k)
         \/ \E s \in Seats, browser \in BOOLEAN : HumanBeginIdentityLink(st, s, k, browser)
  PROVE  OIDCInv'
  <1>1. ASSUME NEW b \in Boundaries, CreateOrGet(st, LoginOperation(b, k)),
               UNCHANGED <<code, flow, identity, email, seat, enters, done>>
        PROVE  OIDCInv'
    <2> PICK o : o = LoginOperation(b, k)
      OBVIOUS
    <2>1. o \in OIDCOperation /\ o.status = "stored" /\ o.kind = "login"
      BY <1>1 DEF LoginOperation, OIDCOperation
    <2>2. CreateOrGet(st, o)
      BY <1>1
    <2> QED
      BY <1>1, <2>1, <2>2, CreateSteps
  <1>2. ASSUME NEW s \in Seats, NEW browser \in BOOLEAN, CreateOrGet(st, LinkOperation(s, k, browser)),
               UNCHANGED <<code, flow, identity, email, seat, enters, done>>
        PROVE  OIDCInv'
    <2> PICK o : o = LinkOperation(s, k, browser)
      OBVIOUS
    <2>0. seat[s].boundary \in Boundaries /\ seat[s].version \in 0..2
      BY DEF OIDCInv, OIDCTypeOK, SeatRow
    <2>1. o \in OIDCOperation /\ o.status = "stored" /\ o.seat \in Seats
      BY <1>2, <2>0 DEF LinkOperation, OIDCOperation
    <2>2. CreateOrGet(st, o)
      BY <1>2
    <2> QED
      BY <1>2, <2>1, <2>2, CreateSteps
  <1> QED
    BY <1>1, <1>2 DEF HumanBeginLogin, HumanBeginIdentityLink, BeginLogin, BossBeginLogin, BeginIdentityLink,
       BossBeginIdentityLink, Boundaries

\* An operation leaves the store, into a flow that carries what it says or in vain.
LEMMA SpendSteps ==
  ASSUME OIDCInv, NEW st \in States, Consume(st), NEW c \in Claims,
         operation[st].kind = "identity_link" => c.seat \in Seats /\ c.version = operation[st].version,
         flow' \in {flow, flow \cup {NewFlow(st, c)}},
         UNCHANGED <<code, identity, email, seat, enters, done>>
  PROVE  OIDCInv'
  <1>0. /\ st \in Stored /\ operation[st].status = "stored" /\ operation' = [operation EXCEPT ![st].status = "gone"]
        /\ OIDCTypeOK /\ OperationsOK /\ FlowsOK /\ IdentitiesFollowEmails
    BY DEF Consume, OIDCInv, Stored
  <1>1. /\ operation' \in [States -> OIDCOperation] /\ operation'[st].status = "gone"
        /\ \A x \in States \ {st} : operation'[x] = operation[x]
        /\ \A x \in States : /\ operation'[x].kind = operation[x].kind /\ operation'[x].seat = operation[x].seat
                             /\ operation'[x].version = operation[x].version /\ operation'[x].key = operation[x].key
    BY <1>0 DEF OIDCTypeOK, OIDCOperation
  <1> PICK f : f = NewFlow(st, c)
    OBVIOUS
  <1>2. /\ f \in Flow /\ f.state = st /\ f.kind = operation[st].kind /\ f.claims = c /\ f.subject = NoOne
    <2>1. operation[st].kind \in {"login", "identity_link"} /\ operation[st].boundary \in Boundaries
      BY <1>0 DEF OIDCTypeOK, OIDCOperation
    <2> QED
      BY <2>1 DEF NewFlow, Flow
  <1>3. OIDCTypeOK'
    BY <1>0, <1>1, <1>2 DEF OIDCTypeOK
  <1>4. OperationsOK'
    BY <1>0, <1>1 DEF OperationsOK, OneOperationPerKey, Stored
  <1>5. FlowsOK'
    <2>1. \A g \in flow : g.state \in States /\ g.state # st
      BY <1>0 DEF OIDCTypeOK, Flow, FlowsOK, FlowOK
    <2>2. \A d \in done : d.state \in States /\ d.state # st
      BY <1>0 DEF OIDCTypeOK, Completed, FlowsOK, DoneOK
    <2>3. \A g \in flow : FlowOK(g)'
      BY <1>0, <1>1, <2>1 DEF FlowsOK, FlowOK
    <2>4. FlowOK(f)'
      BY <1>0, <1>1, <1>2, <2>2 DEF FlowOK
    <2>5. \A d \in done : DoneOK(d)'
      BY <1>0, <1>1, <2>2 DEF FlowsOK, DoneOK
    <2>6. \A g, h \in flow' : g.state = h.state => g = h
      BY <1>0, <1>2, <2>1 DEF FlowsOK
    <2> QED
      BY <2>3, <2>4, <2>5, <2>6 DEF FlowsOK
  <1>6. IdentitiesFollowEmails'
    BY <1>0 DEF IdentitiesFollowEmails
  <1> QED
    BY <1>3, <1>4, <1>5, <1>6 DEF OIDCInv

LEMMA CompleteSteps ==
  ASSUME OIDCInv, NEW st \in States, HumanCompleteLogin(st) \/ HumanCompleteIdentityLink(st)
  PROVE  OIDCInv'
  <1>0. /\ UNCHANGED <<code, identity, email, seat, enters, done>> /\ Consume(st)
    BY DEF HumanCompleteLogin, HumanCompleteIdentityLink, CompleteLogin, BossCompleteLogin, CompleteIdentityLink,
       BossCompleteIdentityLink, PresentCredential, PresentBrowserProof
  <1>1. CASE HumanCompleteLogin(st)
    <2> PICK c : c = [seat |-> NoOne, version |-> 0]
      OBVIOUS
    <2>1. c \in Claims
      BY DEF Claims
    <2>2. CASE flow' = flow
      <3> PICK cc \in Claims : cc = [seat |-> operation[st].seat, version |-> operation[st].version]
        BY DEF OIDCInv, OIDCTypeOK, OIDCOperation, Claims
      <3>1. operation[st].kind = "identity_link" => cc.seat \in Seats /\ cc.version = operation[st].version
        BY DEF OIDCInv, OperationsOK
      <3> QED
        BY <1>0, <2>2, <3>1, SpendSteps
    <2>3. CASE operation[st].kind = "login" /\ flow' = flow \cup {NewFlow(st, c)}
      BY <1>0, <2>1, <2>3, SpendSteps
    <2> QED
      BY <1>1, <2>2, <2>3 DEF HumanCompleteLogin, CompleteLogin, BossCompleteLogin, SpentByLogin, validOperation
  <1>2. CASE HumanCompleteIdentityLink(st)
    <2>0. operation[st].kind = "identity_link" => operation[st].seat \in Seats
      BY DEF OIDCInv, OperationsOK
    <2> PICK c \in Claims : c = [seat |-> operation[st].seat, version |-> operation[st].version]
      BY DEF OIDCInv, OIDCTypeOK, OIDCOperation, Claims
    <2>1. operation[st].kind = "identity_link" => c.seat \in Seats /\ c.version = operation[st].version
      BY <2>0
    <2>2. flow' \in {flow, flow \cup {NewFlow(st, c)}}
      <3>1. ASSUME NEW b, NEW s \in Seats, PresentCredential(st, b, s)
            PROVE  flow' \in {flow, flow \cup {NewFlow(st, c)}}
        <4>1. operation[st].seat = s /\ operation[st].version = seat[s].version => ClaimsOf(s) = c
          BY DEF ClaimsOf
        <4> QED
          BY <3>1, <4>1 DEF PresentCredential
      <3>2. ASSUME NEW right \in BOOLEAN,
                   \/ PresentBrowserProof(st, "tenant", right, validateIdentityLinkClaims)
                   \/ PresentBrowserProof(st, "platform", right, BossValidate)
            PROVE  flow' \in {flow, flow \cup {NewFlow(st, c)}}
        BY <3>2 DEF PresentBrowserProof
      <3> QED
        BY <1>2, <3>1, <3>2 DEF HumanCompleteIdentityLink, CompleteIdentityLink, BossCompleteIdentityLink
    <2> QED
      BY <1>0, <2>1, <2>2, SpendSteps
  <1> QED
    BY <1>1, <1>2

\* A flow and the code it was exchanged for.
Exchanged(f, c) == [f EXCEPT !.subject = c.subject, !.from = c.state]

LEMMA ExchangedFlow ==
  ASSUME NEW f \in Flow, NEW c \in [state : States, subject : Subjects]
  PROVE  /\ Exchanged(f, c) \in Flow /\ Exchanged(f, c).state = f.state /\ Exchanged(f, c).kind = f.kind
         /\ Exchanged(f, c).claims = f.claims /\ Exchanged(f, c).subject = c.subject
         /\ Exchanged(f, c).from = c.state
  BY DEF Exchanged, Flow

LEMMA ExchangeSteps ==
  ASSUME OIDCInv, NEW f \in flow, NEW c \in code, ExchangeCode(f, c)
  PROVE  OIDCInv'
  <1>0. /\ operation' = operation /\ identity' = identity /\ email' = email /\ seat' = seat /\ enters' = enters
        /\ done' = done /\ code' = code \ {c}
        /\ OIDCTypeOK /\ OperationsOK /\ FlowsOK /\ IdentitiesFollowEmails
        /\ f \in Flow /\ c \in [state : States, subject : Subjects]
    BY DEF ExchangeCode, OIDCInv, OIDCTypeOK
  <1>1. OperationsOK' /\ IdentitiesFollowEmails'
    BY <1>0 DEF OperationsOK, OneOperationPerKey, Stored, IdentitiesFollowEmails
  <1>2. CASE flow' = flow \ {f}
    <2>1. FlowsOK'
      BY <1>0, <1>2, FlowsStay
    <2>2. OIDCTypeOK'
      BY <1>0, <1>2 DEF OIDCTypeOK
    <2> QED
      BY <1>1, <2>1, <2>2 DEF OIDCInv
  <1>3. CASE c.state = f.state /\ flow' = (flow \ {f}) \cup {Exchanged(f, c)}
    <2> PICK g : g = Exchanged(f, c)
      OBVIOUS
    <2>1. /\ g \in Flow /\ g.state = f.state /\ g.kind = f.kind /\ g.claims = f.claims /\ g.from = f.state
      BY <1>0, <1>3, ExchangedFlow
    <2>2. FlowOK(f)
      BY <1>0 DEF FlowsOK
    <2>3. FlowOK(g)'
      BY <1>0, <2>1, <2>2 DEF FlowOK
    <2>4. \A h \in flow \ {f} : FlowOK(h)' /\ h.state # g.state
      BY <1>0, <2>1 DEF FlowsOK, FlowOK
    <2>5. FlowsOK'
      <3>1. \A d \in done' : DoneOK(d)'
        BY <1>0 DEF FlowsOK, DoneOK
      <3>2. \A h \in flow' : FlowOK(h)'
        BY <1>3, <2>3, <2>4
      <3>3. \A h, i \in flow' : h.state = i.state => h = i
        BY <1>0, <1>3, <2>4 DEF FlowsOK
      <3> QED
        BY <3>1, <3>2, <3>3 DEF FlowsOK
    <2>6. OIDCTypeOK'
      BY <1>0, <1>3, <2>1 DEF OIDCTypeOK
    <2> QED
      BY <1>1, <2>5, <2>6 DEF OIDCInv
  <1> QED
    BY <1>2, <1>3 DEF ExchangeCode, ExchangeAndVerify, recordOIDCLoginFailure, recordOIDCIdentityLinkFailure, Exchanged

\* A flow ends in one completion at most.
LEMMA EndFlow ==
  ASSUME OIDCInv, NEW f \in flow, f.subject # NoOne, flow' = flow \ {f}, NEW p \in Humans,
         done' \in {done, done \cup {CompletedFlow(f, p)}}, operation' = operation
  PROVE  FlowsOK' /\ done' \subseteq Completed
  <1>0. /\ OIDCTypeOK /\ FlowsOK /\ FlowOK(f) /\ f \in Flow
    BY DEF OIDCInv, FlowsOK, OIDCTypeOK
  <1>1. f.state \in States /\ f.kind \in {"login", "identity_link"} /\ f.subject \in Subjects /\ f.from = f.state
    BY <1>0 DEF Flow, FlowOK
  <1>2. Times(f) = 1
    <2>1. {d \in done : d.state = f.state} = {}
      BY <1>0 DEF FlowOK
    <2> QED
      BY <2>1, FS_EmptySet DEF Times
  <1> PICK e : e = CompletedFlow(f, p)
    OBVIOUS
  <1>3. e \in Completed /\ e.state = f.state /\ e.times = 1 /\ e.from = f.state
    BY <1>1, <1>2 DEF CompletedFlow, Completed
  <1>4. DoneOK(e)'
    BY <1>0, <1>3 DEF DoneOK, FlowOK
  <1>5. \A g \in flow' : FlowOK(g)' /\ g.state # f.state
    <2> TAKE g \in flow'
    <2>1. g \in flow /\ g # f /\ FlowOK(g) /\ g.state # f.state
      BY <1>0 DEF FlowsOK
    <2> QED
      BY <1>3, <2>1 DEF FlowOK
  <1>6. \A d \in done' : DoneOK(d)'
    BY <1>0, <1>4 DEF FlowsOK, DoneOK
  <1>7. \A g, h \in flow' : g.state = h.state => g = h
    BY <1>0 DEF FlowsOK
  <1> QED
    BY <1>0, <1>3, <1>5, <1>6, <1>7 DEF FlowsOK, OIDCTypeOK

LEMMA CommitLoginSteps == ASSUME OIDCInv, NEW f \in flow, CommitOIDCLogin(f) PROVE OIDCInv'
  <1>0. /\ f.subject # NoOne /\ flow' = flow \ {f} /\ operation' = operation /\ code' = code
        /\ identity' = identity /\ email' = email /\ seat' = seat /\ enters' = enters
        /\ OIDCTypeOK /\ OperationsOK /\ FlowsOK /\ IdentitiesFollowEmails
    BY DEF CommitOIDCLogin, OIDCInv
  <1>1. f.subject \in Subjects
    BY <1>0 DEF OIDCTypeOK, Flow
  <1>2. PICK p \in Humans : done' \in {done, done \cup {CompletedFlow(f, p)}}
    <2>1. email[f.subject] \in Humans
      BY <1>0, <1>1 DEF OIDCTypeOK
    <2> QED
      BY <2>1 DEF CommitOIDCLogin, LockOIDCLoginAuthentication, createOIDCSessionGraph
  <1>3. FlowsOK' /\ done' \subseteq Completed
    BY <1>0, <1>2, EndFlow
  <1>4. OIDCTypeOK'
    BY <1>0, <1>3 DEF OIDCTypeOK
  <1>5. OperationsOK' /\ IdentitiesFollowEmails'
    BY <1>0 DEF OperationsOK, OneOperationPerKey, Stored, IdentitiesFollowEmails
  <1> QED
    BY <1>3, <1>4, <1>5 DEF OIDCInv

LEMMA EndLinkSteps ==
  ASSUME OIDCInv, NEW f \in flow, NEW may, EndLink(f, may), may => MayLink(f)
  PROVE  OIDCInv'
  <1>0. /\ f.kind = "identity_link" /\ f.subject # NoOne /\ flow' = flow \ {f} /\ operation' = operation /\ code' = code
        /\ email' = email /\ seat' = seat /\ enters' = enters
        /\ OIDCTypeOK /\ OperationsOK /\ FlowsOK /\ IdentitiesFollowEmails
    BY DEF EndLink, recordOIDCIdentityLinkFailure, OIDCInv
  <1>1. f.subject \in Subjects /\ f.claims.seat \in Seats
    BY <1>0 DEF OIDCTypeOK, Flow, FlowsOK, FlowOK
  <1> PICK p \in Humans : p = seat[f.claims.seat].person
    BY <1>0, <1>1 DEF OIDCTypeOK, SeatRow
  <1>2. \/ identity' = identity /\ done' = done
        \/ /\ identity' = [identity EXCEPT ![f.subject] = p] /\ done' = done \cup {CompletedFlow(f, p)}
           /\ email[f.subject] = p
    BY DEF EndLink, CreateOIDCIdentity, MayLink, LookupVerifiedEmailOwner
  <1>3. FlowsOK' /\ done' \subseteq Completed
    BY <1>0, <1>2, EndFlow
  <1>4. identity' \in [Subjects -> Humans \cup {NoOne}] /\ IdentitiesFollowEmails'
    BY <1>0, <1>1, <1>2 DEF OIDCTypeOK, IdentitiesFollowEmails
  <1>5. OIDCTypeOK'
    BY <1>0, <1>3, <1>4 DEF OIDCTypeOK
  <1>6. OperationsOK'
    BY <1>0 DEF OperationsOK, OneOperationPerKey, Stored
  <1> QED
    BY <1>3, <1>4, <1>5, <1>6 DEF OIDCInv

LEMMA WorldSteps ==
  ASSUME OIDCInv,
         \/ \E st \in States : OperationExpires(st) \/ \E x \in Subjects : AuthorizationURL(st, x)
         \/ \E f \in flow : classifyOIDCProviderExchangeError(f)
         \/ \E s \in Seats : SeatMoves(s)
         \/ \E p \in Humans : HumanSuspended(p)
         \/ UNCHANGED oidcVars
  PROVE  OIDCInv'
  <1>0. /\ OIDCTypeOK /\ OperationsOK /\ FlowsOK /\ IdentitiesFollowEmails
        /\ identity' = identity /\ email' = email /\ done' = done /\ flow' \subseteq flow
    BY DEF OIDCInv, OperationExpires, AuthorizationURL, classifyOIDCProviderExchangeError, recordOIDCLoginFailure,
       SeatMoves, HumanSuspended, oidcVars
  <1>1. /\ operation' \in [States -> OIDCOperation] /\ OperationsOK'
        /\ \A st \in States : operation[st].status = "gone" => operation'[st] = operation[st]
    <2>1. CASE operation' = operation
      BY <1>0, <2>1 DEF OIDCTypeOK, OperationsOK, OneOperationPerKey, Stored
    <2>2. ASSUME NEW st \in States, OperationExpires(st)
          PROVE  /\ operation' \in [States -> OIDCOperation] /\ OperationsOK'
                 /\ \A x \in States : operation[x].status = "gone" => operation'[x] = operation[x]
      <3>1. operation[st].status = "stored" /\ operation' = [operation EXCEPT ![st].status = "gone"]
        BY <2>2 DEF OperationExpires, Stored
      <3>2. /\ operation' \in [States -> OIDCOperation] /\ operation'[st].status = "gone"
            /\ \A x \in States \ {st} : operation'[x] = operation[x]
            /\ \A x \in States : /\ operation'[x].kind = operation[x].kind /\ operation'[x].seat = operation[x].seat
                                 /\ operation'[x].key = operation[x].key
        BY <1>0, <3>1 DEF OIDCTypeOK, OIDCOperation
      <3> QED
        BY <1>0, <3>1, <3>2 DEF OperationsOK, OneOperationPerKey, Stored
    <2> QED
      BY <2>1, <2>2 DEF AuthorizationURL, classifyOIDCProviderExchangeError, SeatMoves, HumanSuspended, oidcVars
  <1>2. FlowsOK'
    BY <1>0, <1>1, FlowsStay
  <1>3. IdentitiesFollowEmails'
    BY <1>0 DEF IdentitiesFollowEmails
  <1>4. seat' \in [Seats -> SeatRow]
    <2>1. CASE seat' = seat
      BY <1>0, <2>1 DEF OIDCTypeOK
    <2>2. ASSUME NEW s \in Seats, SeatMoves(s) PROVE seat' \in [Seats -> SeatRow]
      <3> PICK old \in SeatRow : old = seat[s]
        BY <1>0 DEF OIDCTypeOK
      <3>1. [old EXCEPT !.active = FALSE] \in SeatRow
        BY DEF SeatRow
      <3> PICK mid \in SeatRow : mid = [old EXCEPT !.active = FALSE]
        BY <3>1
      <3>2. \A row \in SeatRow : [row EXCEPT !.version = 2] \in SeatRow
        BY DEF SeatRow
      <3>a. [old EXCEPT !.fresh = FALSE] \in SeatRow
        BY DEF SeatRow
      <3>b. [old EXCEPT !.live = FALSE] \in SeatRow
        BY DEF SeatRow
      <3>c. CASE seat' = [seat EXCEPT ![s].active = FALSE, ![s].version = 2]
        <4>1. seat' = [seat EXCEPT ![s] = [mid EXCEPT !.version = 2]]
          BY <1>0, <3>c DEF OIDCTypeOK
        <4> QED
          BY <1>0, <3>2, <4>1 DEF OIDCTypeOK
      <3>d. CASE seat' = [seat EXCEPT ![s].version = 2] \/ seat' = [seat EXCEPT ![s].fresh = FALSE]
                   \/ seat' = [seat EXCEPT ![s].live = FALSE]
        BY <1>0, <3>d, <3>2, <3>a, <3>b DEF OIDCTypeOK
      <3> QED
        BY <2>2, <3>c, <3>d DEF SeatMoves
    <2> QED
      BY <2>1, <2>2 DEF OperationExpires, AuthorizationURL, classifyOIDCProviderExchangeError, HumanSuspended, oidcVars
  <1>5. code' \subseteq [state : States, subject : Subjects] /\ enters' \subseteq Humans
    <2>1. ASSUME NEW st \in States, NEW x \in Subjects, AuthorizationURL(st, x)
          PROVE  code' \subseteq [state : States, subject : Subjects] /\ enters' \subseteq Humans
      BY <1>0, <2>1 DEF OIDCTypeOK, AuthorizationURL
    <2>2. CASE code' = code /\ enters' \subseteq enters
      BY <1>0, <2>2 DEF OIDCTypeOK
    <2> QED
      BY <2>1, <2>2 DEF OperationExpires, classifyOIDCProviderExchangeError, SeatMoves, HumanSuspended, oidcVars
  <1>6. OIDCTypeOK'
    BY <1>0, <1>1, <1>4, <1>5 DEF OIDCTypeOK
  <1> QED
    BY <1>1, <1>2, <1>3, <1>6 DEF OIDCInv

LEMMA OIDCSteps == OIDCInv /\ [OIDCNext]_oidcVars => OIDCInv'
  <1> SUFFICES ASSUME OIDCInv, [OIDCNext]_oidcVars PROVE OIDCInv'
    OBVIOUS
  <1>1. ASSUME NEW st \in States,
               \/ HumanCompleteIdentityLink(st) \/ HumanCompleteLogin(st)
               \/ \E k \in OIDCKeys : HumanBeginLogin(st, k)
               \/ \E s \in Seats, k \in OIDCKeys, browser \in BOOLEAN : HumanBeginIdentityLink(st, s, k, browser)
        PROVE  OIDCInv'
    BY <1>1, CompleteSteps, BeginSteps
  <1>2. ASSUME NEW f \in flow,
               \/ CommitOIDCLogin(f) \/ LinkOIDCIdentity(f) \/ WithinPlatformIdentityLink(f)
               \/ \E c \in code : ExchangeCode(f, c)
        PROVE  OIDCInv'
    <2>1. CASE \E may : EndLink(f, may) /\ (may => MayLink(f))
      BY <1>2, <2>1, EndLinkSteps
    <2>2. LinkOIDCIdentity(f) \/ WithinPlatformIdentityLink(f) => \E may : EndLink(f, may) /\ (may => MayLink(f))
      <3>1. LinkOIDCIdentity(f) => \E may : EndLink(f, may) /\ (may => MayLink(f))
        <4> DEFINE m == LockOIDCLinkAuthentication(f) /\ MayLink(f)
        <4>1. LinkOIDCIdentity(f) => EndLink(f, m) /\ (m => MayLink(f))
          BY DEF LinkOIDCIdentity
        <4> HIDE DEF m
        <4> QED
          BY <4>1
      <3>2. WithinPlatformIdentityLink(f) => \E may : EndLink(f, may) /\ (may => MayLink(f))
        <4> DEFINE m == LockPlatformIdentityLinkAuthentication(f) /\ MayLink(f)
        <4>1. WithinPlatformIdentityLink(f) => EndLink(f, m) /\ (m => MayLink(f))
          BY DEF WithinPlatformIdentityLink
        <4> HIDE DEF m
        <4> QED
          BY <4>1
      <3> QED
        BY <3>1, <3>2
    <2> QED
      BY <1>2, <2>1, <2>2, CommitLoginSteps, ExchangeSteps
  <1>3. CASE \/ \E st \in States : OperationExpires(st) \/ \E x \in Subjects : AuthorizationURL(st, x)
             \/ \E f \in flow : classifyOIDCProviderExchangeError(f)
             \/ \E s \in Seats : SeatMoves(s)
             \/ \E p \in Humans : HumanSuspended(p)
             \/ UNCHANGED oidcVars
    BY <1>3, WorldSteps
  <1> QED
    BY <1>1, <1>2, <1>3, Zenon DEF OIDCNext

LEMMA OIDCImplies ==
  OIDCInv => OIDCTypeOK /\ StatesAreSpentOnce /\ CodesStayWithTheirFlow /\ OneOperationPerKey /\ IdentitiesFollowEmails
  BY DEF OIDCInv, FlowsOK, FlowOK, DoneOK, OperationsOK, StatesAreSpentOnce, CodesStayWithTheirFlow

\* What changes an identity is the end of a link whose seat is current.
LEMMA LinkChanges ==
  ASSUME OIDCInv, NEW f \in flow, NEW may, EndLink(f, may), may => LockOIDCLinkAuthentication(f) /\ MayLink(f),
         NEW x \in Subjects, identity[x] # identity'[x]
  PROVE  /\ identity[x] = NoOne
         /\ \E s \in Seats, g \in flow :
              /\ g.claims.seat = s /\ g.subject = x /\ g \notin flow'
              /\ seat[s].active /\ seat[s].version = operation[g.state].version
              /\ identity'[x] = seat[s].person
  <1>0. OIDCTypeOK /\ FlowOK(f) /\ f.kind = "identity_link" /\ flow' = flow \ {f}
    BY DEF OIDCInv, FlowsOK, EndLink, recordOIDCIdentityLinkFailure
  <1>1. /\ may /\ identity' = [identity EXCEPT ![f.subject] = seat[f.claims.seat].person]
    BY DEF EndLink, CreateOIDCIdentity
  <1>2. x = f.subject /\ identity'[x] = seat[f.claims.seat].person
    BY <1>0, <1>1 DEF OIDCTypeOK
  <1>3. identity[x] = NoOne
    BY <1>1, <1>2 DEF MayLink, LookupOIDCIdentityOwner
  <1>4. /\ seat[f.claims.seat].active /\ seat[f.claims.seat].version = f.claims.version
    BY <1>1 DEF LockOIDCLinkAuthentication
  <1>5. f.claims.seat \in Seats /\ f.claims.version = operation[f.state].version
    BY <1>0 DEF FlowOK
  <1> QED
    BY <1>0, <1>2, <1>3, <1>4, <1>5

LEMMA LinksSteps ==
  ASSUME OIDCInv, [OIDCNext]_oidcVars, NEW x \in Subjects, identity[x] # identity'[x]
  PROVE  /\ identity[x] = NoOne
         /\ \E s \in Seats, f \in flow :
              /\ f.claims.seat = s /\ f.subject = x /\ f \notin flow'
              /\ seat[s].active /\ seat[s].version = operation[f.state].version
              /\ identity'[x] = seat[s].person
  <1>1. \E f \in flow : LinkOIDCIdentity(f) \/ WithinPlatformIdentityLink(f)
    <2>1. \/ \E f \in flow : LinkOIDCIdentity(f) \/ WithinPlatformIdentityLink(f)
          \/ identity' = identity
      BY DEF OIDCNext, oidcVars, OperationExpires, HumanCompleteIdentityLink, HumanCompleteLogin, HumanBeginLogin,
         HumanBeginIdentityLink, AuthorizationURL, classifyOIDCProviderExchangeError, CommitOIDCLogin, ExchangeCode,
         SeatMoves, HumanSuspended
    <2> QED
      BY <2>1
  <1> PICK f \in flow : LinkOIDCIdentity(f) \/ WithinPlatformIdentityLink(f)
    BY <1>1
  <1>2. PICK may : EndLink(f, may) /\ (may => LockOIDCLinkAuthentication(f) /\ MayLink(f))
    <2>1. CASE LinkOIDCIdentity(f)
      <3> DEFINE m == LockOIDCLinkAuthentication(f) /\ MayLink(f)
      <3>1. EndLink(f, m) /\ (m => LockOIDCLinkAuthentication(f) /\ MayLink(f))
        BY <2>1 DEF LinkOIDCIdentity
      <3> HIDE DEF m
      <3> QED
        BY <3>1
    <2>2. CASE WithinPlatformIdentityLink(f)
      <3> DEFINE m == LockPlatformIdentityLinkAuthentication(f) /\ MayLink(f)
      <3>1. EndLink(f, m) /\ (m => LockOIDCLinkAuthentication(f) /\ MayLink(f))
        BY <2>2 DEF WithinPlatformIdentityLink, LockPlatformIdentityLinkAuthentication
      <3> HIDE DEF m
      <3> QED
        BY <3>1
    <2> QED
      BY <2>1, <2>2
  <1> QED
    BY <1>2, LinkChanges

LEMMA LoginsSteps ==
  ASSUME OIDCInv, [OIDCNext]_oidcVars, NEW d \in done' \ done, d.kind = "login"
  PROVE  d.person = identity[d.subject] /\ d.person \in enters
  <1>1. CASE done' = done
    BY <1>1
  <1>2. ASSUME NEW f \in flow, CommitOIDCLogin(f) PROVE d.person = identity[d.subject] /\ d.person \in enters
    <2>1. LockOIDCLoginAuthentication(f) /\ d = CompletedFlow(f, identity[f.subject])
      BY <1>2 DEF CommitOIDCLogin, createOIDCSessionGraph
    <2> QED
      BY <2>1 DEF CompletedFlow, LockOIDCLoginAuthentication
  <1>3. ASSUME NEW f \in flow, LinkOIDCIdentity(f) \/ WithinPlatformIdentityLink(f) PROVE FALSE
    <2>1. f.kind = "identity_link" /\ d = CompletedFlow(f, seat[f.claims.seat].person)
      BY <1>3 DEF LinkOIDCIdentity, WithinPlatformIdentityLink, EndLink
    <2> QED
      BY <2>1 DEF CompletedFlow
  <1> QED
    BY <1>1, <1>2, <1>3 DEF OIDCNext, oidcVars, OperationExpires, HumanCompleteIdentityLink, HumanCompleteLogin,
       HumanBeginLogin, HumanBeginIdentityLink, AuthorizationURL, classifyOIDCProviderExchangeError, ExchangeCode,
       SeatMoves, HumanSuspended

\* However browsers come back, codes are mixed up and rows change under way: a
\* state ends in at most one Session or identity, out of the code issued for it,
\* a link is made by a seat that is current when it commits, for the person whose
\* verified email the identity carries, and a login for one who may enter then.
THEOREM OIDCTheorem == OIDCSpec => FlowsAreSafe
  <1>1. OIDCInit => OIDCInv
    BY OIDCInitially
  <1>2. OIDCInv /\ [OIDCNext]_oidcVars => OIDCInv'
    BY OIDCSteps
  <1>3. OIDCInv => OIDCTypeOK /\ StatesAreSpentOnce /\ CodesStayWithTheirFlow /\ OneOperationPerKey /\ IdentitiesFollowEmails
    BY OIDCImplies
  <1>4. OIDCInv /\ [OIDCNext]_oidcVars =>
          [\A x \in Subjects : identity[x] # identity'[x] =>
             /\ identity[x] = NoOne
             /\ \E s \in Seats, f \in flow :
                  /\ f.claims.seat = s /\ f.subject = x /\ f \notin flow'
                  /\ seat[s].active /\ seat[s].version = operation[f.state].version
                  /\ identity'[x] = seat[s].person]_oidcVars
    BY LinksSteps
  <1>5. OIDCInv /\ [OIDCNext]_oidcVars =>
          [\A d \in done' \ done : d.kind = "login" => d.person = identity[d.subject] /\ d.person \in enters]_oidcVars
    BY LoginsSteps
  <1> QED
    BY <1>1, <1>2, <1>3, <1>4, <1>5, PTL DEF OIDCSpec, FlowsAreSafe, LinksAreCurrent, LoginsAreCurrent

(***************************************************************************)
(* Passwords, their actions and their notifications.                       *)
(***************************************************************************)
Consumed == {o \in Operations : action[o].status = "consumed"}

\* An account nobody has has no password, and a password has a version, raised at
\* most once by every action that was spent.
AccountOK(p) ==
  /\ ~account[p].known => account[p].password = None
  /\ account[p].password = None <=> account[p].version = 0
  /\ account[p].version <= 1 + Cardinality(Consumed)

\* An operation that is not stored has no action and no notification; an action
\* is somebody's who has an account.
OperationOK(o) ==
  /\ request[o] = None => action[o].status = "none" /\ note[o].status = "none"
  /\ action[o].status # "none" => action[o].person \in People /\ account[action[o].person].known

PasswordInv ==
  /\ PasswordTypeOK /\ DOMAIN request = Operations
  /\ \A p \in People : AccountOK(p)
  /\ \A o \in Operations : OperationOK(o)
  /\ OnlyLatestActionIsLive /\ LiveNotificationsAreCurrent /\ EveryChangeHasItsAction
  /\ \A e \in completed : action[e.op].status = "consumed" /\ e.version >= 1
  /\ \A r \in asked : r.purpose # "unknown" => account[r.person].known

LEMMA PasswordBounds ==
  /\ MaxAttempts \in Nat \ {0} /\ MaxClaims \in Nat /\ MaxClaims > MaxAttempts
  /\ None \notin Operations /\ None \notin Passwords /\ None # "initial" /\ None \notin Asked
  /\ IsFiniteSet(Operations) /\ Cardinality(Operations) \in Nat
  BY PasswordActionsAssumption, RequestAssumption, FS_CardinalityType

LEMMA ConsumedIsBounded ==
  /\ Consumed \subseteq Operations /\ IsFiniteSet(Consumed) /\ Cardinality(Consumed) \in Nat
  /\ Cardinality(Consumed) <= Cardinality(Operations)
  <1>1. Consumed \subseteq Operations
    BY DEF Consumed
  <1> QED
    BY <1>1, PasswordBounds, FS_Subset, FS_CardinalityType

LEMMA PasswordInitially == PasswordInit => PasswordInv
  <1> SUFFICES ASSUME PasswordInit PROVE PasswordInv
    OBVIOUS
  <1>1. ASSUME NEW p \in People
        PROVE  account[p] \in AccountRow /\ AccountOK(p)
    <2>1. account[p] \in {[known |-> FALSE, password |-> None, version |-> 0],
                          [known |-> TRUE, password |-> None, version |-> 0],
                          [known |-> TRUE, password |-> "initial", version |-> 1]}
      BY DEF PasswordInit
    <2>a. 0 \in 0..(Cardinality(Operations) + 1) /\ 1 \in 0..(Cardinality(Operations) + 1)
      BY PasswordBounds
    <2>b. /\ [known |-> FALSE, password |-> None, version |-> 0] \in AccountRow
          /\ [known |-> TRUE, password |-> None, version |-> 0] \in AccountRow
          /\ [known |-> TRUE, password |-> "initial", version |-> 1] \in AccountRow
      BY <2>a DEF AccountRow
    <2>2. account[p] \in AccountRow
      BY <2>1, <2>b
    <2> QED
      BY <2>1, <2>2, PasswordBounds, ConsumedIsBounded DEF AccountOK
  <1>2. account \in [People -> AccountRow]
    BY <1>1 DEF PasswordInit
  <1>3. action \in [Operations -> ActionRow] /\ note \in [Operations -> NoteRow]
    BY PasswordBounds DEF PasswordInit, ActionRow, NoteRow, Purposes
  <1>4. PasswordTypeOK /\ DOMAIN request = Operations
    BY <1>2, <1>3 DEF PasswordInit, PasswordTypeOK
  <1> QED
    BY <1>1, <1>4 DEF PasswordInv, PasswordInit, OperationOK, OnlyLatestActionIsLive, LiveNotificationsAreCurrent,
       EveryChangeHasItsAction

\* A step that moves requests in flight, dispatchers and letters.
LEMMA QuietSteps ==
  ASSUME PasswordInv, UNCHANGED <<account, request, action, latest, note, completed>>,
         asked' \subseteq Asked, letters' \subseteq Operations,
         \A r \in asked' : r.purpose # "unknown" => account[r.person].known,
         dispatcher' \in [Dispatchers -> {Resting} \cup NotificationClaim]
  PROVE  PasswordInv'
  BY DEF PasswordInv, PasswordTypeOK, AccountOK, OperationOK, Consumed, OnlyLatestActionIsLive,
     LiveNotificationsAreCurrent, EveryChangeHasItsAction

\* A step that moves notifications that are under way.
LEMMA NoteSteps ==
  ASSUME PasswordInv, UNCHANGED <<account, asked, request, action, latest, letters, completed>>,
         dispatcher' \in [Dispatchers -> {Resting} \cup NotificationClaim],
         note' \in [Operations -> NoteRow],
         \A o \in Operations : note'[o] = note[o] \/ note[o].status \in {"pending", "claimed"}
  PROVE  PasswordInv'
  <1>1. PasswordTypeOK' /\ (DOMAIN request = Operations)'
    BY DEF PasswordInv, PasswordTypeOK
  <1>2. \A p \in People : AccountOK(p)'
    BY DEF PasswordInv, AccountOK, Consumed
  <1>3. \A o \in Operations : OperationOK(o)'
    BY DEF PasswordInv, OperationOK
  <1>4. LiveNotificationsAreCurrent'
    BY DEF PasswordInv, LiveNotificationsAreCurrent
  <1> QED
    BY <1>1, <1>2, <1>3, <1>4 DEF PasswordInv, OnlyLatestActionIsLive, EveryChangeHasItsAction

\* An account of somebody who had none.
LEMMA AppearSteps ==
  ASSUME PasswordInv, NEW p \in People, ~account[p].known, NEW row \in AccountRow,
         account' = [account EXCEPT ![p] = row], row.known,
         row.password = None <=> row.version = 0, row.version <= 1,
         UNCHANGED <<asked, request, action, latest, note, dispatcher, letters, completed>>
  PROVE  PasswordInv'
  <1>0. /\ account' \in [People -> AccountRow] /\ account'[p] = row
        /\ \A q \in People \ {p} : account'[q] = account[q]
    BY DEF PasswordInv, PasswordTypeOK
  <1>1. PasswordTypeOK' /\ (DOMAIN request = Operations)'
    BY <1>0 DEF PasswordInv, PasswordTypeOK
  <1>a. \A q \in People : account[q].known => account'[q].known
    BY <1>0
  <1>b. \A r \in asked' : r.purpose # "unknown" => account'[r.person].known
    BY <1>a DEF PasswordInv, PasswordTypeOK, Asked
  <1>c. \A o \in Operations : OperationOK(o)'
    BY <1>a DEF PasswordInv, OperationOK
  <1>2. \A q \in People : AccountOK(q)'
    <2> TAKE q \in People
    <2>0. AccountOK(q) /\ Cardinality(Consumed) \in Nat /\ Consumed' = Consumed
      BY ConsumedIsBounded DEF PasswordInv, Consumed
    <2>1. row.version \in Nat
      BY PasswordBounds DEF AccountRow
    <2>2. CASE q = p
      BY <1>0, <2>0, <2>1, <2>2 DEF AccountOK
    <2>3. CASE q # p
      BY <1>0, <2>0, <2>3 DEF AccountOK
    <2> QED
      BY <2>2, <2>3
  <1>3. \A e \in completed : e.person \in People /\ e.person # p
    <2> TAKE e \in completed
    <2>1. e.person \in People /\ e.version \in Nat /\ e.version >= 1 /\ e.version <= account[e.person].version
      BY DEF PasswordInv, PasswordTypeOK, Completion, EveryChangeHasItsAction
    <2>2. account[p].version = 0
      BY DEF PasswordInv, AccountOK
    <2> QED
      BY <2>1, <2>2
  <1>4. EveryChangeHasItsAction'
    BY <1>0, <1>3 DEF PasswordInv, EveryChangeHasItsAction
  <1> QED
    BY <1>1, <1>2, <1>4, <1>b, <1>c DEF PasswordInv, OnlyLatestActionIsLive, LiveNotificationsAreCurrent

LEMMA AppearsSteps == ASSUME PasswordInv, NEW p \in People, AccountAppears(p) PROVE PasswordInv'
  <1>0. /\ ~account[p].known
        /\ UNCHANGED <<asked, request, action, latest, note, dispatcher, letters, completed>>
    BY DEF AccountAppears
  <1>1. PICK row : /\ row \in {[known |-> TRUE, password |-> None, version |-> 0],
                               [known |-> TRUE, password |-> "initial", version |-> 1]}
                   /\ account' = [account EXCEPT ![p] = row]
    BY DEF AccountAppears
  <1>a. 0 \in 0..(Cardinality(Operations) + 1) /\ 1 \in 0..(Cardinality(Operations) + 1)
    BY PasswordBounds
  <1>b. /\ [known |-> TRUE, password |-> None, version |-> 0] \in AccountRow
        /\ [known |-> TRUE, password |-> "initial", version |-> 1] \in AccountRow
    BY <1>a DEF AccountRow
  <1>c. row \in AccountRow
    BY <1>1, <1>b
  <1>d. row.known = TRUE
    BY <1>1
  <1>e. row.version <= 1
    BY <1>1
  <1>2. row \in AccountRow /\ row.known /\ row.version <= 1
    BY <1>c, <1>d, <1>e
  <1>3. row.password = None <=> row.version = 0
    BY <1>1, PasswordBounds
  <1> QED
    BY <1>0, <1>1, <1>2, <1>3, AppearSteps

LEMMA AskSteps ==
  ASSUME PasswordInv, NEW p \in People, NEW k \in RequestKeys, AskPasswordAction(p, k)
  PROVE  PasswordInv'
  <1>1. LookupPasswordActionTarget(p) \in Purposes \cup {"unknown"}
    BY DEF LookupPasswordActionTarget, Purposes
  <1>2. asked' \subseteq Asked
    BY <1>1 DEF AskPasswordAction, PasswordInv, PasswordTypeOK, Asked
  <1>3. LookupPasswordActionTarget(p) # "unknown" => account[p].known
    BY DEF LookupPasswordActionTarget, PasswordActionTarget
  <1>4. \A r \in asked' : r.purpose # "unknown" => account[r.person].known
    BY <1>3 DEF AskPasswordAction, PasswordInv
  <1> QED
    BY <1>2, <1>4, QuietSteps DEF AskPasswordAction, PasswordInv, PasswordTypeOK

LEMMA ElapseSteps == ASSUME PasswordInv, NEW o \in Operations, ActionElapses(o) PROVE PasswordInv'
  <1>0. /\ action' = [action EXCEPT ![o].over = TRUE]
        /\ UNCHANGED <<account, asked, request, latest, note, dispatcher, letters, completed>>
    BY DEF ActionElapses
  <1>1. /\ action' \in [Operations -> ActionRow]
        /\ \A x \in Operations : action'[x].status = action[x].status /\ action'[x].person = action[x].person
    BY <1>0 DEF PasswordInv, PasswordTypeOK, ActionRow
  <1>2. Consumed' = Consumed
    BY <1>1 DEF Consumed
  <1>3. \A e \in completed : e.op \in Operations
    BY DEF PasswordInv, PasswordTypeOK, Completion
  <1>4. PasswordTypeOK' /\ (DOMAIN request = Operations)'
    BY <1>0, <1>1 DEF PasswordInv, PasswordTypeOK
  <1>5. \A p \in People : AccountOK(p)'
    BY <1>0, <1>2 DEF PasswordInv, AccountOK
  <1>6. /\ \A x \in Operations : OperationOK(x)'
        /\ OnlyLatestActionIsLive' /\ LiveNotificationsAreCurrent'
    BY <1>0, <1>1 DEF PasswordInv, OperationOK, OnlyLatestActionIsLive, LiveNotificationsAreCurrent
  <1>7. EveryChangeHasItsAction' /\ \A e \in completed' : action'[e.op].status = "consumed" /\ e.version >= 1
    BY <1>0, <1>1, <1>3 DEF PasswordInv, EveryChangeHasItsAction
  <1> QED
    BY <1>0, <1>4, <1>5, <1>6, <1>7 DEF PasswordInv

\* The dispatcher.
LEMMA HeldClaim ==
  ASSUME PasswordInv, NEW d \in Dispatchers, dispatcher[d].phase # "resting"
  PROVE  dispatcher[d] \in NotificationClaim
  BY DEF PasswordInv, PasswordTypeOK, Resting

LEMMA ClaimSteps ==
  ASSUME PasswordInv, NEW d \in Dispatchers, NEW o \in Operations, ClaimPasswordActionNotification(d, o)
  PROVE  PasswordInv' /\ note[o].status \in {"pending", "claimed"}
                      /\ \A x \in Operations : note'[x] = note[x] \/ note[x].status \in {"pending", "claimed"}
  <1>0. /\ note[o].status \in {"pending", "claimed"} /\ note[o].attempt < MaxClaims
        /\ UNCHANGED <<account, asked, request, action, latest, letters, completed>>
    BY DEF ClaimPasswordActionNotification, DueNotification
  <1>a. note[o].attempt \in 0..MaxClaims
    BY DEF PasswordInv, PasswordTypeOK, NoteRow
  <1> PICK n \in 1..MaxClaims : n = note[o].attempt + 1
    BY <1>0, <1>a, PasswordBounds
  <1>1. /\ note' = [note EXCEPT ![o] = [status |-> "claimed", attempt |-> n, waiting |-> FALSE, lapsed |-> FALSE]]
        /\ dispatcher' = [dispatcher EXCEPT ![d] = [phase |-> "claimed", op |-> o, attempt |-> n]]
    BY DEF ClaimPasswordActionNotification
  <1>2. [status |-> "claimed", attempt |-> n, waiting |-> FALSE, lapsed |-> FALSE] \in NoteRow
    <2>1. n \in 0..MaxClaims
      BY PasswordBounds
    <2> QED
      BY <2>1 DEF NoteRow
  <1>3. note' \in [Operations -> NoteRow] /\ \A x \in Operations \ {o} : note'[x] = note[x]
    BY <1>1, <1>2 DEF PasswordInv, PasswordTypeOK
  <1>4. dispatcher' \in [Dispatchers -> {Resting} \cup NotificationClaim]
    <2>1. [phase |-> "claimed", op |-> o, attempt |-> n] \in NotificationClaim
      BY DEF NotificationClaim
    <2> QED
      BY <1>1, <2>1 DEF PasswordInv, PasswordTypeOK
  <1>5. \A x \in Operations : note'[x] = note[x] \/ note[x].status \in {"pending", "claimed"}
    BY <1>0, <1>3
  <1> QED
    BY <1>0, <1>3, <1>4, <1>5, NoteSteps

LEMMA SubmitSteps ==
  ASSUME PasswordInv, NEW d \in Dispatchers, SubmitPasswordActionNotification(d)
  PROVE  PasswordInv'
  <1>0. dispatcher[d].phase = "claimed" /\ UNCHANGED <<account, asked, request, action, latest, note, completed>>
    BY DEF SubmitPasswordActionNotification
  <1>1. dispatcher[d] \in NotificationClaim
    BY <1>0, HeldClaim
  <1> PICK c \in NotificationClaim : c = dispatcher[d]
    BY <1>1
  <1>2. PICK outcome \in {"accepted", "failed", "rejected"}, has \in BOOLEAN :
          /\ dispatcher' = [dispatcher EXCEPT ![d].phase = outcome]
          /\ letters' = IF has THEN letters \cup {c.op} ELSE letters
    BY DEF SubmitPasswordActionNotification
  <1>3. letters' \subseteq Operations
    BY <1>2 DEF PasswordInv, PasswordTypeOK, NotificationClaim
  <1>4. [c EXCEPT !.phase = outcome] \in NotificationClaim
    BY <1>2 DEF NotificationClaim
  <1>5. dispatcher' \in [Dispatchers -> {Resting} \cup NotificationClaim]
    BY <1>2, <1>4 DEF PasswordInv, PasswordTypeOK
  <1>6. asked' \subseteq Asked /\ \A r \in asked' : r.purpose # "unknown" => account[r.person].known
    BY <1>0 DEF PasswordInv, PasswordTypeOK
  <1> QED
    BY <1>0, <1>3, <1>5, <1>6, QuietSteps

LEMMA SettledRows ==
  ASSUME NEW row \in NoteRow
  PROVE  DeliveredNote(row) \in NoteRow /\ AttentionNote(row) \in NoteRow /\ RescheduledNote(row) \in NoteRow
         /\ Cancelled(row) \in NoteRow
  <1>1. DeliveredNote(row) \in NoteRow
    BY DEF NoteRow, DeliveredNote
  <1>2. AttentionNote(row) \in NoteRow
    BY DEF NoteRow, AttentionNote
  <1>3. RescheduledNote(row) \in NoteRow
    BY DEF NoteRow, RescheduledNote
  <1>4. Cancelled(row) \in NoteRow
    BY DEF NoteRow, Cancelled
  <1> QED
    BY <1>1, <1>2, <1>3, <1>4

LEMMA OutcomeSteps ==
  ASSUME PasswordInv, NEW d \in Dispatchers, RecordOutcome(d)
  PROVE  PasswordInv' /\ \A x \in Operations : note'[x] = note[x] \/ note[x].status \in {"pending", "claimed"}
  <1>0. /\ dispatcher[d].phase \in {"accepted", "failed", "rejected"}
        /\ dispatcher' = [dispatcher EXCEPT ![d] = Resting]
        /\ UNCHANGED <<account, asked, request, action, latest, letters, completed>>
    BY DEF RecordOutcome
  <1>1. dispatcher[d] \in NotificationClaim
    BY <1>0, HeldClaim
  <1> PICK c \in NotificationClaim : c = dispatcher[d]
    BY <1>1
  <1>2. c.op \in Operations
    BY DEF NotificationClaim
  <1>3. PICK row \in {DeliveredNote(note[c.op]), AttentionNote(note[c.op]), RescheduledNote(note[c.op])} :
          note' = [note EXCEPT ![c.op] = IF ExpectedVersion(c) THEN row ELSE note[c.op]]
    BY DEF RecordOutcome, MarkPasswordActionNotificationDelivered, finishFailure,
       MarkPasswordActionNotificationAttentionRequired, ReschedulePasswordActionNotification
  <1>4. row \in NoteRow /\ note[c.op] \in NoteRow
    BY <1>2, <1>3, SettledRows DEF PasswordInv, PasswordTypeOK
  <1>5. note' \in [Operations -> NoteRow]
    BY <1>2, <1>3, <1>4 DEF PasswordInv, PasswordTypeOK
  <1>6. \A x \in Operations : note'[x] = note[x] \/ note[x].status \in {"pending", "claimed"}
    BY <1>2, <1>3 DEF ExpectedVersion, PasswordInv, PasswordTypeOK
  <1>7. dispatcher' \in [Dispatchers -> {Resting} \cup NotificationClaim]
    BY <1>0 DEF PasswordInv, PasswordTypeOK
  <1> QED
    BY <1>0, <1>5, <1>6, <1>7, NoteSteps

LEMMA LapseSteps ==
  ASSUME PasswordInv, NEW o \in Operations, LeaseLapses(o) \/ BackoffEnds(o)
  PROVE  PasswordInv' /\ \A x \in Operations : note'[x] = note[x] \/ note[x].status \in {"pending", "claimed"}
  <1>0. /\ note[o].status \in {"pending", "claimed"}
        /\ UNCHANGED <<account, asked, request, action, latest, dispatcher, letters, completed>>
        /\ note' \in {[note EXCEPT ![o].lapsed = TRUE], [note EXCEPT ![o].waiting = FALSE]}
    BY DEF LeaseLapses, BackoffEnds
  <1>1. note' \in [Operations -> NoteRow] /\ \A x \in Operations \ {o} : note'[x] = note[x]
    <2> PICK old \in NoteRow : old = note[o]
      BY DEF PasswordInv, PasswordTypeOK
    <2>1. [old EXCEPT !.lapsed = TRUE] \in NoteRow
      BY DEF NoteRow
    <2>2. [old EXCEPT !.waiting = FALSE] \in NoteRow
      BY DEF NoteRow
    <2> QED
      BY <1>0, <2>1, <2>2 DEF PasswordInv, PasswordTypeOK
  <1>2. \A x \in Operations : note'[x] = note[x] \/ note[x].status \in {"pending", "claimed"}
    BY <1>0, <1>1
  <1>3. dispatcher' \in [Dispatchers -> {Resting} \cup NotificationClaim]
    BY <1>0 DEF PasswordInv, PasswordTypeOK
  <1> QED
    BY <1>0, <1>1, <1>2, <1>3, NoteSteps

LEMMA StopSteps == ASSUME PasswordInv, NEW d \in Dispatchers, DispatcherStops(d) PROVE PasswordInv'
  <1>1. dispatcher' \in [Dispatchers -> {Resting} \cup NotificationClaim]
    BY DEF DispatcherStops, PasswordInv, PasswordTypeOK
  <1>2. /\ asked' \subseteq Asked /\ letters' \subseteq Operations
        /\ \A r \in asked' : r.purpose # "unknown" => account[r.person].known
    BY DEF DispatcherStops, PasswordInv, PasswordTypeOK
  <1> QED
    BY <1>1, <1>2, QuietSteps DEF DispatcherStops

\* Requests.
LEMMA AnsweredSteps == ASSUME PasswordInv, NEW r \in asked, RequestAnsweredBefore(r) PROVE PasswordInv'
  <1>1. /\ asked' \subseteq Asked /\ letters' \subseteq Operations
        /\ \A x \in asked' : x.purpose # "unknown" => account[x.person].known
        /\ dispatcher' \in [Dispatchers -> {Resting} \cup NotificationClaim]
    BY DEF RequestAnsweredBefore, PasswordInv, PasswordTypeOK
  <1> QED
    BY <1>1, QuietSteps DEF RequestAnsweredBefore

LEMMA UnknownSteps ==
  ASSUME PasswordInv, NEW r \in asked, NEW o \in Operations, request[o] = None,
         CreateUnknownPasswordActionRequest(o, r), asked' = asked \ {r},
         UNCHANGED <<account, dispatcher, letters, completed>>
  PROVE  PasswordInv'
  <1>0. request' = [request EXCEPT ![o] = r] /\ action' = action /\ latest' = latest /\ note' = note /\ r \in Asked
    BY DEF CreateUnknownPasswordActionRequest, PasswordInv, PasswordTypeOK
  <1>1. DOMAIN request' = Operations /\ request'[o] = r /\ \A x \in Operations \ {o} : request'[x] = request[x]
    BY <1>0 DEF PasswordInv
  <1>2. PasswordTypeOK'
    BY <1>0, <1>1 DEF PasswordInv, PasswordTypeOK
  <1>3. \A x \in Operations : OperationOK(x)'
    BY <1>0, <1>1, PasswordBounds DEF PasswordInv, OperationOK
  <1>4. \A p \in People : AccountOK(p)'
    BY <1>0 DEF PasswordInv, AccountOK, Consumed
  <1> QED
    BY <1>0, <1>1, <1>2, <1>3, <1>4 DEF PasswordInv, OnlyLatestActionIsLive, LiveNotificationsAreCurrent,
       EveryChangeHasItsAction

Replaced(row) == [row EXCEPT !.status = "replaced"]

LEMMA ReplacedRow ==
  ASSUME NEW row \in ActionRow
  PROVE  Replaced(row) \in ActionRow /\ Replaced(row).status = "replaced" /\ Replaced(row).person = row.person
  BY DEF Replaced, ActionRow

LEMMA CancelledRow ==
  ASSUME NEW row \in NoteRow
  PROVE  /\ Cancelled(row).status \notin {"pending", "claimed"}
         /\ row.status \notin {"pending", "claimed"} => Cancelled(row) = row
  BY DEF Cancelled, NoteRow

LEMMA KnownSteps ==
  ASSUME PasswordInv, NEW r \in asked, r.purpose # "unknown", NEW o \in Operations, request[o] = None,
         StoreKnownRequest(o, r), asked' = asked \ {r}, UNCHANGED <<account, dispatcher, letters, completed>>
  PROVE  /\ PasswordInv'
         /\ \A x \in Operations : note[x].status \in {"delivered", "cancelled", "attention_required"} => note'[x] = note[x]
  <1> PICK old : old = ReplaceActivePasswordActions(r.person)
    OBVIOUS
  <1>a. /\ r \in Asked /\ r.person \in People /\ r.purpose \in Purposes /\ account[r.person].known
    BY DEF PasswordInv, PasswordTypeOK, Asked
  <1>b. /\ action[o].status = "none" /\ note[o].status = "none"
    BY DEF PasswordInv, OperationOK
  <1> PICK made \in ActionRow : /\ made = CreatePasswordAction(r.person, r.purpose)
                                /\ made.status = "active" /\ made.person = r.person
    <2>1. CreatePasswordAction(r.person, r.purpose) \in ActionRow
      BY <1>a DEF CreatePasswordAction, ActionRow
    <2>2. /\ CreatePasswordAction(r.person, r.purpose).status = "active"
          /\ CreatePasswordAction(r.person, r.purpose).person = r.person
      BY DEF CreatePasswordAction
    <2> QED
      BY <2>1, <2>2
  <1> PICK letter \in NoteRow : letter = CreatePasswordActionNotification /\ letter.status = "pending"
    <2>1. 0 \in 0..MaxClaims
      BY PasswordBounds
    <2>2. CreatePasswordActionNotification \in NoteRow
      BY <2>1 DEF CreatePasswordActionNotification, NoteRow
    <2>3. CreatePasswordActionNotification.status = "pending"
      BY DEF CreatePasswordActionNotification
    <2> QED
      BY <2>2, <2>3
  <1>0. /\ request' = [request EXCEPT ![o] = r] /\ latest' = [latest EXCEPT ![r.person] = o]
        /\ action' = [x \in Operations |->
             IF x = o THEN made ELSE IF x \in old THEN Replaced(action[x]) ELSE action[x]]
        /\ note' = [x \in Operations |->
             IF x = o THEN letter ELSE IF x \in old THEN Cancelled(note[x]) ELSE note[x]]
    BY DEF StoreKnownRequest, CreateKnownPasswordActionRequest, CancelReplacedPasswordActionNotifications, Replaced
  <1>c. \A x \in Operations : action[x] \in ActionRow /\ note[x] \in NoteRow
    BY DEF PasswordInv, PasswordTypeOK
  <1>d. \A x \in Operations : x \in old <=> action[x].person = r.person /\ action[x].status = "active"
    BY DEF ReplaceActivePasswordActions
  <1>1. DOMAIN request' = Operations /\ request'[o] = r /\ \A x \in Operations \ {o} : request'[x] = request[x]
    BY <1>0 DEF PasswordInv
  <1>2. /\ action'[o] = made /\ note'[o] = letter
        /\ \A x \in Operations \ {o} : \/ x \notin old /\ action'[x] = action[x] /\ note'[x] = note[x]
                                       \/ x \in old /\ action'[x] = Replaced(action[x]) /\ note'[x] = Cancelled(note[x])
    BY <1>0
  <1>3. /\ latest'[r.person] = o /\ \A q \in People \ {r.person} : latest'[q] = latest[q]
        /\ latest' \in [People -> Operations \cup {None}]
    BY <1>0, <1>a DEF PasswordInv, PasswordTypeOK
  <1>4. PasswordTypeOK'
    <2>1. action' \in [Operations -> ActionRow]
      BY <1>0, <1>c, ReplacedRow
    <2>2. note' \in [Operations -> NoteRow]
      BY <1>0, <1>c, SettledRows
    <2> QED
      BY <1>1, <1>3, <1>a, <2>1, <2>2 DEF PasswordInv, PasswordTypeOK
  <1>5. Consumed' = Consumed
    <2>1. \A x \in Operations : action'[x].status = "consumed" <=> action[x].status = "consumed"
      BY <1>2, <1>b, <1>c, <1>d, ReplacedRow
    <2> QED
      BY <2>1 DEF Consumed
  <1>6. \A p \in People : AccountOK(p)'
    BY <1>5 DEF PasswordInv, AccountOK
  <1>7. \A x \in Operations : OperationOK(x)'
    <2> TAKE x \in Operations
    <2>0. OperationOK(x)
      BY DEF PasswordInv
    <2>1. CASE x = o
      BY <1>1, <1>2, <1>a, <2>1, PasswordBounds DEF OperationOK
    <2>2. CASE x # o /\ x \notin old
      BY <1>1, <1>2, <2>0, <2>2 DEF OperationOK
    <2>3. CASE x # o /\ x \in old
      BY <1>1, <1>2, <1>a, <1>c, <1>d, <2>0, <2>3, ReplacedRow DEF OperationOK
    <2> QED
      BY <2>1, <2>2, <2>3
  <1>8. OnlyLatestActionIsLive'
    <2> SUFFICES ASSUME NEW x \in Operations, action'[x].status = "active" PROVE latest'[action'[x].person] = x
      BY DEF OnlyLatestActionIsLive
    <2>1. CASE x = o
      BY <1>2, <1>3, <2>1
    <2>2. CASE x # o
      <3>1. x \notin old /\ action'[x] = action[x]
        BY <1>2, <1>c, <2>2, ReplacedRow
      <3>2. action[x].person \in People /\ action[x].person # r.person /\ latest[action[x].person] = x
        BY <1>d, <3>1 DEF PasswordInv, OperationOK, OnlyLatestActionIsLive
      <3> QED
        BY <1>3, <3>1, <3>2
    <2> QED
      BY <2>1, <2>2
  <1>9. LiveNotificationsAreCurrent'
    <2> SUFFICES ASSUME NEW x \in Operations, note'[x].status \in {"pending", "claimed"}
                 PROVE  action'[x].status = "active"
      BY DEF LiveNotificationsAreCurrent
    <2>1. CASE x = o
      BY <1>2, <2>1
    <2>2. CASE x # o
      BY <1>2, <1>c, <2>2, CancelledRow DEF PasswordInv, LiveNotificationsAreCurrent
    <2> QED
      BY <2>1, <2>2
  <1>10. EveryChangeHasItsAction' /\ \A e \in completed' : action'[e.op].status = "consumed" /\ e.version >= 1
    <2>1. \A e \in completed : e.op \in Operations
      BY DEF PasswordInv, PasswordTypeOK, Completion
    <2>2. \A e \in completed' : action'[e.op].status = "consumed" /\ e.version >= 1
      BY <1>5, <2>1 DEF PasswordInv, Consumed
    <2> QED
      BY <2>2 DEF PasswordInv, EveryChangeHasItsAction
  <1>11. \A x \in Operations : note[x].status \in {"delivered", "cancelled", "attention_required"} => note'[x] = note[x]
    <2> TAKE x \in Operations
    <2>1. CASE x = o
      BY <1>b, <2>1
    <2>2. CASE x # o
      BY <1>2, <1>c, <2>2, CancelledRow
    <2> QED
      BY <2>1, <2>2
  <1> QED
    BY <1>1, <1>4, <1>6, <1>7, <1>8, <1>9, <1>10, <1>11 DEF PasswordInv

\* What a completion writes to the account of its person.
Rewritten(row, new, v) == [row EXCEPT !.password = new, !.version = v]

LEMMA RewrittenRow ==
  ASSUME NEW row \in AccountRow, NEW new \in Passwords, NEW v \in 0..(Cardinality(Operations) + 1)
  PROVE  /\ Rewritten(row, new, v) \in AccountRow /\ Rewritten(row, new, v).known = row.known
         /\ Rewritten(row, new, v).password = new /\ Rewritten(row, new, v).version = v
  <1>1. DOMAIN row = {"known", "password", "version"} /\ row.known \in BOOLEAN
    BY DEF AccountRow
  <1>2. /\ DOMAIN Rewritten(row, new, v) = {"known", "password", "version"}
        /\ Rewritten(row, new, v).password = new /\ Rewritten(row, new, v).version = v
    BY <1>1 DEF Rewritten
  <1>3. Rewritten(row, new, v).known = row.known
    BY <1>1 DEF Rewritten
  <1>4. PICK mid \in AccountRow : mid = [row EXCEPT !.password = new]
    BY DEF AccountRow
  <1>5. Rewritten(row, new, v) \in AccountRow
    <2>1. \A r \in AccountRow : [r EXCEPT !.version = v] \in AccountRow
      BY DEF AccountRow
    <2>2. Rewritten(row, new, v) = [mid EXCEPT !.version = v]
      BY <1>4 DEF Rewritten
    <2> QED
      BY <2>1, <2>2
  <1> QED
    BY <1>2, <1>3, <1>5

LEMMA CommitSteps ==
  ASSUME PasswordInv, NEW o \in Operations, NEW new \in Passwords, NEW k \in CompletionKeys,
         CommitPasswordAction(o, new, k)
  PROVE  /\ PasswordInv'
         /\ \A x \in Operations : note[x].status \in {"delivered", "cancelled", "attention_required"} => note'[x] = note[x]
         /\ \A p \in People : account[p].password # None /\ account'[p].version # account[p].version =>
              \E x \in Operations : /\ action[x].person = p /\ action[x].purpose = "reset"
                                    /\ action[x].status = "active" /\ action'[x].status = "consumed"
  <1>0. /\ action[o].status = "active" /\ action' = [action EXCEPT ![o].status = "consumed"]
        /\ note' = [note EXCEPT ![o] = Cancelled(note[o])]
        /\ UNCHANGED <<asked, request, latest, dispatcher, letters>>
    BY DEF CommitPasswordAction, LockPasswordAction, ConsumePasswordAction, CancelPasswordActionNotification
  <1> PICK p \in People : p = action[o].person
    BY <1>0 DEF PasswordInv, OperationOK
  <1>a. account[p] \in AccountRow /\ AccountOK(p) /\ account[p].version \in Nat
    <2>1. account[p] \in AccountRow /\ AccountOK(p)
      BY DEF PasswordInv, PasswordTypeOK
    <2> QED
      BY <2>1, PasswordBounds DEF AccountRow
  <1>b. Cardinality(Consumed) \in Nat /\ IsFiniteSet(Consumed) /\ Cardinality(Consumed) + 1 <= Cardinality(Operations)
        /\ Cardinality(Consumed') = Cardinality(Consumed) + 1
    <2>1. \A x \in Operations : action'[x].status = "consumed" <=> x = o \/ action[x].status = "consumed"
      BY <1>0 DEF PasswordInv, PasswordTypeOK, ActionRow
    <2>2. Consumed' = Consumed \cup {o} /\ o \notin Consumed
      BY <1>0, <2>1 DEF Consumed
    <2>3. IsFiniteSet(Consumed) /\ Cardinality(Consumed) \in Nat
      BY ConsumedIsBounded
    <2>4. Cardinality(Consumed') = Cardinality(Consumed) + 1
      BY <2>2, <2>3, FS_AddElement
    <2>5. Consumed' \subseteq Operations
      BY <2>2, ConsumedIsBounded
    <2>6. Cardinality(Consumed') <= Cardinality(Operations)
      BY <2>5, PasswordBounds, FS_Subset
    <2> QED
      BY <2>3, <2>4, <2>6
  <1>1. PICK v \in 0..(Cardinality(Operations) + 1) :
          /\ account' = [account EXCEPT ![p] = Rewritten(account[p], new, v)]
          /\ account[p].version < v /\ v <= 1 + Cardinality(Consumed')
          /\ account[p].password # None => action[o].purpose = "reset"
    <2>1. CASE action[o].purpose = "reset" /\ UpdatePasswordCredentialForReset(p, new)
      <3> PICK v \in 0..(Cardinality(Operations) + 1) : v = account[p].version + 1
        BY <1>a, <1>b, PasswordBounds DEF AccountOK
      <3>1. account' = [account EXCEPT ![p] = Rewritten(account[p], new, v)]
        BY <2>1 DEF UpdatePasswordCredentialForReset, Rewritten, PasswordInv, PasswordTypeOK
      <3>2. account[p].version < v /\ v <= 1 + Cardinality(Consumed')
        BY <1>a, <1>b DEF AccountOK
      <3> QED
        BY <2>1, <3>1, <3>2
    <2>2. CASE CreatePasswordCredential(p, new)
      <3> PICK v \in 0..(Cardinality(Operations) + 1) : v = 1
        BY PasswordBounds
      <3>1. account' = [account EXCEPT ![p] = Rewritten(account[p], new, v)]
        BY <2>2 DEF CreatePasswordCredential, Rewritten, PasswordInv, PasswordTypeOK
      <3>2. account[p].password = None
        BY <2>2 DEF CreatePasswordCredential
      <3>3. account[p].version < v /\ v <= 1 + Cardinality(Consumed')
        BY <1>a, <1>b, <3>2 DEF AccountOK
      <3> QED
        BY <3>1, <3>2, <3>3
    <2> QED
      BY <2>1, <2>2 DEF CommitPasswordAction
  <1>c. /\ account' \in [People -> AccountRow] /\ account'[p].known = account[p].known
        /\ account'[p].password = new /\ account'[p].version = v
        /\ \A q \in People \ {p} : account'[q] = account[q]
    <2>1. /\ Rewritten(account[p], new, v) \in AccountRow
          /\ Rewritten(account[p], new, v).known = account[p].known
          /\ Rewritten(account[p], new, v).password = new /\ Rewritten(account[p], new, v).version = v
      BY <1>a, RewrittenRow
    <2>2. account'[p] = Rewritten(account[p], new, v)
      BY <1>1 DEF PasswordInv, PasswordTypeOK
    <2>3. account' \in [People -> AccountRow]
      BY <1>1, <2>1 DEF PasswordInv, PasswordTypeOK
    <2>4. \A q \in People \ {p} : account'[q] = account[q]
      BY <1>1 DEF PasswordInv, PasswordTypeOK
    <2> QED
      BY <2>1, <2>2, <2>3, <2>4
  <1>2. /\ action' \in [Operations -> ActionRow] /\ action'[o].status = "consumed" /\ action'[o].person = p
        /\ \A x \in Operations \ {o} : action'[x] = action[x]
    BY <1>0 DEF PasswordInv, PasswordTypeOK, ActionRow
  <1>3. /\ note' \in [Operations -> NoteRow] /\ note'[o] = Cancelled(note[o]) /\ note[o] \in NoteRow
        /\ \A x \in Operations \ {o} : note'[x] = note[x]
    BY <1>0, SettledRows DEF PasswordInv, PasswordTypeOK
  <1> PICK e : e = [key |-> k, op |-> o, person |-> p, password |-> new, version |-> v]
    OBVIOUS
  <1>4. /\ completed' = completed \cup {e} /\ e \in Completion
        /\ e.op = o /\ e.person = p /\ e.password = new /\ e.version = v
    BY <1>c DEF CommitPasswordAction, CreatePasswordActionCompletion, Completion
  <1>5. PasswordTypeOK' /\ (DOMAIN request = Operations)'
    BY <1>0, <1>2, <1>3, <1>4, <1>c DEF PasswordInv, PasswordTypeOK
  <1>6. \A q \in People : AccountOK(q)'
    <2> TAKE q \in People
    <2>0. AccountOK(q) /\ account[q].version \in Nat
      BY PasswordBounds DEF PasswordInv, PasswordTypeOK, AccountRow
    <2>1. CASE q = p
      <3>1. account[p].known
        BY <1>0 DEF PasswordInv, OperationOK
      <3>2. account'[p].known
        BY <1>c, <3>1
      <3>3. account'[p].password # None
        BY <1>c, PasswordBounds
      <3>4. account'[p].version # 0 /\ account'[p].version <= 1 + Cardinality(Consumed')
        BY <1>1, <1>c, <1>a
      <3> QED
        BY <2>1, <3>2, <3>3, <3>4 DEF AccountOK
    <2>2. CASE q # p
      BY <1>b, <1>c, <2>0, <2>2 DEF AccountOK
    <2> QED
      BY <2>1, <2>2
  <1>7. \A x \in Operations : OperationOK(x)'
    <2> TAKE x \in Operations
    <2>0. OperationOK(x) /\ request' = request /\ (account[p].known => account'[p].known) /\ account[p].known
      BY <1>0, <1>c DEF PasswordInv, OperationOK
    <2>a. \A q \in People : account[q].known => account'[q].known
      BY <1>c, <2>0
    <2>1. CASE x = o
      BY <1>0, <1>2, <2>0, <2>1 DEF OperationOK
    <2>2. CASE x # o
      BY <1>2, <1>3, <2>0, <2>2, <2>a DEF OperationOK
    <2> QED
      BY <2>1, <2>2
  <1>8. OnlyLatestActionIsLive'
    BY <1>0, <1>2 DEF PasswordInv, OnlyLatestActionIsLive
  <1>9. LiveNotificationsAreCurrent'
    BY <1>2, <1>3, CancelledRow DEF PasswordInv, LiveNotificationsAreCurrent
  <1>10. \A f \in completed : /\ f \in Completion /\ f.op \in Operations /\ f.op # o /\ f.person \in People /\ f.version \in Nat
                               /\ f.version <= account[f.person].version /\ f.version >= 1
    BY <1>0 DEF PasswordInv, PasswordTypeOK, Completion, EveryChangeHasItsAction
  <1>11. \A f \in completed' : action'[f.op].status = "consumed" /\ f.version >= 1
    <2> TAKE f \in completed'
    <2>1. CASE f \in completed
      BY <1>2, <1>10, <2>1 DEF PasswordInv
    <2>2. CASE f = e
      BY <1>1, <1>2, <1>4, <1>a, <2>2
    <2> QED
      BY <1>4, <2>1, <2>2
  <1>12. EveryChangeHasItsAction'
    <2>1. \A f \in completed : f.person = p => f.version < v
      BY <1>1, <1>10, <1>a
    <2>2. \A f, g \in completed' : f.person = g.person /\ f # g => f.op # g.op /\ f.version # g.version
      <3> TAKE f, g \in completed'
      <3>1. CASE f \in completed /\ g \in completed
        BY <3>1 DEF PasswordInv, EveryChangeHasItsAction
      <3>2. CASE f = e \/ g = e
        BY <1>4, <1>10, <2>1, <3>2
      <3> QED
        BY <1>4, <3>1, <3>2
    <2>3. \A f \in completed' : /\ f.version <= account'[f.person].version
                                /\ f.version = account'[f.person].version => f.password = account'[f.person].password
      <3> TAKE f \in completed'
      <3>1. CASE f = e
        BY <1>4, <1>c, <3>1
      <3>2. CASE f \in completed /\ f.person = p
        BY <1>c, <1>10, <2>1, <3>2
      <3>3. CASE f \in completed /\ f.person # p
        BY <1>c, <1>10, <3>3 DEF PasswordInv, EveryChangeHasItsAction
      <3> QED
        BY <1>4, <3>1, <3>2, <3>3
    <2> QED
      BY <2>2, <2>3 DEF EveryChangeHasItsAction
  <1>13. \A r \in asked' : r.purpose # "unknown" => account'[r.person].known
    BY <1>0, <1>c DEF PasswordInv, PasswordTypeOK, Asked
  <1>14. PasswordInv'
    BY <1>5, <1>6, <1>7, <1>8, <1>9, <1>11, <1>12, <1>13 DEF PasswordInv
  <1>15. \A x \in Operations : note[x].status \in {"delivered", "cancelled", "attention_required"} => note'[x] = note[x]
    BY <1>3, CancelledRow
  <1>16. \A q \in People : account[q].password # None /\ account'[q].version # account[q].version =>
           \E x \in Operations : /\ action[x].person = q /\ action[x].purpose = "reset"
                                 /\ action[x].status = "active" /\ action'[x].status = "consumed"
    BY <1>0, <1>1, <1>2, <1>c
  <1> QED
    BY <1>14, <1>15, <1>16

LEMMA PasswordSteps == PasswordInv /\ PasswordNext => PasswordInv'
  <1> SUFFICES ASSUME PasswordInv, PasswordNext PROVE PasswordInv'
    OBVIOUS
  <1>1. ASSUME NEW r \in asked, RequestPasswordAction(r) PROVE PasswordInv'
    <2>1. CASE RequestAnsweredBefore(r)
      BY <2>1, AnsweredSteps
    <2>2. ASSUME NEW o \in Operations, request[o] = None,
                 IF r.purpose = "unknown" THEN CreateUnknownPasswordActionRequest(o, r) ELSE StoreKnownRequest(o, r),
                 asked' = asked \ {r}, UNCHANGED <<account, dispatcher, letters, completed>>
          PROVE  PasswordInv'
      BY <2>2, UnknownSteps, KnownSteps
    <2> QED
      BY <1>1, <2>1, <2>2 DEF RequestPasswordAction
  <1> QED
    BY <1>1, AppearsSteps, AskSteps, ElapseSteps, LapseSteps, CommitSteps, ClaimSteps, SubmitSteps, OutcomeSteps, StopSteps
       DEF PasswordNext, CompletePasswordAction

LEMMA PasswordStays == PasswordInv /\ UNCHANGED passwordVars => PasswordInv'
  <1> SUFFICES ASSUME PasswordInv, UNCHANGED passwordVars PROVE PasswordInv'
    OBVIOUS
  <1>1. /\ asked' \subseteq Asked /\ letters' \subseteq Operations
        /\ \A r \in asked' : r.purpose # "unknown" => account[r.person].known
        /\ dispatcher' \in [Dispatchers -> {Resting} \cup NotificationClaim]
    BY DEF passwordVars, PasswordInv, PasswordTypeOK
  <1> QED
    BY <1>1, QuietSteps DEF passwordVars

\* What is settled stays so, and only a reset changes a password that exists.
Settled ==
  \A o \in Operations : note[o].status \in {"delivered", "cancelled", "attention_required"} => note'[o] = note[o]

Resets ==
  \A p \in People : account[p].password # None /\ account'[p].version # account[p].version =>
    \E o \in Operations : action[o].person = p /\ action[o].purpose = "reset"
                            /\ action[o].status = "active" /\ action'[o].status = "consumed"

LEMMA PasswordActionsKeep == PasswordInv /\ PasswordNext => Settled /\ Resets
  <1> SUFFICES ASSUME PasswordInv, PasswordNext PROVE Settled /\ Resets
    OBVIOUS
  <1>0. account' = account => Resets
    BY DEF Resets
  <1>a. note' = note => Settled
    BY DEF Settled
  <1>b. (\A o \in Operations : note'[o] = note[o] \/ note[o].status \in {"pending", "claimed"}) => Settled
    BY DEF Settled
  <1>1. ASSUME NEW p \in People, AccountAppears(p) PROVE Settled /\ Resets
    <2>1. ~account[p].known /\ note' = note /\ \A q \in People \ {p} : account'[q] = account[q]
      BY <1>1 DEF AccountAppears, PasswordInv, PasswordTypeOK
    <2>2. account[p].password = None
      BY <2>1 DEF PasswordInv, AccountOK
    <2> QED
      BY <1>a, <2>1, <2>2 DEF Resets
  <1>2. ASSUME NEW r \in asked, RequestPasswordAction(r) PROVE Settled /\ Resets
    <2>0. account' = account
      BY <1>2 DEF RequestPasswordAction, RequestAnsweredBefore
    <2>1. CASE note' = note
      BY <1>0, <1>a, <2>0, <2>1
    <2>2. ASSUME NEW o \in Operations, request[o] = None, r.purpose # "unknown", StoreKnownRequest(o, r),
                 asked' = asked \ {r}, UNCHANGED <<account, dispatcher, letters, completed>>
          PROVE  Settled
      BY <2>2, KnownSteps DEF Settled
    <2> QED
      BY <1>0, <1>2, <2>0, <2>1, <2>2 DEF RequestPasswordAction, RequestAnsweredBefore, CreateUnknownPasswordActionRequest
  <1>3. ASSUME NEW o \in Operations, NEW new \in Passwords, NEW k \in CompletionKeys, CompletePasswordAction(o, new, k)
        PROVE  Settled /\ Resets
    BY <1>3, CommitSteps DEF CompletePasswordAction, Settled, Resets
  <1>4. ASSUME NEW o \in Operations, LeaseLapses(o) \/ BackoffEnds(o) PROVE Settled /\ Resets
    <2>1. account' = account
      BY <1>4 DEF LeaseLapses, BackoffEnds
    <2> QED
      BY <1>0, <1>b, <1>4, <2>1, LapseSteps
  <1>5. ASSUME NEW d \in Dispatchers, NEW o \in Operations, ClaimPasswordActionNotification(d, o) PROVE Settled /\ Resets
    <2>1. account' = account
      BY <1>5 DEF ClaimPasswordActionNotification
    <2> QED
      BY <1>0, <1>b, <1>5, <2>1, ClaimSteps
  <1>6. ASSUME NEW d \in Dispatchers, RecordOutcome(d) PROVE Settled /\ Resets
    <2>1. account' = account
      BY <1>6 DEF RecordOutcome
    <2> QED
      BY <1>0, <1>b, <1>6, <2>1, OutcomeSteps
  <1>7. CASE account' = account /\ note' = note
    BY <1>0, <1>a, <1>7
  <1>9. /\ \A p \in People, k \in RequestKeys : AskPasswordAction(p, k) => account' = account /\ note' = note
        /\ \A o \in Operations : ActionElapses(o) => account' = account /\ note' = note
        /\ \A d \in Dispatchers :
             SubmitPasswordActionNotification(d) \/ DispatcherStops(d) => account' = account /\ note' = note
    BY DEF AskPasswordAction, ActionElapses, SubmitPasswordActionNotification, DispatcherStops
  <1>8. Settled /\ Resets
    <2>1. CASE \E p \in People : AccountAppears(p) \/ \E k \in RequestKeys : AskPasswordAction(p, k)
      BY <1>1, <1>7, <1>9, <2>1
    <2>2. CASE \E o \in Operations :
                 \/ ActionElapses(o) \/ LeaseLapses(o) \/ BackoffEnds(o)
                 \/ \E new \in Passwords, k \in CompletionKeys : CompletePasswordAction(o, new, k)
                 \/ \E d \in Dispatchers : ClaimPasswordActionNotification(d, o)
      BY <1>3, <1>4, <1>5, <1>7, <1>9, <2>2
    <2>3. CASE \E d \in Dispatchers :
                 SubmitPasswordActionNotification(d) \/ RecordOutcome(d) \/ DispatcherStops(d)
      BY <1>6, <1>7, <1>9, <2>3
    <2> QED
      BY <1>2, <2>1, <2>2, <2>3, Zenon DEF PasswordNext
  <1> QED
    BY <1>8

(***************************************************************************)
(* Accounts of people who were invited.                                    *)
(***************************************************************************)
\* Guesses are counted by the row, and a row that may still be guessed at has
\* guesses left.
ChallengeOK(c) ==
  /\ guesses[c] <= challenge[c].failed
  /\ challenge[c].status = "pending" => challenge[c].failed < MaxGuesses
  /\ challenge[c].status = "none" => challenge[c].failed = 0

InvitedInv ==
  /\ InvitedTypeOK /\ OneChallengeIsOpen /\ CodesFollowChallenges
  /\ \A c \in Challenges : ChallengeOK(c)

LEMMA InvitedInitially == InvitedInit => InvitedInv
  <1> SUFFICES ASSUME InvitedInit PROVE InvitedInv
    OBVIOUS
  <1>0. MaxGuesses \in Nat \ {0} /\ 0 \in 0..MaxGuesses
    BY InvitedAccountsAssumption
  <1>1. [status |-> "none", person |-> None, coded |-> FALSE, failed |-> 0, over |-> FALSE,
         key |-> None, completion |-> None] \in InvitedAccountVerification
    BY <1>0 DEF InvitedAccountVerification
  <1>2. InvitedTypeOK
    BY <1>1 DEF InvitedTypeOK, InvitedInit, DeliveryStatus
  <1>3. \A c \in Challenges : ChallengeOK(c)
    BY <1>0 DEF ChallengeOK, InvitedInit
  <1> QED
    BY <1>2, <1>3 DEF InvitedInv, InvitedInit, OneChallengeIsOpen, CodesFollowChallenges

LEMMA InvitedStays ==
  ASSUME InvitedInv, UNCHANGED <<challenge, delivery, guesses>>,
         invitation' \in [People -> {"none", "open", "closed"}],
         sending' \in [Challenges -> {"idle", "claimed", "current"}], codes' \subseteq Challenges
  PROVE  InvitedInv'
  BY DEF InvitedInv, InvitedTypeOK, OneChallengeIsOpen, CodesFollowChallenges, ChallengeOK

LEMMA InvitationSteps == ASSUME InvitedInv, NEW p \in People, InvitationMoves(p) PROVE InvitedInv'
  <1>1. PICK x \in {"open", "closed"} : invitation' = [invitation EXCEPT ![p] = x]
    BY DEF InvitationMoves
  <1>2. invitation' \in [People -> {"none", "open", "closed"}]
    BY <1>1 DEF InvitedInv, InvitedTypeOK
  <1>3. sending' \in [Challenges -> {"idle", "claimed", "current"}] /\ codes' \subseteq Challenges
    BY DEF InvitationMoves, InvitedInv, InvitedTypeOK
  <1> QED
    BY <1>2, <1>3, InvitedStays DEF InvitationMoves

\* A delivery moves while its challenge is open, or ends.
LEMMA DeliverySteps ==
  ASSUME InvitedInv, NEW c \in Challenges,
         \/ ClaimAccountVerificationNotification(c) \/ CheckAccountVerification(c)
         \/ DispatchAccountVerification(c)
  PROVE  InvitedInv'
  <1>0. challenge' = challenge /\ guesses' = guesses /\ invitation' = invitation /\ codes' \subseteq Challenges
    BY DEF ClaimAccountVerificationNotification, CheckAccountVerification, DispatchAccountVerification,
       InvitedInv, InvitedTypeOK
  <1>a. sending' \in [Challenges -> {"idle", "claimed", "current"}]
    BY DEF ClaimAccountVerificationNotification, CheckAccountVerification, DispatchAccountVerification,
       InvitedInv, InvitedTypeOK
  <1>1. CASE delivery' = delivery
    <2>1. invitation' \in [People -> {"none", "open", "closed"}]
      BY <1>0 DEF InvitedInv, InvitedTypeOK
    <2> QED
      BY <1>0, <1>a, <1>1, <2>1, InvitedStays
  <1>2. ASSUME NEW x \in DeliveryStatus, delivery' = [delivery EXCEPT ![c] = x], challenge[c].status = "pending"
        PROVE  InvitedInv'
    <2>1. delivery' \in [Challenges -> DeliveryStatus] /\ \A y \in Challenges \ {c} : delivery'[y] = delivery[y]
      BY <1>2 DEF InvitedInv, InvitedTypeOK
    <2>2. InvitedTypeOK' /\ CodesFollowChallenges'
      BY <1>0, <1>a, <1>2, <2>1 DEF InvitedInv, InvitedTypeOK, CodesFollowChallenges
    <2> QED
      BY <1>0, <2>2 DEF InvitedInv, OneChallengeIsOpen, ChallengeOK
  <1>3. delivery[c] \in {"pending", "claimed"} => challenge[c].status = "pending"
    BY DEF InvitedInv, CodesFollowChallenges
  <1>4. CASE ClaimAccountVerificationNotification(c)
    BY <1>2, <1>3, <1>4 DEF ClaimAccountVerificationNotification, DeliveryStatus
  <1>5. ASSUME NEW x \in DeliveryStatus, delivery' = FinishAccountVerificationNotification(c, x) PROVE InvitedInv'
    BY <1>1, <1>2, <1>3, <1>5 DEF FinishAccountVerificationNotification
  <1>6. CASE CheckAccountVerification(c)
    BY <1>1, <1>5, <1>6 DEF CheckAccountVerification, DeliveryStatus
  <1>7. CASE DispatchAccountVerification(c)
    BY <1>5, <1>7 DEF DispatchAccountVerification, DeliveryStatus
  <1> QED
    BY <1>4, <1>6, <1>7

\* A challenge that is closed takes its delivery with it.
LEMMA CancelledDeliveries ==
  ASSUME NEW p, NEW rows, NEW d \in [Challenges -> DeliveryStatus]
  PROVE  /\ CancelInactiveInvitedAccountDeliveries(p, rows, d) \in [Challenges -> DeliveryStatus]
         /\ \A c \in Challenges :
              \/ /\ CancelInactiveInvitedAccountDeliveries(p, rows, d)[c] = d[c]
                 /\ \/ rows[c].person # p \/ rows[c].status = "pending"
                    \/ d[c] \notin {"pending", "claimed", "attention_required"}
              \/ CancelInactiveInvitedAccountDeliveries(p, rows, d)[c] = "cancelled"
  BY DEF CancelInactiveInvitedAccountDeliveries, DeliveryStatus

\* A pending challenge moves, or is closed with its delivery.
LEMMA RowSteps ==
  ASSUME InvitedInv, NEW c \in Challenges, challenge[c].status = "pending",
         NEW row \in InvitedAccountVerification, challenge' = [challenge EXCEPT ![c] = row],
         row.person = challenge[c].person, row.status # "none",
         guesses' \in [Challenges -> Nat], \A x \in Challenges \ {c} : guesses'[x] = guesses[x],
         guesses'[c] <= row.failed, row.status = "pending" => row.failed < MaxGuesses,
         \/ delivery' = CancelInactiveInvitedAccountDeliveries(challenge[c].person, challenge', delivery)
         \/ delivery' = delivery /\ row.status = "pending",
         invitation' = invitation, sending' = sending, codes' = codes
  PROVE  InvitedInv'
  <1>0. /\ challenge' \in [Challenges -> InvitedAccountVerification] /\ challenge'[c] = row
        /\ \A x \in Challenges \ {c} : challenge'[x] = challenge[x]
    BY DEF InvitedInv, InvitedTypeOK
  <1>a. delivery \in [Challenges -> DeliveryStatus]
    BY DEF InvitedInv, InvitedTypeOK
  <1>1. /\ delivery' \in [Challenges -> DeliveryStatus]
        /\ \A x \in Challenges : delivery'[x] \in {delivery[x], "cancelled"}
        /\ delivery'[c] \in {"pending", "claimed", "attention_required"} => row.status = "pending"
    <2>1. CASE delivery' = delivery /\ row.status = "pending"
      BY <1>a, <2>1
    <2>2. CASE delivery' = CancelInactiveInvitedAccountDeliveries(challenge[c].person, challenge', delivery)
      <3> PICK p, rows : p = challenge[c].person /\ rows = challenge'
        OBVIOUS
      <3>1. /\ delivery' \in [Challenges -> DeliveryStatus]
            /\ \A x \in Challenges :
              \/ /\ delivery'[x] = delivery[x]
                 /\ \/ rows[x].person # p \/ rows[x].status = "pending"
                    \/ delivery[x] \notin {"pending", "claimed", "attention_required"}
              \/ delivery'[x] = "cancelled"
        <4> PICK after : after = CancelInactiveInvitedAccountDeliveries(p, rows, delivery) /\ delivery' = after
          BY <2>2
        <4>1. /\ after \in [Challenges -> DeliveryStatus]
              /\ \A x \in Challenges :
                   \/ /\ after[x] = delivery[x]
                      /\ \/ rows[x].person # p \/ rows[x].status = "pending"
                         \/ delivery[x] \notin {"pending", "claimed", "attention_required"}
                   \/ after[x] = "cancelled"
          <5>1. /\ CancelInactiveInvitedAccountDeliveries(p, rows, delivery) \in [Challenges -> DeliveryStatus]
                /\ \A x \in Challenges :
                     \/ /\ CancelInactiveInvitedAccountDeliveries(p, rows, delivery)[x] = delivery[x]
                        /\ \/ rows[x].person # p \/ rows[x].status = "pending"
                           \/ delivery[x] \notin {"pending", "claimed", "attention_required"}
                     \/ CancelInactiveInvitedAccountDeliveries(p, rows, delivery)[x] = "cancelled"
            BY ONLY <1>a, CancelledDeliveries
          <5> QED
            BY <5>1
        <4> QED
          BY <4>1
      <3> QED
        BY <1>0, <3>1
    <2> QED
      BY <2>1, <2>2
  <1>2. InvitedTypeOK'
    BY <1>0, <1>1 DEF InvitedInv, InvitedTypeOK
  <1>3. OneChallengeIsOpen'
    BY <1>0 DEF InvitedInv, OneChallengeIsOpen
  <1>4. CodesFollowChallenges'
    <2> SUFFICES ASSUME NEW x \in Challenges, delivery'[x] \in {"pending", "claimed", "attention_required"}
                 PROVE  challenge'[x].status = "pending"
      BY DEF CodesFollowChallenges
    <2>1. CASE x = c
      BY <1>0, <1>1, <2>1
    <2>2. CASE x # c
      BY <1>0, <1>1, <2>2 DEF InvitedInv, CodesFollowChallenges
    <2> QED
      BY <2>1, <2>2
  <1>5. \A x \in Challenges : ChallengeOK(x)'
    BY <1>0 DEF InvitedInv, ChallengeOK
  <1> QED
    BY <1>2, <1>3, <1>4, <1>5 DEF InvitedInv

Spent(row, k) == [row EXCEPT !.status = "consumed", !.completion = k]

LEMMA ChallengeRows ==
  ASSUME NEW row \in InvitedAccountVerification
  PROVE  /\ ExpireInvitedAccountVerification(row) \in InvitedAccountVerification
         /\ ExpireInvitedAccountVerification(row).status = "expired"
         /\ ExpireInvitedAccountVerification(row).person = row.person
         /\ ExpireInvitedAccountVerification(row).failed = row.failed
         /\ \A k \in AccountKeys : /\ Spent(row, k) \in InvitedAccountVerification /\ Spent(row, k).status = "consumed"
                                   /\ Spent(row, k).person = row.person /\ Spent(row, k).failed = row.failed
  <1>1. /\ ExpireInvitedAccountVerification(row) \in InvitedAccountVerification
        /\ ExpireInvitedAccountVerification(row).status = "expired"
        /\ ExpireInvitedAccountVerification(row).person = row.person
        /\ ExpireInvitedAccountVerification(row).failed = row.failed
    BY DEF ExpireInvitedAccountVerification, InvitedAccountVerification
  <1>2. ASSUME NEW k \in AccountKeys
        PROVE  /\ Spent(row, k) \in InvitedAccountVerification /\ Spent(row, k).status = "consumed"
               /\ Spent(row, k).person = row.person /\ Spent(row, k).failed = row.failed
    BY DEF Spent, InvitedAccountVerification
  <1> QED
    BY <1>1, <1>2

LEMMA FailedRow ==
  ASSUME NEW row \in InvitedAccountVerification, row.failed < MaxGuesses, row.status = "pending"
  PROVE  /\ FailInvitedAccountVerification(row) \in InvitedAccountVerification
         /\ FailInvitedAccountVerification(row).person = row.person
         /\ FailInvitedAccountVerification(row).failed = row.failed + 1
         /\ FailInvitedAccountVerification(row).status \in {"pending", "exhausted"}
         /\ FailInvitedAccountVerification(row).status = "pending" => row.failed + 1 < MaxGuesses
  <1>0. MaxGuesses \in Nat \ {0} /\ row.failed \in 0..MaxGuesses
    BY InvitedAccountsAssumption DEF InvitedAccountVerification
  <1> PICK n \in 0..MaxGuesses : n = row.failed + 1
    BY <1>0
  <1> PICK s \in {"pending", "exhausted"} : s = IF row.failed + 1 = MaxGuesses THEN "exhausted" ELSE row.status
    OBVIOUS
  <1>1. FailInvitedAccountVerification(row) = [row EXCEPT !.failed = n, !.status = s]
    BY DEF FailInvitedAccountVerification
  <1>2. PICK mid \in InvitedAccountVerification : mid = [row EXCEPT !.failed = n]
    BY DEF InvitedAccountVerification
  <1>3. FailInvitedAccountVerification(row) \in InvitedAccountVerification
    <2>1. \A r \in InvitedAccountVerification : [r EXCEPT !.status = s] \in InvitedAccountVerification
      BY DEF InvitedAccountVerification
    <2>2. FailInvitedAccountVerification(row) = [mid EXCEPT !.status = s]
      BY <1>1, <1>2
    <2> QED
      BY <2>1, <2>2
  <1>4. /\ FailInvitedAccountVerification(row).person = row.person
        /\ FailInvitedAccountVerification(row).failed = n /\ FailInvitedAccountVerification(row).status = s
    BY <1>1 DEF InvitedAccountVerification
  <1>5. s = "pending" => n < MaxGuesses
    BY <1>0
  <1> QED
    BY <1>3, <1>4, <1>5

LEMMA ElapsesSteps == ASSUME InvitedInv, NEW c \in Challenges, ChallengeElapses(c) PROVE InvitedInv'
  <1>0. /\ challenge[c].status = "pending" /\ challenge' = [challenge EXCEPT ![c].over = TRUE]
        /\ delivery' = delivery /\ guesses' = guesses /\ invitation' = invitation /\ sending' = sending /\ codes' = codes
    BY DEF ChallengeElapses, withinInvitedAccount
  <1> PICK old \in InvitedAccountVerification : old = challenge[c]
    BY DEF InvitedInv, InvitedTypeOK
  <1>1. PICK row : row = [old EXCEPT !.over = TRUE]
    OBVIOUS
  <1>2. row \in InvitedAccountVerification
    BY <1>1 DEF InvitedAccountVerification
  <1>3. row.person = old.person /\ row.status = old.status /\ row.failed = old.failed
    BY <1>1 DEF InvitedAccountVerification
  <1>4. challenge' = [challenge EXCEPT ![c] = row]
    BY <1>0, <1>1 DEF InvitedInv, InvitedTypeOK
  <1>5. guesses' \in [Challenges -> Nat] /\ guesses'[c] <= row.failed /\ row.failed < MaxGuesses
    BY <1>0, <1>3 DEF InvitedInv, InvitedTypeOK, ChallengeOK
  <1>6. row.person = challenge[c].person /\ row.status # "none" /\ row.status = "pending"
    BY <1>0, <1>3
  <1> QED
    BY <1>0, <1>2, <1>4, <1>5, <1>6, RowSteps

LEMMA CompletesSteps ==
  ASSUME InvitedInv, NEW c \in Challenges, NEW p \in People, NEW right \in BOOLEAN, NEW new \in Passwords,
         NEW k \in AccountKeys, CompleteInvitedAccount(c, p, right, new, k)
  PROVE  InvitedInv'
  <1>0. challenge[c].status = "pending" /\ invitation' = invitation /\ sending' = sending /\ codes' = codes
    BY DEF CompleteInvitedAccount, withinInvitedAccount
  <1> PICK old \in InvitedAccountVerification : old = challenge[c]
    BY DEF InvitedInv, InvitedTypeOK
  <1>a. /\ guesses \in [Challenges -> Nat] /\ guesses[c] \in Nat /\ guesses[c] <= old.failed /\ old.failed < MaxGuesses
        /\ old.failed \in Nat
    BY <1>0, InvitedAccountsAssumption DEF InvitedInv, InvitedTypeOK, ChallengeOK, InvitedAccountVerification
  <1>1. CASE MayComplete(c, p, right)
    <2>1. old.person = p
      BY <1>1 DEF MayComplete, Presentable, GetInvitedAccountVerification
    <2>2. /\ challenge' = [challenge EXCEPT ![c].status = "consumed", ![c].completion = k]
          /\ delivery' = CancelInactiveInvitedAccountDeliveries(p, challenge', delivery)
          /\ guesses' = guesses
      BY <1>1 DEF CompleteInvitedAccount, ConsumeInvitedAccountVerification
    <2> PICK row \in InvitedAccountVerification :
          row = Spent(old, k) /\ row.status = "consumed" /\ row.person = old.person /\ row.failed = old.failed
      BY ChallengeRows
    <2>3. challenge' = [challenge EXCEPT ![c] = row]
      BY <2>2 DEF Spent, InvitedInv, InvitedTypeOK
    <2>4. delivery' = CancelInactiveInvitedAccountDeliveries(challenge[c].person, challenge', delivery)
      BY <2>1, <2>2
    <2>5. guesses' \in [Challenges -> Nat] /\ guesses'[c] <= row.failed
      BY <1>a, <2>2
    <2> QED
      BY <1>0, <2>2, <2>3, <2>4, <2>5, RowSteps
  <1>2. CASE ~MayComplete(c, p, right)
    <2>1. /\ challenge' = [challenge EXCEPT ![c] =
               IF old.over THEN ExpireInvitedAccountVerification(old) ELSE FailInvitedAccountVerification(old)]
          /\ delivery' = CancelInactiveInvitedAccountDeliveries(challenge[c].person, challenge', delivery)
          /\ guesses' = [guesses EXCEPT ![c] = IF Presentable(c, p) /\ ~right THEN guesses[c] + 1 ELSE guesses[c]]
      BY <1>2 DEF CompleteInvitedAccount, denied, GetInvitedAccountVerification
    <2>2. /\ guesses' \in [Challenges -> Nat] /\ \A x \in Challenges \ {c} : guesses'[x] = guesses[x]
          /\ guesses'[c] <= old.failed + 1 /\ (old.over => guesses'[c] <= old.failed)
      <3>1. old.over => ~Presentable(c, p)
        BY DEF Presentable, GetInvitedAccountVerification
      <3> PICK g \in Nat : /\ g = IF Presentable(c, p) /\ ~right THEN guesses[c] + 1 ELSE guesses[c]
                           /\ g <= old.failed + 1 /\ (old.over => g <= old.failed)
        BY <1>a, <3>1
      <3>2. guesses' = [guesses EXCEPT ![c] = g]
        BY <2>1
      <3> QED
        BY <1>a, <3>2
    <2>3. CASE old.over
      <3> PICK row \in InvitedAccountVerification :
            row = ExpireInvitedAccountVerification(old) /\ row.status = "expired" /\ row.person = old.person
              /\ row.failed = old.failed
        BY ChallengeRows
      <3>1. challenge' = [challenge EXCEPT ![c] = row] /\ guesses'[c] <= row.failed
        BY <2>1, <2>2, <2>3
      <3> QED
        BY <1>0, <2>1, <2>2, <3>1, RowSteps
    <2>4. CASE ~old.over
      <3>1. PICK row \in InvitedAccountVerification :
            /\ row = FailInvitedAccountVerification(old) /\ row.person = old.person /\ row.failed = old.failed + 1
            /\ row.status \in {"pending", "exhausted"} /\ (row.status = "pending" => row.failed < MaxGuesses)
        BY <1>0, <1>a, FailedRow
      <3>2. challenge' = [challenge EXCEPT ![c] = row] /\ guesses'[c] <= row.failed
        BY <2>1, <2>2, <2>4, <3>1
      <3>3. row.person = challenge[c].person /\ row.status # "none"
        BY <3>1
      <3> QED
        BY <1>0, <2>1, <2>2, <3>1, <3>2, <3>3, RowSteps
    <2> QED
      BY <2>3, <2>4
  <1> QED
    BY <1>1, <1>2

LEMMA SupersededRow ==
  ASSUME NEW row \in InvitedAccountVerification, NEW p \in People
  PROVE  /\ SupersedeInvitedAccountVerifications(row, p) \in InvitedAccountVerification
         /\ SupersedeInvitedAccountVerifications(row, p).person = row.person
         /\ SupersedeInvitedAccountVerifications(row, p).failed = row.failed
         /\ \/ row.person = p /\ row.status = "pending" /\ SupersedeInvitedAccountVerifications(row, p).status = "superseded"
            \/ /\ ~(row.person = p /\ row.status = "pending")
               /\ SupersedeInvitedAccountVerifications(row, p) = row
  BY DEF SupersedeInvitedAccountVerifications, InvitedAccountVerification

LEMMA VerificationSteps ==
  ASSUME InvitedInv, NEW c \in Challenges, NEW p \in People, NEW k \in AccountKeys, RequestVerification(c, p, k)
  PROVE  InvitedInv'
  <1> PICK eligible \in BOOLEAN : eligible = InvitedAccountEligibility(p)
    BY DEF InvitedAccountEligibility
  <1> PICK superseded : superseded = [x \in Challenges |-> SupersedeInvitedAccountVerifications(challenge[x], p)]
    OBVIOUS
  <1>0. /\ challenge[c].status = "none" /\ guesses' = guesses /\ invitation' = invitation
        /\ sending' = sending /\ codes' = codes
        /\ challenge' = [superseded EXCEPT ![c] = CreateInvitedAccountVerification(p, k, eligible)]
        /\ delivery' = [CancelInactiveInvitedAccountDeliveries(p, superseded, delivery)
                          EXCEPT ![c] = CreateInvitedAccountDelivery(eligible)]
    BY DEF RequestVerification, RequestInvitedAccountVerification, withinInvitedAccount
  <1>a. /\ challenge \in [Challenges -> InvitedAccountVerification] /\ delivery \in [Challenges -> DeliveryStatus]
    BY DEF InvitedInv, InvitedTypeOK
  <1>1. /\ superseded \in [Challenges -> InvitedAccountVerification]
        /\ \A x \in Challenges :
             /\ superseded[x].person = challenge[x].person /\ superseded[x].failed = challenge[x].failed
             /\ \/ challenge[x].person = p /\ challenge[x].status = "pending" /\ superseded[x].status = "superseded"
                \/ ~(challenge[x].person = p /\ challenge[x].status = "pending") /\ superseded[x] = challenge[x]
    BY <1>a, SupersededRow
  <1> PICK after : after = CancelInactiveInvitedAccountDeliveries(p, superseded, delivery)
    OBVIOUS
  <1>2. /\ after \in [Challenges -> DeliveryStatus]
        /\ \A x \in Challenges :
             \/ /\ after[x] = delivery[x]
                /\ \/ superseded[x].person # p \/ superseded[x].status = "pending"
                   \/ delivery[x] \notin {"pending", "claimed", "attention_required"}
             \/ after[x] = "cancelled"
    <2>1. /\ CancelInactiveInvitedAccountDeliveries(p, superseded, delivery) \in [Challenges -> DeliveryStatus]
          /\ \A x \in Challenges :
               \/ /\ CancelInactiveInvitedAccountDeliveries(p, superseded, delivery)[x] = delivery[x]
                  /\ \/ superseded[x].person # p \/ superseded[x].status = "pending"
                     \/ delivery[x] \notin {"pending", "claimed", "attention_required"}
               \/ CancelInactiveInvitedAccountDeliveries(p, superseded, delivery)[x] = "cancelled"
      BY ONLY <1>a, CancelledDeliveries
    <2> QED
      BY <2>1
  <1> PICK row : row = CreateInvitedAccountVerification(p, k, eligible)
    OBVIOUS
  <1>3. row \in InvitedAccountVerification
    <2>1. 0 \in 0..MaxGuesses
      BY InvitedAccountsAssumption
    <2> QED
      BY <2>1 DEF CreateInvitedAccountVerification, InvitedAccountVerification
  <1>4. row.status = "pending" /\ row.person = p /\ row.failed = 0
    BY DEF CreateInvitedAccountVerification
  <1>5. /\ challenge' \in [Challenges -> InvitedAccountVerification] /\ challenge'[c] = row
        /\ \A x \in Challenges \ {c} : challenge'[x] = superseded[x]
    BY <1>0, <1>1, <1>3
  <1>6. /\ delivery' \in [Challenges -> DeliveryStatus]
        /\ \A x \in Challenges \ {c} : delivery'[x] = after[x]
    <2>1. CreateInvitedAccountDelivery(eligible) \in DeliveryStatus
      BY DEF CreateInvitedAccountDelivery, DeliveryStatus
    <2> QED
      BY <1>0, <1>2, <2>1
  <1>7. InvitedTypeOK'
    BY <1>0, <1>5, <1>6 DEF InvitedInv, InvitedTypeOK
  <1>8. OneChallengeIsOpen'
    <2>1. \A x \in Challenges \ {c} : challenge'[x].status = "pending" =>
            challenge'[x] = challenge[x] /\ challenge'[x].person # p
      BY <1>1, <1>5
    <2> QED
      BY <1>4, <1>5, <2>1 DEF InvitedInv, OneChallengeIsOpen
  <1>9. CodesFollowChallenges'
    <2> SUFFICES ASSUME NEW x \in Challenges, delivery'[x] \in {"pending", "claimed", "attention_required"}
                 PROVE  challenge'[x].status = "pending"
      BY DEF CodesFollowChallenges
    <2>1. CASE x = c
      BY <1>4, <1>5, <2>1
    <2>2. CASE x # c
      <3>1. after[x] = delivery[x] /\ delivery[x] \in {"pending", "claimed", "attention_required"}
        BY <1>2, <1>6, <2>2
      <3>2. challenge[x].status = "pending" /\ (superseded[x].person # p \/ superseded[x].status = "pending")
        BY <1>2, <3>1 DEF InvitedInv, CodesFollowChallenges
      <3> QED
        BY <1>1, <1>5, <2>2, <3>2
    <2> QED
      BY <2>1, <2>2
  <1>10. \A x \in Challenges : ChallengeOK(x)'
    <2> TAKE x \in Challenges
    <2>0. ChallengeOK(x) /\ guesses[x] \in Nat
      BY DEF InvitedInv, InvitedTypeOK
    <2>1. CASE x = c
      BY <1>0, <1>4, <1>5, <2>0, <2>1, InvitedAccountsAssumption DEF ChallengeOK
    <2>2. CASE x # c
      BY <1>0, <1>1, <1>5, <2>0, <2>2 DEF ChallengeOK
    <2> QED
      BY <2>1, <2>2
  <1> QED
    BY <1>7, <1>8, <1>9, <1>10 DEF InvitedInv

AccountsInv == PasswordInv /\ InvitedInv

\* An account that a completion creates.
LEMMA CreatedSteps ==
  ASSUME AccountsInv, NEW c \in Challenges, NEW p \in People, NEW right \in BOOLEAN, NEW new \in Passwords,
         NEW k \in AccountKeys, CompleteInvitedAccount(c, p, right, new, k)
  PROVE  PasswordInv'
  <1>0. PasswordInv /\ UNCHANGED <<asked, request, action, latest, note, dispatcher, letters, completed>>
    BY DEF CompleteInvitedAccount, withinInvitedAccount, AccountsInv
  <1>1. CASE account' = account
    BY <1>0, <1>1, PasswordStays DEF passwordVars
  <1>2. CASE MayComplete(c, p, right)
    <2>1. ~account[p].known /\ account' = [account EXCEPT ![p] = [known |-> TRUE, password |-> new, version |-> 1]]
      BY <1>2 DEF MayComplete, InvitedAccountEligibility, CompleteInvitedAccount, CreateInvitedHuman
    <2>2. 1 \in 0..(Cardinality(Operations) + 1)
      BY PasswordBounds
    <2> PICK row \in AccountRow : row = [known |-> TRUE, password |-> new, version |-> 1]
      BY <2>2 DEF AccountRow
    <2>3. row.known = TRUE /\ row.password = new /\ row.version = 1
      OBVIOUS
    <2>4. account' = [account EXCEPT ![p] = row]
      BY <2>1
    <2>5. row.known /\ (row.password = None <=> row.version = 0) /\ row.version <= 1
      BY <2>3, PasswordBounds
    <2> QED
      BY <1>0, <2>1, <2>4, <2>5, AppearSteps
  <1> QED
    BY <1>1, <1>2 DEF CompleteInvitedAccount

LEMMA InvitedNextSteps == AccountsInv /\ InvitedNext => AccountsInv'
  <1> SUFFICES ASSUME AccountsInv, InvitedNext PROVE AccountsInv'
    OBVIOUS
  <1>0. PasswordInv /\ InvitedInv /\ (UNCHANGED passwordVars => PasswordInv')
    BY PasswordStays DEF AccountsInv
  <1>1. ASSUME NEW p \in People, InvitationMoves(p) PROVE AccountsInv'
    BY <1>0, <1>1, InvitationSteps DEF AccountsInv, InvitationMoves
  <1>2. ASSUME NEW c \in Challenges, ChallengeElapses(c) PROVE AccountsInv'
    BY <1>0, <1>2, ElapsesSteps DEF AccountsInv, ChallengeElapses, withinInvitedAccount, passwordVars
  <1>3. ASSUME NEW c \in Challenges, ClaimAccountVerificationNotification(c) \/ CheckAccountVerification(c) \/ DispatchAccountVerification(c)
        PROVE  AccountsInv'
    BY <1>0, <1>3, DeliverySteps DEF AccountsInv, ClaimAccountVerificationNotification, CheckAccountVerification, DispatchAccountVerification
  <1>4. ASSUME NEW c \in Challenges, NEW p \in People, NEW k \in AccountKeys, RequestVerification(c, p, k)
        PROVE  AccountsInv'
    BY <1>0, <1>4, VerificationSteps
       DEF AccountsInv, RequestVerification, RequestInvitedAccountVerification, withinInvitedAccount, passwordVars
  <1>5. ASSUME NEW c \in Challenges, NEW p \in People, NEW k \in AccountKeys, NEW right \in BOOLEAN,
               NEW new \in Passwords, Complete(c, p, right, new, k)
        PROVE  AccountsInv'
    BY <1>0, <1>5, CompletesSteps, CreatedSteps DEF AccountsInv, Complete
  <1> QED
    BY <1>1, <1>2, <1>3, <1>4, <1>5 DEF InvitedNext

LEMMA AccountsSteps == AccountsInv /\ [AccountsNext]_accountVars => AccountsInv'
  <1> SUFFICES ASSUME AccountsInv, [AccountsNext]_accountVars PROVE AccountsInv'
    OBVIOUS
  <1>1. UNCHANGED challengeVars => InvitedInv'
    BY InvitedStays DEF AccountsInv, challengeVars, InvitedInv, InvitedTypeOK
  <1>2. CASE PasswordNext /\ UNCHANGED challengeVars
    BY <1>1, <1>2, PasswordSteps DEF AccountsInv
  <1>3. CASE UNCHANGED accountVars
    BY <1>1, <1>3, PasswordStays DEF AccountsInv, accountVars
  <1> QED
    BY <1>2, <1>3, InvitedNextSteps DEF AccountsNext

LEMMA AccountsImply ==
  AccountsInv =>
    /\ PasswordTypeOK /\ OnlyLatestActionIsLive /\ EveryChangeHasItsAction /\ LiveNotificationsAreCurrent
    /\ InvitedTypeOK /\ GuessesAreBounded /\ OneChallengeIsOpen /\ CodesFollowChallenges
  <1> SUFFICES ASSUME AccountsInv PROVE GuessesAreBounded
    BY DEF AccountsInv, PasswordInv, InvitedInv
  <1> SUFFICES ASSUME NEW c \in Challenges
               PROVE  guesses[c] <= MaxGuesses /\ (guesses[c] = MaxGuesses => challenge[c].status # "pending")
    BY DEF GuessesAreBounded
  <1>1. ChallengeOK(c) /\ guesses[c] \in Nat /\ challenge[c].failed \in 0..MaxGuesses /\ MaxGuesses \in Nat
    BY InvitedAccountsAssumption DEF AccountsInv, InvitedInv, InvitedTypeOK, InvitedAccountVerification
  <1> QED
    BY <1>1 DEF ChallengeOK

LEMMA AccountsKeep == AccountsInv /\ [AccountsNext]_accountVars => Settled /\ Resets
  <1> SUFFICES ASSUME AccountsInv, [AccountsNext]_accountVars PROVE Settled /\ Resets
    OBVIOUS
  <1>1. CASE PasswordNext
    BY <1>1, PasswordActionsKeep DEF AccountsInv
  <1>2. CASE account' = account /\ note' = note
    BY <1>2 DEF Settled, Resets
  <1>3. ASSUME NEW c \in Challenges, NEW p \in People, NEW right \in BOOLEAN, NEW new \in Passwords,
               NEW k \in AccountKeys, CompleteInvitedAccount(c, p, right, new, k), MayComplete(c, p, right)
        PROVE  Settled /\ Resets
    <2>1. /\ ~account[p].known /\ note' = note
          /\ account' = [account EXCEPT ![p] = [known |-> TRUE, password |-> new, version |-> 1]]
      BY <1>3 DEF MayComplete, InvitedAccountEligibility, CompleteInvitedAccount, CreateInvitedHuman, withinInvitedAccount
    <2>2. account[p].password = None /\ \A q \in People \ {p} : account'[q] = account[q]
      BY <2>1 DEF AccountsInv, PasswordInv, PasswordTypeOK, AccountOK
    <2> QED
      BY <2>1, <2>2 DEF Settled, Resets
  <1>4. /\ \A p \in People : InvitationMoves(p) => account' = account /\ note' = note
        /\ \A c \in Challenges :
             ChallengeElapses(c) \/ ClaimAccountVerificationNotification(c) \/ CheckAccountVerification(c) \/ DispatchAccountVerification(c)
               => account' = account /\ note' = note
        /\ \A c \in Challenges, p \in People, k \in AccountKeys :
             RequestVerification(c, p, k) => account' = account /\ note' = note
    BY DEF InvitationMoves, ChallengeElapses, ClaimAccountVerificationNotification, CheckAccountVerification, DispatchAccountVerification,
       RequestVerification, RequestInvitedAccountVerification, withinInvitedAccount, passwordVars
  <1>5. \A c \in Challenges, p \in People, k \in AccountKeys, right \in BOOLEAN, new \in Passwords :
          Complete(c, p, right, new, k) =>
            \/ account' = account /\ note' = note
            \/ CompleteInvitedAccount(c, p, right, new, k) /\ MayComplete(c, p, right)
    <2> SUFFICES ASSUME NEW c \in Challenges, NEW p \in People, NEW k \in AccountKeys, NEW right \in BOOLEAN,
                        NEW new \in Passwords, CompleteInvitedAccount(c, p, right, new, k),
                        ~MayComplete(c, p, right)
                 PROVE  account' = account /\ note' = note
      BY Zenon DEF Complete
    <2> QED
      BY DEF CompleteInvitedAccount, withinInvitedAccount
  <1>6. CASE InvitedNext
    BY <1>2, <1>3, <1>4, <1>5, <1>6 DEF InvitedNext
  <1>7. CASE UNCHANGED accountVars
    BY <1>2, <1>7 DEF accountVars, passwordVars
  <1> QED
    BY <1>1, <1>6, <1>7 DEF AccountsNext

\* A challenge is spent by a completion only.
Invited ==
  \A c \in Challenges :
    challenge[c].status # "consumed" /\ challenge'[c].status = "consumed" =>
      LET p == challenge[c].person
      IN invitation[p] = "open" /\ ~account[p].known /\ account'[p].known

LEMMA RowMoves ==
  ASSUME AccountsInv, NEW c \in Challenges, NEW row, row.status # "consumed", challenge' = [challenge EXCEPT ![c] = row]
  PROVE  Invited
  BY DEF Invited, AccountsInv, InvitedInv, InvitedTypeOK

LEMMA AccountsInvited == AccountsInv /\ [AccountsNext]_accountVars => Invited
  <1> SUFFICES ASSUME AccountsInv, [AccountsNext]_accountVars PROVE Invited
    OBVIOUS
  <1>0. CASE challenge' = challenge
    BY <1>0 DEF Invited
  <1>a. /\ challenge \in [Challenges -> InvitedAccountVerification] /\ account \in [People -> AccountRow]
    BY DEF AccountsInv, InvitedInv, InvitedTypeOK, PasswordInv, PasswordTypeOK
  <1>1. ASSUME NEW c \in Challenges, ChallengeElapses(c) PROVE Invited
    <2>1. /\ challenge[c].status = "pending" /\ challenge' = [challenge EXCEPT ![c].over = TRUE]
      BY <1>1 DEF ChallengeElapses
    <2> PICK row : row = [challenge[c] EXCEPT !.over = TRUE]
      OBVIOUS
    <2>2. row.status = "pending"
      BY <1>a, <2>1 DEF InvitedAccountVerification
    <2>3. challenge' = [challenge EXCEPT ![c] = row]
      BY <1>a, <2>1
    <2> QED
      BY <2>2, <2>3, RowMoves
  <1>2. ASSUME NEW c \in Challenges, NEW p \in People, NEW k \in AccountKeys, RequestVerification(c, p, k)
        PROVE  Invited
    <2>1. challenge' = [[x \in Challenges |-> SupersedeInvitedAccountVerifications(challenge[x], p)]
                          EXCEPT ![c] = CreateInvitedAccountVerification(p, k, InvitedAccountEligibility(p))]
      BY <1>2 DEF RequestVerification, RequestInvitedAccountVerification
    <2>2. CreateInvitedAccountVerification(p, k, InvitedAccountEligibility(p)).status = "pending"
      BY DEF CreateInvitedAccountVerification
    <2>3. ASSUME NEW x \in Challenges, challenge[x].status # "consumed" PROVE challenge'[x].status # "consumed"
      <3>1. challenge'[x] \in {SupersedeInvitedAccountVerifications(challenge[x], p),
                               CreateInvitedAccountVerification(p, k, InvitedAccountEligibility(p))}
        BY <2>1
      <3> QED
        BY <1>a, <2>2, <2>3, <3>1, SupersededRow
    <2> QED
      BY <2>3 DEF Invited
  <1>3. ASSUME NEW c \in Challenges, NEW p \in People, NEW right \in BOOLEAN, NEW new \in Passwords,
               NEW k \in AccountKeys, CompleteInvitedAccount(c, p, right, new, k)
        PROVE  Invited
    <2> PICK old \in InvitedAccountVerification : old = challenge[c]
      BY <1>a
    <2>0. old.status = "pending" /\ old.failed < MaxGuesses
      BY <1>3 DEF CompleteInvitedAccount, AccountsInv, InvitedInv, ChallengeOK
    <2>1. CASE MayComplete(c, p, right)
      <3>1. /\ old.person = p /\ invitation[p] = "open" /\ ~account[p].known
            /\ account' = [account EXCEPT ![p] = [known |-> TRUE, password |-> new, version |-> 1]]
            /\ challenge' = [challenge EXCEPT ![c].status = "consumed", ![c].completion = k]
        BY <1>3, <2>1 DEF MayComplete, Presentable, GetInvitedAccountVerification, InvitedAccountEligibility,
           InvitedAccountTenantBoundaries, CompleteInvitedAccount, CreateInvitedHuman, ConsumeInvitedAccountVerification
      <3>2. \A x \in Challenges \ {c} : challenge'[x] = challenge[x]
        BY <1>a, <3>1
      <3>3. account'[p].known
        BY <1>a, <3>1
      <3> QED
        BY <3>1, <3>2, <3>3 DEF Invited
    <2>2. CASE ~MayComplete(c, p, right)
      <3>1. challenge' = [challenge EXCEPT ![c] =
              IF old.over THEN ExpireInvitedAccountVerification(old) ELSE FailInvitedAccountVerification(old)]
        BY <1>3, <2>2 DEF CompleteInvitedAccount, denied, GetInvitedAccountVerification
      <3> PICK row : row = IF old.over THEN ExpireInvitedAccountVerification(old) ELSE FailInvitedAccountVerification(old)
        OBVIOUS
      <3>2. row.status # "consumed"
        BY <2>0, ChallengeRows, FailedRow
      <3> QED
        BY <3>1, <3>2, RowMoves
    <2> QED
      BY <2>1, <2>2
  <1>4. /\ \A p \in People : InvitationMoves(p) => challenge' = challenge
        /\ \A c \in Challenges : ClaimAccountVerificationNotification(c) \/ CheckAccountVerification(c) \/ DispatchAccountVerification(c)
             => challenge' = challenge
        /\ UNCHANGED challengeVars \/ UNCHANGED accountVars => challenge' = challenge
    BY DEF InvitationMoves, ClaimAccountVerificationNotification, CheckAccountVerification, DispatchAccountVerification, challengeVars, accountVars
  <1>5. CASE InvitedNext
    BY <1>0, <1>1, <1>2, <1>3, <1>4, <1>5 DEF InvitedNext, Complete
  <1> QED
    BY <1>0, <1>4, <1>5 DEF AccountsNext

\* Whoever may still send what is settled had claimed it before.
Fading ==
  \A o \in Operations :
    note[o].status \in {"delivered", "cancelled", "attention_required"} => Senders(o)' \subseteq Senders(o)

LEMMA SendersFade == AccountsInv /\ [AccountsNext]_accountVars => Fading
  <1> SUFFICES ASSUME AccountsInv, [AccountsNext]_accountVars PROVE Fading
    OBVIOUS
  <1>0. /\ dispatcher \in [Dispatchers -> {Resting} \cup NotificationClaim]
        /\ Resting.phase = "resting"
    BY DEF AccountsInv, PasswordInv, PasswordTypeOK, Resting
  <1>1. dispatcher' = dispatcher => Fading
    BY DEF Fading, Senders
  <1>2. ASSUME NEW d \in Dispatchers, NEW c, dispatcher' = [dispatcher EXCEPT ![d] = c],
               c.phase = "claimed" => c.op \in Operations /\ note[c.op].status \in {"pending", "claimed"}
        PROVE  Fading
    BY <1>0, <1>2 DEF Fading, Senders
  <1>3. ASSUME NEW d \in Dispatchers, NEW o \in Operations, ClaimPasswordActionNotification(d, o) PROVE Fading
    <2> PICK c : c = [phase |-> "claimed", op |-> o, attempt |-> note[o].attempt + 1]
      OBVIOUS
    <2>1. c.op = o /\ dispatcher' = [dispatcher EXCEPT ![d] = c] /\ note[o].status \in {"pending", "claimed"}
      BY <1>3 DEF ClaimPasswordActionNotification, DueNotification
    <2> QED
      BY <1>2, <2>1
  <1>4. ASSUME NEW d \in Dispatchers, SubmitPasswordActionNotification(d) PROVE Fading
    <2>1. PICK outcome \in {"accepted", "failed", "rejected"} : dispatcher' = [dispatcher EXCEPT ![d].phase = outcome]
      BY <1>4 DEF SubmitPasswordActionNotification
    <2>2. dispatcher[d] \in NotificationClaim
      BY <1>0, <1>4 DEF SubmitPasswordActionNotification
    <2> PICK c : c = [dispatcher[d] EXCEPT !.phase = outcome]
      OBVIOUS
    <2>3. c.phase = outcome /\ dispatcher' = [dispatcher EXCEPT ![d] = c]
      BY <2>1, <2>2 DEF NotificationClaim
    <2> QED
      BY <1>2, <2>3
  <1>5. ASSUME NEW d \in Dispatchers, RecordOutcome(d) \/ DispatcherStops(d) PROVE Fading
    <2>1. dispatcher' = [dispatcher EXCEPT ![d] = Resting]
      BY <1>5 DEF RecordOutcome, DispatcherStops
    <2> QED
      BY <1>0, <1>2, <2>1
  <1>6. /\ \A p \in People : AccountAppears(p) => dispatcher' = dispatcher
        /\ \A p \in People, k \in RequestKeys : AskPasswordAction(p, k) => dispatcher' = dispatcher
        /\ \A r \in asked : RequestPasswordAction(r) => dispatcher' = dispatcher
        /\ \A o \in Operations : ActionElapses(o) \/ LeaseLapses(o) \/ BackoffEnds(o) => dispatcher' = dispatcher
        /\ \A o \in Operations, new \in Passwords, k \in CompletionKeys :
             CompletePasswordAction(o, new, k) => dispatcher' = dispatcher
    BY DEF AccountAppears, AskPasswordAction, RequestPasswordAction, RequestAnsweredBefore, ActionElapses,
       LeaseLapses, BackoffEnds, CompletePasswordAction, CommitPasswordAction
  <1>7. CASE PasswordNext
    BY <1>1, <1>3, <1>4, <1>5, <1>6, <1>7 DEF PasswordNext
  <1>8. /\ \A p \in People : InvitationMoves(p) => dispatcher' = dispatcher
        /\ \A c \in Challenges :
             \/ ChallengeElapses(c) \/ ClaimAccountVerificationNotification(c)
             \/ CheckAccountVerification(c) \/ DispatchAccountVerification(c)
             => dispatcher' = dispatcher
        /\ \A c \in Challenges, p \in People, k \in AccountKeys :
             RequestVerification(c, p, k) => dispatcher' = dispatcher
        /\ \A c \in Challenges, p \in People, k \in AccountKeys, right \in BOOLEAN, new \in Passwords :
             Complete(c, p, right, new, k) => dispatcher' = dispatcher
    BY DEF InvitationMoves, ChallengeElapses, ClaimAccountVerificationNotification, CheckAccountVerification,
       DispatchAccountVerification, RequestVerification, RequestInvitedAccountVerification, Complete,
       CompleteInvitedAccount, withinInvitedAccount, passwordVars
  <1>9. CASE InvitedNext
    BY <1>1, <1>8, <1>9 DEF InvitedNext
  <1> QED
    BY <1>1, <1>7, <1>9 DEF AccountsNext, accountVars, passwordVars

\* However requests, lookups, completions and dispatchers overlap, and whichever
\* way accounts come: a password changes only by the latest action of its owner,
\* each action once, a setup never overwrites, and the notification of a spent or
\* replaced action is closed for good: no dispatcher takes it up any more
\* (CompletePasswordAction, ClaimPasswordActionNotification).
THEOREM PasswordTheorem == AccountsSpec => PasswordsAreProtected
  <1>1. AccountsInit => AccountsInv
    BY PasswordInitially, InvitedInitially DEF AccountsInit, AccountsInv
  <1>2. AccountsInv /\ [AccountsNext]_accountVars => AccountsInv'
    BY AccountsSteps
  <1>3. AccountsInv => PasswordTypeOK /\ OnlyLatestActionIsLive /\ EveryChangeHasItsAction /\ LiveNotificationsAreCurrent
    BY AccountsImply
  <1>4. AccountsInv /\ [AccountsNext]_accountVars =>
          [\A p \in People : account[p].password # None /\ account'[p].version # account[p].version =>
             \E o \in Operations : action[o].person = p /\ action[o].purpose = "reset"
                                     /\ action[o].status = "active" /\ action'[o].status = "consumed"]_passwordVars
    BY AccountsKeep DEF Resets
  <1>5. AccountsInv /\ [AccountsNext]_accountVars =>
          [\A o \in Operations :
             note[o].status \in {"delivered", "cancelled", "attention_required"} =>
               note'[o] = note[o] /\ Senders(o)' \subseteq Senders(o)]_passwordVars
    BY AccountsKeep, SendersFade DEF Settled, Fading
  <1> QED
    BY <1>1, <1>2, <1>3, <1>4, <1>5, PTL DEF AccountsSpec, PasswordsAreProtected, SetupNeverOverwrites, SettledNotificationsStay

\* However requests, guesses, mails and moves of Invitations overlap: a code is
\* guessed at no more than MaxGuesses times, a person has one open challenge, the
\* delivery of a closed one is closed with it, and an account is created only for
\* somebody who is invited at that moment and has none (CompleteInvitedAccount).
THEOREM InvitedTheorem == AccountsSpec => InvitedAccountsAreEarned
  <1>1. AccountsInit => AccountsInv
    BY PasswordInitially, InvitedInitially DEF AccountsInit, AccountsInv
  <1>2. AccountsInv /\ [AccountsNext]_accountVars => AccountsInv'
    BY AccountsSteps
  <1>3. AccountsInv => InvitedTypeOK /\ GuessesAreBounded /\ OneChallengeIsOpen /\ CodesFollowChallenges
    BY AccountsImply
  <1>4. AccountsInv /\ [AccountsNext]_accountVars =>
          [\A c \in Challenges :
             challenge[c].status # "consumed" /\ challenge'[c].status = "consumed" =>
               LET p == challenge[c].person
               IN invitation[p] = "open" /\ ~account[p].known /\ account'[p].known]_<<account, challengeVars>>
    BY AccountsInvited DEF Invited
  <1> QED
    BY <1>1, <1>2, <1>3, <1>4, PTL DEF AccountsSpec, InvitedAccountsAreEarned, AccountsAreInvited

(***************************************************************************)
(* Paged lists.                                                            *)
(***************************************************************************)
\* The order of a list l, and what comes up to a position in it.
Precedes(l, i, j) == IF l \in Newest THEN i > j ELSE i < j
Reached(l, p, i) == p # 0 /\ ~Precedes(l, p, i)

LEMMA ListOrder ==
  ASSUME NEW l, NEW i \in Ids, NEW j \in Ids, NEW k \in Ids
  PROVE  /\ ~Precedes(l, i, i) /\ (Precedes(l, i, j) \/ i = j \/ Precedes(l, j, i))
         /\ Precedes(l, i, j) => ~Precedes(l, j, i) /\ i # j
         /\ Precedes(l, i, j) /\ Precedes(l, j, k) => Precedes(l, i, k)
         /\ i # 0
  BY ListingAssumption DEF Precedes, Ids

\* All of S, in the order of l.
Enumerates(l, rows, S) ==
  /\ rows \in Seq(S)
  /\ \A m, n \in 1..Len(rows) : m < n => Precedes(l, rows[m], rows[n])
  /\ \A i \in S : \E n \in 1..Len(rows) : rows[n] = i

LEMMA Ranks ==
  ASSUME NEW S \in SUBSET Ids
  PROVE  /\ IsFiniteSet(S) /\ Cardinality(S) \in Nat
         /\ \A i \in S : Rank(i, S) \in 1..Cardinality(S)
         /\ \A i, j \in S : i < j => Rank(i, S) < Rank(j, S)
         /\ \A k \in 1..Cardinality(S) : \E i \in S : Rank(i, S) = k
  <1>1. IsFiniteSet(Ids)
    BY ListingAssumption, FS_Interval DEF Ids
  <1>2. IsFiniteSet(S)
    BY <1>1, FS_Subset
  <1>3. Cardinality(S) \in Nat
    BY <1>2, FS_CardinalityType
  <1>4. \A i, j \in S : i \in Int /\ j \in Int
    BY ListingAssumption DEF Ids
  <1>5. ASSUME NEW i \in S
        PROVE  /\ IsFiniteSet({j \in S : j <= i})
               /\ Rank(i, S) \in 1..Cardinality(S) /\ Rank(i, S) \in Nat
    <2>1. {j \in S : j <= i} \in SUBSET S /\ i \in {j \in S : j <= i}
      BY <1>4
    <2>2. IsFiniteSet({j \in S : j <= i}) /\ Cardinality({j \in S : j <= i}) <= Cardinality(S)
      BY <1>2, <2>1, FS_Subset
    <2>3. Cardinality({j \in S : j <= i}) \in Nat /\ Cardinality({j \in S : j <= i}) # 0
      BY <2>1, <2>2, FS_CardinalityType, FS_EmptySet
    <2> QED
      BY <1>3, <2>2, <2>3 DEF Rank
  <1>6. ASSUME NEW i \in S, NEW j \in S, i < j PROVE Rank(i, S) < Rank(j, S)
    <2>1. {k \in S : k <= i} \in SUBSET {k \in S : k <= j}
      BY <1>4, <1>6
    <2>2. j \in {k \in S : k <= j} /\ j \notin {k \in S : k <= i}
      BY <1>4, <1>6
    <2>3. Cardinality({k \in S : k <= i}) <= Cardinality({k \in S : k <= j})
          /\ Cardinality({k \in S : k <= j}) # Cardinality({k \in S : k <= i})
      BY <1>5, <2>1, <2>2, FS_Subset
    <2>4. Rank(i, S) \in Nat /\ Rank(j, S) \in Nat
      BY <1>5
    <2> QED
      BY <2>3, <2>4 DEF Rank
  <1>7. ASSUME NEW k \in 1..Cardinality(S) PROVE \E i \in S : Rank(i, S) = k
    <2> PICK f : f = [i \in S |-> Rank(i, S)]
      OBVIOUS
    <2>1. f \in [S -> 1..Cardinality(S)] /\ \A i \in S : f[i] = Rank(i, S)
      BY <1>5
    <2>2. \A i, j \in S : f[i] = f[j] => i = j
      <3> SUFFICES ASSUME NEW i \in S, NEW j \in S, i # j PROVE f[i] # f[j]
        OBVIOUS
      <3>1. Rank(i, S) \in Nat /\ Rank(j, S) \in Nat
        BY <1>5
      <3> QED
        BY <1>4, <1>6, <2>1, <3>1
    <2>3. f \in Injection(S, 1..Cardinality(S))
      BY <2>1, <2>2 DEF Injection, IsInjective
    <2>4. IsFiniteSet(1..Cardinality(S)) /\ Cardinality(1..Cardinality(S)) = Cardinality(S)
      BY <1>3, FS_Interval
    <2>5. f \in Surjection(S, 1..Cardinality(S))
      BY <2>3, <2>4, FS_Injection
    <2> QED
      BY <2>1, <2>5 DEF Surjection
  <1> QED
    BY <1>2, <1>3, <1>5, <1>6, <1>7

LEMMA SortedIsInOrder ==
  ASSUME NEW S \in SUBSET Ids
  PROVE  /\ \A l : l \notin Newest => Enumerates(l, Sorted(S), S)
         /\ \A l : l \in Newest => Enumerates(l, Reverse(Sorted(S)), S)
  <1>1. \A i, j \in S : i \in Int /\ j \in Int
    BY ListingAssumption DEF Ids
  <1> PICK n \in Nat : n = Cardinality(S)
    BY Ranks
  <1>2. \A k \in 1..n : Sorted(S)[k] \in S /\ Rank(Sorted(S)[k], S) = k
    BY Ranks DEF Sorted
  <1> PICK s : s = Sorted(S)
    OBVIOUS
  <1>3. s \in [1..n -> S] /\ s \in Seq(S) /\ Len(s) = n
    BY <1>2 DEF Sorted
  <1>4. ASSUME NEW i \in 1..n, NEW j \in 1..n, i < j PROVE s[i] < s[j]
    <2>1. s[i] \in S /\ s[j] \in S /\ Rank(s[i], S) = i /\ Rank(s[j], S) = j
      BY <1>2
    <2> QED
      BY <1>1, <1>4, <2>1, Ranks
  <1>5. ASSUME NEW i \in S PROVE \E k \in 1..n : s[k] = i
    <2>1. Rank(i, S) \in 1..n
      BY Ranks
    <2>2. s[Rank(i, S)] \in S /\ Rank(s[Rank(i, S)], S) = Rank(i, S)
      BY <1>2, <2>1
    <2>3. s[Rank(i, S)] = i
      BY <1>1, <2>1, <2>2, Ranks
    <2> QED
      BY <2>1, <2>3
  <1>6. ASSUME NEW l, l \notin Newest PROVE Enumerates(l, s, S)
    BY <1>3, <1>4, <1>5, <1>6 DEF Enumerates, Precedes
  <1> PICK t : t = Reverse(s)
    OBVIOUS
  <1>7. t \in [1..n -> S] /\ t \in Seq(S) /\ Len(t) = n /\ \A k \in 1..n : t[k] = s[n - k + 1]
    BY <1>3 DEF Reverse
  <1>8. ASSUME NEW l, l \in Newest PROVE Enumerates(l, t, S)
    <2>1. ASSUME NEW i \in 1..n, NEW j \in 1..n, i < j PROVE t[i] > t[j]
      <3>1. n - j + 1 \in 1..n /\ n - i + 1 \in 1..n /\ n - j + 1 < n - i + 1
        BY <2>1
      <3>2. s[n - j + 1] < s[n - i + 1]
        BY <1>4, <3>1
      <3> QED
        BY <1>1, <1>3, <1>7, <3>1, <3>2
    <2>2. ASSUME NEW i \in S PROVE \E k \in 1..n : t[k] = i
      <3> PICK k \in 1..n : s[k] = i
        BY <1>5
      <3>1. n - k + 1 \in 1..n /\ n - (n - k + 1) + 1 = k
        OBVIOUS
      <3> QED
        BY <1>7, <3>1
    <2> QED
      BY <1>7, <1>8, <2>1, <2>2 DEF Enumerates, Precedes
  <1> QED
    BY <1>6, <1>8

\* The rows of a table, and those a question is about.
Table == [Ids -> Row \cup {Nothing}]
PresentIn(t) == {i \in Ids : t[i] # Nothing}
MatchingIn(t, b, f) ==
  {i \in PresentIn(t) : (b = Nothing \/ t[i].boundary = b) /\ (f = Nothing \/ t[i].status = f)}

WalkRow ==
  [phase : {"none", "open", "done"}, boundary : Holders \cup {Nothing}, filter : Filters,
   after : 0..MaxId, revision : Nat, seen : Seq(Ids), start : 0..MaxId,
   kept : SUBSET Ids, steady : SUBSET Ids, actor : Readers \cup {Nothing}, since : Nat]

Unfiltered == {"dead_letters", "attempts", "catalog", "roles", "platform_roles"}
Unbounded == {"platform_memberships", "platform_roles"}

\* The rows a walk owes: those behind the place where its question was first
\* asked that stayed, and that did not change where their status is asked for.
Owed(l, t, b, f, w) ==
  {i \in MatchingIn(t, b, f) : i \in w.kept /\ (f = Nothing \/ i \in w.steady) /\ ~Reached(l, w.start, i)}
Seen(w) == {w.seen[k] : k \in DOMAIN w.seen}

\* A walk w has come to position p of a list, asking for b and f: it has shown
\* what it owes up to there and nothing behind.
Walked(l, t, b, f, p, w) ==
  /\ \A m, n \in DOMAIN w.seen : m < n => Precedes(l, w.seen[m], w.seen[n])
  /\ w.kept \subseteq PresentIn(t) /\ w.steady \subseteq w.kept
  /\ \A i \in Seen(w) : Reached(l, p, i)
  /\ \A i \in Owed(l, t, b, f, w) : Reached(l, p, i) => i \in Seen(w)

\* A walk that is over.
Finished(l, t, w) ==
  /\ \A m, n \in DOMAIN w.seen : m < n => Precedes(l, w.seen[m], w.seen[n])
  /\ w.kept \subseteq PresentIn(t) /\ w.steady \subseteq w.kept
  /\ Owed(l, t, w.boundary, w.filter, w) \subseteq Seen(w)

WalkOK(l, t, w) ==
  /\ w \in WalkRow
  /\ w.phase = "open" =>
       /\ w.after \in Ids /\ Walked(l, t, w.boundary, w.filter, w.after, w)
       /\ l \in Unfiltered => w.filter = Nothing
       /\ l \in Unbounded => w.boundary = Nothing
  /\ w.phase = "done" => Finished(l, t, w)
  /\ w.phase = "none" => w = NoWalk
  /\ l \notin Bare => w.start = 0

\* The walk that caller r got is his, and of one policy revision.
Asker(l, r, w) ==
  w.phase # "none" =>
    (l \in Personal => w.actor = r) /\ (l \in Personal \cup {"catalog"} => w.since = w.revision)

RolePage == [roles : SUBSET Ids, page : WalkRow]

ListingInv ==
  /\ table \in Table /\ revision \in Nat
  /\ walk \in [Readers -> WalkRow]
  /\ \A r \in Readers : WalkOK(list, table, walk[r]) /\ Asker(list, r, walk[r])
  /\ reading \in [Readers -> RolePage \cup {Nothing}]
  /\ \A r \in Readers : reading[r] # Nothing => list = "roles" /\ WalkOK(list, table, reading[r].page)

LEMMA ListingImplies == ListingInv => WalksAreFaithful
  <1> SUFFICES ASSUME ListingInv PROVE WalksAreFaithful
    OBVIOUS
  <1> SUFFICES ASSUME NEW r \in Readers, NEW w, w = walk[r]
      PROVE /\ \A i, j \in DOMAIN w.seen :
                 i < j => IF list \in Newest THEN w.seen[i] > w.seen[j] ELSE w.seen[i] < w.seen[j]
            /\ w.phase = "done" =>
                 LET wanted == IF w.boundary = Nothing THEN Present ELSE Within(w.boundary)
                     due == IF w.filter = Nothing THEN w.kept ELSE Having(w.filter, wanted) \cap w.steady
                     ahead == IF list \in Newest THEN Before(w.start, wanted) ELSE Behind(w.start, wanted)
                 IN due \cap ahead \subseteq {w.seen[k] : k \in DOMAIN w.seen}
            /\ w.phase # "none" =>
                 /\ list \notin Bare => w.start = 0
                 /\ list \in Personal => w.actor = r
                 /\ list \in Personal \cup {"catalog"} => w.since = w.revision
    BY DEF WalksAreFaithful, WalksGoForward, WalksAreComplete, WalksKeepTheirQuestion
  <1>1. WalkOK(list, table, w) /\ w \in WalkRow
    BY DEF ListingInv
  <1>a. w.phase # "none" =>
          /\ list \notin Bare => w.start = 0
          /\ list \in Personal => w.actor = r
          /\ list \in Personal \cup {"catalog"} => w.since = w.revision
    BY <1>1 DEF ListingInv, WalkOK, Asker
  <1>2. CASE w.phase = "none"
    BY <1>1, <1>2 DEF WalkOK, NoWalk
  <1>3. CASE w.phase = "open"
    BY <1>1, <1>3, <1>a DEF WalkOK, Walked, Precedes, Seen
  <1>4. CASE w.phase = "done"
    <2>1. Finished(list, table, w)
      BY <1>1, <1>4 DEF WalkOK
    <2>2. \A i, j \in DOMAIN w.seen :
            i < j => IF list \in Newest THEN w.seen[i] > w.seen[j] ELSE w.seen[i] < w.seen[j]
      BY <2>1 DEF Finished, Precedes
    <2> PICK wanted : wanted = IF w.boundary = Nothing THEN Present ELSE Within(w.boundary)
      OBVIOUS
    <2>3. ASSUME NEW i \in Ids, i \in w.kept, i \in wanted, ~Reached(list, w.start, i),
                 w.filter = Nothing \/ (i \in w.steady /\ table[i].status = w.filter)
          PROVE  i \in Seen(w)
      BY <2>1, <2>3 DEF Finished, Owed, MatchingIn, PresentIn, Present, Within
    <2>4. \A i \in w.kept \cup w.steady : i \in Ids /\ i \in w.kept
      BY <1>1, <2>1 DEF WalkRow, Finished
    <2>5. ASSUME NEW i \in Ids, i \in IF list \in Newest THEN Before(w.start, wanted) ELSE Behind(w.start, wanted)
          PROVE  i \in wanted /\ ~Reached(list, w.start, i)
      <3>1. i \in Int /\ w.start \in Int
        BY <1>1, ListingAssumption DEF WalkRow, Ids
      <3> QED
        BY <2>5, <3>1 DEF Before, Behind, Reached, Precedes
    <2> PICK due : due = IF w.filter = Nothing THEN w.kept ELSE Having(w.filter, wanted) \cap w.steady
      OBVIOUS
    <2>6. ASSUME NEW i \in due,
                 i \in IF list \in Newest THEN Before(w.start, wanted) ELSE Behind(w.start, wanted)
          PROVE  i \in Seen(w)
      <3>1. i \in Ids /\ i \in w.kept /\ (w.filter = Nothing \/ (i \in w.steady /\ table[i].status = w.filter))
        BY <2>4 DEF Having
      <3> QED
        BY <2>3, <2>5, <2>6, <3>1
    <2> QED
      BY <1>a, <2>2, <2>6 DEF Seen
  <1> QED
    BY <1>1, <1>2, <1>3, <1>4 DEF WalkRow

LEMMA ListingInitially == ListingInit => ListingInv
  <1> SUFFICES ASSUME ListingInit PROVE ListingInv
    OBVIOUS
  <1>1. << >> \in Seq(Ids) /\ 0 \in 0..MaxId /\ Nothing \in Filters
    BY ListingAssumption DEF Filters
  <1>2. NoWalk \in WalkRow /\ NoWalk.phase = "none" /\ NoWalk.start = 0
    BY <1>1 DEF NoWalk, WalkRow
  <1>3. WalkOK(list, table, NoWalk) /\ \A r : Asker(list, r, NoWalk)
    BY <1>2 DEF WalkOK, Asker
  <1> QED
    BY <1>2, <1>3 DEF ListingInit, ListingInv, Table

\* What a page shows of its rows.
LEMMA ShownRows ==
  ASSUME NEW S \in SUBSET Ids, NEW rows \in Seq(S)
  PROVE  /\ Shown(rows) \in Seq(S) /\ Len(Shown(rows)) \in Nat
         /\ Len(Shown(rows)) = IF Len(rows) > PageLimit THEN PageLimit ELSE Len(rows)
         /\ \A k \in 1..Len(Shown(rows)) : k \in 1..Len(rows) /\ Shown(rows)[k] = rows[k]
  <1>1. Len(rows) \in Nat /\ PageLimit \in Nat /\ PageLimit # 0 /\ \A k \in 1..Len(rows) : rows[k] \in S
    BY ListingAssumption
  <1>2. CASE Len(rows) > PageLimit
    <2>1. Shown(rows) = [k \in 1..PageLimit |-> rows[k]]
      BY <1>1, <1>2 DEF Shown
    <2>2. \A k \in 1..PageLimit : k \in 1..Len(rows)
      BY <1>1, <1>2
    <2> QED
      BY <1>1, <1>2, <2>1, <2>2
  <1>3. CASE ~(Len(rows) > PageLimit)
    BY <1>1, <1>3 DEF Shown
  <1> QED
    BY <1>2, <1>3

Joined(g, h, s, H, M) ==
  /\ g \in Seq(Ids) /\ DOMAIN g = 1..(H + M)
  /\ \A k \in 1..H : k \in DOMAIN g /\ g[k] = h[k]
  /\ \A k \in 1..M : H + k \in DOMAIN g /\ g[H + k] = s[k]
  /\ \A n \in DOMAIN g : n \in 1..H \/ (n > H /\ \E k \in 1..M : n = H + k)

LEMMA Concatenated ==
  ASSUME NEW h \in Seq(Ids), NEW s \in Seq(Ids)
  PROVE  Joined(h \o s, h, s, Len(h), Len(s))
  <1> PICK g : g = h \o s
    OBVIOUS
  <1> PICK H : H = Len(h)
    OBVIOUS
  <1> PICK M : M = Len(s)
    OBVIOUS
  <1>0. H \in Nat /\ M \in Nat
    OBVIOUS
  <1>1. g \in Seq(Ids) /\ Len(g) = H + M /\ DOMAIN g = 1..(H + M)
    BY <1>0
  <1>2. \A k \in 1..H : k \in DOMAIN g /\ g[k] = h[k]
    BY <1>1
  <1>3. ASSUME NEW k \in 1..M PROVE H + k \in DOMAIN g /\ g[H + k] = s[k]
    <2>1. H + k \in 1..(H + M) /\ H + k > H /\ (H + k) - H = k
      BY <1>0, <1>3
    <2> QED
      BY <1>1, <2>1
  <1>4. ASSUME NEW n \in 1..(H + M), n \notin 1..H PROVE n > H /\ \E k \in 1..M : n = H + k
    <2>1. n > H /\ n - H \in 1..M /\ n = H + (n - H)
      BY <1>0, <1>4
    <2> QED
      BY <2>1
  <1> QED
    BY <1>1, <1>2, <1>3, <1>4 DEF Joined

\* What is left of a question at p, and a walk with a page more.
Rest(l, t, b, f, p) == {i \in MatchingIn(t, b, f) : ~Reached(l, p, i)}

NextWalk(from, b, f, rows, rev) ==
  [phase |-> IF Len(rows) > PageLimit THEN "open" ELSE "done", boundary |-> b, filter |-> f,
   after |-> IF Len(rows) > PageLimit THEN rows[PageLimit] ELSE 0, revision |-> rev,
   seen |-> from.seen \o Shown(rows), start |-> from.start, kept |-> from.kept, steady |-> from.steady,
   actor |-> from.actor, since |-> from.since]

\* The next page of a walk that came to p and asks for b and f again.
LEMMA NextPage ==
  ASSUME NEW l, NEW t \in Table, NEW b \in Holders \cup {Nothing}, NEW f \in Filters, NEW p, p = 0 \/ p \in Ids,
         NEW from \in WalkRow, Walked(l, t, b, f, p, from),
         NEW rows, Enumerates(l, rows, Rest(l, t, b, f, p)),
         l \in Unfiltered => f = Nothing, l \in Unbounded => b = Nothing, l \notin Bare => from.start = 0,
         NEW rev \in Nat
  PROVE  WalkOK(l, t, NextWalk(from, b, f, rows, rev))
  <1> PICK w : w = NextWalk(from, b, f, rows, rev)
    OBVIOUS
  <1> PICK S : S = {i \in MatchingIn(t, b, f) : ~Reached(l, p, i)}
    OBVIOUS
  <1>1. S \in SUBSET Ids /\ S \subseteq PresentIn(t)
    BY DEF MatchingIn, PresentIn
  <1>2. /\ rows \in Seq(S) /\ Len(rows) \in Nat /\ S = Rest(l, t, b, f, p)
        /\ \A m, n \in 1..Len(rows) : m < n => Precedes(l, rows[m], rows[n])
        /\ \A i \in S : \E n \in 1..Len(rows) : rows[n] = i
    BY DEF Enumerates, Rest
  <1> PICK s : s = Shown(rows)
    OBVIOUS
  <1> PICK N : N = Len(rows)
    OBVIOUS
  <1> PICK M : M = Len(s)
    OBVIOUS
  <1>3. /\ s \in Seq(S) /\ M \in Nat /\ M = IF N > PageLimit THEN PageLimit ELSE N
        /\ \A k \in 1..M : k \in 1..N /\ s[k] = rows[k]
    BY <1>1, <1>2, ShownRows
  <1>4. N \in Nat /\ PageLimit \in Nat /\ PageLimit >= 1 /\ \A k \in 1..N : rows[k] \in S /\ rows[k] \in Ids
    BY <1>1, <1>2, ListingAssumption
  <1> PICK h : h = from.seen
    OBVIOUS
  <1> PICK H \in Nat : H = Len(h)
    BY DEF WalkRow
  <1>5. h \in Seq(Ids) /\ s \in Seq(Ids) /\ DOMAIN h = 1..H /\ \A k \in 1..H : h[k] \in Ids /\ h[k] \in Seen(from)
    BY <1>1, <1>3 DEF WalkRow, Seen
  <1> PICK g : g = h \o s
    OBVIOUS
  <1>6. /\ g \in Seq(Ids) /\ DOMAIN g = 1..(H + M)
        /\ \A k \in 1..H : k \in DOMAIN g /\ g[k] = h[k]
        /\ \A k \in 1..M : H + k \in DOMAIN g /\ g[H + k] = s[k]
        /\ \A n \in DOMAIN g : n \in 1..H \/ (n > H /\ \E k \in 1..M : n = H + k)
    <2>1. h \in Seq(Ids) /\ s \in Seq(Ids) /\ g = h \o s /\ H \in Nat /\ H = Len(h) /\ M \in Nat /\ M = Len(s)
      BY ONLY <1>3, <1>5, g = h \o s, H \in Nat, H = Len(h), M = Len(s)
    <2>2. Joined(h \o s, h, s, Len(h), Len(s))
      BY ONLY <2>1, Concatenated
    <2> QED
      BY ONLY <2>1, <2>2 DEF Joined
  <1>7. \A k \in 1..M : k \in 1..N /\ H + k \in DOMAIN g /\ g[H + k] = rows[k]
    BY <1>3, <1>6
  <1>8. /\ w.phase = (IF N > PageLimit THEN "open" ELSE "done") /\ w.boundary = b /\ w.filter = f
        /\ w.after = (IF N > PageLimit THEN rows[PageLimit] ELSE 0) /\ w.revision = rev
        /\ w.seen = g /\ w.kept = from.kept /\ w.steady = from.steady /\ w.start = from.start
        /\ w.actor = from.actor /\ w.since = from.since
    BY DEF NextWalk
  <1>9. w \in WalkRow
    <2>1. N > PageLimit => PageLimit \in 1..N
      BY <1>4
    <2>2. w.after \in 0..MaxId
      BY <1>4, <1>8, <2>1, ListingAssumption DEF Ids
    <2>3. /\ w.kept \in SUBSET Ids /\ w.steady \in SUBSET Ids /\ w.start \in 0..MaxId /\ w.seen \in Seq(Ids)
          /\ w.phase \in {"none", "open", "done"} /\ w.actor \in Readers \cup {Nothing} /\ w.since \in Nat
      BY <1>6, <1>8 DEF WalkRow
    <2> QED
      BY <1>8, <2>2, <2>3 DEF WalkRow, NextWalk
  \* Whatever was shown before precedes all of the rows.
  <1>10. ASSUME NEW i \in Ids, Reached(l, p, i), NEW j \in S
         PROVE  Precedes(l, i, j)
    <2>1. ~Reached(l, p, j) /\ j \in Ids
      BY <1>1
    <2>2. p \in Ids /\ Precedes(l, p, j) /\ (i = p \/ Precedes(l, i, p))
      BY <1>10, <2>1, ListOrder DEF Reached
    <2> QED
      BY <2>1, <2>2, ListOrder
  <1>11. \A k \in 1..H : Reached(l, p, h[k])
    BY <1>5 DEF Walked
  <1>12. ASSUME NEW m \in DOMAIN g, NEW n \in DOMAIN g, m < n PROVE Precedes(l, g[m], g[n])
    <2>0. m \in Int /\ n \in Int
      BY ONLY <1>6, <1>12, H \in Nat, <1>3
    <2>1. CASE n \in 1..H
      <3>1. m \in 1..H
        BY ONLY <1>6, <1>12, <2>0, <2>1, H \in Nat
      <3>2. Precedes(l, h[m], h[n])
        BY <1>5, <1>12, <2>1, <3>1 DEF Walked
      <3> QED
        BY ONLY <1>6, <2>1, <3>1, <3>2
    <2>2. ASSUME NEW k \in 1..M, n = H + k PROVE Precedes(l, g[m], g[n])
      <3>1. g[n] = rows[k] /\ rows[k] \in S /\ k \in 1..N /\ k \in Int
        BY ONLY <1>3, <1>4, <1>7, <2>2
      <3>2. CASE m \in 1..H
        <4>1. g[m] = h[m] /\ h[m] \in Ids /\ Reached(l, p, h[m])
          BY ONLY <1>5, <1>6, <1>11, <3>2
        <4> QED
          BY <1>10, <3>1, <4>1
      <3>3. ASSUME NEW j \in 1..M, m = H + j PROVE Precedes(l, g[m], g[n])
        <4>1. g[m] = rows[j] /\ j \in 1..N /\ j \in Int
          BY ONLY <1>3, <1>4, <1>7, <3>3
        <4>2. j < k
          BY ONLY <1>12, <2>2, <3>1, <3>3, <4>1, H \in Nat
        <4> QED
          BY ONLY <1>2, <3>1, <4>1, <4>2, N = Len(rows)
      <3> QED
        BY ONLY <1>6, <1>12, <3>2, <3>3
    <2> QED
      BY ONLY <1>6, <1>12, <2>1, <2>2
  <1>13. Seen(w) = Seen(from) \cup {rows[k] : k \in 1..M}
    <2>0. Seen(w) = {g[n] : n \in DOMAIN g} /\ Seen(from) = {h[k] : k \in 1..H}
      BY ONLY <1>5, <1>8, h = from.seen DEF Seen
    <2>1. ASSUME NEW n \in DOMAIN g PROVE g[n] \in Seen(from) \cup {rows[m] : m \in 1..M}
      BY ONLY <1>6, <1>7, <2>0, <2>1
    <2>2. \A k \in 1..H : h[k] \in Seen(w)
      BY ONLY <1>6, <2>0
    <2>3. \A k \in 1..M : rows[k] \in Seen(w)
      BY ONLY <1>7, <2>0
    <2> QED
      BY ONLY <2>0, <2>1, <2>2, <2>3
  <1>17. w.kept \subseteq PresentIn(t) /\ w.steady \subseteq w.kept
    BY <1>8 DEF Walked
  <1>18. Owed(l, t, b, f, w) = Owed(l, t, b, f, from)
    BY <1>8 DEF Owed
  <1>19. ASSUME NEW i \in Owed(l, t, b, f, w), i \notin Seen(from)
         PROVE  i \in Ids /\ \E k \in 1..N : rows[k] = i
    <2>1. i \in MatchingIn(t, b, f) /\ ~Reached(l, p, i)
      BY <1>18, <1>19 DEF Owed, Walked
    <2> QED
      BY <1>1, <1>2, <2>1
  <1>20. CASE ~(N > PageLimit)
    <2>1. w.phase = "done" /\ M = N
      BY <1>3, <1>8, <1>20
    <2>2. Owed(l, t, w.boundary, w.filter, w) \subseteq Seen(w)
      BY <1>8, <1>13, <1>19, <2>1
    <2>3. \A m, n \in DOMAIN w.seen : m < n => Precedes(l, w.seen[m], w.seen[n])
      BY ONLY <1>8, <1>12
    <2>4. Finished(l, t, w)
      BY <1>17, <2>2, <2>3 DEF Finished
    <2> QED
      BY <1>8, <1>9, <2>1, <2>4 DEF WalkOK
  <1>21. CASE N > PageLimit
    <2> PICK a : a = rows[PageLimit]
      OBVIOUS
    <2>0. w.phase = "open" /\ w.after = a /\ M = PageLimit
      BY ONLY <1>3, <1>8, <1>21, a = rows[PageLimit]
    <2>1. w.phase = "open" /\ M = PageLimit /\ PageLimit \in 1..N /\ w.after = a /\ a \in S /\ a \in Ids /\ a # 0
      <3>1. PageLimit \in 1..N
        BY ONLY <1>4, <1>21
      <3>2. a \in S /\ a \in Ids
        BY ONLY <1>4, <3>1, a = rows[PageLimit]
      <3> QED
        BY <2>0, <3>1, <3>2, ListOrder
    <2>2. ASSUME NEW i \in Seen(w) PROVE Reached(l, a, i)
      <3>1. CASE i \in Seen(from)
        <4>1. i \in Ids /\ Reached(l, p, i)
          BY <3>1 DEF Walked, Seen, WalkRow
        <4>2. Precedes(l, i, a)
          BY <1>10, <2>1, <4>1
        <4> QED
          BY <2>1, <4>1, <4>2, ListOrder DEF Reached
      <3>2. ASSUME NEW k \in 1..M, i = rows[k] PROVE Reached(l, a, i)
        <4>1. k \in 1..N /\ (k = PageLimit \/ k < PageLimit) /\ i \in Ids
          BY <1>4, <2>1, <3>2
        <4>2. i = a \/ Precedes(l, i, a)
          BY <1>2, <2>1, <3>2, <4>1
        <4> QED
          BY <2>1, <4>1, <4>2, ListOrder DEF Reached
      <3> QED
        BY <1>13, <2>2, <3>1, <3>2
    <2>4. ASSUME NEW i \in Owed(l, t, b, f, w), Reached(l, a, i) PROVE i \in Seen(w)
      <3> SUFFICES ASSUME i \notin Seen(from) PROVE i \in Seen(w)
        BY <1>13
      <3> PICK k \in 1..N : rows[k] = i
        BY <1>19
      <3>1. ~Precedes(l, a, i)
        BY <2>4 DEF Reached
      <3>2. ~(PageLimit < k)
        BY <1>2, <2>1, <3>1
      <3>3. k \in 1..M
        BY <1>4, <2>1, <3>2
      <3> QED
        BY <1>13, <3>3
    <2>5. \A m, n \in DOMAIN w.seen : m < n => Precedes(l, w.seen[m], w.seen[n])
      BY ONLY <1>8, <1>12
    <2>6. Walked(l, t, b, f, a, w)
      BY <1>17, <2>2, <2>4, <2>5 DEF Walked
    <2> QED
      BY <1>8, <1>9, <2>1, <2>6 DEF WalkOK
  <1> QED
    BY <1>20, <1>21

\* A row comes, changes its status or goes, and every walk keeps account of it.
LEMMA WalkSurvives ==
  ASSUME NEW l, NEW t \in Table, NEW u \in Table, NEW i \in Ids, \A j \in Ids \ {i} : u[j] = t[j],
         t[i] # Nothing /\ u[i] # Nothing => u[i].boundary = t[i].boundary,
         NEW w, WalkOK(l, t, w), NEW v,
         v = [w EXCEPT !.steady = @ \ {i}, !.kept = IF u[i] = Nothing THEN @ \ {i} ELSE @]
  PROVE  WalkOK(l, u, v)
  <1>0. w \in WalkRow
    BY DEF WalkOK
  <1> PICK K : K = IF u[i] = Nothing THEN w.kept \ {i} ELSE w.kept
    OBVIOUS
  <1>1. v = [phase |-> w.phase, boundary |-> w.boundary, filter |-> w.filter, after |-> w.after,
             revision |-> w.revision, seen |-> w.seen, start |-> w.start, kept |-> K, steady |-> w.steady \ {i},
             actor |-> w.actor, since |-> w.since]
    BY <1>0 DEF WalkRow
  <1>2. /\ v.phase = w.phase /\ v.boundary = w.boundary /\ v.filter = w.filter /\ v.after = w.after
        /\ v.seen = w.seen /\ v.start = w.start /\ v.kept = K /\ v.steady = w.steady \ {i}
    BY <1>1
  <1>b. l \notin Bare => v.start = 0
    BY <1>2 DEF WalkOK
  <1>3. K \in SUBSET Ids /\ w.steady \ {i} \in SUBSET Ids
    BY <1>0 DEF WalkRow
  <1>4. v \in WalkRow
    BY <1>0, <1>1, <1>3 DEF WalkRow
  <1>5. Seen(v) = Seen(w)
    BY <1>2 DEF Seen
  <1>6. CASE w.phase = "none"
    <2>1. w.kept = {} /\ w.steady = {} /\ w = NoWalk
      BY <1>6 DEF WalkOK, NoWalk
    <2>2. K = {} /\ w.steady \ {i} = {}
      BY <2>1
    <2>3. v = NoWalk
      BY <1>1, <2>1, <2>2 DEF NoWalk
    <2> QED
      BY <1>2, <1>4, <1>6, <1>b, <2>3 DEF WalkOK
  <1>7. ASSUME w.kept \subseteq PresentIn(t), w.steady \subseteq w.kept
        PROVE  /\ v.kept \subseteq PresentIn(u) /\ v.steady \subseteq v.kept
               /\ Owed(l, u, v.boundary, v.filter, v) \subseteq Owed(l, t, w.boundary, w.filter, w)
    <2>1. v.kept \subseteq PresentIn(u)
      BY <1>2, <1>7 DEF PresentIn
    <2>2. v.steady \subseteq v.kept
      BY <1>2, <1>7
    <2>4. ASSUME NEW j \in Owed(l, u, v.boundary, v.filter, v) PROVE j \in Owed(l, t, w.boundary, w.filter, w)
      <3>1. /\ ~Reached(l, w.start, j) /\ j \in Ids /\ u[j] # Nothing /\ j \in K /\ (w.filter = Nothing \/ j \in w.steady \ {i})
            /\ (w.boundary = Nothing \/ u[j].boundary = w.boundary) /\ (w.filter = Nothing \/ u[j].status = w.filter)
        BY <1>2, <2>4 DEF Owed, MatchingIn, PresentIn
      <3>2. j \in w.kept /\ t[j] # Nothing
        BY <1>7, <3>1 DEF PresentIn
      <3>3. CASE j = i
        <4>1. w.filter = Nothing /\ u[j].boundary = t[j].boundary
          BY <3>1, <3>2, <3>3
        <4> QED
          BY <3>1, <3>2, <4>1 DEF Owed, MatchingIn, PresentIn
      <3>4. CASE j # i
        BY <3>1, <3>2, <3>4 DEF Owed, MatchingIn, PresentIn
      <3> QED
        BY <3>3, <3>4
    <2> QED
      BY <2>1, <2>2, <2>4
  <1>8. CASE w.phase = "open"
    <2>1. Walked(l, t, w.boundary, w.filter, w.after, w)
      BY <1>8 DEF WalkOK
    <2>2. w.kept \subseteq PresentIn(t) /\ w.steady \subseteq w.kept
      BY <2>1 DEF Walked
    <2>3. Walked(l, u, v.boundary, v.filter, v.after, v)
      BY <1>2, <1>5, <1>7, <2>1, <2>2 DEF Walked
    <2> QED
      BY <1>2, <1>4, <1>8, <1>b, <2>3 DEF WalkOK
  <1>9. CASE w.phase = "done"
    <2>1. Finished(l, t, w)
      BY <1>9 DEF WalkOK
    <2>2. w.kept \subseteq PresentIn(t) /\ w.steady \subseteq w.kept
      BY <2>1 DEF Finished
    <2>3. Finished(l, u, v)
      BY <1>2, <1>5, <1>7, <2>1, <2>2 DEF Finished
    <2> QED
      BY <1>2, <1>4, <1>9, <1>b, <2>3 DEF WalkOK
  <1> QED
    BY <1>0, <1>6, <1>8, <1>9 DEF WalkRow

\* A new row that no walk has heard of.
LEMMA WalkIgnores ==
  ASSUME NEW l, NEW t \in Table, NEW u \in Table, NEW i \in Ids, t[i] = Nothing, \A j \in Ids \ {i} : u[j] = t[j],
         NEW w, WalkOK(l, t, w)
  PROVE  WalkOK(l, u, w)
  <1>0. w \in WalkRow
    BY DEF WalkOK
  <1>1. PresentIn(t) \subseteq PresentIn(u)
    BY DEF PresentIn
  <1>2. ASSUME w.kept \subseteq PresentIn(t)
        PROVE  Owed(l, u, w.boundary, w.filter, w) \subseteq Owed(l, t, w.boundary, w.filter, w)
    <2> SUFFICES ASSUME NEW j \in Owed(l, u, w.boundary, w.filter, w) PROVE j \in Owed(l, t, w.boundary, w.filter, w)
      OBVIOUS
    <2>1. j \in PresentIn(t)
      BY <1>2 DEF Owed
    <2>2. u[j] = t[j]
      BY <2>1 DEF PresentIn
    <2> QED
      BY <2>1, <2>2 DEF Owed, MatchingIn
  <1>3. CASE w.phase = "open"
    <2>1. Walked(l, u, w.boundary, w.filter, w.after, w)
      BY <1>1, <1>2, <1>3 DEF WalkOK, Walked
    <2> QED
      BY <1>3, <2>1 DEF WalkOK
  <1>4. CASE w.phase = "done"
    <2>1. Finished(l, u, w)
      BY <1>1, <1>2, <1>4 DEF WalkOK, Finished
    <2> QED
      BY <1>4, <2>1 DEF WalkOK
  <1>5. CASE w.phase = "none"
    BY <1>5 DEF WalkOK
  <1> QED
    BY <1>0, <1>3, <1>4, <1>5 DEF WalkRow

\* The queries, as the rows a question is about behind a position.
LEMMA Questions ==
  ASSUME ListingInv
  PROVE  /\ \A b \in Holders : Within(b) = MatchingIn(table, b, Nothing)
         /\ \A b \in Holders, f \in Filters : Having(f, Within(b)) = MatchingIn(table, b, f)
         /\ \A f \in Filters : Having(f, Present) = MatchingIn(table, Nothing, f)
         /\ Present = MatchingIn(table, Nothing, Nothing)
  <1>1. Present = PresentIn(table)
    BY DEF Present, PresentIn
  <1>2. \A b \in Holders : b # Nothing
    BY ListingAssumption
  <1>3. ASSUME NEW b \in Holders, NEW f \in Filters PROVE Having(f, Within(b)) = MatchingIn(table, b, f)
    BY <1>1, <1>2 DEF Having, Within, MatchingIn
  <1>4. ASSUME NEW b \in Holders PROVE Within(b) = MatchingIn(table, b, Nothing)
    BY <1>1, <1>2 DEF Within, MatchingIn
  <1>5. ASSUME NEW f \in Filters PROVE Having(f, Present) = MatchingIn(table, Nothing, f)
    BY <1>1 DEF Having, MatchingIn
  <1> QED
    BY <1>1, <1>3, <1>4, <1>5 DEF MatchingIn

LEMMA Positions ==
  ASSUME ListingInv, NEW r, NEW q \in Readers \cup Ids \cup {Nothing}, NEW b, NEW f, NEW fields,
         Presents(r, q, b, f, fields)
  PROVE  After(q) = 0 \/ After(q) \in Ids
  BY DEF Presents, After, ListingInv, WalkOK

LEMMA RowsBehind ==
  ASSUME NEW S \in SUBSET Ids, NEW p, p = 0 \/ p \in Ids, NEW l
  PROVE  /\ l \notin Newest => Enumerates(l, Sorted(Behind(p, S)), {i \in S : ~Reached(l, p, i)})
         /\ l \in Newest => Enumerates(l, Reverse(Sorted(Before(p, S))), {i \in S : ~Reached(l, p, i)})
  <1>1. \A i \in S : i \in Int /\ i > 0
    BY ListingAssumption DEF Ids
  <1>2. p \in Int /\ p >= 0
    BY ListingAssumption DEF Ids
  <1>3. ASSUME l \notin Newest PROVE Behind(p, S) = {i \in S : ~Reached(l, p, i)}
    BY <1>1, <1>2, <1>3 DEF Behind, Reached, Precedes
  <1>4. ASSUME l \in Newest PROVE Before(p, S) = {i \in S : ~Reached(l, p, i)}
    BY <1>1, <1>2, <1>4 DEF Before, Reached, Precedes
  <1>5. Behind(p, S) \in SUBSET Ids /\ Before(p, S) \in SUBSET Ids
    BY DEF Behind, Before
  <1> QED
    BY <1>3, <1>4, <1>5, SortedIsInOrder

\* A cursor leads on in the question it was issued for, or begins another one
\* where it points to.
LEMMA Continues ==
  ASSUME ListingInv, NEW r \in Readers, NEW q \in Readers \cup Ids \cup {Nothing},
         NEW b \in Holders \cup {Nothing}, NEW f \in Filters, NEW fields, Presents(r, q, b, f, fields),
         list \notin Bare => "boundary" \in fields \/ (list \in Unbounded /\ b = Nothing),
         list \notin Bare => "filter" \in fields \/ (list \in Unfiltered /\ f = Nothing),
         list \in Personal => "actor" \in fields /\ "revision" \in fields,
         list = "catalog" => "revision" \in fields, list \notin Bare => fields # {},
         NEW from, from = From(r, q, b, f)
  PROVE  /\ from \in WalkRow /\ Walked(list, table, b, f, After(q), from)
         /\ list \notin Bare => from.start = 0
         /\ list \in Personal => from.actor = r
         /\ list \in Personal \cup {"catalog"} => from.since = revision
  <1>0. /\ Present = PresentIn(table) /\ Present \in SUBSET Ids /\ revision \in Nat
        /\ After(q) = 0 \/ After(q) \in Ids
    BY Positions DEF Present, PresentIn, ListingInv
  <1>1. << >> \in Seq(Ids) /\ 0 \in 0..MaxId /\ Nothing \in Filters /\ After(q) \in 0..MaxId
    BY <1>0, ListingAssumption DEF Filters, Ids
  <1>2. CASE q \notin Readers
    <2>1. from = [phase |-> "none", boundary |-> Nothing, filter |-> Nothing, after |-> 0, revision |-> 0,
                  seen |-> <<>>, start |-> After(q), kept |-> Present, steady |-> Present,
                  actor |-> r, since |-> revision]
      BY <1>2 DEF From, NoWalk
    <2>2. from \in WalkRow
      <3>1. "none" \in {"none", "open", "done"} /\ 0 \in Nat /\ Nothing \in Holders \cup {Nothing}
            /\ r \in Readers \cup {Nothing}
        OBVIOUS
      <3> QED
        BY ONLY <1>0, <1>1, <2>1, <3>1 DEF WalkRow
    <2>3. /\ from.seen = << >> /\ from.kept = Present /\ from.steady = Present /\ from.start = After(q)
          /\ from.actor = r /\ from.since = revision
      BY ONLY <2>1
    <2>4. DOMAIN from.seen = {} /\ Seen(from) = {}
      BY ONLY <2>3 DEF Seen
    <2>5. Walked(list, table, b, f, After(q), from)
      BY <1>0, <2>3, <2>4 DEF Walked, Owed
    <2>6. list \notin Bare => from.start = 0
      BY <1>2, <2>3 DEF Presents, After
    <2> QED
      BY <2>2, <2>3, <2>5, <2>6
  <1>3. CASE q \in Readers
    <2> PICK w : w = walk[q]
      OBVIOUS
    <2>1. /\ w \in WalkRow /\ WalkOK(list, table, w) /\ Asker(list, q, w) /\ After(q) = w.after /\ w.phase = "open"
      BY <1>3 DEF ListingInv, After, Presents
    <2>2. /\ Walked(list, table, w.boundary, w.filter, w.after, w) /\ (list \notin Bare => w.start = 0)
          /\ (list \in Unfiltered => w.filter = Nothing) /\ (list \in Unbounded => w.boundary = Nothing)
      BY <2>1 DEF WalkOK
    <2>3. /\ list \in Personal => w.actor = r
          /\ list \in Personal \cup {"catalog"} => w.since = revision
      BY <1>3, <2>1 DEF Presents, Asker
    <2>4. CASE w.boundary = b /\ w.filter = f
      <3>1. from = w
        BY <1>3, <2>4 DEF From
      <3> QED
        BY <2>1, <2>2, <2>3, <2>4, <3>1
    <2>5. CASE ~(w.boundary = b /\ w.filter = f)
      <3>1. from = [w EXCEPT !.start = After(q), !.kept = Present, !.steady = Present]
        BY <1>3, <2>5 DEF From
      <3>2. /\ from.seen = w.seen /\ from.kept = Present /\ from.steady = Present /\ from.start = After(q)
            /\ from.actor = w.actor /\ from.since = w.since /\ from \in WalkRow
        BY <1>0, <1>1, <2>1, <3>1 DEF WalkRow
      <3>3. Seen(from) = Seen(w)
        BY <3>2 DEF Seen
      <3>4. Walked(list, table, b, f, After(q), from)
        BY <1>0, <2>1, <2>2, <3>2, <3>3 DEF Walked, Owed
      <3>5. list \in Bare
        BY <1>3, <2>2, <2>5 DEF Presents
      <3> QED
        BY <2>3, <3>2, <3>4, <3>5
    <2> QED
      BY <2>4, <2>5
  <1> QED
    BY <1>2, <1>3

LEMMA PageKeeps ==
  ASSUME ListingInv, NEW r \in Readers, NEW q \in Readers \cup Ids \cup {Nothing},
         NEW b \in Holders \cup {Nothing}, NEW f \in Filters, NEW fields, Presents(r, q, b, f, fields),
         list \notin Bare => "boundary" \in fields \/ (list \in Unbounded /\ b = Nothing),
         list \notin Bare => "filter" \in fields \/ (list \in Unfiltered /\ f = Nothing),
         list \in Personal => "actor" \in fields /\ "revision" \in fields,
         list = "catalog" => "revision" \in fields, list \notin Bare => fields # {},
         list \in Unfiltered => f = Nothing, list \in Unbounded => b = Nothing,
         NEW rows, Enumerates(list, rows, Rest(list, table, b, f, After(q)))
  PROVE  WalkOK(list, table, Page(r, q, b, f, rows)) /\ Asker(list, r, Page(r, q, b, f, rows))
  <1> PICK from : from = From(r, q, b, f)
    OBVIOUS
  <1>0. /\ table \in Table /\ revision \in Nat /\ (After(q) = 0 \/ After(q) \in Ids)
    BY Positions DEF ListingInv
  <1>1. /\ from \in WalkRow /\ Walked(list, table, b, f, After(q), from)
        /\ list \notin Bare => from.start = 0
        /\ list \in Personal => from.actor = r
        /\ list \in Personal \cup {"catalog"} => from.since = revision
    BY Continues
  <1>2. Page(r, q, b, f, rows) = NextWalk(from, b, f, rows, revision)
    <2>1. Page(r, q, b, f, rows) =
            [from EXCEPT !.phase = IF Len(rows) > PageLimit THEN "open" ELSE "done", !.boundary = b, !.filter = f,
               !.after = IF Len(rows) > PageLimit THEN rows[PageLimit] ELSE 0, !.revision = revision,
               !.seen = @ \o Shown(rows)]
      BY DEF Page
    <2> QED
      BY ONLY <1>1, <2>1 DEF WalkRow, NextWalk
  <1>3. WalkOK(list, table, NextWalk(from, b, f, rows, revision))
    BY <1>0, <1>1, NextPage
  <1>4. Asker(list, r, NextWalk(from, b, f, rows, revision))
    BY <1>1 DEF Asker, NextWalk
  <1> QED
    BY <1>2, <1>3, <1>4

LEMMA WalkWritten ==
  ASSUME ListingInv, NEW r \in Readers, NEW w, WalkOK(list, table, w), Asker(list, r, w),
         walk' = [walk EXCEPT ![r] = w],
         UNCHANGED <<list, table, revision, reading>>
  PROVE  ListingInv'
  <1>1. w \in WalkRow
    BY DEF WalkOK
  <1>2. walk' \in [Readers -> WalkRow] /\ \A x \in Readers : walk'[x] = walk[x] \/ (x = r /\ walk'[x] = w)
    BY <1>1 DEF ListingInv
  <1> QED
    BY <1>2 DEF ListingInv

LEMMA ShowsKeeps ==
  ASSUME ListingInv, NEW r \in Readers, NEW q \in Readers \cup Ids \cup {Nothing}, NEW b \in Holders \cup {Nothing},
         NEW f \in Filters, NEW fields, NEW rows, Shows(r, q, b, f, fields, rows),
         list \notin Bare => "boundary" \in fields \/ (list \in Unbounded /\ b = Nothing),
         list \notin Bare => "filter" \in fields \/ (list \in Unfiltered /\ f = Nothing),
         list \in Personal => "actor" \in fields /\ "revision" \in fields,
         list = "catalog" => "revision" \in fields, list \notin Bare => fields # {},
         list \in Unfiltered => f = Nothing, list \in Unbounded => b = Nothing,
         \/ list \notin Newest /\ rows = Sorted(Behind(After(q), MatchingIn(table, b, f)))
         \/ list \in Newest /\ rows = Reverse(Sorted(Before(After(q), MatchingIn(table, b, f))))
  PROVE  ListingInv'
  <1>1. Presents(r, q, b, f, fields)
    BY DEF Shows
  <1>2. MatchingIn(table, b, f) \in SUBSET Ids
    BY DEF MatchingIn, PresentIn
  <1>3. After(q) = 0 \/ After(q) \in Ids
    BY <1>1, Positions
  <1>4. Enumerates(list, rows, Rest(list, table, b, f, After(q)))
    BY <1>2, <1>3, RowsBehind DEF Rest
  <1>5. WalkOK(list, table, Page(r, q, b, f, rows)) /\ Asker(list, r, Page(r, q, b, f, rows))
    BY <1>1, <1>4, PageKeeps
  <1> QED
    BY <1>5, WalkWritten DEF Shows

\* Each list in turn.
LEMMA ListsKeep ==
  ASSUME ListingInv, NEW r \in Readers, NEW q \in Readers \cup Ids \cup {Nothing}
  PROVE  /\ \A b \in Holders :
              \/ ListSessions(r, q, b) \/ listPlatformSessions(r, q, b) \/ APIKeyPage(r, q, b)
              \/ CoreDLQEntryPage(r, q, b) \/ GetCoreDLQEntry(r, q, b) \/ PermissionCatalogPage(r, q, b)
              => ListingInv'
         /\ \A b \in Holders, f \in Filters :
              ListMemberships(r, q, b, f) \/ WorkloadPage(r, q, b, f) \/ AuditQuery(r, q, b, f) => ListingInv'
         /\ \A f \in Filters : PlatformMembershipPage(r, q, f) => ListingInv'
         /\ PlatformRolePage(r, q) => ListingInv'
  <1>1. Nothing \in Filters /\ Nothing \in Holders \cup {Nothing} /\ \A b \in Holders : b \in Holders \cup {Nothing}
    BY DEF Filters
  <1>2. ASSUME NEW b \in Holders, NEW fields,
               list \in Bare \/ (list \in Unfiltered /\ {"boundary", "revision"} \subseteq fields),
               list \in Personal => "actor" \in fields,
               list \notin Newest, list \notin Unbounded,
               Shows(r, q, b, Nothing, fields, Sorted(Behind(After(q), Within(b))))
        PROVE  ListingInv'
    <2>1. Within(b) = MatchingIn(table, b, Nothing)
      BY Questions
    <2>2. list \in Bare => list \notin Personal /\ list # "catalog"
      BY DEF Bare, TenantLists, Personal
    <2>3. /\ list \notin Bare => "boundary" \in fields /\ "revision" \in fields /\ list \in Unfiltered /\ fields # {}
          /\ list \in Personal => "actor" \in fields /\ "revision" \in fields
          /\ list = "catalog" => "revision" \in fields
      BY <1>2, <2>2
    <2> QED
      BY <1>1, <1>2, <2>1, <2>3, ShowsKeeps
  <1>3. ASSUME NEW b \in Holders,
               ListSessions(r, q, b) \/ listPlatformSessions(r, q, b) \/ APIKeyPage(r, q, b)
        PROVE  ListingInv'
    BY <1>2, <1>3 DEF ListSessions, listPlatformSessions, APIKeyPage, ListOwnedHumanSessions, ListAPIKeys,
       sessionCursor, tenantAdminPage, Newest, Unbounded, Bare, TenantLists, Personal
  <1>4. ASSUME NEW b \in Holders,
               CoreDLQEntryPage(r, q, b) \/ GetCoreDLQEntry(r, q, b) \/ PermissionCatalogPage(r, q, b)
        PROVE  ListingInv'
    BY <1>2, <1>4 DEF CoreDLQEntryPage, GetCoreDLQEntry, PermissionCatalogPage, ListCoreDLQEntries, ListCoreDLQAttempts,
       coreDLQPage, permissionCatalogCursor, Newest, Unbounded, Unfiltered, Personal, PlatformLists
  <1>5. ASSUME NEW b \in Holders, NEW f \in Filters, ListMemberships(r, q, b, f) \/ WorkloadPage(r, q, b, f)
        PROVE  ListingInv'
    <2>1. /\ list \notin Newest \cup Unbounded \cup Unfiltered /\ list \in Bare /\ list \notin Personal /\ list # "catalog"
          /\ Shows(r, q, b, f, {}, Sorted(Behind(After(q), Having(f, Within(b)))))
      BY <1>5 DEF ListMemberships, WorkloadPage, ListTenantAuthorizationMemberships, ListTenantWorkloads,
         tenantAdminPage, Newest, Unbounded, Unfiltered, Bare, TenantLists, Personal
    <2>2. Having(f, Within(b)) = MatchingIn(table, b, f)
      BY Questions
    <2> QED
      BY <1>1, <2>1, <2>2, ShowsKeeps
  <1>6. ASSUME NEW b \in Holders, NEW f \in Filters, AuditQuery(r, q, b, f) PROVE ListingInv'
    <2>1. /\ list \in Newest /\ list \notin Unbounded \cup Unfiltered /\ list \notin Personal /\ list # "catalog"
          /\ Shows(r, q, b, f, {"boundary", "filter"}, Reverse(Sorted(Before(After(q), Having(f, Within(b))))))
      BY <1>6 DEF AuditQuery, ListTenantAuditEvents, auditQueryCursor, Newest, Unbounded, Unfiltered,
         Personal, PlatformLists
    <2>2. Having(f, Within(b)) = MatchingIn(table, b, f)
      BY Questions
    <2> QED
      BY <1>1, <2>1, <2>2, ShowsKeeps
  <1>7. ASSUME NEW f \in Filters, PlatformMembershipPage(r, q, f) PROVE ListingInv'
    <2>1. /\ list \notin Newest \cup Unfiltered /\ list \in Unbounded /\ list # "catalog"
          /\ Shows(r, q, Nothing, f, {"actor", "filter", "revision"}, Sorted(Behind(After(q), Having(f, Present))))
      BY <1>7 DEF PlatformMembershipPage, ListPlatformMemberships, platformAdminPage, Newest, Unbounded, Unfiltered
    <2>2. Having(f, Present) = MatchingIn(table, Nothing, f)
      BY Questions
    <2> QED
      BY <1>1, <2>1, <2>2, ShowsKeeps
  <1>8. ASSUME PlatformRolePage(r, q) PROVE ListingInv'
    <2>1. /\ list \notin Newest /\ list \in Unbounded /\ list \in Unfiltered /\ list # "catalog"
          /\ Shows(r, q, Nothing, Nothing, {"actor", "filter", "revision"}, Sorted(Behind(After(q), Present)))
      BY <1>8 DEF PlatformRolePage, ListPlatformRoles, platformAdminPage, Newest, Unbounded, Unfiltered
    <2>2. Present = MatchingIn(table, Nothing, Nothing)
      BY Questions
    <2> QED
      BY <1>1, <2>1, <2>2, ShowsKeeps
  <1> QED
    BY <1>3, <1>4, <1>5, <1>6, <1>7, <1>8

LEMMA RolesKeep ==
  ASSUME ListingInv, NEW r \in Readers
  PROVE  /\ \A q \in Readers \cup Ids \cup {Nothing}, b \in Holders : ListRoles(r, q, b) => ListingInv'
         /\ GetRoles(r) => ListingInv'
  <1>1. ASSUME NEW q \in Readers \cup Ids \cup {Nothing}, NEW b \in Holders, ListRoles(r, q, b) PROVE ListingInv'
    <2> PICK rows : rows = Sorted(Behind(After(q), Within(b)))
      OBVIOUS
    <2> PICK w : w = Page(r, q, b, Nothing, rows)
      OBVIOUS
    <2>1. /\ list = "roles" /\ Presents(r, q, b, Nothing, {}) /\ UNCHANGED <<list, table, revision, walk>>
          /\ reading' = [reading EXCEPT ![r] = [roles |-> ToSet(Shown(rows)), page |-> w]]
      BY <1>1 DEF ListRoles, tenantAdminPage, ListTenantAuthorizationRoles
    <2>2. /\ list \notin Newest \cup Unbounded /\ Nothing \in Filters
          /\ list \in Bare /\ list \notin Personal /\ list # "catalog"
      BY <2>1 DEF Newest, Unbounded, Filters, Bare, TenantLists, Personal
    <2>3. Within(b) = MatchingIn(table, b, Nothing) /\ Within(b) \in SUBSET Ids
      BY Questions DEF MatchingIn, PresentIn
    <2>4. After(q) = 0 \/ After(q) \in Ids
      BY <2>1, Positions
    <2>5. Enumerates(list, rows, Rest(list, table, b, Nothing, After(q)))
      BY <2>2, <2>3, <2>4, RowsBehind DEF Rest
    <2>6. WalkOK(list, table, w)
      BY <2>1, <2>2, <2>5, PageKeeps
    <2> PICK page : page = [roles |-> ToSet(Shown(rows)), page |-> w]
      OBVIOUS
    <2>7. page.page = w /\ page \in RolePage
      <3>1. Behind(After(q), Within(b)) \in SUBSET Ids /\ w \in WalkRow
        BY <2>3, <2>6 DEF Behind, WalkOK
      <3>2. rows \in Seq(Ids)
        BY <2>5, <2>3 DEF Enumerates, Rest
      <3>3. Shown(rows) \in Seq(Ids)
        BY <3>2, ShownRows
      <3> QED
        BY <3>1, <3>3 DEF RolePage, ToSet
    <2>8. /\ reading' \in [Readers -> RolePage \cup {Nothing}]
          /\ \A x \in Readers : reading'[x] = reading[x] \/ reading'[x] = page
      BY <2>1, <2>7 DEF ListingInv
    <2> QED
      BY <2>1, <2>6, <2>7, <2>8 DEF ListingInv
  <1>2. ASSUME GetRoles(r) PROVE ListingInv'
    <2> PICK w : w = reading[r].page
      OBVIOUS
    <2>1. /\ WalkOK(list, table, w) /\ w \in WalkRow /\ (walk' = walk \/ walk' = [walk EXCEPT ![r] = w])
          /\ reading' = [reading EXCEPT ![r] = Nothing] /\ UNCHANGED <<list, table, revision>>
      BY <1>2 DEF GetRoles, ListingInv, WalkOK
    <2>2. walk' \in [Readers -> WalkRow] /\ \A x \in Readers : walk'[x] = walk[x] \/ walk'[x] = w
      BY <2>1 DEF ListingInv
    <2>a. \A x : Asker(list, x, w)
      BY <1>2 DEF GetRoles, ListingInv, Asker, Personal, PlatformLists
    <2>3. reading' \in [Readers -> RolePage \cup {Nothing}] /\ \A x \in Readers : reading'[x] = reading[x] \/ reading'[x] = Nothing
      BY <2>1 DEF ListingInv
    <2> QED
      BY <2>1, <2>2, <2>3, <2>a DEF ListingInv
  <1> QED
    BY <1>1, <1>2

LEMMA AuditKeeps ==
  ASSUME ListingInv, NEW r \in Readers, NEW q \in Readers \cup Ids \cup {Nothing}, NEW b \in Holders \cup {Nothing},
         NEW f \in Filters, ListAuditEvents(r, q, b, f)
  PROVE  ListingInv'
  <1> PICK rows : rows = Reverse(Sorted(ListPlatformAuditEvents(b, f, After(q))))
    OBVIOUS
  <1> PICK i \in Ids \ Present, row \in Row : table' = [table EXCEPT ![i] = row]
    BY DEF ListAuditEvents
  <1> PICK w : w = Page(r, q, b, f, rows)
    OBVIOUS
  <1>0. walk' = [walk EXCEPT ![r] = w]
    BY DEF ListAuditEvents
  <1>1. /\ list = "platform_audit" /\ UNCHANGED <<list, revision, reading>>
        /\ Presents(r, q, b, f, {"actor", "boundary", "filter", "revision"})
    BY DEF ListAuditEvents, platformAuditCursor
  <1>2. list \in Newest /\ list \notin Unbounded \cup Unfiltered /\ list # "catalog"
    BY <1>1 DEF Newest, Unbounded, Unfiltered
  <1>3. ListPlatformAuditEvents(b, f, After(q)) = Before(After(q), MatchingIn(table, b, f))
    BY Questions DEF ListPlatformAuditEvents
  <1>4. MatchingIn(table, b, f) \in SUBSET Ids /\ Present = PresentIn(table)
    BY DEF MatchingIn, PresentIn, Present
  <1>5. After(q) = 0 \/ After(q) \in Ids
    BY <1>1, Positions
  <1>6. Enumerates(list, rows, Rest(list, table, b, f, After(q)))
    BY <1>2, <1>3, <1>4, <1>5, RowsBehind DEF Rest
  <1>7. WalkOK(list, table, w) /\ Asker(list, r, w)
    BY <1>1, <1>2, <1>4, <1>6, PageKeeps
  <1>8. table \in Table /\ table[i] = Nothing
    BY <1>4 DEF ListingInv, PresentIn
  <1>9. table' \in Table /\ \A j \in Ids \ {i} : table'[j] = table[j]
    BY <1>8 DEF Table
  <1>10. \A x : WalkOK(list, table, x) => WalkOK(list, table', x)
    BY <1>8, <1>9, WalkIgnores
  <1>11. walk' \in [Readers -> WalkRow] /\ \A x \in Readers : walk'[x] = walk[x] \/ (x = r /\ walk'[x] = w)
    BY <1>0, <1>7 DEF ListingInv, WalkOK
  <1> QED
    BY <1>1, <1>7, <1>9, <1>10, <1>11 DEF ListingInv

LEMMA ChangeKeeps ==
  ASSUME ListingInv, NEW i \in Ids, NEW row \in Row \cup {Nothing}, Change(i, row), revision' \in Nat,
         table[i] # Nothing /\ row # Nothing => row.boundary = table[i].boundary
  PROVE  ListingInv'
  <1>1. /\ table' = [table EXCEPT ![i] = row] /\ list' = list
        /\ walk' = [r \in Readers |-> Survives(walk[r], i)]
        /\ reading' = [r \in Readers |->
             IF reading[r] = Nothing THEN Nothing ELSE [reading[r] EXCEPT !.page = Survives(@, i)]]
    BY DEF Change
  <1>2. table \in Table /\ table' \in Table /\ table'[i] = row /\ \A j \in Ids \ {i} : table'[j] = table[j]
    BY <1>1 DEF ListingInv, Table
  <1>3. ASSUME NEW w, WalkOK(list, table, w) 
        PROVE  /\ WalkOK(list, table', Survives(w, i)) /\ Survives(w, i) \in WalkRow
               /\ \A r \in Readers : Asker(list, r, w) => Asker(list, r, Survives(w, i))
    <2> PICK v : v = Survives(w, i)
      OBVIOUS
    <2>1. v = [w EXCEPT !.steady = @ \ {i}, !.kept = IF table'[i] = Nothing THEN @ \ {i} ELSE @]
      BY DEF Survives
    <2>2. WalkOK(list, table', v)
      BY <1>2, <1>3, <2>1, WalkSurvives
    <2>3. w \in WalkRow
      BY <1>3 DEF WalkOK
    <2>4. v.phase = w.phase /\ v.actor = w.actor /\ v.since = w.since /\ v.revision = w.revision
      BY <2>1, <2>3 DEF WalkRow
    <2> QED
      BY <2>2, <2>4 DEF WalkOK, Asker
  <1>4. walk' \in [Readers -> WalkRow] /\ \A r \in Readers : WalkOK(list, table', walk'[r]) /\ Asker(list, r, walk'[r])
    BY <1>1, <1>3 DEF ListingInv
  <1>5. ASSUME NEW r \in Readers, reading'[r] # Nothing
        PROVE  list = "roles" /\ WalkOK(list, table', reading'[r].page) /\ reading'[r] \in RolePage
    <2>1. reading[r] # Nothing /\ reading'[r] = [reading[r] EXCEPT !.page = Survives(@, i)]
      BY <1>1, <1>5
    <2>2. reading[r] \in RolePage /\ WalkOK(list, table, reading[r].page) /\ list = "roles"
      BY <2>1 DEF ListingInv
    <2>3. reading'[r].page = Survives(reading[r].page, i) /\ reading'[r] \in RolePage
      BY <1>3, <2>1, <2>2 DEF RolePage
    <2> QED
      BY <1>3, <2>2, <2>3
  <1>6. reading' \in [Readers -> RolePage \cup {Nothing}]
    BY <1>1, <1>5
  <1> QED
    BY <1>1, <1>2, <1>4, <1>5, <1>6 DEF ListingInv

LEMMA ListingSteps == ListingInv /\ [ListingNext]_listingVars => ListingInv'
  <1> SUFFICES ASSUME ListingInv, [ListingNext]_listingVars PROVE ListingInv'
    OBVIOUS
  <1>0. table \in [Ids -> Row \cup {Nothing}] /\ revision \in Nat
    BY DEF ListingInv, Table
  <1>1. ASSUME NEW i \in Ids, Insert(i) PROVE ListingInv'
    <2>1. table[i] = Nothing
      BY <1>1 DEF Insert, Present
    <2>2. PICK row \in Row : Change(i, row)
      BY <1>1 DEF Insert
    <2> QED
      BY <1>0, <1>1, <2>1, <2>2, ChangeKeeps DEF Insert
  <1>2. ASSUME NEW i \in Ids, Update(i) PROVE ListingInv'
    <2> PICK row : row = [table[i] EXCEPT !.status = "ended"]
      OBVIOUS
    <2>1. Change(i, row) /\ table[i] \in Row /\ revision' = revision
      BY <1>0, <1>2 DEF Update, Present
    <2>2. row \in Row /\ row.boundary = table[i].boundary
      BY <2>1 DEF Row
    <2> QED
      BY <1>0, <2>1, <2>2, ChangeKeeps
  <1>3. ASSUME NEW i \in Ids, Delete(i) PROVE ListingInv'
    <2>1. Change(i, Nothing) /\ revision' = revision
      BY <1>3 DEF Delete
    <2> QED
      BY <1>0, <2>1, ChangeKeeps
  <1>4. ASSUME Deploy PROVE ListingInv'
    <2>1. revision' \in Nat
      BY <1>0, <1>4 DEF Deploy
    <2>2. CASE list = "catalog"
      <3> PICK i \in Ids : \E row \in IF i \in Present THEN {Nothing} ELSE Row : Change(i, row)
        BY <1>4, <2>2 DEF Deploy
      <3> PICK row \in IF i \in Present THEN {Nothing} ELSE Row : Change(i, row)
        OBVIOUS
      <3>1. row \in Row \cup {Nothing} /\ (table[i] # Nothing => row = Nothing)
        BY DEF Present
      <3> QED
        BY <2>1, <2>2, <3>1, ChangeKeeps
    <2>3. CASE list # "catalog"
      BY <1>4, <2>1, <2>3 DEF Deploy, ListingInv
    <2> QED
      BY <2>2, <2>3
  <1>5. CASE UNCHANGED listingVars
    BY <1>5 DEF ListingInv, listingVars
  <1> QED
    BY <1>1, <1>2, <1>3, <1>4, <1>5, ListsKeep, RolesKeep, AuditKeeps DEF ListingNext

\* However rows come, change and go between two pages, whoever's cursor is
\* presented and whatever it was issued for: no walk shows a row twice or goes
\* back, and one that ends has shown every row that answered its question since
\* it was first asked, from that place on.  Where cursors say what they are for,
\* that place is the first row, and the walk is one caller's under one policy
\* revision (ListSessions and its siblings, ListAuditEvents).
THEOREM WalksTheorem == ListingSpec => []WalksAreFaithful
  <1>1. ListingSpec => []ListingInv
    BY ListingInitially, ListingSteps, PTL DEF ListingSpec
  <1> QED
    BY <1>1, ListingImplies, PTL

=============================================================================
