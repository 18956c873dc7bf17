------------------------- MODULE SessionContinuity -------------------------
(***************************************************************************)
(* The Console sessions of one Human Principal: password login, refresh    *)
(* rotation and reuse detection, logout, tenant switch, password reset and *)
(* the online authorization that reads what they leave.                    *)
(*                                                                         *)
(* Every request runs in two phases.  A lookup reads the committed rows    *)
(* without a lock, the use case validates them and fixes what it will      *)
(* write (biz/session.go, biz/authentication.go); a transaction then locks *)
(* the rows, compares them with the lookup and commits                     *)
(* (data/session_postgres.go, data/target_slice.go).  Between the phases   *)
(* any other request may commit.  The transactions of one Session exclude  *)
(* each other by an advisory lock, so each is one step here.  The password *)
(* reset is the exception: it takes no session lock and revokes the rows   *)
(* of four tables with four READ COMMITTED statements, each on a snapshot  *)
(* of its own, so each statement is a step that reads its snapshot and a   *)
(* step that has locked the rows it changes.                               *)
(***************************************************************************)
EXTENDS Integers, FiniteSets

CONSTANTS
    Sessions, Grants, Families, Tokens,  \* row identities (UUIDv7)
    Tenants,
    Closable,          \* bound: Tenants whose boundary may close and reopen
    Requests,          \* requests the service handles at the same time
    None,              \* a null column
    AccessLifetime, IdleLifetime, AbsoluteLifetime,  \* Console policy, in ticks
    MaxStall,          \* longest time from a request's clock read to its commit
    MaxNow,            \* bound: last tick of the clock
    MaxCredential,     \* bound: last credential version
    MaxMembership      \* bound: last Membership identity of a Tenant

ASSUME LifetimeAssumption ==
    /\ AccessLifetime \in Nat \ {0} /\ IdleLifetime \in Nat /\ AbsoluteLifetime \in Nat
    /\ MaxStall \in Nat /\ MaxNow \in Nat /\ MaxCredential \in Nat /\ MaxMembership \in Nat
    \* 15 minutes and the 1 second server timeout against 7 days
    /\ AccessLifetime + MaxStall <= IdleLifetime
    /\ IdleLifetime <= AbsoluteLifetime

ASSUME ClosableAssumption == Closable \subseteq Tenants

ASSUME NoneAssumption ==
    None \notin Sessions \cup Grants \cup Families \cup Tokens \cup Tenants

VARIABLES
    session,     \* sessions: status, version, idle and absolute deadline
    grant,       \* session_grants: status, version, session, tenant, membership
    family,      \* refresh_token_families: status, version, grant
    token,       \* refresh_tokens: status, family, replaced_by
    access,      \* the Access Tokens handed to clients
    credential,  \* password_credentials: version, password, failures pending
    boundary,    \* per Tenant: current Membership and whether it may be used
    request,     \* the requests between lookup and commit
    reset,       \* the password reset in progress
    now          \* the clock

rows == <<session, grant, family, token>>
vars == <<session, grant, family, token, access, credential, boundary, request, reset, now>>

-----------------------------------------------------------------------------
RowStatus == {"absent", "active", "revoked"}

\* opened: the password the Session was opened with; ended: what revoked it.
SessionRow == [status: RowStatus, version: Nat, idle: Nat, absolute: Nat,
               opened: Nat, ended: {"no", "logout", "reset"}]

GrantRow == [status: RowStatus, version: Nat, session: Sessions \cup {None},
             tenant: Tenants \cup {None}, membership: Nat]

FamilyRow == [status: RowStatus, version: Nat, grant: Grants \cup {None}]

TokenRow == [status: RowStatus \cup {"consumed"}, family: Families \cup {None},
             replacedBy: Tokens \cup {None}]

\* family is not a claim: it records the Family of the Refresh Token that was
\* handed out together with the Access Token.
AccessToken == [session: Sessions, grant: Grants, tenant: Tenants, version: Nat,
                expires: Nat, family: Families]

LoginRequest == [op: {"login"}, tenant: Tenants, membership: Nat, credential: Nat,
                 password: Nat, at: Nat]
RefreshRequest == [op: {"refresh"}, token: Tokens, grantVersion: Nat,
                   familyVersion: Nat, at: Nat]
ReuseRequest == [op: {"reuse"}, token: Tokens]
LogoutRequest == [op: {"logout"}, token: Tokens, sessionVersion: Nat]
SwitchRequest == [op: {"switch"}, claims: AccessToken, tenant: Tenants, membership: Nat,
                  sessionVersion: Nat, target: Grants \cup {None}, targetVersion: Nat,
                  family: Families \cup {None}, familyVersion: Nat, at: Nat]
NoRequest == [op |-> "none"]

\* stage of the reset transaction: 0 none, 1 credential row locked, then for
\* tokens, families, grants and sessions in turn an even stage (the statement
\* has its snapshot and waits for row locks) and an odd one (its rows are
\* locked).  Each set holds the rows of its statement.
ResetState == [stage: 0..9, tokens: SUBSET Tokens, families: SUBSET Families,
               grants: SUBSET Grants, sessions: SUBSET Sessions]
NoReset == [stage |-> 0, tokens |-> {}, families |-> {}, grants |-> {}, sessions |-> {}]

Init ==
    /\ session = [s \in Sessions |-> [status |-> "absent", version |-> 0, idle |-> 0,
                                      absolute |-> 0, opened |-> 0, ended |-> "no"]]
    /\ grant = [g \in Grants |-> [status |-> "absent", version |-> 0, session |-> None,
                                  tenant |-> None, membership |-> 0]]
    /\ family = [f \in Families |-> [status |-> "absent", version |-> 0, grant |-> None]]
    /\ token = [t \in Tokens |-> [status |-> "absent", family |-> None, replacedBy |-> None]]
    /\ access = {}
    /\ credential = [version |-> 1, password |-> 1, failures |-> FALSE]
    /\ boundary = [t \in Tenants |-> [membership |-> 1, open |-> TRUE]]
    /\ request = [r \in Requests |-> NoRequest]
    /\ reset = NoReset
    /\ now = 0

-----------------------------------------------------------------------------
(***************************************************************************)
(* Rows and deadlines.                                                     *)
(***************************************************************************)
GrantOf(t) == family[token[t].family].grant
SessionOf(t) == grant[GrantOf(t)].session
\* Logout that leaves the Families of a Session alone.
NoFamilies(s) == {}
FamiliesOf(s) == {f \in Families : family[f].status # "absent" /\ grant[family[f].grant].session = s}
GrantsOf(s) == {g \in Grants : grant[g].status # "absent" /\ grant[g].session = s}
TokensOf(s) == {t \in Tokens : token[t].status # "absent" /\ SessionOf(t) = s}

Earliest(x, y) == IF x < y THEN x ELSE y

\* Mutant: a deadline with the sign lost.
SubtractIdle(at, absolute) == Earliest(at - IdleLifetime, absolute)
sessionIdleDeadline(at, absolute) == Earliest(at + IdleLifetime, absolute)
sessionAccessDeadline(at, absolute) ==
    Earliest(at + AccessLifetime, sessionIdleDeadline(at, absolute))

\* Principal, Membership, TenantAccess and lifecycle projection all permit the
\* use of a row bound to Membership m of Tenant t.
BoundaryOpen(t, m) == boundary[t].open /\ boundary[t].membership = m

\* Rows the reset transaction has locked: nobody else can lock them before it ends.
HeldTokens == IF reset.stage >= 3 THEN reset.tokens ELSE {}
HeldFamilies == IF reset.stage >= 5 THEN reset.families ELSE {}
HeldGrants == IF reset.stage >= 7 THEN reset.grants ELSE {}
HeldSessions == IF reset.stage >= 9 THEN reset.sessions ELSE {}

Unlocked(ts, fs, gs, ss) ==
    /\ ts \cap HeldTokens = {} /\ fs \cap HeldFamilies = {}
    /\ gs \cap HeldGrants = {} /\ ss \cap HeldSessions = {}

InTime(r) == now - request[r].at <= MaxStall

\* A new row takes an identity never used; which one is immaterial, so the
\* choice is fixed.
Unused(table, id) ==
    /\ table[id].status = "absent"
    /\ id = CHOOSE x \in DOMAIN table : table[x].status = "absent"

\* UPDATE ... SET status = 'revoked': tokens have no version, the other tables do.
RevokeTokens(ids) ==
    [t \in Tokens |-> IF t \in ids THEN [token[t] EXCEPT !.status = "revoked"] ELSE token[t]]
RevokeRows(table, ids) ==
    [x \in DOMAIN table |->
       IF x \in ids THEN [table[x] EXCEPT !.status = "revoked", !.version = @ + 1] ELSE table[x]]

\* Mutant: the version is not raised.
KeepGrantVersion(g) == grant
IncrementSessionGrantVersion(g) == [grant EXCEPT ![g].version = @ + 1]

NewTokenRow(f) == [status |-> "active", family |-> f, replacedBy |-> None]
NewFamilyRow(g) == [status |-> "active", version |-> 1, grant |-> g]

ConsumeRefreshToken(old, new) ==
    [token EXCEPT ![old].status = "consumed", ![old].replacedBy = new,
                  ![new] = NewTokenRow(token[old].family)]

\* WHERE version = expected_version, and the same without it.
IgnoreCredentialVersion(v) == TRUE
CredentialUnchanged(v) == credential.version = v

\* The rows a statement of the reset changes, on its snapshot and again once it
\* has locked them.
StillActive(table, ids) == {x \in ids : table[x].status = "active"}

Finish(r) == request' = [request EXCEPT ![r] = NoRequest]

-----------------------------------------------------------------------------
(***************************************************************************)
(* Password login.                                                         *)
(***************************************************************************)
LookupLogin(r, t) ==
    /\ request[r] = NoRequest
    /\ boundary[t].open
    /\ request' = [request EXCEPT ![r] =
                     [op |-> "login", tenant |-> t, membership |-> boundary[t].membership,
                      credential |-> credential.version, password |-> credential.password,
                      at |-> now]]
    /\ UNCHANGED <<rows, access, credential, boundary, reset, now>>

CommitLogin(r) ==
    LET q == request[r] IN
    /\ q.op = "login"
    /\ InTime(r)
    /\ reset.stage = 0                       \* the credential row is not locked
    /\ CredentialUnchanged(q.credential)
    /\ credential' = [credential EXCEPT
                        !.version = IF credential.failures THEN @ + 1 ELSE @,
                        !.failures = FALSE]
    /\ \E s \in Sessions, g \in Grants, f \in Families, t \in Tokens :
         /\ Unused(session, s) /\ Unused(grant, g) /\ Unused(family, f) /\ Unused(token, t)
         /\ session' = [session EXCEPT ![s] =
                          [status |-> "active", version |-> 1, idle |-> q.at + IdleLifetime,
                           absolute |-> q.at + AbsoluteLifetime, opened |-> q.password,
                           ended |-> "no"]]
         /\ grant' = [grant EXCEPT ![g] =
                        [status |-> "active", version |-> 1, session |-> s,
                         tenant |-> q.tenant, membership |-> q.membership]]
         /\ family' = [family EXCEPT ![f] = NewFamilyRow(g)]
         /\ token' = [token EXCEPT ![t] = NewTokenRow(f)]
         /\ access' = access \cup {[session |-> s, grant |-> g, tenant |-> q.tenant, version |-> 1,
                                    expires |-> q.at + AccessLifetime, family |-> f]}
    /\ Finish(r)
    /\ UNCHANGED <<boundary, reset, now>>

\* A wrong password: the failure is counted on the credential row.
RecordLoginFailure ==
    /\ reset.stage = 0
    /\ credential.version < MaxCredential
    /\ credential' = [credential EXCEPT !.version = @ + 1, !.failures = TRUE]
    /\ UNCHANGED <<rows, access, boundary, request, reset, now>>

-----------------------------------------------------------------------------
(***************************************************************************)
(* Refresh: any Refresh Token ever handed out may be presented, again and  *)
(* concurrently.                                                           *)
(***************************************************************************)
validateActiveRefreshState(t, at) ==
    LET f == token[t].family
        g == family[f].grant
        s == grant[g].session IN
    /\ token[t].status = "active" /\ family[f].status = "active"
    /\ grant[g].status = "active" /\ session[s].status = "active"
    /\ at < session[s].idle /\ at < session[s].absolute
    /\ BoundaryOpen(grant[g].tenant, grant[g].membership)

LookupRefresh(r, t) ==
    /\ request[r] = NoRequest
    /\ validateActiveRefreshState(t, now)
    /\ request' = [request EXCEPT ![r] =
                     [op |-> "refresh", token |-> t, grantVersion |-> grant[GrantOf(t)].version,
                      familyVersion |-> family[token[t].family].version, at |-> now]]
    /\ UNCHANGED <<rows, access, credential, boundary, reset, now>>

LookupConsumedRefresh(r, t) ==
    /\ request[r] = NoRequest
    /\ token[t].status = "consumed"
    /\ request' = [request EXCEPT ![r] = [op |-> "reuse", token |-> t]]
    /\ UNCHANGED <<rows, access, credential, boundary, reset, now>>

\* The transaction trusts the boundary seen at lookup.
TrustLookedUpBoundary(q) ==
    /\ grant[GrantOf(q.token)].version = q.grantVersion
    /\ token[q.token].status = "active" /\ session[SessionOf(q.token)].status = "active"
validateLockedActiveRefresh(q) ==
    /\ grant[GrantOf(q.token)].version = q.grantVersion
    /\ family[token[q.token].family].version = q.familyVersion
    /\ validateActiveRefreshState(q.token, q.at)

RotateRefreshSession(r) ==
    LET q == request[r]
        f == token[q.token].family
        g == family[f].grant
        s == grant[g].session IN
    /\ q.op = "refresh"
    /\ InTime(r)
    /\ Unlocked({q.token}, {f}, {g}, {s})
    /\ validateLockedActiveRefresh(q)
    /\ \E t \in Tokens :
         /\ Unused(token, t)
         /\ token' = ConsumeRefreshToken(q.token, t)
    /\ session' = [session EXCEPT ![s].version = @ + 1,
                     ![s].idle = sessionIdleDeadline(q.at, session[s].absolute)]
    /\ access' = access \cup {[session |-> s, grant |-> g, tenant |-> grant[g].tenant,
                               version |-> q.grantVersion, family |-> f,
                               expires |-> sessionAccessDeadline(q.at, session[s].absolute)]}
    /\ Finish(r)
    /\ UNCHANGED <<grant, family, credential, boundary, reset, now>>

\* WHERE status = 'active'.
FamilyStillActive(f) == family[f].status = "active" /\ grant[family[f].grant].status = "active"

\* Revokes the Family with its active Token and raises the version of the
\* Grant; the Grant and the other Grants of the Session stay active.
applyRefreshReuse(t) ==
    LET f == token[t].family
        g == family[f].grant
        live == {u \in Tokens : token[u].family = f /\ token[u].status = "active"}
        revoking == FamilyStillActive(f) IN
    /\ Unlocked({t} \cup live, {f}, {g}, {grant[g].session})
    /\ family' = IF revoking THEN RevokeRows(family, {f}) ELSE family
    /\ token' = IF revoking THEN RevokeTokens(live) ELSE token
    /\ grant' = IF revoking THEN IncrementSessionGrantVersion(g) ELSE grant
    /\ UNCHANGED session

\* The Token was already consumed at lookup, or by a concurrent request since.
RevokeRefreshReuse(r) ==
    /\ request[r].op \in {"refresh", "reuse"}
    /\ token[request[r].token].status = "consumed"
    /\ applyRefreshReuse(request[r].token)
    /\ Finish(r)
    /\ UNCHANGED <<access, credential, boundary, reset, now>>

-----------------------------------------------------------------------------
(***************************************************************************)
(* Logout, by any Refresh Token of the Session whatever its status.        *)
(***************************************************************************)
LookupLogout(r, t) ==
    /\ request[r] = NoRequest
    /\ token[t].status # "absent"
    /\ session[SessionOf(t)].status = "active"
    /\ request' = [request EXCEPT ![r] =
                     [op |-> "logout", token |-> t,
                      sessionVersion |-> session[SessionOf(t)].version]]
    /\ UNCHANGED <<rows, access, credential, boundary, reset, now>>

\* The audit event fixed at lookup names version + 1 of the Session, so a
\* refresh or switch that committed in between makes the logout fail.
LogoutSession(r) ==
    LET q == request[r]
        s == SessionOf(q.token)
        liveTokens == {t \in TokensOf(s) : token[t].status = "active"}
        liveFamilies == {f \in FamiliesOf(s) : family[f].status = "active"}
        liveGrants == {g \in GrantsOf(s) : grant[g].status = "active"} IN
    /\ q.op = "logout"
    /\ Unlocked({q.token} \cup liveTokens, {token[q.token].family} \cup liveFamilies,
                {GrantOf(q.token)} \cup liveGrants, {s})
    /\ session[s].status = "active"
    /\ session[s].version = q.sessionVersion
    /\ token' = RevokeTokens(liveTokens)
    /\ family' = RevokeRows(family, liveFamilies)
    /\ grant' = RevokeRows(grant, liveGrants)
    /\ session' = [session EXCEPT ![s].status = "revoked", ![s].version = @ + 1,
                                  ![s].ended = "logout"]
    /\ Finish(r)
    /\ UNCHANGED <<access, credential, boundary, reset, now>>

-----------------------------------------------------------------------------
(***************************************************************************)
(* Tenant switch, by an unexpired Access Token of the same Session.        *)
(***************************************************************************)
\* Grants looked up by the current Membership instead of the boundary.
GrantsOfMembership(s, t) ==
    {g \in Grants : /\ grant[g].status = "active" /\ grant[g].session = s
                    /\ grant[g].tenant = t /\ grant[g].membership = boundary[t].membership}
ActiveGrants(s, t) ==
    {g \in Grants : grant[g].status = "active" /\ grant[g].session = s /\ grant[g].tenant = t}
ActiveFamilies(g) == {f \in Families : family[f].status = "active" /\ family[f].grant = g}
ActiveTokens(f) == {t \in Tokens : token[t].status = "active" /\ token[t].family = f}

\* The row a LEFT JOIN finds, or None.
JoinedGrant(s, t) == IF ActiveGrants(s, t) = {} THEN None ELSE CHOOSE g \in ActiveGrants(s, t) : TRUE
JoinedFamily(g) ==
    IF g = None \/ ActiveFamilies(g) = {} THEN None ELSE CHOOSE f \in ActiveFamilies(g) : TRUE

validateTenantSwitchState(a, t, m, at) ==
    /\ session[a.session].status = "active"
    /\ grant[a.grant].status = "active" /\ grant[a.grant].version = a.version
    /\ at < session[a.session].idle /\ at < session[a.session].absolute
    /\ BoundaryOpen(t, m)

LookupTenantSwitch(r, a, t) ==
    LET g == JoinedGrant(a.session, t)
        f == JoinedFamily(g) IN
    /\ request[r] = NoRequest
    /\ now < a.expires
    /\ validateTenantSwitchState(a, t, boundary[t].membership, now)
    /\ request' = [request EXCEPT ![r] =
          [op |-> "switch", claims |-> a, tenant |-> t, membership |-> boundary[t].membership,
           sessionVersion |-> session[a.session].version,
           target |-> g, targetVersion |-> IF g = None THEN 0 ELSE grant[g].version,
           family |-> f, familyVersion |-> IF f = None THEN 0 ELSE family[f].version,
           at |-> now]]
    /\ UNCHANGED <<rows, access, credential, boundary, reset, now>>

sameTenantSwitchState(q) ==
    LET s == q.claims.session IN
    /\ session[s].version = q.sessionVersion
    /\ grant[q.claims.grant].version = q.claims.version
    /\ JoinedGrant(s, q.tenant) = q.target
    /\ q.target # None =>
         /\ grant[q.target].version = q.targetVersion
         /\ JoinedFamily(q.target) = q.family
         /\ q.family # None => family[q.family].version = q.familyVersion

\* What the three forms of the switch have in common.
SwitchTenant(r) ==
    LET q == request[r]
        s == q.claims.session IN
    /\ q.op = "switch"
    /\ InTime(r)
    /\ Unlocked({}, {q.family} \ {None}, {q.claims.grant, q.target} \ {None}, {s})
    /\ sameTenantSwitchState(q)
    /\ validateTenantSwitchState(q.claims, q.tenant, q.membership, q.at)
    /\ session' = [session EXCEPT ![s].version = @ + 1,
                     ![s].idle = sessionIdleDeadline(q.at, session[s].absolute)]
    /\ Finish(r)
    /\ UNCHANGED <<credential, boundary, reset, now>>

SwitchAccess(q, g, v, f) ==
    [session |-> q.claims.session, grant |-> g, tenant |-> q.tenant, version |-> v, family |-> f,
     expires |-> sessionAccessDeadline(q.at, session[q.claims.session].absolute)]

\* No Grant for the target boundary yet.
SwitchToNewGrant(r) ==
    LET q == request[r] IN
    /\ SwitchTenant(r)
    /\ q.target = None
    /\ \E g \in Grants, f \in Families, t \in Tokens :
         /\ Unused(grant, g) /\ Unused(family, f) /\ Unused(token, t)
         /\ grant' = [grant EXCEPT ![g] =
                        [status |-> "active", version |-> 1, session |-> q.claims.session,
                         tenant |-> q.tenant, membership |-> q.membership]]
         /\ family' = [family EXCEPT ![f] = NewFamilyRow(g)]
         /\ token' = [token EXCEPT ![t] = NewTokenRow(f)]
         /\ access' = access \cup {SwitchAccess(q, g, 1, f)}

\* The Grant lost its Family to reuse detection: it gets a new one.
SwitchToNewFamily(r) ==
    LET q == request[r] IN
    /\ SwitchTenant(r)
    /\ q.target # None /\ q.family = None
    /\ \E f \in Families, t \in Tokens :
         /\ Unused(family, f) /\ Unused(token, t)
         /\ family' = [family EXCEPT ![f] = NewFamilyRow(q.target)]
         /\ token' = [token EXCEPT ![t] = NewTokenRow(f)]
         /\ access' = access \cup {SwitchAccess(q, q.target, q.targetVersion, f)}
    /\ UNCHANGED grant

\* Grant and Family exist: the active Token is consumed and the Grant version
\* raised, unless the Grant belongs to an earlier Membership.
SwitchToLiveFamily(r) ==
    LET q == request[r] IN
    /\ SwitchTenant(r)
    /\ q.target # None /\ q.family # None
    /\ grant[q.target].membership = q.membership
    /\ \E old \in ActiveTokens(q.family), t \in Tokens :
         /\ Unlocked({old}, {}, {}, {})
         /\ Unused(token, t)
         /\ token' = ConsumeRefreshToken(old, t)
    /\ grant' = IncrementSessionGrantVersion(q.target)
    /\ access' = access \cup {SwitchAccess(q, q.target, q.targetVersion + 1, q.family)}
    /\ UNCHANGED family

\* A request that ends without an effect: its transaction refuses what it
\* finds, it exceeds the server timeout, or the process stops before commit.
AbandonRequest(r) ==
    /\ request[r] # NoRequest
    /\ Finish(r)
    /\ UNCHANGED <<rows, access, credential, boundary, reset, now>>

-----------------------------------------------------------------------------
(***************************************************************************)
(* Password reset: CompletePasswordAction and revokePrincipalSessions.     *)
(***************************************************************************)
BeginReset ==
    /\ reset.stage = 0
    /\ credential.version < MaxCredential
    /\ reset' = [NoReset EXCEPT !.stage = 1]
    /\ UNCHANGED <<rows, access, credential, boundary, request, now>>

\* The snapshot of the next statement.
ScanRows ==
    /\ \/ /\ reset.stage = 1
          /\ reset' = [reset EXCEPT !.stage = 2, !.tokens = StillActive(token, Tokens)]
       \/ /\ reset.stage = 3
          /\ reset' = [reset EXCEPT !.stage = 4, !.families = StillActive(family, Families)]
       \/ /\ reset.stage = 5
          /\ reset' = [reset EXCEPT !.stage = 6, !.grants = StillActive(grant, Grants)]
       \/ /\ reset.stage = 7
          /\ reset' = [reset EXCEPT !.stage = 8, !.sessions = StillActive(session, Sessions)]
    /\ UNCHANGED <<rows, access, credential, boundary, request, now>>

\* The statement has locked its rows; one that changed meanwhile is checked
\* again and left alone if it is no longer active.
HoldRows ==
    /\ \/ /\ reset.stage = 2
          /\ reset' = [reset EXCEPT !.stage = 3, !.tokens = StillActive(token, @)]
       \/ /\ reset.stage = 4
          /\ reset' = [reset EXCEPT !.stage = 5, !.families = StillActive(family, @)]
       \/ /\ reset.stage = 6
          /\ reset' = [reset EXCEPT !.stage = 7, !.grants = StillActive(grant, @)]
       \/ /\ reset.stage = 8
          /\ reset' = [reset EXCEPT !.stage = 9, !.sessions = StillActive(session, @)]
    /\ UNCHANGED <<rows, access, credential, boundary, request, now>>

CommitReset ==
    /\ reset.stage = 9
    /\ token' = RevokeTokens(reset.tokens)
    /\ family' = RevokeRows(family, reset.families)
    /\ grant' = RevokeRows(grant, reset.grants)
    /\ session' = [s \in Sessions |-> IF s \in reset.sessions
                                      THEN [session[s] EXCEPT !.status = "revoked", !.version = @ + 1,
                                                              !.ended = "reset"]
                                      ELSE session[s]]
    /\ credential' = [version |-> credential.version + 1, password |-> credential.password + 1,
                      failures |-> FALSE]
    /\ reset' = NoReset
    /\ UNCHANGED <<access, boundary, request, now>>

\* Deadlock victim, timeout or process stop: PostgreSQL rolls back.
RollbackReset ==
    /\ reset.stage # 0
    /\ reset' = NoReset
    /\ UNCHANGED <<rows, access, credential, boundary, request, now>>

-----------------------------------------------------------------------------
(***************************************************************************)
(* What the other components do to a boundary.                             *)
(***************************************************************************)
\* Suspension and resumption of Membership, TenantAccess or lifecycle.
ToggleBoundary(t) ==
    /\ t \in Closable
    /\ boundary' = [boundary EXCEPT ![t].open = ~ @]
    /\ UNCHANGED <<rows, access, credential, request, reset, now>>

\* The Membership is removed and a later Invitation creates another one.
ReplaceMembership(t) ==
    /\ boundary[t].membership < MaxMembership
    /\ boundary' = [boundary EXCEPT ![t] = [membership |-> @.membership + 1, open |-> TRUE]]
    /\ UNCHANGED <<rows, access, credential, request, reset, now>>

Tick ==
    /\ now < MaxNow
    /\ now' = now + 1
    /\ UNCHANGED <<rows, access, credential, boundary, request, reset>>

-----------------------------------------------------------------------------
RequestStep(r) ==
    \/ \E t \in Tenants : LookupLogin(r, t)
    \/ CommitLogin(r)
    \/ \E t \in Tokens : LookupRefresh(r, t) \/ LookupConsumedRefresh(r, t) \/ LookupLogout(r, t)
    \/ RotateRefreshSession(r)
    \/ RevokeRefreshReuse(r)
    \/ LogoutSession(r)
    \/ \E a \in access, t \in Tenants : LookupTenantSwitch(r, a, t)
    \/ SwitchToNewGrant(r)
    \/ SwitchToNewFamily(r)
    \/ SwitchToLiveFamily(r)
    \/ AbandonRequest(r)

ResetStep == BeginReset \/ ScanRows \/ HoldRows \/ CommitReset \/ RollbackReset

EnvironmentStep ==
    \/ RecordLoginFailure
    \/ \E t \in Tenants : ToggleBoundary(t) \/ ReplaceMembership(t)
    \/ Tick

Next == (\E r \in Requests : RequestStep(r)) \/ ResetStep \/ EnvironmentStep

Spec == Init /\ [][Next]_vars

-----------------------------------------------------------------------------
(***************************************************************************)
(* Online authorization: what CheckPermission requires of an Access Token, *)
(* apart from the Permission itself.  It reads neither Family, Refresh     *)
(* Token nor the deadlines of the Session.                                 *)
(***************************************************************************)
Authorized(a) ==
    /\ now < a.expires
    /\ BoundaryOpen(a.tenant, grant[a.grant].membership)
    /\ session[a.session].status = "active"
    /\ grant[a.grant].status = "active"
    /\ grant[a.grant].version = a.version

-----------------------------------------------------------------------------
(***************************************************************************)
(* Properties.                                                             *)
(***************************************************************************)
\* Types of all rows, requests and of the reset in progress.
TypeOK ==
    /\ session \in [Sessions -> SessionRow]
    /\ grant \in [Grants -> GrantRow]
    /\ family \in [Families -> FamilyRow]
    /\ token \in [Tokens -> TokenRow]
    /\ access \in SUBSET AccessToken
    /\ credential \in [version: Nat, password: Nat, failures: BOOLEAN]
    /\ boundary \in [Tenants -> [membership: Nat, open: BOOLEAN]]
    /\ request \in [Requests -> {NoRequest} \cup LoginRequest \cup RefreshRequest
                                \cup ReuseRequest \cup LogoutRequest \cup SwitchRequest]
    /\ reset \in ResetState
    /\ now \in Nat

\* A Session has at most one active Grant per Tenant, a Grant at most one active
\* Family and a Family at most one active Token, whatever refreshes, switches and
\* resets race: the partial unique indexes of the schema never have to fire.
OneActiveLineage ==
    /\ \A g, h \in Grants :
         /\ grant[g].status = "active" /\ grant[h].status = "active"
         /\ grant[g].session = grant[h].session /\ grant[g].tenant = grant[h].tenant
         => g = h
    /\ \A e, f \in Families :
         family[e].status = "active" /\ family[f].status = "active"
         /\ family[e].grant = family[f].grant => e = f
    /\ \A t, u \in Tokens :
         token[t].status = "active" /\ token[u].status = "active"
         /\ token[t].family = token[u].family => t = u

\* An Access Token is accepted only while the Refresh Token Family it came with is
\* active: reuse of a consumed Refresh Token cuts off every Access Token of the
\* Family, also one whose refresh was in flight, though CheckPermission reads only
\* the Grant version.
AcceptedAccessHasLiveFamily ==
    \A a \in access : Authorized(a) => family[a.family].status = "active"

\* An accepted Access Token is within the idle and the absolute deadline of its
\* Session, which CheckPermission does not read, although a slow refresh may move
\* the idle deadline back.
AcceptedAccessWithinDeadlines ==
    \A a \in access : Authorized(a) =>
        now < session[a.session].idle /\ now < session[a.session].absolute

\* A Session that is active was opened with the current password: completing a
\* reset revokes every earlier Session, and no login that verified the old password
\* commits after it.
ActiveSessionHasCurrentPassword ==
    \A s \in Sessions : session[s].status = "active" => session[s].opened = credential.password

\* A Session revoked by logout keeps no active Grant, Family or Refresh Token, even
\* when the logout raced a reset.
LogoutLeavesNoResidue ==
    \A s \in Sessions : session[s].ended = "logout" =>
        /\ \A g \in Grants : grant[g].session = s => grant[g].status = "revoked"
        /\ \A f \in Families : family[f].status = "active" => grant[family[f].grant].session # s
        /\ \A t \in Tokens : token[t].status = "active" => SessionOf(t) # s

\* Reuse detection at one boundary never takes away another one: a Grant ends only
\* together with its Session.
GrantEndsWithSession ==
    \A g \in Grants : grant[g].status = "revoked" => session[grant[g].session].status = "revoked"

\* Refresh Tokens form chains: a consumed Token has one successor, of the same
\* Family, which no other Token has, and a Token that was not consumed has none.
RotationIsLinear ==
    /\ \A t \in Tokens :
         IF token[t].status = "consumed"
         THEN /\ token[t].replacedBy # None
              /\ token[token[t].replacedBy].status # "absent"
              /\ token[token[t].replacedBy].family = token[t].family
         ELSE token[t].replacedBy = None
    /\ \A t, u \in Tokens :
         token[t].replacedBy = token[u].replacedBy /\ token[t].replacedBy # None => t = u

\* No step revives a revoked row, frees a consumed Token or moves a version back.
RowsOnlyAge ==
    [][/\ \A s \in Sessions : /\ session'[s].version >= session[s].version
                              /\ session[s].status = "revoked" => session'[s] = session[s]
       /\ \A g \in Grants : /\ grant'[g].version >= grant[g].version
                            /\ grant[g].status = "revoked" => grant'[g] = grant[g]
       /\ \A f \in Families : family[f].status = "revoked" => family'[f] = family[f]
       /\ \A t \in Tokens : token[t].status \in {"consumed", "revoked"} => token'[t] = token[t]]_vars

\* The Refresh Tokens a step hands out, except to a login.
Minted == {t \in Tokens : /\ token[t].status = "absent" /\ token'[t].status = "active"
                          /\ \A r \in Requests : request[r].op = "login" => request'[r] # NoRequest}

\* A refresh or switch hands out Tokens only if the boundary is open when it commits,
\* not merely when it was looked up; a login does not look again, and relies on
\* online authorization.
MintingRevalidatesBoundary ==
    [][\A t \in Minted : boundary[grant'[family'[token'[t].family].grant].tenant].open]_vars

\* What ADR-0011 says of SwitchTenant: it revalidates the Membership before it
\* issues a Token.  The Grant of the Token issued may belong to a removed one.
SwitchBindsRevalidatedMembership ==
    [][\A t \in Minted :
         LET g == grant'[family'[token'[t].family].grant]
         IN  g.membership = boundary[g.tenant].membership]_vars

\* A Session's lineage is one chain: at most one live Grant per Tenant, Family
\* per Grant and Token per Family, and each Refresh Token with at most one
\* successor, whatever refreshes, switches, logouts and resets race (Refresh,
\* SwitchTenant and the unique indexes of the schema).
LineageIsLinear == OneActiveLineage /\ RotationIsLinear

\* CheckPermission accepts an Access Token by its Grant version and its expiry
\* alone; still its Family is active and its Session within both deadlines.
AcceptedAccessIsLive == AcceptedAccessHasLiveFamily /\ AcceptedAccessWithinDeadlines

\* A Session and what hangs on it end together: no Grant ends before its Session,
\* and a logout leaves nothing behind (Logout, RevokeFamily).
GrantsEndWithTheirSession == GrantEndsWithSession /\ LogoutLeavesNoResidue

\* No transaction brings back what another one ended, and none hands out Tokens
\* for a boundary that closed since it was looked up.
RowsChangeLawfully == RowsOnlyAge /\ MintingRevalidatesBoundary
=============================================================================
