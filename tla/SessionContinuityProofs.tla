---------------------- MODULE SessionContinuityProofs ----------------------
(***************************************************************************)
(* Proofs about SessionContinuity, for any number of Sessions, Tenants and *)
(* concurrent requests.  The types are not inductive by themselves: a step *)
(* follows the references from a Refresh Token to its Session, so they are *)
(* proved together with the integrity of those references (Integrity).     *)
(***************************************************************************)
EXTENDS SessionContinuity, TLAPS

-----------------------------------------------------------------------------
(***************************************************************************)
(* References between rows, requests and Access Tokens.                    *)
(***************************************************************************)
TokenRefs ==
    \A t \in Tokens : token[t].status # "absent" =>
        token[t].family \in Families /\ family[token[t].family].status # "absent"

FamilyRefs ==
    \A f \in Families : family[f].status # "absent" =>
        family[f].grant \in Grants /\ grant[family[f].grant].status # "absent"

GrantRefs ==
    \A g \in Grants : grant[g].status # "absent" =>
        /\ grant[g].session \in Sessions /\ session[grant[g].session].status # "absent"
        /\ grant[g].tenant \in Tenants

AccessRefs ==
    \A a \in access :
        /\ family[a.family].status # "absent" /\ family[a.family].grant = a.grant
        /\ grant[a.grant].status # "absent" /\ grant[a.grant].session = a.session

RequestRefs ==
    \A r \in Requests :
        /\ request[r].op \in {"refresh", "reuse", "logout"} => token[request[r].token].status # "absent"
        /\ request[r].op = "switch" => request[r].claims \in access

ResetRefs ==
    /\ \A t \in reset.tokens : token[t].status # "absent"
    /\ \A f \in reset.families : family[f].status # "absent"
    /\ \A g \in reset.grants : grant[g].status # "absent"
    /\ \A s \in reset.sessions : session[s].status # "absent"

Integrity ==
    TypeOK /\ TokenRefs /\ FamilyRefs /\ GrantRefs /\ AccessRefs /\ RequestRefs /\ ResetRefs

-----------------------------------------------------------------------------
\* The initial state has no rows at all.
LEMMA InitIntegrity == Init => Integrity
  <1> SUFFICES ASSUME Init PROVE Integrity
    OBVIOUS
  <1>1. TypeOK
    BY LifetimeAssumption DEF Init, TypeOK, SessionRow, GrantRow, FamilyRow, TokenRow, RowStatus,
          NoRequest, NoReset, ResetState
  <1>2. TokenRefs /\ FamilyRefs /\ GrantRefs /\ AccessRefs /\ RequestRefs /\ ResetRefs
    BY DEF Init, TokenRefs, FamilyRefs, GrantRefs, AccessRefs, RequestRefs, ResetRefs, NoRequest, NoReset
  <1> QED
    BY <1>1, <1>2 DEF Integrity

\* Which record a request in flight is follows from its operation.
LEMMA RequestShape ==
  ASSUME TypeOK, NEW r \in Requests
  PROVE  /\ request[r].op = "login" => request[r] \in LoginRequest
         /\ request[r].op = "refresh" => request[r] \in RefreshRequest
         /\ request[r].op = "reuse" => request[r] \in ReuseRequest
         /\ request[r].op = "logout" => request[r] \in LogoutRequest
         /\ request[r].op = "switch" => request[r] \in SwitchRequest
  <1>1. request[r] \in {NoRequest} \cup LoginRequest \cup RefreshRequest
                       \cup ReuseRequest \cup LogoutRequest \cup SwitchRequest
    BY DEF TypeOK
  <1> QED
    BY <1>1 DEF NoRequest, LoginRequest, RefreshRequest, ReuseRequest, LogoutRequest, SwitchRequest

\* The rows of a Refresh Token that exists.
LEMMA Lineage ==
  ASSUME Integrity, NEW t \in Tokens, token[t].status # "absent"
  PROVE  /\ token[t].family \in Families /\ family[token[t].family].status # "absent"
         /\ GrantOf(t) \in Grants /\ grant[GrantOf(t)].status # "absent"
         /\ SessionOf(t) \in Sessions /\ session[SessionOf(t)].status # "absent"
         /\ grant[GrantOf(t)].tenant \in Tenants
  BY DEF Integrity, TokenRefs, FamilyRefs, GrantRefs, GrantOf, SessionOf

-----------------------------------------------------------------------------
(***************************************************************************)
(* Steps.  Rows are never deleted and never change what they refer to, so  *)
(* a step keeps the references if the rows it adds refer to existing ones. *)
(***************************************************************************)
Grows ==
    /\ \A t \in Tokens : token[t].status # "absent" =>
         token'[t].status # "absent" /\ token'[t].family = token[t].family
    /\ \A f \in Families : family[f].status # "absent" =>
         family'[f].status # "absent" /\ family'[f].grant = family[f].grant
    /\ \A g \in Grants : grant[g].status # "absent" =>
         grant'[g].status # "absent" /\ grant'[g].session = grant[g].session
         /\ grant'[g].tenant = grant[g].tenant
    /\ \A s \in Sessions : session[s].status # "absent" => session'[s].status # "absent"

NewRefs ==
    /\ \A t \in Tokens : token[t].status = "absent" /\ token'[t].status # "absent" =>
         token'[t].family \in Families /\ family'[token'[t].family].status # "absent"
    /\ \A f \in Families : family[f].status = "absent" /\ family'[f].status # "absent" =>
         family'[f].grant \in Grants /\ grant'[family'[f].grant].status # "absent"
    /\ \A g \in Grants : grant[g].status = "absent" /\ grant'[g].status # "absent" =>
         /\ grant'[g].session \in Sessions /\ session'[grant'[g].session].status # "absent"
         /\ grant'[g].tenant \in Tenants
    /\ \A a \in access' \ access :
         /\ family'[a.family].status # "absent" /\ family'[a.family].grant = a.grant
         /\ grant'[a.grant].status # "absent" /\ grant'[a.grant].session = a.session

\* What a step may do to the rows there are: nothing is activated again, versions
\* do not fall, a Grant ends with its Session, and a Family ends with its Session
\* or with a new version of its Grant.
Ages ==
    /\ \A t \in Tokens : token[t].status # "absent" =>
         (token'[t].status = "active" => token[t].status = "active")
    /\ \A f \in Families : family[f].status # "absent" =>
         /\ family'[f].status = "active" => family[f].status = "active"
         /\ family[f].status = "active" =>
              \/ family'[f].status = "active"
              \/ grant'[family[f].grant].version > grant[family[f].grant].version
              \/ session'[grant[family[f].grant].session].status = "revoked"
    /\ \A g \in Grants : grant[g].status # "absent" =>
         /\ grant'[g].version >= grant[g].version
         /\ grant'[g].status = "active" => grant[g].status = "active"
         /\ grant'[g].status = "revoked" =>
              grant[g].status = "revoked" \/ session'[grant[g].session].status = "revoked"
    /\ \A s \in Sessions : session[s].status # "absent" =>
         /\ session'[s].opened = session[s].opened
         /\ session'[s].status = "active" => session[s].status = "active"

\* What a step may add: a row that is the only active one of its kind, a Session of
\* the current password while no reset runs, and an Access Token of the current
\* Grant version and an active Family.
Freshness ==
    /\ \A t \in Tokens : token[t].status = "absent" /\ token'[t].status = "active" =>
         \A x \in Tokens \ {t} : token'[x].status = "active" => token'[x].family # token'[t].family
    /\ \A f \in Families : family[f].status = "absent" /\ family'[f].status = "active" =>
         \A x \in Families \ {f} : family'[x].status = "active" => family'[x].grant # family'[f].grant
    /\ \A g \in Grants : grant[g].status = "absent" /\ grant'[g].status = "active" =>
         \A x \in Grants \ {g} : grant'[x].status = "active" =>
            ~ (grant'[x].session = grant'[g].session /\ grant'[x].tenant = grant'[g].tenant)
    /\ \A g \in Grants : grant[g].status = "absent" => grant'[g].status # "revoked"
    /\ \A s \in Sessions : session[s].status = "absent" /\ session'[s].status = "active" =>
         reset.stage = 0 /\ session'[s].opened = credential.password
    /\ \A a \in access' \ access :
         a.version = grant'[a.grant].version /\ family'[a.family].status = "active"

Sound == Integrity' /\ Grows /\ Ages /\ Freshness

\* A step that adds rows or changes their status, and at most ends a request or
\* the reset, keeps the references.
LEMMA GrowthKeepsIntegrity ==
  ASSUME Integrity, TypeOK', Grows, NewRefs, access \subseteq access',
         \A r \in Requests : request'[r] \in {request[r], NoRequest},
         reset' \in {reset, NoReset}
  PROVE  Integrity'
  <1>1. TokenRefs' /\ FamilyRefs' /\ GrantRefs'
    <2>1. TokenRefs'
      BY DEF Integrity, TokenRefs, Grows, NewRefs
    <2>2. FamilyRefs'
      BY DEF Integrity, FamilyRefs, Grows, NewRefs
    <2>3. GrantRefs'
      BY DEF Integrity, GrantRefs, Grows, NewRefs
    <2> QED
      BY <2>1, <2>2, <2>3
  <1>2. AccessRefs'
    <2> SUFFICES ASSUME NEW a \in access'
                 PROVE  /\ family'[a.family].status # "absent" /\ family'[a.family].grant = a.grant
                        /\ grant'[a.grant].status # "absent" /\ grant'[a.grant].session = a.session
      BY DEF AccessRefs
    <2>1. a.family \in Families /\ a.grant \in Grants
      BY DEF TypeOK, AccessToken
    <2> QED
      BY <2>1 DEF Integrity, AccessRefs, Grows, NewRefs
  <1>3. RequestRefs'
    <2> SUFFICES ASSUME NEW r \in Requests
                 PROVE  /\ request'[r].op \in {"refresh", "reuse", "logout"} =>
                             token'[request'[r].token].status # "absent"
                        /\ request'[r].op = "switch" => request'[r].claims \in access'
      BY DEF RequestRefs
    <2>1. CASE request'[r] = NoRequest
      BY <2>1 DEF NoRequest
    <2>2. CASE request'[r] = request[r]
      <3>1. request[r].op \in {"refresh", "reuse", "logout"} => request[r].token \in Tokens
        BY RequestShape DEF Integrity, RefreshRequest, ReuseRequest, LogoutRequest
      <3> QED
        BY <2>2, <3>1 DEF Integrity, RequestRefs, Grows
    <2> QED
      BY <2>1, <2>2
  <1>4. ResetRefs'
    <2>1. CASE reset' = NoReset
      BY <2>1 DEF ResetRefs, NoReset
    <2>2. CASE reset' = reset
      BY <2>2 DEF Integrity, TypeOK, ResetState, ResetRefs, Grows
    <2> QED
      BY <2>1, <2>2
  <1> QED
    BY <1>1, <1>2, <1>3, <1>4 DEF Integrity

\* A step that changes no row and hands out nothing is sound if it keeps Integrity.
LEMMA IdleRows ==
  ASSUME Integrity, Integrity', UNCHANGED <<rows, access>>
  PROVE  Sound
  <1>1. Grows
    BY DEF Grows, rows
  <1>2. Freshness
    BY DEF Freshness, rows
  <1>3. \A g \in Grants : grant[g].version \in Nat
    BY DEF Integrity, TypeOK, GrantRow
  <1>4. Ages
    BY <1>3 DEF Ages, rows
  <1> QED
    BY <1>1, <1>2, <1>4 DEF Sound

\* A lookup, and a request that ends without an effect, change the request only.
LEMMA LookupKeepsIntegrity ==
  ASSUME Integrity, NEW r \in Requests, NEW q,
         UNCHANGED <<rows, access, credential, boundary, reset, now>>,
         request' = [request EXCEPT ![r] = q],
         q \in {NoRequest} \cup LoginRequest \cup RefreshRequest \cup ReuseRequest
               \cup LogoutRequest \cup SwitchRequest,
         q.op \in {"refresh", "reuse", "logout"} => token[q.token].status # "absent",
         q.op = "switch" => q.claims \in access
  PROVE  Integrity'
  <1>1. TypeOK'
    BY DEF Integrity, TypeOK, rows
  <1>2. RequestRefs'
    BY DEF Integrity, TypeOK, RequestRefs, rows
  <1> QED
    BY <1>1, <1>2 DEF Integrity, TokenRefs, FamilyRefs, GrantRefs, AccessRefs, ResetRefs, rows

\* The deadlines of a request are times.
LEMMA Deadlines ==
  ASSUME NEW at \in Nat, NEW absolute \in Nat
  PROVE  sessionIdleDeadline(at, absolute) \in Nat /\ sessionAccessDeadline(at, absolute) \in Nat
  BY LifetimeAssumption DEF sessionIdleDeadline, sessionAccessDeadline, Earliest

\* Revoking rows keeps their types and what they refer to.
LEMMA RevokedTokens ==
  ASSUME TypeOK, NEW ts \in SUBSET Tokens
  PROVE  /\ RevokeTokens(ts) \in [Tokens -> TokenRow]
         /\ \A t \in Tokens : /\ RevokeTokens(ts)[t].family = token[t].family
                              /\ RevokeTokens(ts)[t].replacedBy = token[t].replacedBy
                              /\ RevokeTokens(ts)[t].status = IF t \in ts THEN "revoked" ELSE token[t].status
  BY DEF TypeOK, TokenRow, RowStatus, RevokeTokens

\* The same for Refresh Families.
LEMMA RevokedFamilies ==
  ASSUME TypeOK, NEW fs \in SUBSET Families
  PROVE  /\ RevokeRows(family, fs) \in [Families -> FamilyRow]
         /\ \A f \in Families : /\ RevokeRows(family, fs)[f].grant = family[f].grant
                                /\ RevokeRows(family, fs)[f].status = IF f \in fs THEN "revoked" ELSE family[f].status
  <1>1. DOMAIN family = Families /\ \A f \in Families : family[f] \in FamilyRow
    BY DEF TypeOK
  <1>2. RevokeRows(family, fs)
          = [f \in Families |-> IF f \in fs
               THEN [family[f] EXCEPT !.status = "revoked", !.version = family[f].version + 1]
               ELSE family[f]]
    BY <1>1 DEF RevokeRows
  <1>3. ASSUME NEW f \in Families PROVE family[f].version + 1 \in Nat
    BY <1>1 DEF FamilyRow
  <1>4. ASSUME NEW f \in Families
        PROVE  [family[f] EXCEPT !.status = "revoked", !.version = family[f].version + 1] \in FamilyRow
    BY <1>1, <1>3 DEF FamilyRow, RowStatus
  <1>5. RevokeRows(family, fs) \in [Families -> FamilyRow]
    BY <1>1, <1>2, <1>4
  <1> DEFINE gone(f) == [family[f] EXCEPT !.status = "revoked", !.version = family[f].version + 1]
  <1>6. ASSUME NEW f \in Families
        PROVE  gone(f).status = "revoked" /\ gone(f).grant = family[f].grant
    BY <1>1 DEF FamilyRow
  <1>7. \A f \in Families : RevokeRows(family, fs)[f] = IF f \in fs THEN gone(f) ELSE family[f]
    BY <1>2
  <1> HIDE DEF gone
  <1> QED
    BY <1>5, <1>6, <1>7

\* The same for Boundary Grants.
LEMMA RevokedGrants ==
  ASSUME TypeOK, NEW gs \in SUBSET Grants
  PROVE  /\ RevokeRows(grant, gs) \in [Grants -> GrantRow]
         /\ \A g \in Grants : /\ RevokeRows(grant, gs)[g].session = grant[g].session
                              /\ RevokeRows(grant, gs)[g].tenant = grant[g].tenant
                              /\ RevokeRows(grant, gs)[g].version
                                   = IF g \in gs THEN grant[g].version + 1 ELSE grant[g].version
                              /\ RevokeRows(grant, gs)[g].status = IF g \in gs THEN "revoked" ELSE grant[g].status
  <1>1. DOMAIN grant = Grants /\ \A g \in Grants : grant[g] \in GrantRow
    BY DEF TypeOK
  <1>2. RevokeRows(grant, gs)
          = [g \in Grants |-> IF g \in gs
               THEN [grant[g] EXCEPT !.status = "revoked", !.version = grant[g].version + 1]
               ELSE grant[g]]
    BY <1>1 DEF RevokeRows
  <1>3. ASSUME NEW g \in Grants PROVE grant[g].version + 1 \in Nat
    BY <1>1 DEF GrantRow
  <1>4. ASSUME NEW g \in Grants
        PROVE  [grant[g] EXCEPT !.status = "revoked", !.version = grant[g].version + 1] \in GrantRow
    BY <1>1, <1>3 DEF GrantRow, RowStatus
  <1>5. RevokeRows(grant, gs) \in [Grants -> GrantRow]
    BY <1>1, <1>2, <1>4
  <1> DEFINE gone(g) == [grant[g] EXCEPT !.status = "revoked", !.version = grant[g].version + 1]
  <1>6. ASSUME NEW g \in Grants
        PROVE  gone(g).status = "revoked" /\ gone(g).session = grant[g].session /\ gone(g).tenant = grant[g].tenant
               /\ gone(g).version = grant[g].version + 1
    BY <1>1 DEF GrantRow
  <1>7. \A g \in Grants : RevokeRows(grant, gs)[g] = IF g \in gs THEN gone(g) ELSE grant[g]
    BY <1>2
  <1> HIDE DEF gone
  <1> QED
    BY <1>5, <1>6, <1>7

\* Rotation consumes a Token and adds its successor.
LEMMA Consuming ==
  ASSUME Integrity, NEW old \in Tokens, token[old].status = "active",
         NEW new \in Tokens, token[new].status = "absent",
         NEW after, after = ConsumeRefreshToken(old, new)
  PROVE  /\ after \in [Tokens -> TokenRow]
         /\ after[new].status = "active" /\ after[new].family = token[old].family
         /\ after[new].replacedBy = None
         /\ after[old].status = "consumed" /\ after[old].family = token[old].family
         /\ after[old].replacedBy = new
         /\ \A t \in Tokens \ {old, new} : after[t] = token[t]
  BY DEF Integrity, TypeOK, TokenRow, RowStatus, ConsumeRefreshToken, NewTokenRow

\* A refresh or switch moves the idle deadline of its Session.
LEMMA SessionTouched ==
  ASSUME TypeOK, NEW s \in Sessions, NEW idle \in Nat, NEW touched,
         touched = [session EXCEPT ![s].version = @ + 1, ![s].idle = idle]
  PROVE  /\ touched \in [Sessions -> SessionRow]
         /\ \A x \in Sessions : touched[x].status = session[x].status /\ touched[x].opened = session[x].opened
  <1>1. session \in [Sessions -> SessionRow] /\ session[s].version + 1 \in Nat
    BY DEF TypeOK, SessionRow
  <1>2. touched = [session EXCEPT ![s] = [session[s] EXCEPT !.version = session[s].version + 1, !.idle = idle]]
    BY <1>1
  <1>3. [session[s] EXCEPT !.version = session[s].version + 1, !.idle = idle] \in SessionRow
    BY <1>1 DEF SessionRow
  <1>4. /\ [session[s] EXCEPT !.version = session[s].version + 1, !.idle = idle].status = session[s].status
        /\ [session[s] EXCEPT !.version = session[s].version + 1, !.idle = idle].opened = session[s].opened
    BY <1>1 DEF SessionRow
  <1> QED
    BY <1>1, <1>2, <1>3, <1>4

\* Reuse detection and a switch raise the version of a Grant.
LEMMA VersionRaised ==
  ASSUME TypeOK, NEW g \in Grants
  PROVE  /\ IncrementSessionGrantVersion(g) \in [Grants -> GrantRow]
         /\ IncrementSessionGrantVersion(g)[g].version = grant[g].version + 1
         /\ \A x \in Grants : /\ IncrementSessionGrantVersion(g)[x].status = grant[x].status
                              /\ IncrementSessionGrantVersion(g)[x].session = grant[x].session
                              /\ IncrementSessionGrantVersion(g)[x].tenant = grant[x].tenant
                              /\ x # g => IncrementSessionGrantVersion(g)[x] = grant[x]
  <1> DEFINE raised == [grant[g] EXCEPT !.version = grant[g].version + 1]
  <1>1. grant \in [Grants -> GrantRow] /\ grant[g].version + 1 \in Nat
    BY DEF TypeOK, GrantRow
  <1>2. IncrementSessionGrantVersion(g) = [grant EXCEPT ![g] = raised]
    BY <1>1 DEF IncrementSessionGrantVersion
  <1>3. /\ raised \in GrantRow /\ raised.version = grant[g].version + 1
        /\ raised.status = grant[g].status /\ raised.session = grant[g].session
        /\ raised.tenant = grant[g].tenant
    BY <1>1 DEF GrantRow
  <1> HIDE DEF raised
  <1> QED
    BY <1>1, <1>2, <1>3

-----------------------------------------------------------------------------
(***************************************************************************)
(* One lemma per action that changes rows.                                 *)
(***************************************************************************)
\* A login in flight that would still find the credential version it looked up has
\* verified the current password.
LoginsCurrent ==
    \A r \in Requests : request[r].op = "login" =>
        /\ request[r].credential <= credential.version
        /\ request[r].credential = credential.version => request[r].password = credential.password

\* The rows a login adds refer to each other and to nothing older.
LEMMA CommitLoginSound ==
  ASSUME Integrity, LoginsCurrent, NEW r \in Requests, CommitLogin(r)
  PROVE  Sound
  <1> DEFINE q == request[r]
  <1>1. q \in LoginRequest
    BY RequestShape DEF Integrity, CommitLogin
  <1>2. q.tenant \in Tenants /\ q.membership \in Nat /\ q.password \in Nat /\ q.at \in Nat
    BY <1>1 DEF LoginRequest
  <1>3. PICK s \in Sessions, g \in Grants, f \in Families, t \in Tokens :
         /\ Unused(session, s) /\ Unused(grant, g) /\ Unused(family, f) /\ Unused(token, t)
         /\ session' = [session EXCEPT ![s] =
                          [status |-> "active", version |-> 1, idle |-> q.at + IdleLifetime,
                           absolute |-> q.at + AbsoluteLifetime, opened |-> q.password,
                           ended |-> "no"]]
         /\ grant' = [grant EXCEPT ![g] =
                        [status |-> "active", version |-> 1, session |-> s,
                         tenant |-> q.tenant, membership |-> q.membership]]
         /\ family' = [family EXCEPT ![f] = NewFamilyRow(g)]
         /\ token' = [token EXCEPT ![t] = NewTokenRow(f)]
         /\ access' = access \cup {[session |-> s, grant |-> g, tenant |-> q.tenant, version |-> 1,
                                    expires |-> q.at + AccessLifetime, family |-> f]}
    BY DEF CommitLogin
  <1>4. /\ session[s].status = "absent" /\ grant[g].status = "absent"
        /\ family[f].status = "absent" /\ token[t].status = "absent"
    BY <1>3 DEF Unused
  <1>5. TypeOK'
    <2>1. session' \in [Sessions -> SessionRow] /\ grant' \in [Grants -> GrantRow]
      BY <1>2, <1>3, LifetimeAssumption DEF Integrity, TypeOK, SessionRow, GrantRow, RowStatus
    <2>2. family' \in [Families -> FamilyRow] /\ token' \in [Tokens -> TokenRow]
      BY <1>3 DEF Integrity, TypeOK, FamilyRow, TokenRow, RowStatus, NewFamilyRow, NewTokenRow
    <2>3. access' \in SUBSET AccessToken
      BY <1>2, <1>3, LifetimeAssumption DEF Integrity, TypeOK, AccessToken
    <2>4. credential' \in [version: Nat, password: Nat, failures: BOOLEAN]
      <3> DEFINE v == IF credential.failures THEN credential.version + 1 ELSE credential.version
      <3>1. credential.version \in Nat /\ credential \in [version: Nat, password: Nat, failures: BOOLEAN]
        BY DEF Integrity, TypeOK
      <3>2. v \in Nat
        BY <3>1
      <3>3. credential' = [credential EXCEPT !.version = v, !.failures = FALSE]
        BY DEF CommitLogin
      <3> HIDE DEF v
      <3> QED
        BY <3>1, <3>2, <3>3
    <2> QED
      BY <2>1, <2>2, <2>3, <2>4 DEF Integrity, TypeOK, CommitLogin, Finish
  <1>6. /\ \A x \in Sessions \ {s} : session'[x] = session[x]
        /\ \A x \in Grants \ {g} : grant'[x] = grant[x]
        /\ \A x \in Families \ {f} : family'[x] = family[x]
        /\ \A x \in Tokens \ {t} : token'[x] = token[x]
        /\ session'[s].status = "active" /\ session'[s].opened = q.password
        /\ grant'[g].status = "active" /\ grant'[g].session = s /\ grant'[g].tenant = q.tenant
        /\ grant'[g].version = 1
        /\ family'[f].status = "active" /\ family'[f].grant = g
        /\ token'[t].status = "active" /\ token'[t].family = f
    BY <1>3 DEF Integrity, TypeOK, NewFamilyRow, NewTokenRow
  <1>7. Grows
    BY <1>4, <1>6 DEF Grows
  <1>8. NewRefs
    BY <1>2, <1>3, <1>4, <1>6 DEF NewRefs
  <1>9. /\ \A x \in Requests : request'[x] \in {request[x], NoRequest}
        /\ reset' = reset /\ access \subseteq access'
    BY <1>3 DEF CommitLogin, Finish, Integrity, TypeOK
  <1>10. Ages
    <2>1. \A x \in Grants : grant[x].version \in Nat
      BY DEF Integrity, TypeOK, GrantRow
    <2> QED
      BY <1>4, <1>6, <2>1 DEF Ages
  <1>11. Freshness
    <2>1. \A x \in Tokens \ {t} : token'[x].status = "active" => token'[x].family # f
      BY <1>4, <1>6 DEF Integrity, TokenRefs
    <2>2. \A x \in Families \ {f} : family'[x].status = "active" => family'[x].grant # g
      BY <1>4, <1>6 DEF Integrity, FamilyRefs
    <2>3. \A x \in Grants \ {g} : grant'[x].status = "active" => grant'[x].session # s
      BY <1>4, <1>6 DEF Integrity, GrantRefs
    <2>4. \A a \in access' \ access : a.grant = g /\ a.version = 1 /\ a.family = f
      BY <1>3
    <2>5. q.password = credential.password /\ reset.stage = 0
      BY DEF CommitLogin, CredentialUnchanged, LoginsCurrent
    <2> HIDE DEF q
    <2> QED
      BY <1>6, <2>1, <2>2, <2>3, <2>4, <2>5 DEF Freshness
  <1> QED
    BY <1>5, <1>7, <1>8, <1>9, <1>10, <1>11, GrowthKeepsIntegrity DEF Sound

\* A refresh replaces the active Token of its Family.
LEMMA RotateSound ==
  ASSUME Integrity, OneActiveLineage, NEW r \in Requests, RotateRefreshSession(r)
  PROVE  Sound
  <1> DEFINE q == request[r]
             f == token[q.token].family
             g == family[f].grant
             s == grant[g].session
             idle == sessionIdleDeadline(q.at, session[s].absolute)
             expires == sessionAccessDeadline(q.at, session[s].absolute)
  <1>1. q \in RefreshRequest
    BY RequestShape DEF Integrity, RotateRefreshSession
  <1>2. q.token \in Tokens /\ q.grantVersion \in Nat /\ q.at \in Nat
    BY <1>1 DEF RefreshRequest
  <1>3. /\ token[q.token].status = "active" /\ family[f].status = "active"
        /\ grant[g].version = q.grantVersion
    BY DEF RotateRefreshSession, validateLockedActiveRefresh, validateActiveRefreshState, GrantOf
  <1>4. /\ f \in Families /\ g \in Grants /\ grant[g].status # "absent"
        /\ s \in Sessions /\ session[s].status # "absent" /\ grant[g].tenant \in Tenants
    BY <1>2, <1>3, Lineage DEF GrantOf, SessionOf
  <1>5. PICK t \in Tokens : Unused(token, t) /\ token' = ConsumeRefreshToken(q.token, t)
    BY DEF RotateRefreshSession
  <1>6. token[t].status = "absent"
    BY <1>5 DEF Unused
  <1>7. idle \in Nat /\ expires \in Nat
    <2>1. session[s].absolute \in Nat
      BY <1>4 DEF Integrity, TypeOK, SessionRow
    <2> QED
      BY <2>1, <1>2, Deadlines
  <1>8. /\ session' = [session EXCEPT ![s].version = @ + 1, ![s].idle = idle]
        /\ access' = access \cup {[session |-> s, grant |-> g, tenant |-> grant[g].tenant,
                                   version |-> q.grantVersion, family |-> f, expires |-> expires]}
        /\ UNCHANGED <<grant, family, credential, boundary, reset, now>>
        /\ request' = [request EXCEPT ![r] = NoRequest]
    BY DEF RotateRefreshSession, Finish
  <1>9. /\ token' \in [Tokens -> TokenRow]
        /\ token'[t].status = "active" /\ token'[t].family = f
        /\ token'[q.token].status = "consumed" /\ token'[q.token].family = f
        /\ \A x \in Tokens \ {t, q.token} : token'[x] = token[x]
    BY <1>2, <1>3, <1>5, <1>6, Consuming
  <1>10. f = token[q.token].family /\ family[f].grant = g /\ grant[g].session = s
    OBVIOUS
  <1> HIDE DEF f, g, s, idle, expires, q
  <1>11. /\ session' \in [Sessions -> SessionRow]
         /\ \A x \in Sessions : session'[x].status = session[x].status /\ session'[x].opened = session[x].opened
    <2>1. session' = [session EXCEPT ![s].version = @ + 1, ![s].idle = idle] /\ TypeOK
      BY <1>8 DEF Integrity
    <2> QED
      BY <2>1, <1>4, <1>7, SessionTouched
  <1>12. TypeOK'
    <2>1. access' \in SUBSET AccessToken
      BY <1>2, <1>4, <1>7, <1>8 DEF Integrity, TypeOK, AccessToken
    <2> QED
      BY <2>1, <1>8, <1>9, <1>11 DEF Integrity, TypeOK
  <1>13. Grows
    BY <1>2, <1>3, <1>6, <1>8, <1>9, <1>10, <1>11 DEF Grows
  <1>14. NewRefs
    BY <1>3, <1>4, <1>8, <1>9, <1>10 DEF NewRefs
  <1>15. /\ \A x \in Requests : request'[x] \in {request[x], NoRequest}
         /\ reset' = reset /\ access \subseteq access'
    BY <1>8 DEF Integrity, TypeOK
  <1>16. Ages
    <2>1. \A x \in Grants : grant[x].version \in Nat
      BY DEF Integrity, TypeOK, GrantRow
    <2> QED
      BY <1>3, <1>6, <1>8, <1>9, <1>11, <2>1 DEF Ages
  <1>17. Freshness
    <2>1. \A x \in Tokens \ {t} : token'[x].status = "active" => token'[x].family # f
      BY <1>2, <1>3, <1>9, <1>10 DEF OneActiveLineage
    <2>2. \A a \in access' \ access : a.grant = g /\ a.version = q.grantVersion /\ a.family = f
      BY <1>8
    <2> QED
      BY <1>3, <1>8, <1>9, <1>11, <2>1, <2>2 DEF Freshness
  <1> QED
    BY <1>12, <1>13, <1>14, <1>15, <1>16, <1>17, GrowthKeepsIntegrity DEF Sound

\* A step that only revokes Tokens, Families and Grants, raises versions and ends
\* Sessions adds nothing.
LEMMA RevokingSound ==
  ASSUME Integrity, TypeOK', UNCHANGED access,
         \A t \in Tokens : /\ token'[t].family = token[t].family
                           /\ token'[t].status \in {token[t].status, "revoked"}
                           /\ token[t].status = "absent" => token'[t].status = "absent",
         \A f \in Families : /\ family'[f].grant = family[f].grant
                             /\ family'[f].status \in {family[f].status, "revoked"}
                             /\ family[f].status = "absent" => family'[f].status = "absent"
                             /\ family[f].status = "active" /\ family'[f].status = "revoked" =>
                                  \/ grant'[family[f].grant].version > grant[family[f].grant].version
                                  \/ session'[grant[family[f].grant].session].status = "revoked",
         \A g \in Grants : /\ grant'[g].session = grant[g].session /\ grant'[g].tenant = grant[g].tenant
                           /\ grant'[g].version >= grant[g].version
                           /\ grant'[g].status \in {grant[g].status, "revoked"}
                           /\ grant[g].status = "absent" => grant'[g].status = "absent"
                           /\ grant[g].status = "active" /\ grant'[g].status = "revoked" =>
                                session'[grant[g].session].status = "revoked",
         \A s \in Sessions : /\ session'[s].opened = session[s].opened
                             /\ session'[s].status \in {session[s].status, "revoked"},
         \A r \in Requests : request'[r] \in {request[r], NoRequest},
         reset' \in {reset, NoReset}
  PROVE  Sound
  <1>1. Grows
    BY DEF Grows
  <1>2. NewRefs
    BY DEF NewRefs
  <1>3. Freshness
    BY DEF Freshness
  <1>4. Ages
    <2>1. \A f \in Families : family[f].status \in RowStatus
      BY DEF Integrity, TypeOK, FamilyRow
    <2>2. \A g \in Grants : grant[g].status \in RowStatus
      BY DEF Integrity, TypeOK, GrantRow
    <2> QED
      BY <2>1, <2>2 DEF Ages, RowStatus
  <1> QED
    BY <1>1, <1>2, <1>3, <1>4, GrowthKeepsIntegrity DEF Sound

\* Reuse detection raises the version of the Grant whose Family it ends.
LEMMA ReuseSound ==
  ASSUME Integrity, NEW r \in Requests, RevokeRefreshReuse(r)
  PROVE  Sound
  <1> DEFINE t == request[r].token
             f == token[t].family
             g == family[f].grant
             live == {u \in Tokens : token[u].family = f /\ token[u].status = "active"}
  <1>1. t \in Tokens /\ token[t].status = "consumed"
    BY RequestShape DEF Integrity, RevokeRefreshReuse, RefreshRequest, ReuseRequest
  <1>2. f \in Families /\ family[f].status # "absent" /\ g \in Grants /\ grant[g].status # "absent"
    BY <1>1, Lineage DEF GrantOf, SessionOf
  <1>3. /\ \/ /\ family' = RevokeRows(family, {f}) /\ token' = RevokeTokens(live)
              /\ grant' = IncrementSessionGrantVersion(g)
           \/ family' = family /\ token' = token /\ grant' = grant
        /\ UNCHANGED <<session, access, credential, boundary, reset, now>>
        /\ request' = [request EXCEPT ![r] = NoRequest]
    BY DEF RevokeRefreshReuse, applyRefreshReuse, Finish
  <1>4. live \in SUBSET Tokens /\ \A u \in live : token[u].status = "active"
    OBVIOUS
  <1>5. family[f].grant = g
    OBVIOUS
  <1> HIDE DEF t, f, g, live
  <1>6. \A x \in Requests : request'[x] \in {request[x], NoRequest}
    BY <1>3 DEF Integrity, TypeOK
  <1>7. CASE family' = family /\ token' = token /\ grant' = grant
    <2>1. TypeOK'
      BY <1>3, <1>7 DEF Integrity, TypeOK
    <2>2. Grows /\ NewRefs
      BY <1>3, <1>7 DEF Grows, NewRefs
    <2>3. Integrity'
      BY <2>1, <2>2, <1>3, <1>6, GrowthKeepsIntegrity
    <2> QED
      BY <2>3, <1>3, <1>7, IdleRows DEF rows
  <1>8. CASE /\ family' = RevokeRows(family, {f}) /\ token' = RevokeTokens(live)
             /\ grant' = IncrementSessionGrantVersion(g)
    <2>1. /\ token' \in [Tokens -> TokenRow]
          /\ \A x \in Tokens : /\ token'[x].family = token[x].family
                               /\ token'[x].status = IF x \in live THEN "revoked" ELSE token[x].status
      BY <1>4, <1>8, RevokedTokens DEF Integrity
    <2>2. /\ family' \in [Families -> FamilyRow]
          /\ \A x \in Families : /\ family'[x].grant = family[x].grant
                                 /\ family'[x].status = IF x \in {f} THEN "revoked" ELSE family[x].status
      <3>1. {f} \in SUBSET Families
        BY <1>2
      <3> QED
        BY <3>1, <1>8, RevokedFamilies DEF Integrity
    <2>3. /\ grant' \in [Grants -> GrantRow] /\ grant'[g].version = grant[g].version + 1
          /\ \A x \in Grants : /\ grant'[x].status = grant[x].status
                               /\ grant'[x].session = grant[x].session
                               /\ grant'[x].tenant = grant[x].tenant
                               /\ x # g => grant'[x] = grant[x]
      BY <1>2, <1>8, VersionRaised DEF Integrity
    <2>4. TypeOK'
      BY <2>1, <2>2, <2>3, <1>3 DEF Integrity, TypeOK
    <2>5. \A x \in Grants : grant[x].version \in Nat
      BY DEF Integrity, TypeOK, GrantRow
    <2>6. \A x \in Grants : grant'[x].version >= grant[x].version
      BY <2>3, <2>5
    <2>7. grant'[g].version > grant[g].version
      BY <2>3, <2>5, <1>2
    <2> QED
      BY <2>1, <2>2, <2>3, <2>4, <2>6, <2>7, <1>2, <1>3, <1>4, <1>5, <1>6, RevokingSound
  <1> QED
    BY <1>3, <1>7, <1>8

\* Logout ends the Session together with everything of it that is active.
LEMMA LogoutSound ==
  ASSUME Integrity, NEW r \in Requests, LogoutSession(r)
  PROVE  Sound
  <1> DEFINE q == request[r]
             s == SessionOf(q.token)
             ts == {t \in TokensOf(s) : token[t].status = "active"}
             fs == {f \in FamiliesOf(s) : family[f].status = "active"}
             gs == {g \in GrantsOf(s) : grant[g].status = "active"}
  <1>1. q.token \in Tokens /\ token[q.token].status # "absent"
    BY RequestShape DEF Integrity, RequestRefs, LogoutSession, LogoutRequest
  <1>2. s \in Sessions
    BY <1>1, Lineage
  <1>3. /\ token' = RevokeTokens(ts) /\ family' = RevokeRows(family, fs) /\ grant' = RevokeRows(grant, gs)
        /\ session' = [session EXCEPT ![s].status = "revoked", ![s].version = @ + 1, ![s].ended = "logout"]
        /\ UNCHANGED <<access, credential, boundary, reset, now>>
        /\ request' = [request EXCEPT ![r] = NoRequest]
    BY DEF LogoutSession, Finish
  <1>4. ts \in SUBSET Tokens /\ fs \in SUBSET Families /\ gs \in SUBSET Grants
    BY DEF TokensOf, FamiliesOf, GrantsOf
  <1>5. /\ \A t \in ts : token[t].status = "active"
        /\ \A f \in fs : family[f].status = "active" /\ grant[family[f].grant].session = s
        /\ \A g \in gs : grant[g].status = "active" /\ grant[g].session = s
    BY DEF TokensOf, FamiliesOf, GrantsOf
  <1> HIDE DEF q, s, ts, fs, gs
  <1>6. /\ session' \in [Sessions -> SessionRow] /\ session'[s].status = "revoked"
        /\ \A x \in Sessions : /\ session'[x].opened = session[x].opened
                               /\ session'[x].status \in {session[x].status, "revoked"}
    <2> DEFINE gone == [session[s] EXCEPT !.status = "revoked", !.version = session[s].version + 1,
                                          !.ended = "logout"]
    <2>1. session \in [Sessions -> SessionRow] /\ session[s].version + 1 \in Nat
      BY <1>2 DEF Integrity, TypeOK, SessionRow
    <2>2. session' = [session EXCEPT ![s] = gone]
      BY <1>3, <2>1
    <2>3. gone \in SessionRow /\ gone.status = "revoked" /\ gone.opened = session[s].opened
      BY <1>2, <2>1 DEF SessionRow, RowStatus
    <2> HIDE DEF gone
    <2> QED
      BY <1>2, <2>1, <2>2, <2>3
  <1>7. /\ token' \in [Tokens -> TokenRow]
        /\ \A x \in Tokens : /\ token'[x].family = token[x].family
                             /\ token'[x].status = IF x \in ts THEN "revoked" ELSE token[x].status
    BY <1>3, <1>4, RevokedTokens DEF Integrity
  <1>8. /\ family' \in [Families -> FamilyRow]
        /\ \A x \in Families : /\ family'[x].grant = family[x].grant
                               /\ family'[x].status = IF x \in fs THEN "revoked" ELSE family[x].status
    BY <1>3, <1>4, RevokedFamilies DEF Integrity
  <1>9. /\ grant' \in [Grants -> GrantRow]
        /\ \A x \in Grants : /\ grant'[x].session = grant[x].session /\ grant'[x].tenant = grant[x].tenant
                             /\ grant'[x].version = IF x \in gs THEN grant[x].version + 1 ELSE grant[x].version
                             /\ grant'[x].status = IF x \in gs THEN "revoked" ELSE grant[x].status
    BY <1>3, <1>4, RevokedGrants DEF Integrity
  <1>10. TypeOK'
    BY <1>3, <1>6, <1>7, <1>8, <1>9 DEF Integrity, TypeOK
  <1>11. \A x \in Grants : grant'[x].version >= grant[x].version
    BY <1>9 DEF Integrity, TypeOK, GrantRow
  <1>12. \A x \in Requests : request'[x] \in {request[x], NoRequest}
    BY <1>3 DEF Integrity, TypeOK
  <1>13. /\ \A x \in Families : family[x].status = "active" /\ family'[x].status = "revoked" =>
              session'[grant[family[x].grant].session].status = "revoked"
         /\ \A x \in Grants : grant[x].status = "active" /\ grant'[x].status = "revoked" =>
              session'[grant[x].session].status = "revoked"
    BY <1>5, <1>6, <1>8, <1>9
  <1> QED
    BY <1>3, <1>5, <1>6, <1>7, <1>8, <1>9, <1>10, <1>11, <1>12, <1>13, RevokingSound

\* What the LEFT JOINs of the switch find.
LEMMA Joined ==
  ASSUME NEW s, NEW t
  PROVE  /\ JoinedGrant(s, t) # None => JoinedGrant(s, t) \in ActiveGrants(s, t)
         /\ JoinedGrant(s, t) = None => ActiveGrants(s, t) = {}
         /\ \A g \in Grants : /\ JoinedFamily(g) # None => JoinedFamily(g) \in ActiveFamilies(g)
                              /\ JoinedFamily(g) = None => ActiveFamilies(g) = {}
  <1>1. ActiveGrants(s, t) # {} => (CHOOSE g \in ActiveGrants(s, t) : TRUE) \in ActiveGrants(s, t)
    OBVIOUS
  <1>2. ASSUME NEW g \in Grants
        PROVE  ActiveFamilies(g) # {} => (CHOOSE f \in ActiveFamilies(g) : TRUE) \in ActiveFamilies(g)
    OBVIOUS
  <1>3. None \notin ActiveGrants(s, t) /\ \A g \in Grants : None \notin ActiveFamilies(g) /\ g # None
    BY NoneAssumption DEF ActiveGrants, ActiveFamilies
  <1> QED
    BY <1>1, <1>2, <1>3 DEF JoinedGrant, JoinedFamily

\* What the three forms of a switch share: the Session stays, its deadline moves,
\* and the target rows are the ones active now.
LEMMA SwitchCommon ==
  ASSUME Integrity, NEW r \in Requests, SwitchTenant(r)
  PROVE  LET q == request[r]
             s == q.claims.session IN
         /\ s \in Sessions /\ session[s].status # "absent"
         /\ q.tenant \in Tenants /\ q.membership \in Nat /\ q.targetVersion \in Nat
         /\ session' \in [Sessions -> SessionRow]
         /\ \A x \in Sessions : session'[x].status = session[x].status /\ session'[x].opened = session[x].opened
         /\ \A g \in Grants, v \in Nat, f \in Families : SwitchAccess(q, g, v, f) \in AccessToken
         /\ q.target = None => ActiveGrants(s, q.tenant) = {}
         /\ q.target # None =>
              /\ q.target \in Grants /\ grant[q.target].status = "active" /\ grant[q.target].session = s
              /\ grant[q.target].version = q.targetVersion
              /\ q.family = None => ActiveFamilies(q.target) = {}
              /\ q.family # None => /\ q.family \in Families /\ family[q.family].status = "active"
                                   /\ family[q.family].grant = q.target
         /\ UNCHANGED <<credential, boundary, reset, now>>
         /\ \A x \in Requests : request'[x] \in {request[x], NoRequest}
         /\ request' = [request EXCEPT ![r] = NoRequest]
  <1> DEFINE q == request[r]
             s == q.claims.session
             idle == sessionIdleDeadline(q.at, session[s].absolute)
  <1>1. q \in SwitchRequest /\ q.claims \in access
    BY RequestShape DEF Integrity, RequestRefs, SwitchTenant
  <1>2. /\ q.tenant \in Tenants /\ q.membership \in Nat /\ q.targetVersion \in Nat /\ q.at \in Nat
        /\ s \in Sessions /\ q.claims.grant \in Grants
    BY <1>1 DEF SwitchRequest, AccessToken
  <1>3. session[s].status # "absent"
    BY <1>1, <1>2 DEF Integrity, AccessRefs, GrantRefs
  <1>4. session[s].absolute \in Nat
    BY <1>2 DEF Integrity, TypeOK, SessionRow
  <1>5. idle \in Nat /\ sessionAccessDeadline(q.at, session[s].absolute) \in Nat
    BY <1>2, <1>4, Deadlines
  <1>6. /\ session' \in [Sessions -> SessionRow]
        /\ \A x \in Sessions : session'[x].status = session[x].status /\ session'[x].opened = session[x].opened
    <2>1. session' = [session EXCEPT ![s].version = @ + 1, ![s].idle = idle] /\ TypeOK
      BY DEF SwitchTenant, Integrity
    <2> HIDE DEF q, s, idle
    <2> QED
      BY <2>1, <1>2, <1>5, SessionTouched
  <1>7. \A g \in Grants, v \in Nat, f \in Families : SwitchAccess(q, g, v, f) \in AccessToken
    BY <1>2, <1>5 DEF SwitchAccess, AccessToken
  <1>8. /\ JoinedGrant(s, q.tenant) = q.target
        /\ q.target # None => grant[q.target].version = q.targetVersion /\ JoinedFamily(q.target) = q.family
    BY DEF SwitchTenant, sameTenantSwitchState
  <1>9. q.target = None => ActiveGrants(s, q.tenant) = {}
    BY <1>8, Joined
  <1>10. q.target # None =>
           q.target \in Grants /\ grant[q.target].status = "active" /\ grant[q.target].session = s
    BY <1>8, Joined DEF ActiveGrants
  <1>11. q.target # None =>
           /\ q.family = None => ActiveFamilies(q.target) = {}
           /\ q.family # None => q.family \in ActiveFamilies(q.target)
    BY <1>8, <1>10, Joined
  <1>12. /\ UNCHANGED <<credential, boundary, reset, now>>
         /\ request' = [request EXCEPT ![r] = NoRequest]
         /\ \A x \in Requests : request'[x] \in {request[x], NoRequest}
    BY DEF SwitchTenant, Finish, Integrity, TypeOK
  <1> QED
    BY <1>2, <1>3, <1>6, <1>7, <1>8, <1>9, <1>10, <1>11, <1>12 DEF ActiveFamilies

\* A switch to a boundary without a Grant opens one: the only active one.
LEMMA SwitchToNewGrantSound ==
  ASSUME Integrity, NEW r \in Requests, SwitchToNewGrant(r)
  PROVE  Sound
  <1> DEFINE q == request[r]
             s == q.claims.session
  <1>1. /\ s \in Sessions /\ session[s].status # "absent"
        /\ q.tenant \in Tenants /\ q.membership \in Nat
        /\ session' \in [Sessions -> SessionRow]
        /\ \A x \in Sessions : session'[x].status = session[x].status /\ session'[x].opened = session[x].opened
        /\ \A g \in Grants, v \in Nat, f \in Families : SwitchAccess(q, g, v, f) \in AccessToken
        /\ ActiveGrants(s, q.tenant) = {}
        /\ UNCHANGED <<credential, boundary, reset, now>>
        /\ \A x \in Requests : request'[x] \in {request[x], NoRequest}
        /\ request' = [request EXCEPT ![r] = NoRequest]
    BY SwitchCommon DEF SwitchToNewGrant
  <1>2. PICK g \in Grants, f \in Families, t \in Tokens :
          /\ Unused(grant, g) /\ Unused(family, f) /\ Unused(token, t)
          /\ grant' = [grant EXCEPT ![g] = [status |-> "active", version |-> 1, session |-> s,
                                            tenant |-> q.tenant, membership |-> q.membership]]
          /\ family' = [family EXCEPT ![f] = NewFamilyRow(g)]
          /\ token' = [token EXCEPT ![t] = NewTokenRow(f)]
          /\ access' = access \cup {SwitchAccess(q, g, 1, f)}
    BY DEF SwitchToNewGrant
  <1>3. grant[g].status = "absent" /\ family[f].status = "absent" /\ token[t].status = "absent"
    BY <1>2 DEF Unused
  <1>4. \A a \in access' \ access : a.grant = g /\ a.version = 1 /\ a.family = f /\ a.session = s
    BY <1>2 DEF SwitchAccess
  <1> HIDE DEF q, s
  <1>5. /\ \A x \in Grants \ {g} : grant'[x] = grant[x]
        /\ \A x \in Families \ {f} : family'[x] = family[x]
        /\ \A x \in Tokens \ {t} : token'[x] = token[x]
        /\ grant'[g].status = "active" /\ grant'[g].session = s /\ grant'[g].tenant = q.tenant
        /\ grant'[g].version = 1
        /\ family'[f].status = "active" /\ family'[f].grant = g
        /\ token'[t].status = "active" /\ token'[t].family = f
    BY <1>2 DEF Integrity, TypeOK, NewFamilyRow, NewTokenRow
  <1>6. TypeOK'
    <2>1. grant' \in [Grants -> GrantRow]
      BY <1>1, <1>2 DEF Integrity, TypeOK, GrantRow, RowStatus
    <2>2. family' \in [Families -> FamilyRow] /\ token' \in [Tokens -> TokenRow]
      BY <1>2 DEF Integrity, TypeOK, FamilyRow, TokenRow, RowStatus, NewFamilyRow, NewTokenRow
    <2>3. access' \in SUBSET AccessToken
      BY <1>1, <1>2 DEF Integrity, TypeOK
    <2> QED
      BY <2>1, <2>2, <2>3, <1>1 DEF Integrity, TypeOK
  <1>7. Grows
    BY <1>1, <1>3, <1>5 DEF Grows
  <1>8. NewRefs
    BY <1>1, <1>3, <1>4, <1>5 DEF NewRefs
  <1>9. Ages
    <2>1. \A x \in Grants : grant[x].version \in Nat
      BY DEF Integrity, TypeOK, GrantRow
    <2> QED
      BY <1>1, <1>3, <1>5, <2>1 DEF Ages
  <1>10. Freshness
    <2>1. \A x \in Tokens \ {t} : token'[x].status = "active" => token'[x].family # f
      BY <1>3, <1>5 DEF Integrity, TokenRefs
    <2>2. \A x \in Families \ {f} : family'[x].status = "active" => family'[x].grant # g
      BY <1>3, <1>5 DEF Integrity, FamilyRefs
    <2>3. \A x \in Grants \ {g} : grant'[x].status = "active" =>
            ~ (grant'[x].session = s /\ grant'[x].tenant = q.tenant)
      BY <1>1, <1>5 DEF ActiveGrants
    <2> QED
      BY <1>1, <1>4, <1>5, <2>1, <2>2, <2>3 DEF Freshness
  <1> QED
    BY <1>1, <1>2, <1>6, <1>7, <1>8, <1>9, <1>10, GrowthKeepsIntegrity DEF Sound

\* A Grant that lost its Family gets a new one: the only active one.
LEMMA SwitchToNewFamilySound ==
  ASSUME Integrity, NEW r \in Requests, SwitchToNewFamily(r)
  PROVE  Sound
  <1> DEFINE q == request[r]
             s == q.claims.session
             g == q.target
  <1>1. /\ session' \in [Sessions -> SessionRow]
        /\ \A x \in Sessions : session'[x].status = session[x].status /\ session'[x].opened = session[x].opened
        /\ \A h \in Grants, v \in Nat, f \in Families : SwitchAccess(q, h, v, f) \in AccessToken
        /\ g \in Grants /\ grant[g].status = "active" /\ grant[g].session = s
        /\ grant[g].version = q.targetVersion /\ q.targetVersion \in Nat
        /\ ActiveFamilies(g) = {}
        /\ UNCHANGED <<grant, credential, boundary, reset, now>>
        /\ \A x \in Requests : request'[x] \in {request[x], NoRequest}
        /\ request' = [request EXCEPT ![r] = NoRequest]
    BY SwitchCommon DEF SwitchToNewFamily
  <1>2. PICK f \in Families, t \in Tokens :
          /\ Unused(family, f) /\ Unused(token, t)
          /\ family' = [family EXCEPT ![f] = NewFamilyRow(g)]
          /\ token' = [token EXCEPT ![t] = NewTokenRow(f)]
          /\ access' = access \cup {SwitchAccess(q, g, q.targetVersion, f)}
    BY DEF SwitchToNewFamily
  <1>3. family[f].status = "absent" /\ token[t].status = "absent"
    BY <1>2 DEF Unused
  <1>4. \A a \in access' \ access : a.grant = g /\ a.version = q.targetVersion /\ a.family = f /\ a.session = s
    BY <1>2 DEF SwitchAccess
  <1> HIDE DEF q, s, g
  <1>5. /\ \A x \in Families \ {f} : family'[x] = family[x]
        /\ \A x \in Tokens \ {t} : token'[x] = token[x]
        /\ family'[f].status = "active" /\ family'[f].grant = g
        /\ token'[t].status = "active" /\ token'[t].family = f
    BY <1>2 DEF Integrity, TypeOK, NewFamilyRow, NewTokenRow
  <1>6. TypeOK'
    <2>1. family' \in [Families -> FamilyRow] /\ token' \in [Tokens -> TokenRow]
      BY <1>1, <1>2 DEF Integrity, TypeOK, FamilyRow, TokenRow, RowStatus, NewFamilyRow, NewTokenRow
    <2>2. access' \in SUBSET AccessToken
      BY <1>1, <1>2 DEF Integrity, TypeOK
    <2> QED
      BY <2>1, <2>2, <1>1 DEF Integrity, TypeOK
  <1>7. Grows
    BY <1>1, <1>3, <1>5 DEF Grows
  <1>8. NewRefs
    BY <1>1, <1>3, <1>4, <1>5 DEF NewRefs
  <1>9. Ages
    <2>1. \A x \in Grants : grant[x].version \in Nat
      BY DEF Integrity, TypeOK, GrantRow
    <2> QED
      BY <1>1, <1>3, <1>5, <2>1 DEF Ages
  <1>10. Freshness
    <2>1. \A x \in Tokens \ {t} : token'[x].status = "active" => token'[x].family # f
      BY <1>3, <1>5 DEF Integrity, TokenRefs
    <2>2. \A x \in Families \ {f} : family'[x].status = "active" => family'[x].grant # g
      BY <1>1, <1>5 DEF ActiveFamilies
    <2> QED
      BY <1>1, <1>4, <1>5, <2>1, <2>2 DEF Freshness
  <1> QED
    BY <1>1, <1>2, <1>6, <1>7, <1>8, <1>9, <1>10, GrowthKeepsIntegrity DEF Sound

\* A switch to a live Family replaces its active Token and raises the Grant version.
LEMMA SwitchToLiveFamilySound ==
  ASSUME Integrity, OneActiveLineage, NEW r \in Requests, SwitchToLiveFamily(r)
  PROVE  Sound
  <1> DEFINE q == request[r]
             s == q.claims.session
             g == q.target
             f == q.family
  <1>1. /\ session' \in [Sessions -> SessionRow]
        /\ \A x \in Sessions : session'[x].status = session[x].status /\ session'[x].opened = session[x].opened
        /\ \A h \in Grants, v \in Nat, e \in Families : SwitchAccess(q, h, v, e) \in AccessToken
        /\ g \in Grants /\ grant[g].status = "active" /\ grant[g].session = s
        /\ grant[g].version = q.targetVersion /\ q.targetVersion \in Nat
        /\ f \in Families /\ family[f].status = "active" /\ family[f].grant = g
        /\ UNCHANGED <<family, credential, boundary, reset, now>>
        /\ \A x \in Requests : request'[x] \in {request[x], NoRequest}
        /\ request' = [request EXCEPT ![r] = NoRequest]
    BY SwitchCommon DEF SwitchToLiveFamily
  <1>2. PICK old \in ActiveTokens(f), t \in Tokens :
          Unused(token, t) /\ token' = ConsumeRefreshToken(old, t)
    BY DEF SwitchToLiveFamily
  <1>3. /\ old \in Tokens /\ token[old].status = "active" /\ token[old].family = f
        /\ token[t].status = "absent"
    BY <1>2 DEF Unused, ActiveTokens
  <1>4. /\ grant' = IncrementSessionGrantVersion(g)
        /\ access' = access \cup {SwitchAccess(q, g, q.targetVersion + 1, f)}
    BY DEF SwitchToLiveFamily
  <1>5. \A a \in access' \ access : a.grant = g /\ a.version = q.targetVersion + 1 /\ a.family = f /\ a.session = s
    BY <1>4 DEF SwitchAccess
  <1> HIDE DEF q, s, g, f
  <1>6. /\ token' \in [Tokens -> TokenRow]
        /\ token'[t].status = "active" /\ token'[t].family = f
        /\ token'[old].status = "consumed" /\ token'[old].family = f
        /\ \A x \in Tokens \ {t, old} : token'[x] = token[x]
    BY <1>2, <1>3, Consuming
  <1>7. /\ grant' \in [Grants -> GrantRow] /\ grant'[g].version = grant[g].version + 1
        /\ \A x \in Grants : /\ grant'[x].status = grant[x].status
                             /\ grant'[x].session = grant[x].session
                             /\ grant'[x].tenant = grant[x].tenant
                             /\ x # g => grant'[x] = grant[x]
    BY <1>1, <1>4, VersionRaised DEF Integrity
  <1>8. TypeOK'
    <2>1. q.targetVersion + 1 \in Nat
      BY <1>1
    <2>2. access' \in SUBSET AccessToken
      BY <2>1, <1>1, <1>4 DEF Integrity, TypeOK
    <2> QED
      BY <2>2, <1>1, <1>6, <1>7 DEF Integrity, TypeOK
  <1>9. Grows
    BY <1>1, <1>3, <1>6, <1>7 DEF Grows
  <1>10. NewRefs
    BY <1>1, <1>3, <1>5, <1>6, <1>7 DEF NewRefs
  <1>11. Ages
    <2>1. \A x \in Grants : grant'[x].version >= grant[x].version
      BY <1>7 DEF Integrity, TypeOK, GrantRow
    <2>2. \A x \in Grants : grant'[x].status = "revoked" => grant[x].status = "revoked"
      BY <1>7
    <2> QED
      BY <1>1, <1>3, <1>6, <1>7, <2>1, <2>2 DEF Ages
  <1>12. Freshness
    <2>1. \A x \in Tokens \ {t} : token'[x].status = "active" => token'[x].family # f
      BY <1>3, <1>6 DEF OneActiveLineage
    <2> QED
      BY <1>1, <1>3, <1>5, <1>6, <1>7, <2>1 DEF Freshness
  <1>13. access \subseteq access'
    BY <1>4
  <1> QED
    BY <1>1, <1>8, <1>9, <1>10, <1>11, <1>12, <1>13, GrowthKeepsIntegrity DEF Sound

\* The last statement of a reset has seen every Session that is active: nothing
\* opens one while the reset holds the credential row.
ResetCovers ==
    reset.stage \in {8, 9} => \A s \in Sessions : session[s].status = "active" => s \in reset.sessions

\* A reset leaves no active Session.
LEMMA CommitResetSound ==
  ASSUME Integrity, ResetCovers, CommitReset
  PROVE  /\ Sound
         /\ \A s \in Sessions : session'[s].status # "active"
  <1> DEFINE gone(s) == [session[s] EXCEPT !.status = "revoked", !.version = session[s].version + 1,
                                           !.ended = "reset"]
  <1>1. /\ token' = RevokeTokens(reset.tokens) /\ family' = RevokeRows(family, reset.families)
        /\ grant' = RevokeRows(grant, reset.grants) /\ reset.stage = 9 /\ reset' = NoReset
        /\ UNCHANGED <<access, boundary, request, now>>
    BY DEF CommitReset
  <1>2. /\ reset.tokens \in SUBSET Tokens /\ reset.families \in SUBSET Families
        /\ reset.grants \in SUBSET Grants /\ reset.sessions \in SUBSET Sessions
    BY DEF Integrity, TypeOK, ResetState
  <1>3. session' = [s \in Sessions |-> IF s \in reset.sessions THEN gone(s) ELSE session[s]]
    BY DEF CommitReset
  <1>4. \A s \in Sessions : /\ gone(s) \in SessionRow /\ gone(s).status = "revoked"
                            /\ gone(s).opened = session[s].opened
    <2>1. \A s \in Sessions : session[s] \in SessionRow /\ session[s].version + 1 \in Nat
      BY DEF Integrity, TypeOK, SessionRow
    <2> QED
      BY <2>1 DEF SessionRow, RowStatus
  <1> HIDE DEF gone
  <1>5. /\ session' \in [Sessions -> SessionRow]
        /\ \A s \in Sessions : /\ session'[s].opened = session[s].opened
                               /\ session'[s].status = IF s \in reset.sessions THEN "revoked" ELSE session[s].status
    BY <1>3, <1>4 DEF Integrity, TypeOK
  <1>6. \A s \in Sessions : /\ session'[s].status # "active"
                            /\ session[s].status # "absent" => session'[s].status = "revoked"
    <2>1. \A s \in Sessions : session[s].status \in RowStatus
      BY DEF Integrity, TypeOK, SessionRow
    <2> QED
      BY <2>1, <1>1, <1>5 DEF ResetCovers, RowStatus
  <1>7. /\ token' \in [Tokens -> TokenRow]
        /\ \A x \in Tokens : /\ token'[x].family = token[x].family
                             /\ token'[x].status = IF x \in reset.tokens THEN "revoked" ELSE token[x].status
    BY <1>1, <1>2, RevokedTokens DEF Integrity
  <1>8. /\ family' \in [Families -> FamilyRow]
        /\ \A x \in Families : /\ family'[x].grant = family[x].grant
                               /\ family'[x].status = IF x \in reset.families THEN "revoked" ELSE family[x].status
    BY <1>1, <1>2, RevokedFamilies DEF Integrity
  <1>9. /\ grant' \in [Grants -> GrantRow]
        /\ \A x \in Grants : /\ grant'[x].session = grant[x].session /\ grant'[x].tenant = grant[x].tenant
                             /\ grant'[x].version = IF x \in reset.grants THEN grant[x].version + 1 ELSE grant[x].version
                             /\ grant'[x].status = IF x \in reset.grants THEN "revoked" ELSE grant[x].status
    BY <1>1, <1>2, RevokedGrants DEF Integrity
  <1>10. TypeOK'
    <2>1. credential' \in [version: Nat, password: Nat, failures: BOOLEAN]
      <3>1. credential.version + 1 \in Nat /\ credential.password + 1 \in Nat
        BY DEF Integrity, TypeOK
      <3> QED
        BY <3>1 DEF CommitReset
    <2> QED
      BY <2>1, <1>1, <1>5, <1>7, <1>8, <1>9 DEF Integrity, TypeOK, NoReset, ResetState
  <1>11. \A x \in Grants : grant'[x].version >= grant[x].version
    BY <1>9 DEF Integrity, TypeOK, GrantRow
  <1>12. /\ \A x \in Families : family[x].status = "active" =>
              session'[grant[family[x].grant].session].status = "revoked"
         /\ \A x \in Grants : grant[x].status = "active" => session'[grant[x].session].status = "revoked"
    BY <1>6 DEF Integrity, FamilyRefs, GrantRefs
  <1>13. /\ \A t \in reset.tokens : token[t].status # "absent"
         /\ \A f \in reset.families : family[f].status # "absent"
         /\ \A g \in reset.grants : grant[g].status # "absent"
    BY DEF Integrity, ResetRefs
  <1>14. Sound
    BY <1>1, <1>5, <1>7, <1>8, <1>9, <1>10, <1>11, <1>12, <1>13, RevokingSound
  <1> QED
    BY <1>6, <1>14

-----------------------------------------------------------------------------
(***************************************************************************)
(* The steps that change no row.                                           *)
(***************************************************************************)
\* Lookups, and a request abandoned.
LEMMA LookupsSound ==
  ASSUME Integrity, NEW r \in Requests,
         \/ \E t \in Tenants : LookupLogin(r, t)
         \/ \E t \in Tokens : LookupRefresh(r, t) \/ LookupConsumedRefresh(r, t) \/ LookupLogout(r, t)
         \/ \E a \in access, t \in Tenants : LookupTenantSwitch(r, a, t)
         \/ AbandonRequest(r)
  PROVE  Sound
  <1> SUFFICES Integrity' /\ UNCHANGED <<rows, access>>
    BY IdleRows
  <1>1. CASE \E t \in Tenants : LookupLogin(r, t)
    <2>1. PICK t \in Tenants : LookupLogin(r, t)
      BY <1>1
    <2> DEFINE q == [op |-> "login", tenant |-> t, membership |-> boundary[t].membership,
                     credential |-> credential.version, password |-> credential.password, at |-> now]
    <2>2. q \in LoginRequest /\ q.op = "login"
      BY DEF Integrity, TypeOK, LoginRequest
    <2>3. request' = [request EXCEPT ![r] = q] /\ UNCHANGED <<rows, access, credential, boundary, reset, now>>
      BY <2>1 DEF LookupLogin
    <2> HIDE DEF q
    <2> QED
      BY <2>2, <2>3, LookupKeepsIntegrity
  <1>2. CASE \E t \in Tokens : LookupRefresh(r, t)
    <2>1. PICK t \in Tokens : LookupRefresh(r, t)
      BY <1>2
    <2> DEFINE q == [op |-> "refresh", token |-> t, grantVersion |-> grant[GrantOf(t)].version,
                     familyVersion |-> family[token[t].family].version, at |-> now]
    <2>2. token[t].status = "active"
      BY <2>1 DEF LookupRefresh, validateActiveRefreshState
    <2>3. token[t].family \in Families /\ GrantOf(t) \in Grants
      BY <2>2, Lineage
    <2>4. q \in RefreshRequest /\ q.op = "refresh" /\ q.token = t
      BY <2>3 DEF Integrity, TypeOK, RefreshRequest, GrantRow, FamilyRow
    <2>5. request' = [request EXCEPT ![r] = q] /\ UNCHANGED <<rows, access, credential, boundary, reset, now>>
      BY <2>1 DEF LookupRefresh
    <2> HIDE DEF q
    <2> QED
      BY <2>2, <2>4, <2>5, LookupKeepsIntegrity
  <1>3. CASE \E t \in Tokens : LookupConsumedRefresh(r, t)
    <2>1. PICK t \in Tokens : LookupConsumedRefresh(r, t)
      BY <1>3
    <2> DEFINE q == [op |-> "reuse", token |-> t]
    <2>2. q \in ReuseRequest /\ q.op = "reuse" /\ q.token = t /\ token[t].status # "absent"
      BY <2>1 DEF ReuseRequest, LookupConsumedRefresh
    <2>3. request' = [request EXCEPT ![r] = q] /\ UNCHANGED <<rows, access, credential, boundary, reset, now>>
      BY <2>1 DEF LookupConsumedRefresh
    <2> HIDE DEF q
    <2> QED
      BY <2>2, <2>3, LookupKeepsIntegrity
  <1>4. CASE \E t \in Tokens : LookupLogout(r, t)
    <2>1. PICK t \in Tokens : LookupLogout(r, t)
      BY <1>4
    <2> DEFINE q == [op |-> "logout", token |-> t, sessionVersion |-> session[SessionOf(t)].version]
    <2>2. token[t].status # "absent"
      BY <2>1 DEF LookupLogout
    <2>3. SessionOf(t) \in Sessions
      BY <2>2, Lineage
    <2>4. q \in LogoutRequest /\ q.op = "logout" /\ q.token = t
      BY <2>3 DEF Integrity, TypeOK, LogoutRequest, SessionRow
    <2>5. request' = [request EXCEPT ![r] = q] /\ UNCHANGED <<rows, access, credential, boundary, reset, now>>
      BY <2>1 DEF LookupLogout
    <2> HIDE DEF q
    <2> QED
      BY <2>2, <2>4, <2>5, LookupKeepsIntegrity
  <1>5. CASE \E a \in access, t \in Tenants : LookupTenantSwitch(r, a, t)
    <2>1. PICK a \in access, t \in Tenants : LookupTenantSwitch(r, a, t)
      BY <1>5
    <2> DEFINE g == JoinedGrant(a.session, t)
               f == JoinedFamily(g)
               gv == IF g = None THEN 0 ELSE grant[g].version
               fv == IF f = None THEN 0 ELSE family[f].version
               q == [op |-> "switch", claims |-> a, tenant |-> t, membership |-> boundary[t].membership,
                     sessionVersion |-> session[a.session].version, target |-> g, targetVersion |-> gv,
                     family |-> f, familyVersion |-> fv, at |-> now]
    <2>2. a \in AccessToken /\ a.session \in Sessions
      BY DEF Integrity, TypeOK, AccessToken
    <2>3. g \in Grants \cup {None}
      BY Joined DEF ActiveGrants
    <2>4. f \in Families \cup {None}
      <3>1. CASE g = None
        BY <3>1 DEF JoinedFamily
      <3>2. CASE g \in Grants
        BY <3>2, Joined DEF ActiveFamilies
      <3> QED
        BY <2>3, <3>1, <3>2
    <2>5. gv \in Nat /\ fv \in Nat
      BY <2>3, <2>4 DEF Integrity, TypeOK, GrantRow, FamilyRow
    <2>6. session[a.session].version \in Nat /\ boundary[t].membership \in Nat /\ now \in Nat
      BY <2>2 DEF Integrity, TypeOK, SessionRow
    <2>7. request' = [request EXCEPT ![r] = q] /\ UNCHANGED <<rows, access, credential, boundary, reset, now>>
      BY <2>1 DEF LookupTenantSwitch
    <2> HIDE DEF g, f, gv, fv
    <2>8. q \in SwitchRequest /\ q.op = "switch" /\ q.claims = a
      BY <2>2, <2>3, <2>4, <2>5, <2>6 DEF SwitchRequest
    <2> HIDE DEF q
    <2> QED
      BY <2>7, <2>8, LookupKeepsIntegrity
  <1>6. CASE AbandonRequest(r)
    <2>1. request' = [request EXCEPT ![r] = NoRequest] /\ UNCHANGED <<rows, access, credential, boundary, reset, now>>
      BY <1>6 DEF AbandonRequest, Finish
    <2>2. NoRequest.op = "none"
      BY DEF NoRequest
    <2> QED
      BY <2>1, <2>2, LookupKeepsIntegrity
  <1> QED
    BY <1>1, <1>2, <1>3, <1>4, <1>5, <1>6

\* The steps of a reset before its commit change nothing but its own state.
LEMMA ResetProgressSound ==
  ASSUME Integrity, BeginReset \/ ScanRows \/ HoldRows \/ RollbackReset
  PROVE  Sound
  <1> SUFFICES Integrity' /\ UNCHANGED <<rows, access>>
    BY IdleRows
  <1>1. UNCHANGED <<rows, access, credential, boundary, request, now>>
    BY DEF BeginReset, ScanRows, HoldRows, RollbackReset
  <1>2. reset' \in ResetState /\ ResetRefs'
    <2>1. /\ reset \in ResetState /\ ResetRefs
          /\ DOMAIN token = Tokens /\ DOMAIN family = Families
          /\ DOMAIN grant = Grants /\ DOMAIN session = Sessions
      BY DEF Integrity, TypeOK
    <2>2. CASE BeginReset \/ RollbackReset
      BY <2>2 DEF BeginReset, RollbackReset, NoReset, ResetState, ResetRefs
    <2>3. CASE ScanRows \/ HoldRows
      <3>1. \E n \in 0..9 :
              \/ \E X \in {StillActive(token, Tokens), StillActive(token, reset.tokens)} :
                   reset' = [reset EXCEPT !.stage = n, !.tokens = X]
              \/ \E X \in {StillActive(family, Families), StillActive(family, reset.families)} :
                   reset' = [reset EXCEPT !.stage = n, !.families = X]
              \/ \E X \in {StillActive(grant, Grants), StillActive(grant, reset.grants)} :
                   reset' = [reset EXCEPT !.stage = n, !.grants = X]
              \/ \E X \in {StillActive(session, Sessions), StillActive(session, reset.sessions)} :
                   reset' = [reset EXCEPT !.stage = n, !.sessions = X]
        BY <2>3 DEF ScanRows, HoldRows
      <3>2. /\ reset.tokens \in SUBSET Tokens /\ reset.families \in SUBSET Families
            /\ reset.grants \in SUBSET Grants /\ reset.sessions \in SUBSET Sessions
        BY <2>1 DEF ResetState
      <3>3. PICK n \in 0..9 :
              \/ \E X \in {StillActive(token, Tokens), StillActive(token, reset.tokens)} :
                   reset' = [reset EXCEPT !.stage = n, !.tokens = X]
              \/ \E X \in {StillActive(family, Families), StillActive(family, reset.families)} :
                   reset' = [reset EXCEPT !.stage = n, !.families = X]
              \/ \E X \in {StillActive(grant, Grants), StillActive(grant, reset.grants)} :
                   reset' = [reset EXCEPT !.stage = n, !.grants = X]
              \/ \E X \in {StillActive(session, Sessions), StillActive(session, reset.sessions)} :
                   reset' = [reset EXCEPT !.stage = n, !.sessions = X]
        BY <3>1
      <3>4. ASSUME NEW X \in {StillActive(token, Tokens), StillActive(token, reset.tokens)},
                    reset' = [reset EXCEPT !.stage = n, !.tokens = X]
             PROVE  reset' \in ResetState /\ ResetRefs'
        <4>1. X \in SUBSET Tokens /\ \A x \in X : token[x].status # "absent"
          BY <3>2 DEF StillActive
        <4> QED
          BY <2>1, <3>4, <4>1, <1>1 DEF ResetState, ResetRefs, rows
      <3>5. ASSUME NEW X \in {StillActive(family, Families), StillActive(family, reset.families)},
                    reset' = [reset EXCEPT !.stage = n, !.families = X]
             PROVE  reset' \in ResetState /\ ResetRefs'
        <4>1. X \in SUBSET Families /\ \A x \in X : family[x].status # "absent"
          BY <3>2 DEF StillActive
        <4> QED
          BY <2>1, <3>5, <4>1, <1>1 DEF ResetState, ResetRefs, rows
      <3>6. ASSUME NEW X \in {StillActive(grant, Grants), StillActive(grant, reset.grants)},
                    reset' = [reset EXCEPT !.stage = n, !.grants = X]
             PROVE  reset' \in ResetState /\ ResetRefs'
        <4>1. X \in SUBSET Grants /\ \A x \in X : grant[x].status # "absent"
          BY <3>2 DEF StillActive
        <4> QED
          BY <2>1, <3>6, <4>1, <1>1 DEF ResetState, ResetRefs, rows
      <3>7. ASSUME NEW X \in {StillActive(session, Sessions), StillActive(session, reset.sessions)},
                    reset' = [reset EXCEPT !.stage = n, !.sessions = X]
             PROVE  reset' \in ResetState /\ ResetRefs'
        <4>1. X \in SUBSET Sessions /\ \A x \in X : session[x].status # "absent"
          BY <3>2 DEF StillActive
        <4> QED
          BY <2>1, <3>7, <4>1, <1>1 DEF ResetState, ResetRefs, rows
      <3> QED
        BY <3>3, <3>4, <3>5, <3>6, <3>7
    <2> QED
      BY <2>2, <2>3
  <1>3. TypeOK'
    BY <1>1, <1>2 DEF Integrity, TypeOK, rows
  <1> QED
    BY <1>1, <1>2, <1>3
       DEF Integrity, TokenRefs, FamilyRefs, GrantRefs, AccessRefs, RequestRefs, rows

\* The other components and the clock touch no row of a Session.
LEMMA EnvironmentSound ==
  ASSUME Integrity, EnvironmentStep
  PROVE  Sound
  <1> SUFFICES Integrity' /\ UNCHANGED <<rows, access>>
    BY IdleRows
  <1>1. UNCHANGED <<rows, access, request, reset>>
    BY DEF EnvironmentStep, RecordLoginFailure, ToggleBoundary, ReplaceMembership, Tick
  <1>2. credential' \in [version: Nat, password: Nat, failures: BOOLEAN]
    <2>1. credential \in [version: Nat, password: Nat, failures: BOOLEAN] /\ credential.version + 1 \in Nat
      BY DEF Integrity, TypeOK
    <2>2. credential' \in {credential, [credential EXCEPT !.version = credential.version + 1, !.failures = TRUE]}
      BY DEF EnvironmentStep, RecordLoginFailure, ToggleBoundary, ReplaceMembership, Tick
    <2> QED
      BY <2>1, <2>2
  <1>3. boundary' \in [Tenants -> [membership: Nat, open: BOOLEAN]]
    <2>1. boundary \in [Tenants -> [membership: Nat, open: BOOLEAN]]
      BY DEF Integrity, TypeOK
    <2>2. ASSUME NEW t \in Tenants, ToggleBoundary(t) PROVE boundary' \in [Tenants -> [membership: Nat, open: BOOLEAN]]
      <3> DEFINE o == ~ boundary[t].open
      <3>1. boundary' = [boundary EXCEPT ![t] = [boundary[t] EXCEPT !.open = o]]
        BY <2>1, <2>2 DEF ToggleBoundary
      <3>2. o \in BOOLEAN
        OBVIOUS
      <3> HIDE DEF o
      <3> QED
        BY <2>1, <3>1, <3>2
    <2>3. ASSUME NEW t \in Tenants, ReplaceMembership(t)
          PROVE  boundary' \in [Tenants -> [membership: Nat, open: BOOLEAN]]
      <3>1. boundary[t].membership + 1 \in Nat
        BY <2>1
      <3>2. boundary' = [boundary EXCEPT ![t] = [membership |-> boundary[t].membership + 1, open |-> TRUE]]
        BY <2>1, <2>3 DEF ReplaceMembership
      <3> QED
        BY <2>1, <3>1, <3>2
    <2>4. CASE RecordLoginFailure \/ Tick
      BY <2>1, <2>4 DEF RecordLoginFailure, Tick
    <2> QED
      BY <2>2, <2>3, <2>4 DEF EnvironmentStep
  <1>4. now' \in Nat
    BY DEF Integrity, TypeOK, EnvironmentStep, RecordLoginFailure, ToggleBoundary, ReplaceMembership, Tick
  <1>5. TypeOK'
    BY <1>1, <1>2, <1>3, <1>4 DEF Integrity, TypeOK, rows
  <1> QED
    BY <1>1, <1>5
       DEF Integrity, TokenRefs, FamilyRefs, GrantRefs, AccessRefs, RequestRefs, ResetRefs, rows

-----------------------------------------------------------------------------
(***************************************************************************)
(* What sound steps preserve.                                              *)
(***************************************************************************)
\* An Access Token is of the current version of its Grant or an older one, and one
\* of the current version has an active Family unless its Session is over.
AccessLive ==
    \A a \in access :
        /\ a.version <= grant[a.grant].version
        /\ \/ family[a.family].status = "active"
           \/ grant[a.grant].version > a.version
           \/ session[a.session].status = "revoked"

IInv ==
    /\ Integrity /\ OneActiveLineage /\ GrantEndsWithSession /\ AccessLive
    /\ ResetCovers /\ LoginsCurrent /\ ActiveSessionHasCurrentPassword

\* A row is activated once, and then it is the only active one of its kind.
LEMMA LineageKept ==
  ASSUME Integrity, OneActiveLineage, Sound
  PROVE  OneActiveLineage'
  <1>1. \A g, h \in Grants :
          /\ grant'[g].status = "active" /\ grant'[h].status = "active"
          /\ grant'[g].session = grant'[h].session /\ grant'[g].tenant = grant'[h].tenant
          => g = h
    BY DEF OneActiveLineage, Sound, Grows, Ages, Freshness
  <1>2. \A e, f \in Families :
          family'[e].status = "active" /\ family'[f].status = "active"
          /\ family'[e].grant = family'[f].grant => e = f
    BY DEF OneActiveLineage, Sound, Grows, Ages, Freshness
  <1>3. \A t, u \in Tokens :
          token'[t].status = "active" /\ token'[u].status = "active"
          /\ token'[t].family = token'[u].family => t = u
    BY DEF OneActiveLineage, Sound, Grows, Ages, Freshness
  <1> QED
    BY <1>1, <1>2, <1>3 DEF OneActiveLineage

\* A revoked Session stays revoked.
LEMMA RevokedStays ==
  ASSUME Integrity, Sound, NEW s \in Sessions, session[s].status = "revoked"
  PROVE  session'[s].status = "revoked"
  <1>1. session'[s].status \in RowStatus
    BY DEF Sound, Integrity, TypeOK, SessionRow
  <1> QED
    BY <1>1 DEF Sound, Grows, Ages, RowStatus

\* A Grant is revoked only with its Session.
LEMMA GrantEndsKept ==
  ASSUME Integrity, GrantEndsWithSession, Sound
  PROVE  GrantEndsWithSession'
  <1> SUFFICES ASSUME NEW g \in Grants, grant'[g].status = "revoked"
               PROVE  session'[grant'[g].session].status = "revoked"
    BY DEF GrantEndsWithSession
  <1>1. grant[g].status # "absent" /\ grant'[g].session = grant[g].session
    BY DEF Sound, Grows, Freshness
  <1>2. grant[g].session \in Sessions
    BY <1>1 DEF Integrity, GrantRefs
  <1>3. CASE grant[g].status = "revoked"
    BY <1>1, <1>2, <1>3, RevokedStays DEF GrantEndsWithSession
  <1>4. CASE grant[g].status # "revoked"
    BY <1>1, <1>4 DEF Sound, Ages
  <1> QED
    BY <1>3, <1>4

\* An Access Token loses its Family only with its Session or its Grant version.
LEMMA AccessLiveKept ==
  ASSUME Integrity, AccessLive, Sound
  PROVE  AccessLive'
  <1> SUFFICES ASSUME NEW a \in access'
               PROVE  /\ a.version <= grant'[a.grant].version
                      /\ \/ family'[a.family].status = "active"
                         \/ grant'[a.grant].version > a.version
                         \/ session'[a.session].status = "revoked"
    BY DEF AccessLive
  <1>1. a.version \in Nat /\ grant'[a.grant].version \in Nat
    BY DEF Sound, Integrity, TypeOK, AccessToken, GrantRow
  <1>2. CASE a \notin access
    BY <1>1, <1>2 DEF Sound, Freshness
  <1>3. CASE a \in access
    <2>1. /\ a.family \in Families /\ a.grant \in Grants /\ a.session \in Sessions
          /\ grant[a.grant].version \in Nat
      BY <1>3 DEF Integrity, TypeOK, AccessToken, GrantRow
    <2>2. /\ family[a.family].status # "absent" /\ family[a.family].grant = a.grant
          /\ grant[a.grant].status # "absent" /\ grant[a.grant].session = a.session
      BY <1>3 DEF Integrity, AccessRefs
    <2>3. grant'[a.grant].version >= grant[a.grant].version
      BY <2>1, <2>2 DEF Sound, Ages
    <2>4. family[a.family].status = "active" =>
            \/ family'[a.family].status = "active"
            \/ grant'[a.grant].version > grant[a.grant].version
            \/ session'[a.session].status = "revoked"
      BY <2>1, <2>2 DEF Sound, Ages
    <2>5. session[a.session].status = "revoked" => session'[a.session].status = "revoked"
      BY <2>1, RevokedStays
    <2> QED
      BY <1>1, <1>3, <2>1, <2>3, <2>4, <2>5 DEF AccessLive
  <1> QED
    BY <1>2, <1>3

-----------------------------------------------------------------------------
(***************************************************************************)
(* The invariant.                                                          *)
(***************************************************************************)
\* Every step is sound.
LEMMA NextSound ==
  ASSUME IInv, [Next]_vars
  PROVE  Sound
  <1>1. CASE UNCHANGED vars
    <2>1. Integrity'
      BY <1>1 DEF IInv, Integrity, TypeOK, TokenRefs, FamilyRefs, GrantRefs, AccessRefs, RequestRefs,
                  ResetRefs, vars
    <2> QED
      BY <1>1, <2>1, IdleRows DEF IInv, vars, rows
  <1>2. ASSUME NEW r \in Requests, RequestStep(r) PROVE Sound
    BY <1>2, CommitLoginSound, RotateSound, ReuseSound, LogoutSound, SwitchToNewGrantSound,
       SwitchToNewFamilySound, SwitchToLiveFamilySound, LookupsSound DEF RequestStep, IInv
  <1>3. CASE ResetStep
    BY <1>3, ResetProgressSound, CommitResetSound DEF ResetStep, IInv
  <1>4. CASE EnvironmentStep
    BY <1>4, EnvironmentSound DEF IInv
  <1> QED
    BY <1>1, <1>2, <1>3, <1>4 DEF Next

\* Only a login, a wrong password or a reset changes the credential, and each of
\* them raises its version or leaves the password alone; only a lookup puts a
\* login in flight.
LEMMA CredentialStep ==
  ASSUME IInv, [Next]_vars
  PROVE  /\ CommitReset \/ credential'.password = credential.password
         /\ \/ credential'.version = credential.version + 1
            \/ credential'.version = credential.version /\ credential'.password = credential.password
         /\ \A r \in Requests : request'[r].op = "login" =>
              \/ request'[r] = request[r]
              \/ /\ request'[r].credential = credential.version /\ request'[r].password = credential.password
                 /\ UNCHANGED credential
  <1> DEFINE Kept == \A r \in Requests : request'[r].op = "login" => request'[r] = request[r]
  <1>0. credential \in [version: Nat, password: Nat, failures: BOOLEAN] /\ DOMAIN request = Requests
    BY DEF IInv, Integrity, TypeOK
  <1>1. CASE UNCHANGED vars
    BY <1>1 DEF vars
  <1>2. ASSUME NEW r \in Requests, RequestStep(r)
        PROVE  /\ \/ credential'.version = credential.version + 1
                  \/ credential'.version = credential.version
               /\ credential'.password = credential.password
               /\ Kept \/ \E t \in Tenants : LookupLogin(r, t)
    <2>1. CASE CommitLogin(r)
      <3>1. Kept
        BY <2>1, <1>0 DEF CommitLogin, Finish, NoRequest
      <3>2. /\ credential'.version = IF credential.failures THEN credential.version + 1 ELSE credential.version
            /\ credential'.password = credential.password
        BY <2>1, <1>0 DEF CommitLogin
      <3> QED
        BY <3>1, <3>2
    <2>2. CASE \E t \in Tenants : LookupLogin(r, t)
      BY <2>2 DEF LookupLogin
    <2>3. CASE \E t \in Tokens : LookupRefresh(r, t) \/ LookupConsumedRefresh(r, t) \/ LookupLogout(r, t)
      BY <2>3, <1>0 DEF LookupRefresh, LookupConsumedRefresh, LookupLogout
    <2>4. CASE \E a \in access, t \in Tenants : LookupTenantSwitch(r, a, t)
      BY <2>4, <1>0 DEF LookupTenantSwitch
    <2>5. CASE RotateRefreshSession(r) \/ RevokeRefreshReuse(r) \/ LogoutSession(r) \/ AbandonRequest(r)
      <3>1. credential' = credential /\ request' = [request EXCEPT ![r] = NoRequest]
        <4>1. CASE RotateRefreshSession(r)
          BY <4>1 DEF RotateRefreshSession, Finish
        <4>2. CASE RevokeRefreshReuse(r) \/ AbandonRequest(r)
          BY <4>2 DEF RevokeRefreshReuse, AbandonRequest, Finish
        <4>3. CASE LogoutSession(r)
          BY <4>3 DEF LogoutSession, Finish
        <4> QED
          BY <2>5, <4>1, <4>2, <4>3
      <3> QED
        BY <3>1, <1>0 DEF NoRequest
    <2>6. CASE SwitchToNewGrant(r) \/ SwitchToNewFamily(r) \/ SwitchToLiveFamily(r)
      BY <2>6, <1>0 DEF SwitchToNewGrant, SwitchToNewFamily, SwitchToLiveFamily, SwitchTenant, Finish, NoRequest
    <2> QED
      BY <1>2, <2>1, <2>2, <2>3, <2>4, <2>5, <2>6 DEF RequestStep
  <1>3. ASSUME NEW r \in Requests, NEW t \in Tenants, LookupLogin(r, t), NEW x \in Requests
        PROVE  \/ request'[x] = request[x]
               \/ /\ request'[x].credential = credential.version /\ request'[x].password = credential.password
                  /\ UNCHANGED credential
    BY <1>3, <1>0 DEF LookupLogin
  <1>4. CASE \E r \in Requests : RequestStep(r)
    BY <1>2, <1>3, <1>4
  <1>5. CASE ResetStep
    <2>1. CASE CommitReset
      BY <2>1, <1>0 DEF CommitReset
    <2>2. CASE ~ CommitReset
      BY <2>2, <1>5 DEF ResetStep, BeginReset, ScanRows, HoldRows, RollbackReset
    <2> QED
      BY <2>1, <2>2
  <1>6. CASE EnvironmentStep
    BY <1>6, <1>0 DEF EnvironmentStep, RecordLoginFailure, ToggleBoundary, ReplaceMembership, Tick
  <1> QED
    BY <1>1, <1>4, <1>5, <1>6 DEF Next

\* Once the reset has listed the active Sessions no other one can appear.
LEMMA ResetCoversKept ==
  ASSUME IInv, Sound, [Next]_vars
  PROVE  ResetCovers'
  <1>1. DOMAIN session = Sessions /\ reset.stage \in 0..9 /\ reset \in ResetState
    BY DEF IInv, Integrity, TypeOK, ResetState
  <1>2. CASE reset' = reset
    BY <1>2 DEF IInv, ResetCovers, Sound, Ages, Freshness
  <1>3. CASE BeginReset \/ CommitReset \/ RollbackReset
    <2>1. NoReset.stage = 0 /\ [NoReset EXCEPT !.stage = 1].stage = 1
      BY DEF NoReset
    <2>2. reset' = NoReset \/ reset' = [NoReset EXCEPT !.stage = 1]
      <3>1. CASE BeginReset
        BY <3>1 DEF BeginReset
      <3>2. CASE CommitReset
        BY <3>2 DEF CommitReset
      <3>3. CASE RollbackReset
        BY <3>3 DEF RollbackReset
      <3> QED
        BY <1>3, <3>1, <3>2, <3>3
    <2>3. reset'.stage \in {0, 1}
      BY <2>1, <2>2
    <2> QED
      BY <2>3 DEF ResetCovers
  <1>4. CASE ScanRows
    <2>1. session' = session
      BY <1>4 DEF ScanRows, rows
    <2>2. \/ reset'.stage \in {2, 4, 6}
          \/ reset'.stage = 8 /\ reset'.sessions = StillActive(session, Sessions)
      BY <1>1, <1>4 DEF ScanRows, ResetState
    <2> QED
      BY <2>1, <2>2 DEF ResetCovers, StillActive
  <1>5. CASE HoldRows
    <2>1. session' = session
      BY <1>5 DEF HoldRows, rows
    <2>2. \/ reset'.stage \in {3, 5, 7}
          \/ /\ reset.stage = 8 /\ reset'.stage = 9
             /\ reset'.sessions = StillActive(session, reset.sessions)
      BY <1>1, <1>5 DEF HoldRows, ResetState
    <2> QED
      BY <2>1, <2>2 DEF IInv, ResetCovers, StillActive
  <1>6. reset' = reset \/ ResetStep
    <2>1. ASSUME NEW r \in Requests, RequestStep(r) PROVE reset' = reset
      <3>1. CASE RotateRefreshSession(r)
        BY <3>1 DEF RotateRefreshSession
      <3>2. CASE LogoutSession(r)
        BY <3>2 DEF LogoutSession
      <3>3. CASE SwitchToNewGrant(r) \/ SwitchToNewFamily(r) \/ SwitchToLiveFamily(r)
        BY <3>3 DEF SwitchToNewGrant, SwitchToNewFamily, SwitchToLiveFamily, SwitchTenant
      <3>4. CASE CommitLogin(r)
        BY <3>4 DEF CommitLogin
      <3>5. CASE \E a \in access, t \in Tenants : LookupTenantSwitch(r, a, t)
        BY <3>5 DEF LookupTenantSwitch
      <3> QED
        BY <2>1, <3>1, <3>2, <3>3, <3>4, <3>5
           DEF RequestStep, LookupLogin, LookupRefresh, LookupConsumedRefresh, LookupLogout,
               RevokeRefreshReuse, AbandonRequest
    <2>2. CASE EnvironmentStep
      BY <2>2 DEF EnvironmentStep, RecordLoginFailure, ToggleBoundary, ReplaceMembership, Tick
    <2> QED
      BY <2>1, <2>2 DEF Next, vars
  <1> QED
    BY <1>2, <1>3, <1>4, <1>5, <1>6 DEF ResetStep

\* The three parts of an inductive invariant.
LEMMA IInvInit == Init => IInv
  <1> SUFFICES ASSUME Init PROVE IInv
    OBVIOUS
  <1>1. Integrity
    BY InitIntegrity
  <1>2. OneActiveLineage /\ GrantEndsWithSession /\ AccessLive /\ ActiveSessionHasCurrentPassword
    BY DEF Init, OneActiveLineage, GrantEndsWithSession, AccessLive, ActiveSessionHasCurrentPassword
  <1>3. ResetCovers /\ LoginsCurrent
    BY DEF Init, ResetCovers, LoginsCurrent, NoReset, NoRequest
  <1> QED
    BY <1>1, <1>2, <1>3 DEF IInv

\* Every step keeps the invariant.
LEMMA IInvStep == IInv /\ [Next]_vars => IInv'
  <1> SUFFICES ASSUME IInv, [Next]_vars PROVE IInv'
    OBVIOUS
  <1>1. Sound
    BY NextSound
  <1>2. Integrity' /\ OneActiveLineage' /\ GrantEndsWithSession' /\ AccessLive'
    BY <1>1, LineageKept, GrantEndsKept, AccessLiveKept DEF IInv, Sound
  <1>3. ResetCovers'
    BY <1>1, ResetCoversKept
  <1>4. LoginsCurrent'
    <2> SUFFICES ASSUME NEW r \in Requests, request'[r].op = "login"
                 PROVE  /\ request'[r].credential <= credential'.version
                        /\ request'[r].credential = credential'.version => request'[r].password = credential'.password
      BY DEF LoginsCurrent
    <2>1. credential.version \in Nat /\ request'[r].credential \in Nat
      <3>1. request'[r] \in LoginRequest
        <4>1. request'[r] \in {NoRequest} \cup LoginRequest \cup RefreshRequest
                              \cup ReuseRequest \cup LogoutRequest \cup SwitchRequest
          BY <1>2 DEF Integrity, TypeOK
        <4> QED
          BY <4>1 DEF NoRequest, LoginRequest, RefreshRequest, ReuseRequest, LogoutRequest, SwitchRequest
      <3> QED
        BY <3>1 DEF IInv, Integrity, TypeOK, LoginRequest
    <2>2. CASE request'[r] = request[r]
      BY <2>1, <2>2, CredentialStep DEF IInv, LoginsCurrent
    <2>3. CASE /\ request'[r].credential = credential.version /\ request'[r].password = credential.password
               /\ UNCHANGED credential
      BY <2>1, <2>3
    <2> QED
      BY <2>2, <2>3, CredentialStep
  <1>5. ActiveSessionHasCurrentPassword'
    <2>1. CASE CommitReset
      BY <2>1, CommitResetSound DEF IInv, ActiveSessionHasCurrentPassword
    <2>2. CASE ~ CommitReset
      <3>1. credential'.password = credential.password
        BY <2>2, CredentialStep
      <3> QED
        BY <3>1, <1>1 DEF IInv, ActiveSessionHasCurrentPassword, Sound, Ages, Freshness
    <2> QED
      BY <2>1, <2>2
  <1> QED
    BY <1>2, <1>3, <1>4, <1>5 DEF IInv

\* The invariant holds in every reachable state.
THEOREM Invariance == Spec => []IInv
  BY IInvInit, IInvStep, PTL DEF Spec

\* Rows, requests and the reset in progress always have the types the code declares.
THEOREM Types == Spec => []TypeOK
  <1>1. IInv => TypeOK
    BY DEF IInv, Integrity
  <1> QED
    BY <1>1, Invariance, PTL

\* The partial unique indexes on active Grants, Families and Refresh Tokens never
\* fire, for any number of Sessions, Tenants and concurrent requests.
THEOREM Uniqueness == Spec => []OneActiveLineage
  <1>1. IInv => OneActiveLineage
    BY DEF IInv
  <1> QED
    BY <1>1, Invariance, PTL

\* CheckPermission accepts no Access Token whose Refresh Token Family was revoked by
\* reuse detection, logout or reset, although it never reads the Family.
THEOREM RevocationReachesAccess == Spec => []AcceptedAccessHasLiveFamily
  <1>1. IInv => AcceptedAccessHasLiveFamily
    <2> SUFFICES ASSUME IInv, NEW a \in access, Authorized(a)
                 PROVE  family[a.family].status = "active"
      BY DEF AcceptedAccessHasLiveFamily
    <2>1. /\ session[a.session].status = "active" /\ grant[a.grant].version = a.version
          /\ a.version \in Nat
      BY DEF Authorized, IInv, Integrity, TypeOK, AccessToken
    <2> QED
      BY <2>1 DEF IInv, AccessLive
  <1> QED
    BY <1>1, Invariance, PTL

\* Reuse detection at one boundary never ends the Grant of another one.
THEOREM GrantLifetime == Spec => []GrantEndsWithSession
  <1>1. IInv => GrantEndsWithSession
    BY DEF IInv
  <1> QED
    BY <1>1, Invariance, PTL

\* Completing a reset ends every Session opened with the old password, also one whose
\* login was in flight when the reset began.
THEOREM ResetEndsSessions == Spec => []ActiveSessionHasCurrentPassword
  <1>1. IInv => ActiveSessionHasCurrentPassword
    BY DEF IInv
  <1> QED
    BY <1>1, Invariance, PTL


-----------------------------------------------------------------------------
(***************************************************************************)
(* What becomes of the rows of a Session over time: no row comes back, a   *)
(* Refresh Token has one successor, a logout leaves nothing behind, an     *)
(* Access Token does not outlive its Session, and a boundary that closed   *)
(* hands out no more Tokens.                                               *)
(*                                                                         *)
(* The reset is what makes this hard: it revokes at its end the rows that  *)
(* its statements found and locked long before, without looking again.     *)
(* HeldActive says that nobody changed them since.  The deadlines rest on  *)
(* the bounded time a request takes (Timely).                              *)
(***************************************************************************)

\* The rows the reset has locked are active until it ends.
HeldActive ==
    /\ \A t \in HeldTokens : token[t].status = "active"
    /\ \A f \in HeldFamilies : family[f].status = "active"
    /\ \A g \in HeldGrants : grant[g].status = "active"
    /\ \A s \in HeldSessions : session[s].status = "active"

\* What a row that was never written, or a logout, says.
Blank ==
    /\ \A s \in Sessions : session[s].status = "absent" => session[s].version = 0
    /\ \A g \in Grants : grant[g].status = "absent" => grant[g].version = 0 /\ grant[g].session = None
    /\ \A s \in Sessions : session[s].ended = "logout" => session[s].status = "revoked"

\* Clock readings are of the past, and an Access Token is over before its Session.
Timely ==
    /\ \A r \in Requests : request[r].op \in {"login", "refresh", "switch"} => request[r].at <= now
    /\ \A a \in access :
         /\ a.expires <= session[a.session].idle /\ a.expires <= session[a.session].absolute
         /\ a.expires <= now + AccessLifetime

HInv == HeldActive /\ Blank /\ Timely /\ RotationIsLinear /\ LogoutLeavesNoResidue

-----------------------------------------------------------------------------
(***************************************************************************)
(* What a step may do to a row.                                            *)
(***************************************************************************)
LiveGrant(g) == session[grant[g].session].status = "active"

TokenChanges ==
    /\ \A t \in Tokens :
         \/ token'[t] = token[t]
         \/ /\ token[t].status = "absent" /\ token'[t].status = "active" /\ token'[t].replacedBy = None
            /\ LiveGrant(family[token[t].family].grant)'
         \/ /\ token[t].status = "active" /\ token'[t].status = "revoked"
            /\ token'[t].replacedBy = token[t].replacedBy
         \/ /\ token[t].status = "active" /\ token'[t].status = "consumed"
            /\ token'[t].replacedBy \in Tokens
            /\ token[token'[t].replacedBy].status = "absent"
            /\ token'[token'[t].replacedBy].status = "active"
            /\ token'[token'[t].replacedBy].family = token[t].family
    /\ \A t, u \in Tokens :
         /\ token[t].status = "active" /\ token'[t].status = "consumed"
         /\ token[u].status = "active" /\ token'[u].status = "consumed"
         => t = u

FamilyChanges ==
    \A f \in Families :
        \/ family'[f] = family[f]
        \/ family[f].status = "absent" /\ family'[f].status = "active" /\ LiveGrant(family[f].grant)'
        \/ family[f].status = "active" /\ family'[f].status = "revoked"

GrantChanges ==
    \A g \in Grants :
        \/ grant'[g] = grant[g]
        \/ grant[g].status = "absent" /\ grant'[g].status = "active" /\ grant'[g].version = 1 /\ LiveGrant(g)'
        \/ grant[g].status = "active" /\ grant'[g].version = grant[g].version + 1

NoResidue(s) ==
    /\ \A g \in Grants : grant[g].session = s => grant[g].status = "revoked"
    /\ \A f \in Families : family[f].status = "active" => grant[family[f].grant].session # s
    /\ \A t \in Tokens : token[t].status = "active" => SessionOf(t) # s

SessionChanges ==
    \A s \in Sessions :
        \/ session'[s] = session[s]
        \/ /\ session[s].status = "absent" /\ session'[s].status = "active"
           /\ session'[s].version = 1 /\ session'[s].ended = "no"
        \/ /\ session[s].status = "active" /\ session'[s].version = session[s].version + 1
           /\ session'[s].absolute = session[s].absolute
           /\ \/ session'[s].idle = session[s].idle
              \/ Earliest(now + AccessLifetime, session[s].absolute) <= session'[s].idle
           /\ \/ session'[s].status = "active" /\ session'[s].ended = session[s].ended
              \/ session'[s].status = "revoked" /\ (session'[s].ended = "logout" => NoResidue(s)')

AccessChanges ==
    \A a \in access' \ access :
        /\ a.expires <= session'[a.session].idle /\ a.expires <= session'[a.session].absolute
        /\ a.expires <= now + AccessLifetime

MintsOpen == \A t \in Minted : boundary[grant'[family'[token'[t].family].grant].tenant].open

Careful ==
    TokenChanges /\ FamilyChanges /\ GrantChanges /\ SessionChanges /\ AccessChanges /\ MintsOpen

KeepsHeld ==
    /\ \A t \in HeldTokens : token'[t].status = "active"
    /\ \A f \in HeldFamilies : family'[f].status = "active"
    /\ \A g \in HeldGrants : grant'[g].status = "active"
    /\ \A s \in HeldSessions : session'[s].status = "active"

-----------------------------------------------------------------------------
(***************************************************************************)
(* What careful steps preserve.                                            *)
(***************************************************************************)
\* Rows only age.
LEMMA RowsAged ==
  ASSUME Integrity, Blank, Careful
  PROVE  /\ \A s \in Sessions : /\ session'[s].version >= session[s].version
                                /\ session[s].status = "revoked" => session'[s] = session[s]
         /\ \A g \in Grants : /\ grant'[g].version >= grant[g].version
                              /\ grant[g].status = "revoked" => grant'[g] = grant[g]
         /\ \A f \in Families : family[f].status = "revoked" => family'[f] = family[f]
         /\ \A t \in Tokens : token[t].status \in {"consumed", "revoked"} => token'[t] = token[t]
  <1>1. /\ \A s \in Sessions : session[s].version \in Nat
        /\ \A g \in Grants : grant[g].version \in Nat
    BY DEF Integrity, TypeOK, SessionRow, GrantRow
  <1>2. \A s \in Sessions : /\ session'[s].version >= session[s].version
                            /\ session[s].status = "revoked" => session'[s] = session[s]
    BY <1>1 DEF Careful, SessionChanges, Blank
  <1>3. \A g \in Grants : /\ grant'[g].version >= grant[g].version
                          /\ grant[g].status = "revoked" => grant'[g] = grant[g]
    BY <1>1 DEF Careful, GrantChanges, Blank
  <1>4. \A f \in Families : family[f].status = "revoked" => family'[f] = family[f]
    BY DEF Careful, FamilyChanges
  <1>5. \A t \in Tokens : token[t].status \in {"consumed", "revoked"} => token'[t] = token[t]
    BY DEF Careful, TokenChanges
  <1> QED
    BY <1>2, <1>3, <1>4, <1>5

\* A Token that is consumed gets the Token that is new.
LEMMA RotationKept ==
  ASSUME Integrity, RotationIsLinear, Sound, TokenChanges
  PROVE  RotationIsLinear'
  <1>0. \A t \in Tokens : /\ token[t].replacedBy \in Tokens \cup {None}
                          /\ token[t].status \in {"absent", "active", "revoked", "consumed"}
    BY DEF Integrity, TypeOK, TokenRow, RowStatus
  <1>1. \A t \in Tokens : token[t].status # "absent" =>
          token'[t].status # "absent" /\ token'[t].family = token[t].family
    BY DEF Sound, Grows
  <1>2. \A t \in Tokens : token[t].status = "consumed" =>
          token[t].replacedBy \in Tokens /\ token'[t] = token[t]
    BY <1>0 DEF RotationIsLinear, TokenChanges
  <1>3. ASSUME NEW t \in Tokens
        PROVE  IF token'[t].status = "consumed"
               THEN /\ token'[t].replacedBy # None
                    /\ token'[token'[t].replacedBy].status # "absent"
                    /\ token'[token'[t].replacedBy].family = token'[t].family
               ELSE token'[t].replacedBy = None
    <2>1. CASE token[t].status = "consumed"
      BY <2>1, <1>1, <1>2 DEF RotationIsLinear
    <2>2. CASE token[t].status # "consumed"
      BY <2>2, <1>1, NoneAssumption DEF RotationIsLinear, TokenChanges
    <2> QED
      BY <2>1, <2>2
  <1>4. ASSUME NEW t \in Tokens, NEW u \in Tokens,
               token'[t].replacedBy = token'[u].replacedBy, token'[t].replacedBy # None
        PROVE  t = u
    <2>1. token'[t].status = "consumed" /\ token'[u].status = "consumed"
      BY <1>3, <1>4
    <2>2. ASSUME NEW x \in Tokens, token'[x].status = "consumed"
          PROVE  \/ token[x].status = "consumed" /\ token'[x] = token[x]
                    /\ token[token'[x].replacedBy].status # "absent"
                 \/ token[x].status = "active" /\ token[token'[x].replacedBy].status = "absent"
      BY <2>2, <1>2 DEF TokenChanges, RotationIsLinear
    <2> QED
      BY <2>1, <2>2, <1>4 DEF TokenChanges, RotationIsLinear
  <1> QED
    BY <1>3, <1>4 DEF RotationIsLinear

\* Nothing is added to a Session that is over.
LEMMA ResidueKept ==
  ASSUME Integrity, Blank, LogoutLeavesNoResidue, Sound, Careful
  PROVE  LogoutLeavesNoResidue'
  <1> SUFFICES ASSUME NEW s \in Sessions, session'[s].ended = "logout" PROVE NoResidue(s)'
    BY DEF LogoutLeavesNoResidue, NoResidue
  <1>1. CASE session'[s] # session[s]
    BY <1>1 DEF Careful, SessionChanges, Blank
  <1>2. CASE session'[s] = session[s]
    <2>1. /\ session[s].status = "revoked" /\ session'[s].status = "revoked" /\ NoResidue(s)
      BY <1>2 DEF Blank, LogoutLeavesNoResidue, NoResidue
    <2>2. ASSUME NEW g \in Grants, grant'[g].session = s PROVE grant'[g].status = "revoked"
      <3>1. CASE grant'[g] = grant[g]
        BY <3>1, <2>1, <2>2 DEF NoResidue
      <3>2. CASE grant[g].status = "absent" /\ LiveGrant(g)'
        BY <3>2, <2>1, <2>2 DEF LiveGrant
      <3>3. CASE grant[g].status = "active"
        BY <3>3, <2>1, <2>2 DEF NoResidue, Sound, Grows
      <3> QED
        BY <3>1, <3>2, <3>3 DEF Careful, GrantChanges
    <2>3. ASSUME NEW f \in Families, family'[f].status = "active"
          PROVE  grant'[family'[f].grant].session # s
      <3>1. CASE family[f].status = "absent"
        <4>1. LiveGrant(family[f].grant)'
          BY <3>1, <2>3 DEF Careful, FamilyChanges
        <4> QED
          BY <4>1, <2>1 DEF LiveGrant
      <3>2. CASE family[f].status # "absent"
        <4>1. family[f].status = "active" /\ family[f].grant \in Grants /\ family'[f].grant = family[f].grant
              /\ grant[family[f].grant].status # "absent"
          BY <3>2, <2>3 DEF Sound, Ages, Grows, Integrity, FamilyRefs
        <4> QED
          BY <4>1, <2>1 DEF NoResidue, Sound, Grows
      <3> QED
        BY <3>1, <3>2
    <2>4. ASSUME NEW t \in Tokens, token'[t].status = "active"
          PROVE  SessionOf(t)' # s
      <3>1. CASE token[t].status = "absent"
        <4>1. LiveGrant(family[token[t].family].grant)'
          BY <3>1, <2>4 DEF Careful, TokenChanges
        <4> QED
          BY <4>1, <2>1 DEF LiveGrant, SessionOf, GrantOf
      <3>2. CASE token[t].status # "absent"
        <4>1. token[t].status = "active" /\ token'[t].family = token[t].family
          BY <3>2, <2>4 DEF Sound, Ages, Grows
        <4>2. /\ token[t].family \in Families /\ family[token[t].family].status # "absent"
              /\ GrantOf(t) \in Grants /\ grant[GrantOf(t)].status # "absent"
          BY <4>1, Lineage
        <4>3. family'[token[t].family].grant = GrantOf(t) /\ grant'[GrantOf(t)].session = SessionOf(t)
          BY <4>2 DEF Sound, Grows, GrantOf, SessionOf
        <4> QED
          BY <4>1, <4>3, <2>1 DEF NoResidue, SessionOf, GrantOf
      <3> QED
        BY <3>1, <3>2
    <2> QED
      BY <2>2, <2>3, <2>4 DEF NoResidue
  <1> QED
    BY <1>1, <1>2

\* Rows that do not exist are blank, and only a Session that ends says why.
LEMMA BlankKept ==
  ASSUME Integrity, Blank, Sound, Careful
  PROVE  Blank'
  <1>1. \A s \in Sessions : session'[s].status = "absent" => session'[s].version = 0
    BY DEF Blank, Careful, SessionChanges
  <1>2. ASSUME NEW g \in Grants, grant'[g].status = "absent"
        PROVE  grant'[g].version = 0 /\ grant'[g].session = None
    BY <1>2 DEF Blank, Careful, GrantChanges, Sound, Grows
  <1>3. \A s \in Sessions : session'[s].ended = "logout" => session'[s].status = "revoked"
    BY DEF Blank, Careful, SessionChanges
  <1> QED
    BY <1>1, <1>2, <1>3 DEF Blank

\* A deadline that moves stays behind every Access Token there is.
LEMMA DeadlinesKept ==
  ASSUME Integrity, Timely, Sound, Careful, now' \in Nat, now <= now'
  PROVE  \A a \in access' :
           /\ a.expires <= session'[a.session].idle /\ a.expires <= session'[a.session].absolute
           /\ a.expires <= now' + AccessLifetime
  <1> SUFFICES ASSUME NEW a \in access'
               PROVE  /\ a.expires <= session'[a.session].idle /\ a.expires <= session'[a.session].absolute
                      /\ a.expires <= now' + AccessLifetime
    OBVIOUS
  <1>1. a.expires \in Nat /\ a.session \in Sessions /\ now \in Nat /\ AccessLifetime \in Nat
    BY LifetimeAssumption DEF Sound, Integrity, TypeOK, AccessToken
  <1>2. /\ session[a.session].idle \in Nat /\ session[a.session].absolute \in Nat
        /\ session'[a.session].idle \in Nat /\ session'[a.session].absolute \in Nat
    BY <1>1 DEF Sound, Integrity, TypeOK, SessionRow
  <1>3. CASE a \notin access
    BY <1>1, <1>3 DEF Careful, AccessChanges
  <1>4. CASE a \in access
    <2>1. session[a.session].status # "absent"
      <3>1. a.grant \in Grants
        BY <1>4 DEF Integrity, TypeOK, AccessToken
      <3> QED
        BY <1>4, <3>1 DEF Integrity, AccessRefs, GrantRefs
    <2>2. /\ a.expires <= session[a.session].idle /\ a.expires <= session[a.session].absolute
          /\ a.expires <= now + AccessLifetime
      BY <1>4 DEF Timely
    <2>3. /\ session'[a.session].absolute = session[a.session].absolute
          /\ \/ session'[a.session].idle = session[a.session].idle
             \/ Earliest(now + AccessLifetime, session[a.session].absolute) <= session'[a.session].idle
      BY <1>1, <2>1 DEF Careful, SessionChanges
    <2> QED
      BY <1>1, <1>2, <2>2, <2>3 DEF Earliest
  <1> QED
    BY <1>3, <1>4

-----------------------------------------------------------------------------
(***************************************************************************)
(* The rows and deadlines of a step.                                       *)
(***************************************************************************)
\* A refresh or switch that commits in time moves the idle deadline behind the
\* Access Tokens that are out, and hands out one that is over before it.
LEMMA DeadlineMoves ==
  ASSUME NEW at \in Nat, NEW absolute \in Nat, now \in Nat, at <= now, now - at <= MaxStall
  PROVE  /\ Earliest(now + AccessLifetime, absolute) <= sessionIdleDeadline(at, absolute)
         /\ sessionAccessDeadline(at, absolute) <= sessionIdleDeadline(at, absolute)
         /\ sessionAccessDeadline(at, absolute) <= absolute
         /\ sessionAccessDeadline(at, absolute) <= now + AccessLifetime
  BY LifetimeAssumption DEF Earliest, sessionIdleDeadline, sessionAccessDeadline

\* What a refresh or switch does to its Session, and to no other.
LEMMA SessionMoved ==
  ASSUME TypeOK, NEW s \in Sessions, NEW idle \in Nat,
         session' = [session EXCEPT ![s].version = @ + 1, ![s].idle = idle],
         session[s].status = "active", Earliest(now + AccessLifetime, session[s].absolute) <= idle
  PROVE  /\ session'[s].status = "active" /\ session'[s].idle = idle
         /\ session'[s].absolute = session[s].absolute
         /\ \A x \in Sessions : session'[x].status = session[x].status
         /\ SessionChanges
  <1> DEFINE moved == [session[s] EXCEPT !.version = session[s].version + 1, !.idle = idle]
  <1>1. session \in [Sessions -> SessionRow]
    BY DEF TypeOK
  <1>2. session' = [session EXCEPT ![s] = moved]
    BY <1>1
  <1>3. /\ moved.version = session[s].version + 1 /\ moved.idle = idle
        /\ moved.absolute = session[s].absolute /\ moved.status = session[s].status
        /\ moved.ended = session[s].ended
    BY <1>1 DEF SessionRow
  <1> HIDE DEF moved
  <1>4. session'[s] = moved /\ \A x \in Sessions \ {s} : session'[x] = session[x]
    BY <1>1, <1>2
  <1> QED
    BY <1>3, <1>4 DEF SessionChanges

\* Revoking changes the rows it names and no others.
LEMMA TokensRevoked ==
  ASSUME TypeOK, NEW ts \in SUBSET Tokens, token' = RevokeTokens(ts),
         \A t \in ts : token[t].status = "active"
  PROVE  TokenChanges
  <1>1. \A t \in Tokens : /\ t \notin ts => token'[t] = token[t]
                          /\ t \in ts => /\ token'[t].status = "revoked"
                                         /\ token'[t].replacedBy = token[t].replacedBy
    BY RevokedTokens DEF RevokeTokens
  <1> QED
    BY <1>1 DEF TokenChanges

\* The same for Families.
LEMMA FamiliesRevoked ==
  ASSUME TypeOK, NEW fs \in SUBSET Families, family' = RevokeRows(family, fs),
         \A f \in fs : family[f].status = "active"
  PROVE  FamilyChanges
  <1>1. \A f \in Families : /\ f \notin fs => family'[f] = family[f]
                            /\ f \in fs => family'[f].status = "revoked"
    <2>1. DOMAIN family = Families
      BY DEF TypeOK
    <2>2. \A f \in Families : f \notin fs => family'[f] = family[f]
      BY <2>1 DEF RevokeRows
    <2> QED
      BY <2>2, RevokedFamilies
  <1> QED
    BY <1>1 DEF FamilyChanges

\* The same for Grants.
LEMMA GrantsRevoked ==
  ASSUME TypeOK, NEW gs \in SUBSET Grants, grant' = RevokeRows(grant, gs),
         \A g \in gs : grant[g].status = "active"
  PROVE  GrantChanges
  <1>1. \A g \in Grants : /\ g \notin gs => grant'[g] = grant[g]
                          /\ g \in gs => grant'[g].version = grant[g].version + 1
    <2>1. DOMAIN grant = Grants
      BY DEF TypeOK
    <2>2. \A g \in Grants : g \notin gs => grant'[g] = grant[g]
      BY <2>1 DEF RevokeRows
    <2> QED
      BY <2>2, RevokedGrants
  <1> QED
    BY <1>1 DEF GrantChanges

\* A step that changes no row and hands out nothing.
LEMMA IdleCareful ==
  ASSUME HeldActive, UNCHANGED <<rows, access>>
  PROVE  Careful /\ KeepsHeld
  <1>1. TokenChanges /\ FamilyChanges /\ GrantChanges /\ SessionChanges /\ AccessChanges
    BY DEF rows, TokenChanges, FamilyChanges, GrantChanges, SessionChanges, AccessChanges
  <1>2. Minted = {}
    BY DEF Minted, rows
  <1>3. KeepsHeld
    BY DEF HeldActive, KeepsHeld, rows
  <1> QED
    BY <1>1, <1>2, <1>3 DEF Careful, MintsOpen

-----------------------------------------------------------------------------
(***************************************************************************)
(* One lemma per action that changes rows.                                 *)
(***************************************************************************)
\* A login adds rows while no reset runs, and is not asked for its boundary again.
LEMMA CommitLoginCareful ==
  ASSUME Integrity, Timely, NEW r \in Requests, CommitLogin(r)
  PROVE  Careful /\ KeepsHeld
  <1> DEFINE q == request[r]
  <1>1. q \in LoginRequest /\ q.at \in Nat /\ q.at <= now /\ now \in Nat
    BY RequestShape DEF Integrity, TypeOK, CommitLogin, LoginRequest, Timely
  <1>2. PICK s \in Sessions, g \in Grants, f \in Families, t \in Tokens :
         /\ Unused(session, s) /\ Unused(grant, g) /\ Unused(family, f) /\ Unused(token, t)
         /\ session' = [session EXCEPT ![s] =
                          [status |-> "active", version |-> 1, idle |-> q.at + IdleLifetime,
                           absolute |-> q.at + AbsoluteLifetime, opened |-> q.password,
                           ended |-> "no"]]
         /\ grant' = [grant EXCEPT ![g] =
                        [status |-> "active", version |-> 1, session |-> s,
                         tenant |-> q.tenant, membership |-> q.membership]]
         /\ family' = [family EXCEPT ![f] = NewFamilyRow(g)]
         /\ token' = [token EXCEPT ![t] = NewTokenRow(f)]
         /\ access' = access \cup {[session |-> s, grant |-> g, tenant |-> q.tenant, version |-> 1,
                                    expires |-> q.at + AccessLifetime, family |-> f]}
    BY DEF CommitLogin
  <1>3. /\ session[s].status = "absent" /\ grant[g].status = "absent"
        /\ family[f].status = "absent" /\ token[t].status = "absent"
    BY <1>2 DEF Unused
  <1>4. /\ \A x \in Sessions \ {s} : session'[x] = session[x]
        /\ \A x \in Grants \ {g} : grant'[x] = grant[x]
        /\ \A x \in Families \ {f} : family'[x] = family[x]
        /\ \A x \in Tokens \ {t} : token'[x] = token[x]
        /\ session'[s].status = "active" /\ session'[s].version = 1 /\ session'[s].ended = "no"
        /\ session'[s].idle = q.at + IdleLifetime /\ session'[s].absolute = q.at + AbsoluteLifetime
        /\ grant'[g].status = "active" /\ grant'[g].session = s /\ grant'[g].version = 1
        /\ family'[f].status = "active" /\ family'[f].grant = g
        /\ token'[t].status = "active" /\ token'[t].family = f /\ token'[t].replacedBy = None
    BY <1>2 DEF Integrity, TypeOK, NewFamilyRow, NewTokenRow
  <1>5. LiveGrant(g)' /\ LiveGrant(family[f].grant)' /\ LiveGrant(family[token[t].family].grant)'
    BY <1>4 DEF LiveGrant
  <1>6. TokenChanges
    BY <1>3, <1>4, <1>5 DEF TokenChanges
  <1>7. FamilyChanges /\ GrantChanges
    BY <1>3, <1>4, <1>5 DEF FamilyChanges, GrantChanges
  <1>8. SessionChanges
    BY <1>3, <1>4 DEF SessionChanges
  <1>9. AccessChanges
    <2> SUFFICES ASSUME NEW a \in access' \ access
                 PROVE  /\ a.expires <= session'[a.session].idle /\ a.expires <= session'[a.session].absolute
                        /\ a.expires <= now + AccessLifetime
      BY DEF AccessChanges
    <2>1. a.session = s /\ a.expires = q.at + AccessLifetime
      BY <1>2
    <2> HIDE DEF q
    <2> QED
      BY <2>1, <1>1, <1>4, LifetimeAssumption
  <1>10. MintsOpen
    <2>1. q.op = "login" /\ request'[r] = NoRequest
      BY DEF CommitLogin, Finish, Integrity, TypeOK
    <2> QED
      BY <2>1 DEF MintsOpen, Minted
  <1>11. KeepsHeld
    BY DEF CommitLogin, KeepsHeld, HeldTokens, HeldFamilies, HeldGrants, HeldSessions
  <1> QED
    BY <1>6, <1>7, <1>8, <1>9, <1>10, <1>11 DEF Careful

\* A refresh checks the boundary and the locks when it commits.
LEMMA RotateCareful ==
  ASSUME Integrity, HeldActive, Timely, NEW r \in Requests, RotateRefreshSession(r)
  PROVE  Careful /\ KeepsHeld
  <1> DEFINE q == request[r]
             f == token[q.token].family
             g == family[f].grant
             s == grant[g].session
             idle == sessionIdleDeadline(q.at, session[s].absolute)
             expires == sessionAccessDeadline(q.at, session[s].absolute)
  <1>1. q \in RefreshRequest
    BY RequestShape DEF Integrity, RotateRefreshSession
  <1>2. /\ q.token \in Tokens /\ q.at \in Nat /\ now \in Nat
        /\ q.at <= now /\ now - q.at <= MaxStall
    BY <1>1 DEF RefreshRequest, Integrity, TypeOK, Timely, RotateRefreshSession, InTime
  <1>3. /\ token[q.token].status = "active" /\ session[s].status = "active"
        /\ boundary[grant[g].tenant].open
    BY DEF RotateRefreshSession, validateLockedActiveRefresh, validateActiveRefreshState, BoundaryOpen
  <1>4. f \in Families /\ g \in Grants /\ s \in Sessions
    BY <1>2, <1>3, Lineage DEF GrantOf, SessionOf
  <1>5. PICK t \in Tokens : Unused(token, t) /\ token' = ConsumeRefreshToken(q.token, t)
    BY DEF RotateRefreshSession
  <1>6. token[t].status = "absent"
    BY <1>5 DEF Unused
  <1>7. session[s].absolute \in Nat
    BY <1>4 DEF Integrity, TypeOK, SessionRow
  <1>8. /\ idle \in Nat /\ expires \in Nat
        /\ Earliest(now + AccessLifetime, session[s].absolute) <= idle
        /\ expires <= idle /\ expires <= session[s].absolute /\ expires <= now + AccessLifetime
    BY <1>2, <1>7, Deadlines, DeadlineMoves
  <1>9. /\ session' = [session EXCEPT ![s].version = @ + 1, ![s].idle = idle]
        /\ access' = access \cup {[session |-> s, grant |-> g, tenant |-> grant[g].tenant,
                                   version |-> q.grantVersion, family |-> f, expires |-> expires]}
        /\ UNCHANGED <<grant, family>>
        /\ q.token \notin HeldTokens
    BY DEF RotateRefreshSession, Unlocked
  <1>10. f = token[q.token].family /\ family[f].grant = g /\ grant[g].session = s
    OBVIOUS
  <1> HIDE DEF f, g, s, idle, expires, q
  <1>11. /\ token'[t].status = "active" /\ token'[t].family = f /\ token'[t].replacedBy = None
         /\ token'[q.token].status = "consumed" /\ token'[q.token].replacedBy = t
         /\ \A x \in Tokens \ {t, q.token} : token'[x] = token[x]
    BY <1>2, <1>3, <1>5, <1>6, <1>10, Consuming
  <1>12. /\ session'[s].status = "active" /\ session'[s].idle = idle
         /\ session'[s].absolute = session[s].absolute
         /\ \A x \in Sessions : session'[x].status = session[x].status
         /\ SessionChanges
    <2>1. TypeOK
      BY DEF Integrity
    <2> QED
      BY <2>1, <1>3, <1>4, <1>8, <1>9, SessionMoved
  <1>13. TokenChanges
    <2>1. LiveGrant(family[token[t].family].grant)'
      BY <1>9, <1>10, <1>11, <1>12 DEF LiveGrant
    <2> QED
      BY <2>1, <1>2, <1>3, <1>6, <1>10, <1>11 DEF TokenChanges
  <1>14. FamilyChanges /\ GrantChanges
    BY <1>9 DEF FamilyChanges, GrantChanges
  <1>15. AccessChanges
    <2>1. \A a \in access' \ access : a.session = s /\ a.expires = expires
      BY <1>9
    <2> QED
      BY <2>1, <1>8, <1>12 DEF AccessChanges
  <1>16. MintsOpen
    <2>1. \A x \in Minted : x = t
      BY <1>3, <1>11 DEF Minted
    <2> QED
      BY <2>1, <1>3, <1>9, <1>10, <1>11 DEF MintsOpen
  <1>17. KeepsHeld
    <2>1. \A x \in HeldTokens : x \in Tokens
      BY DEF HeldTokens, Integrity, TypeOK, ResetState
    <2>2. \A x \in HeldSessions : x \in Sessions
      BY DEF HeldSessions, Integrity, TypeOK, ResetState
    <2> QED
      BY <2>1, <2>2, <1>6, <1>9, <1>11, <1>12 DEF KeepsHeld, HeldActive
  <1> QED
    BY <1>12, <1>13, <1>14, <1>15, <1>16, <1>17 DEF Careful

\* Reuse detection ends an active Family, its active Tokens and nothing else.
LEMMA ReuseCareful ==
  ASSUME Integrity, HeldActive, NEW r \in Requests, RevokeRefreshReuse(r)
  PROVE  Careful /\ KeepsHeld
  <1> DEFINE t == request[r].token
             f == token[t].family
             g == family[f].grant
             live == {u \in Tokens : token[u].family = f /\ token[u].status = "active"}
  <1>1. t \in Tokens /\ token[t].status = "consumed"
    BY RequestShape DEF Integrity, RevokeRefreshReuse, RefreshRequest, ReuseRequest
  <1>2. f \in Families /\ g \in Grants
    BY <1>1, Lineage DEF GrantOf
  <1>3. /\ \/ /\ family' = RevokeRows(family, {f}) /\ token' = RevokeTokens(live)
              /\ grant' = IncrementSessionGrantVersion(g)
              /\ family[f].status = "active" /\ grant[g].status = "active"
           \/ family' = family /\ token' = token /\ grant' = grant
        /\ UNCHANGED <<session, access>>
        /\ live \cap HeldTokens = {} /\ f \notin HeldFamilies
    BY DEF RevokeRefreshReuse, applyRefreshReuse, Unlocked, FamilyStillActive
  <1>4. live \in SUBSET Tokens /\ \A u \in live : token[u].status = "active"
    OBVIOUS
  <1> HIDE DEF t, f, g, live
  <1>5. CASE family' = family /\ token' = token /\ grant' = grant
    BY <1>3, <1>5, IdleCareful DEF rows
  <1>6. CASE /\ family' = RevokeRows(family, {f}) /\ token' = RevokeTokens(live)
             /\ grant' = IncrementSessionGrantVersion(g)
             /\ family[f].status = "active" /\ grant[g].status = "active"
    <2>1. TypeOK /\ {f} \in SUBSET Families
      BY <1>2 DEF Integrity
    <2>2. TokenChanges
      BY <2>1, <1>4, <1>6, TokensRevoked
    <2>3. FamilyChanges
      BY <2>1, <1>6, FamiliesRevoked
    <2>4. /\ grant'[g].version = grant[g].version + 1
          /\ \A x \in Grants : grant'[x].status = grant[x].status /\ (x # g => grant'[x] = grant[x])
      BY <2>1, <1>2, <1>6, VersionRaised
    <2>5. GrantChanges
      BY <2>4, <1>6 DEF GrantChanges
    <2>6. SessionChanges /\ AccessChanges
      BY <1>3 DEF SessionChanges, AccessChanges
    <2>7. /\ \A x \in Tokens : token'[x].status = IF x \in live THEN "revoked" ELSE token[x].status
          /\ \A x \in Families : family'[x].status = IF x \in {f} THEN "revoked" ELSE family[x].status
      BY <2>1, <1>4, <1>6, RevokedTokens, RevokedFamilies
    <2>8. Minted = {}
      BY <2>7 DEF Minted
    <2>9. /\ \A x \in HeldTokens : x \in Tokens \ live
          /\ \A x \in HeldFamilies : x \in Families \ {f}
          /\ \A x \in HeldGrants : x \in Grants
      BY <1>3 DEF HeldTokens, HeldFamilies, HeldGrants, Integrity, TypeOK, ResetState
    <2>10. KeepsHeld
      BY <2>4, <2>7, <2>9, <1>3 DEF KeepsHeld, HeldActive
    <2> QED
      BY <2>2, <2>3, <2>5, <2>6, <2>8, <2>10 DEF Careful, MintsOpen
  <1> QED
    BY <1>3, <1>5, <1>6

\* Logout waits for the locks of every row it ends, and ends all that is active.
LEMMA LogoutCareful ==
  ASSUME Integrity, HeldActive, Blank, NEW r \in Requests, LogoutSession(r)
  PROVE  Careful /\ KeepsHeld
  <1> DEFINE q == request[r]
  <1>1. q.token \in Tokens /\ token[q.token].status # "absent"
    BY RequestShape DEF Integrity, RequestRefs, LogoutSession, LogoutRequest
  <1>2. PICK s \in Sessions : s = SessionOf(q.token)
    BY <1>1, Lineage
  <1> DEFINE ts == {t \in TokensOf(s) : token[t].status = "active"}
             fs == {f \in FamiliesOf(s) : family[f].status = "active"}
             gs == {g \in GrantsOf(s) : grant[g].status = "active"}
  <1>3. /\ token' = RevokeTokens(ts) /\ family' = RevokeRows(family, fs) /\ grant' = RevokeRows(grant, gs)
        /\ session' = [session EXCEPT ![s].status = "revoked", ![s].version = @ + 1, ![s].ended = "logout"]
        /\ access' = access /\ session[s].status = "active"
    BY <1>2 DEF LogoutSession
  <1>4. /\ ts \cap HeldTokens = {} /\ fs \cap HeldFamilies = {}
        /\ gs \cap HeldGrants = {} /\ s \notin HeldSessions
    BY <1>2 DEF LogoutSession, Unlocked
  <1>5. ts \in SUBSET Tokens /\ fs \in SUBSET Families /\ gs \in SUBSET Grants
    BY DEF TokensOf, FamiliesOf, GrantsOf
  <1>6. /\ \A t \in ts : token[t].status = "active"
        /\ \A f \in fs : family[f].status = "active"
        /\ \A g \in gs : grant[g].status = "active"
        /\ \A t \in Tokens : token[t].status = "active" /\ SessionOf(t) = s => t \in ts
        /\ \A f \in Families : family[f].status = "active" /\ grant[family[f].grant].session = s => f \in fs
        /\ \A g \in Grants : grant[g].status = "active" /\ grant[g].session = s => g \in gs
    BY DEF TokensOf, FamiliesOf, GrantsOf
  <1> HIDE DEF q, ts, fs, gs
  <1>7. TypeOK
    BY DEF Integrity
  <1>8. TokenChanges /\ FamilyChanges /\ GrantChanges /\ AccessChanges
    BY <1>3, <1>5, <1>6, <1>7, TokensRevoked, FamiliesRevoked, GrantsRevoked DEF AccessChanges
  <1>9. /\ \A x \in Tokens : /\ token'[x].status = IF x \in ts THEN "revoked" ELSE token[x].status
                             /\ token'[x].family = token[x].family
        /\ \A x \in Families : /\ family'[x].status = IF x \in fs THEN "revoked" ELSE family[x].status
                               /\ family'[x].grant = family[x].grant
        /\ \A x \in Grants : /\ grant'[x].status = IF x \in gs THEN "revoked" ELSE grant[x].status
                             /\ grant'[x].session = grant[x].session
    BY <1>3, <1>5, <1>7, RevokedTokens, RevokedFamilies, RevokedGrants
  <1>10. NoResidue(s)'
    <2>1. ASSUME NEW g \in Grants, grant'[g].session = s PROVE grant'[g].status = "revoked"
      <3>1. grant[g].session = s /\ grant[g].status \in RowStatus
        BY <2>1, <1>9 DEF Integrity, TypeOK, GrantRow
      <3>2. grant[g].status # "absent"
        BY <3>1, <1>2, NoneAssumption DEF Blank
      <3> QED
        BY <3>1, <3>2, <1>6, <1>9 DEF RowStatus
    <2>2. ASSUME NEW f \in Families, family'[f].status = "active" PROVE grant'[family'[f].grant].session # s
      <3>1. family[f].status = "active" /\ f \notin fs
        BY <2>2, <1>9
      <3>2. family[f].grant \in Grants
        BY <3>1 DEF Integrity, FamilyRefs
      <3> QED
        BY <3>1, <3>2, <1>6, <1>9
    <2>3. ASSUME NEW t \in Tokens, token'[t].status = "active" PROVE SessionOf(t)' # s
      <3>1. token[t].status = "active" /\ t \notin ts
        BY <2>3, <1>9
      <3>2. token[t].family \in Families /\ GrantOf(t) \in Grants
        BY <3>1, Lineage
      <3>3. SessionOf(t)' = SessionOf(t)
        BY <3>2, <1>9 DEF SessionOf, GrantOf
      <3> QED
        BY <3>1, <3>3, <1>6
    <2> QED
      BY <2>1, <2>2, <2>3 DEF NoResidue
  <1>11. /\ SessionChanges
         /\ \A x \in Sessions \ {s} : session'[x] = session[x]
    <2> DEFINE gone == [session[s] EXCEPT !.status = "revoked", !.version = session[s].version + 1,
                                          !.ended = "logout"]
    <2>1. session \in [Sessions -> SessionRow]
      BY <1>7 DEF TypeOK
    <2>2. session' = [session EXCEPT ![s] = gone]
      BY <1>3, <2>1
    <2>3. /\ gone.status = "revoked" /\ gone.version = session[s].version + 1
          /\ gone.idle = session[s].idle /\ gone.absolute = session[s].absolute
      BY <1>2, <2>1 DEF SessionRow
    <2> HIDE DEF gone
    <2>4. session'[s] = gone /\ \A x \in Sessions \ {s} : session'[x] = session[x]
      BY <1>2, <2>1, <2>2
    <2> QED
      BY <2>3, <2>4, <1>3, <1>10 DEF SessionChanges
  <1>12. Minted = {}
    BY <1>9 DEF Minted
  <1>13. KeepsHeld
    <2>1. /\ \A x \in HeldTokens : x \in Tokens \ ts
          /\ \A x \in HeldFamilies : x \in Families \ fs
          /\ \A x \in HeldGrants : x \in Grants \ gs
          /\ \A x \in HeldSessions : x \in Sessions \ {s}
      BY <1>4 DEF HeldTokens, HeldFamilies, HeldGrants, HeldSessions, Integrity, TypeOK, ResetState
    <2> QED
      BY <2>1, <1>9, <1>11 DEF KeepsHeld, HeldActive
  <1> QED
    BY <1>8, <1>11, <1>12, <1>13 DEF Careful, MintsOpen

\* What the three forms of a switch share.
LEMMA SwitchCareful ==
  ASSUME Integrity, Timely, NEW r \in Requests, SwitchTenant(r)
  PROVE  LET q == request[r]
             s == q.claims.session IN
         /\ SessionChanges /\ session'[s].status = "active"
         /\ \A x \in Sessions : session'[x].status = session[x].status
         /\ \A g \in Grants, v \in Nat, f \in Families :
              LET a == SwitchAccess(q, g, v, f) IN
              /\ a.expires <= session'[a.session].idle /\ a.expires <= session'[a.session].absolute
              /\ a.expires <= now + AccessLifetime
         /\ boundary[q.tenant].open
         /\ q.target # None => grant[q.target].tenant = q.tenant
  <1> DEFINE q == request[r]
             s == q.claims.session
             idle == sessionIdleDeadline(q.at, session[s].absolute)
             expires == sessionAccessDeadline(q.at, session[s].absolute)
  <1>1. q \in SwitchRequest /\ q.op = "switch"
    BY RequestShape DEF Integrity, SwitchTenant
  <1>2. /\ q.at \in Nat /\ s \in Sessions /\ now \in Nat
        /\ q.at <= now /\ now - q.at <= MaxStall
    BY <1>1 DEF SwitchRequest, AccessToken, Integrity, TypeOK, Timely, SwitchTenant, InTime
  <1>3. session[s].absolute \in Nat
    BY <1>2 DEF Integrity, TypeOK, SessionRow
  <1>4. /\ idle \in Nat /\ expires \in Nat
        /\ Earliest(now + AccessLifetime, session[s].absolute) <= idle
        /\ expires <= idle /\ expires <= session[s].absolute /\ expires <= now + AccessLifetime
    BY <1>2, <1>3, Deadlines, DeadlineMoves
  <1>5. /\ session' = [session EXCEPT ![s].version = @ + 1, ![s].idle = idle]
        /\ session[s].status = "active" /\ boundary[q.tenant].open
        /\ JoinedGrant(s, q.tenant) = q.target
    BY DEF SwitchTenant, validateTenantSwitchState, BoundaryOpen, sameTenantSwitchState
  <1>6. ASSUME NEW g \in Grants, NEW v \in Nat, NEW f \in Families
        PROVE  SwitchAccess(q, g, v, f).session = s /\ SwitchAccess(q, g, v, f).expires = expires
    BY DEF SwitchAccess
  <1>7. q.target # None => grant[q.target].tenant = q.tenant
    BY <1>5, Joined DEF ActiveGrants
  <1> HIDE DEF q, s, idle, expires
  <1>8. /\ session'[s].status = "active" /\ session'[s].idle = idle
        /\ session'[s].absolute = session[s].absolute
        /\ \A x \in Sessions : session'[x].status = session[x].status
        /\ SessionChanges
    <2>1. TypeOK
      BY DEF Integrity
    <2> QED
      BY <2>1, <1>2, <1>4, <1>5, SessionMoved
  <1>9. \A g \in Grants, v \in Nat, f \in Families :
          LET a == SwitchAccess(q, g, v, f) IN
          /\ a.expires <= session'[a.session].idle /\ a.expires <= session'[a.session].absolute
          /\ a.expires <= now + AccessLifetime
    BY <1>4, <1>6, <1>8
  <1> QED
    BY <1>5, <1>7, <1>8, <1>9 DEF q, s

\* A switch that opens a Grant.
LEMMA SwitchToNewGrantCareful ==
  ASSUME Integrity, HeldActive, Timely, NEW r \in Requests, SwitchToNewGrant(r)
  PROVE  Careful /\ KeepsHeld
  <1> DEFINE q == request[r]
             s == q.claims.session
  <1>1. /\ SessionChanges /\ session'[s].status = "active"
        /\ \A x \in Sessions : session'[x].status = session[x].status
        /\ \A g \in Grants, v \in Nat, f \in Families :
             LET a == SwitchAccess(q, g, v, f) IN
             /\ a.expires <= session'[a.session].idle /\ a.expires <= session'[a.session].absolute
             /\ a.expires <= now + AccessLifetime
        /\ boundary[q.tenant].open
    BY SwitchCareful DEF SwitchToNewGrant
  <1>2. PICK g \in Grants, f \in Families, t \in Tokens :
          /\ Unused(grant, g) /\ Unused(family, f) /\ Unused(token, t)
          /\ grant' = [grant EXCEPT ![g] = [status |-> "active", version |-> 1, session |-> s,
                                            tenant |-> q.tenant, membership |-> q.membership]]
          /\ family' = [family EXCEPT ![f] = NewFamilyRow(g)]
          /\ token' = [token EXCEPT ![t] = NewTokenRow(f)]
          /\ access' = access \cup {SwitchAccess(q, g, 1, f)}
    BY DEF SwitchToNewGrant
  <1>3. grant[g].status = "absent" /\ family[f].status = "absent" /\ token[t].status = "absent"
    BY <1>2 DEF Unused
  <1> HIDE DEF q, s
  <1>4. /\ \A x \in Grants \ {g} : grant'[x] = grant[x]
        /\ \A x \in Families \ {f} : family'[x] = family[x]
        /\ \A x \in Tokens \ {t} : token'[x] = token[x]
        /\ grant'[g].status = "active" /\ grant'[g].session = s /\ grant'[g].tenant = q.tenant
        /\ grant'[g].version = 1
        /\ family'[f].status = "active" /\ family'[f].grant = g
        /\ token'[t].status = "active" /\ token'[t].family = f /\ token'[t].replacedBy = None
    BY <1>2 DEF Integrity, TypeOK, NewFamilyRow, NewTokenRow
  <1>5. LiveGrant(g)' /\ LiveGrant(family[f].grant)' /\ LiveGrant(family[token[t].family].grant)'
    BY <1>1, <1>4 DEF LiveGrant
  <1>6. TokenChanges
    BY <1>3, <1>4, <1>5 DEF TokenChanges
  <1>7. FamilyChanges /\ GrantChanges
    BY <1>3, <1>4, <1>5 DEF FamilyChanges, GrantChanges
  <1>8. AccessChanges
    BY <1>1, <1>2 DEF AccessChanges
  <1>9. MintsOpen
    <2>1. \A x \in Minted : x = t
      BY <1>4 DEF Minted
    <2> QED
      BY <2>1, <1>1, <1>4 DEF MintsOpen
  <1>10. KeepsHeld
    <2>1. /\ \A x \in HeldTokens : x \in Tokens /\ x # t
          /\ \A x \in HeldFamilies : x \in Families /\ x # f
          /\ \A x \in HeldGrants : x \in Grants /\ x # g
          /\ \A x \in HeldSessions : x \in Sessions
      BY <1>3 DEF HeldActive, HeldTokens, HeldFamilies, HeldGrants, HeldSessions, Integrity, TypeOK, ResetState
    <2> QED
      BY <2>1, <1>1, <1>4 DEF KeepsHeld, HeldActive
  <1> QED
    BY <1>1, <1>6, <1>7, <1>8, <1>9, <1>10 DEF Careful

\* A switch that gives a Grant a new Family.
LEMMA SwitchToNewFamilyCareful ==
  ASSUME Integrity, HeldActive, Timely, NEW r \in Requests, SwitchToNewFamily(r)
  PROVE  Careful /\ KeepsHeld
  <1> DEFINE q == request[r]
             s == q.claims.session
             g == q.target
  <1>1. /\ SessionChanges /\ session'[s].status = "active"
        /\ \A x \in Sessions : session'[x].status = session[x].status
        /\ \A h \in Grants, v \in Nat, f \in Families :
             LET a == SwitchAccess(q, h, v, f) IN
             /\ a.expires <= session'[a.session].idle /\ a.expires <= session'[a.session].absolute
             /\ a.expires <= now + AccessLifetime
        /\ boundary[q.tenant].open /\ grant[g].tenant = q.tenant /\ grant' = grant
    BY SwitchCareful DEF SwitchToNewFamily
  <1>2. g \in Grants /\ grant[g].session = s /\ q.targetVersion \in Nat
    BY SwitchCommon DEF SwitchToNewFamily
  <1>3. PICK f \in Families, t \in Tokens :
          /\ Unused(family, f) /\ Unused(token, t)
          /\ family' = [family EXCEPT ![f] = NewFamilyRow(g)]
          /\ token' = [token EXCEPT ![t] = NewTokenRow(f)]
          /\ access' = access \cup {SwitchAccess(q, g, q.targetVersion, f)}
    BY DEF SwitchToNewFamily
  <1>4. family[f].status = "absent" /\ token[t].status = "absent"
    BY <1>3 DEF Unused
  <1> HIDE DEF q, s, g
  <1>5. /\ \A x \in Families \ {f} : family'[x] = family[x]
        /\ \A x \in Tokens \ {t} : token'[x] = token[x]
        /\ family'[f].status = "active" /\ family'[f].grant = g
        /\ token'[t].status = "active" /\ token'[t].family = f /\ token'[t].replacedBy = None
    BY <1>3 DEF Integrity, TypeOK, NewFamilyRow, NewTokenRow
  <1>6. LiveGrant(family[f].grant)' /\ LiveGrant(family[token[t].family].grant)'
    BY <1>1, <1>2, <1>5 DEF LiveGrant
  <1>7. TokenChanges
    BY <1>4, <1>5, <1>6 DEF TokenChanges
  <1>8. FamilyChanges /\ GrantChanges
    BY <1>1, <1>4, <1>5, <1>6 DEF FamilyChanges, GrantChanges
  <1>9. AccessChanges
    BY <1>1, <1>2, <1>3 DEF AccessChanges
  <1>10. MintsOpen
    <2>1. \A x \in Minted : x = t
      BY <1>5 DEF Minted
    <2> QED
      BY <2>1, <1>1, <1>5 DEF MintsOpen
  <1>11. KeepsHeld
    <2>1. /\ \A x \in HeldTokens : x \in Tokens /\ x # t
          /\ \A x \in HeldFamilies : x \in Families /\ x # f
          /\ \A x \in HeldSessions : x \in Sessions
      BY <1>4 DEF HeldActive, HeldTokens, HeldFamilies, HeldSessions, Integrity, TypeOK, ResetState
    <2> QED
      BY <2>1, <1>1, <1>5 DEF KeepsHeld, HeldActive
  <1> QED
    BY <1>1, <1>7, <1>8, <1>9, <1>10, <1>11 DEF Careful

\* A switch that replaces the active Token of a Family.
LEMMA SwitchToLiveFamilyCareful ==
  ASSUME Integrity, HeldActive, Timely, NEW r \in Requests, SwitchToLiveFamily(r)
  PROVE  Careful /\ KeepsHeld
  <1> DEFINE q == request[r]
             s == q.claims.session
             g == q.target
             f == q.family
  <1>1. /\ SessionChanges /\ session'[s].status = "active"
        /\ \A x \in Sessions : session'[x].status = session[x].status
        /\ \A h \in Grants, v \in Nat, e \in Families :
             LET a == SwitchAccess(q, h, v, e) IN
             /\ a.expires <= session'[a.session].idle /\ a.expires <= session'[a.session].absolute
             /\ a.expires <= now + AccessLifetime
        /\ boundary[q.tenant].open /\ grant[g].tenant = q.tenant /\ family' = family
    BY SwitchCareful DEF SwitchToLiveFamily
  <1>2. /\ g \in Grants /\ grant[g].status = "active" /\ grant[g].session = s /\ q.targetVersion \in Nat
        /\ f \in Families /\ family[f].grant = g
    BY SwitchCommon DEF SwitchToLiveFamily
  <1>3. PICK old \in ActiveTokens(f), t \in Tokens :
          /\ Unlocked({old}, {}, {}, {})
          /\ Unused(token, t) /\ token' = ConsumeRefreshToken(old, t)
    BY DEF SwitchToLiveFamily
  <1>4. /\ old \in Tokens /\ token[old].status = "active" /\ token[old].family = f
        /\ token[t].status = "absent" /\ old \notin HeldTokens
    BY <1>3 DEF Unused, ActiveTokens, Unlocked
  <1>5. /\ grant' = IncrementSessionGrantVersion(g)
        /\ access' = access \cup {SwitchAccess(q, g, q.targetVersion + 1, f)}
    BY DEF SwitchToLiveFamily
  <1> HIDE DEF q, s, g, f
  <1>6. /\ token'[t].status = "active" /\ token'[t].family = f /\ token'[t].replacedBy = None
        /\ token'[old].status = "consumed" /\ token'[old].replacedBy = t
        /\ \A x \in Tokens \ {t, old} : token'[x] = token[x]
    BY <1>3, <1>4, Consuming
  <1>7. /\ grant'[g].version = grant[g].version + 1
        /\ \A x \in Grants : /\ grant'[x].status = grant[x].status
                             /\ grant'[x].session = grant[x].session
                             /\ grant'[x].tenant = grant[x].tenant
                             /\ x # g => grant'[x] = grant[x]
    BY <1>2, <1>5, VersionRaised DEF Integrity
  <1>8. TokenChanges
    <2>1. LiveGrant(family[token[t].family].grant)'
      BY <1>1, <1>2, <1>6, <1>7 DEF LiveGrant
    <2> QED
      BY <2>1, <1>4, <1>6 DEF TokenChanges
  <1>9. FamilyChanges /\ GrantChanges
    BY <1>1, <1>2, <1>7 DEF FamilyChanges, GrantChanges
  <1>10. AccessChanges
    <2>1. q.targetVersion + 1 \in Nat
      BY <1>2
    <2> QED
      BY <2>1, <1>1, <1>2, <1>5 DEF AccessChanges
  <1>11. MintsOpen
    <2>1. \A x \in Minted : x = t
      BY <1>4, <1>6 DEF Minted
    <2> QED
      BY <2>1, <1>1, <1>2, <1>6, <1>7 DEF MintsOpen
  <1>12. KeepsHeld
    <2>1. /\ \A x \in HeldTokens : x \in Tokens /\ x # t /\ x # old
          /\ \A x \in HeldGrants : x \in Grants
          /\ \A x \in HeldSessions : x \in Sessions
      BY <1>4 DEF HeldActive, HeldTokens, HeldGrants, HeldSessions, Integrity, TypeOK, ResetState
    <2> QED
      BY <2>1, <1>1, <1>6, <1>7 DEF KeepsHeld, HeldActive
  <1> QED
    BY <1>1, <1>8, <1>9, <1>10, <1>11, <1>12 DEF Careful

\* The reset revokes rows that are still active, though it looked long before.
LEMMA CommitResetCareful ==
  ASSUME Integrity, HeldActive, CommitReset
  PROVE  Careful
  <1> DEFINE gone(s) == [session[s] EXCEPT !.status = "revoked", !.version = session[s].version + 1,
                                           !.ended = "reset"]
  <1>1. /\ token' = RevokeTokens(reset.tokens) /\ family' = RevokeRows(family, reset.families)
        /\ grant' = RevokeRows(grant, reset.grants) /\ access' = access
        /\ session' = [s \in Sessions |-> IF s \in reset.sessions THEN gone(s) ELSE session[s]]
    BY DEF CommitReset
  <1>2. /\ reset.tokens \in SUBSET Tokens /\ reset.families \in SUBSET Families
        /\ reset.grants \in SUBSET Grants /\ reset.sessions \in SUBSET Sessions
    BY DEF Integrity, TypeOK, ResetState
  <1>3. /\ \A t \in reset.tokens : token[t].status = "active"
        /\ \A f \in reset.families : family[f].status = "active"
        /\ \A g \in reset.grants : grant[g].status = "active"
        /\ \A s \in reset.sessions : session[s].status = "active"
    <2>1. reset.stage = 9
      BY DEF CommitReset
    <2>2. /\ HeldTokens = reset.tokens /\ HeldFamilies = reset.families
          /\ HeldGrants = reset.grants /\ HeldSessions = reset.sessions
      BY <2>1 DEF HeldTokens, HeldFamilies, HeldGrants, HeldSessions
    <2> QED
      BY <2>2 DEF HeldActive
  <1>4. TypeOK
    BY DEF Integrity
  <1>5. TokenChanges /\ FamilyChanges /\ GrantChanges /\ AccessChanges
    BY <1>1, <1>2, <1>3, <1>4, TokensRevoked, FamiliesRevoked, GrantsRevoked DEF AccessChanges
  <1>6. \A s \in Sessions : /\ gone(s).status = "revoked" /\ gone(s).version = session[s].version + 1
                            /\ gone(s).idle = session[s].idle /\ gone(s).absolute = session[s].absolute
                            /\ gone(s).ended = "reset"
    <2>1. \A s \in Sessions : session[s] \in SessionRow
      BY <1>4 DEF TypeOK
    <2> QED
      BY <2>1 DEF SessionRow
  <1> HIDE DEF gone
  <1>7. SessionChanges
    BY <1>1, <1>3, <1>6 DEF SessionChanges
  <1>8. Minted = {}
    <2>1. \A x \in Tokens : token'[x].status = IF x \in reset.tokens THEN "revoked" ELSE token[x].status
      BY <1>1, <1>2, <1>4, RevokedTokens
    <2> QED
      BY <2>1 DEF Minted
  <1> QED
    BY <1>5, <1>7, <1>8 DEF Careful, MintsOpen

-----------------------------------------------------------------------------
(***************************************************************************)
(* The invariant.                                                          *)
(***************************************************************************)
\* The steps that change no row, and keep what the reset has locked.
LEMMA QuietCareful ==
  ASSUME HeldActive,
         \/ UNCHANGED vars
         \/ \E r \in Requests :
              \/ \E t \in Tenants : LookupLogin(r, t)
              \/ \E t \in Tokens : LookupRefresh(r, t) \/ LookupConsumedRefresh(r, t) \/ LookupLogout(r, t)
              \/ \E a \in access, t \in Tenants : LookupTenantSwitch(r, a, t)
              \/ AbandonRequest(r)
         \/ BeginReset \/ ScanRows \/ HoldRows \/ RollbackReset
         \/ EnvironmentStep
  PROVE  Careful /\ KeepsHeld
  <1>1. CASE UNCHANGED vars
    BY <1>1, IdleCareful DEF vars, rows
  <1>2. ASSUME NEW r \in Requests,
               \/ \E t \in Tenants : LookupLogin(r, t)
               \/ \E t \in Tokens : LookupRefresh(r, t) \/ LookupConsumedRefresh(r, t) \/ LookupLogout(r, t)
               \/ AbandonRequest(r)
        PROVE  UNCHANGED <<rows, access>>
    BY <1>2 DEF LookupLogin, LookupRefresh, LookupConsumedRefresh, LookupLogout, AbandonRequest
  <1>3. ASSUME NEW r \in Requests, \E a \in access, t \in Tenants : LookupTenantSwitch(r, a, t)
        PROVE  UNCHANGED <<rows, access>>
    BY <1>3 DEF LookupTenantSwitch
  <1>4. CASE BeginReset \/ ScanRows \/ HoldRows \/ RollbackReset
    BY <1>4, IdleCareful DEF BeginReset, ScanRows, HoldRows, RollbackReset
  <1>5. CASE EnvironmentStep
    BY <1>5, IdleCareful DEF EnvironmentStep, RecordLoginFailure, ToggleBoundary, ReplaceMembership, Tick
  <1> QED
    BY <1>1, <1>2, <1>3, <1>4, <1>5, IdleCareful

\* Every step is careful.
LEMMA NextCareful ==
  ASSUME IInv, HInv, [Next]_vars
  PROVE  Careful /\ (CommitReset \/ KeepsHeld)
  <1>1. CASE UNCHANGED vars
    BY <1>1, QuietCareful DEF HInv
  <1>2. ASSUME NEW r \in Requests, RequestStep(r) PROVE Careful /\ KeepsHeld
    BY <1>2, CommitLoginCareful, RotateCareful, ReuseCareful, LogoutCareful, SwitchToNewGrantCareful,
       SwitchToNewFamilyCareful, SwitchToLiveFamilyCareful, QuietCareful DEF RequestStep, IInv, HInv
  <1>3. CASE ResetStep
    BY <1>3, QuietCareful, CommitResetCareful DEF ResetStep, IInv, HInv
  <1>4. CASE EnvironmentStep
    BY <1>4, QuietCareful DEF HInv
  <1> QED
    BY <1>1, <1>2, <1>3, <1>4 DEF Next

\* What the steps of requests and of the environment do to the reset and the clock.
LEMMA ClockStep ==
  ASSUME IInv, [Next]_vars
  PROVE  /\ reset' = reset \/ ResetStep
         /\ now' \in Nat /\ now <= now'
         /\ \A r \in Requests : request'[r] # request[r] =>
              \/ request'[r].op \notin {"login", "refresh", "switch"}
              \/ request'[r].at = now
  <1>0. now \in Nat /\ DOMAIN request = Requests /\ NoRequest.op = "none"
    BY DEF IInv, Integrity, TypeOK, NoRequest
  <1>1. CASE UNCHANGED vars
    BY <1>0, <1>1 DEF vars
  <1>2. ASSUME NEW r \in Requests, RequestStep(r)
        PROVE  /\ reset' = reset /\ now' = now
               /\ \A x \in Requests : request'[x] # request[x] =>
                    request'[x].op \notin {"login", "refresh", "switch"} \/ request'[x].at = now
    <2>1. CASE \E t \in Tenants : LookupLogin(r, t)
      BY <2>1, <1>0 DEF LookupLogin
    <2>2. CASE \E t \in Tokens : LookupRefresh(r, t) \/ LookupConsumedRefresh(r, t) \/ LookupLogout(r, t)
      BY <2>2, <1>0 DEF LookupRefresh, LookupConsumedRefresh, LookupLogout
    <2>3. CASE \E a \in access, t \in Tenants : LookupTenantSwitch(r, a, t)
      BY <2>3, <1>0 DEF LookupTenantSwitch
    <2>4. ASSUME reset' = reset, now' = now, request' = [request EXCEPT ![r] = NoRequest]
          PROVE  /\ reset' = reset /\ now' = now
                 /\ \A x \in Requests : request'[x] # request[x] =>
                      request'[x].op \notin {"login", "refresh", "switch"} \/ request'[x].at = now
      BY <2>4, <1>0
    <2>5. CASE CommitLogin(r)
      BY <2>4, <2>5 DEF CommitLogin, Finish
    <2>6. CASE RotateRefreshSession(r)
      BY <2>4, <2>6 DEF RotateRefreshSession, Finish
    <2>7. CASE RevokeRefreshReuse(r) \/ AbandonRequest(r)
      BY <2>4, <2>7 DEF RevokeRefreshReuse, AbandonRequest, Finish
    <2>8. CASE LogoutSession(r)
      BY <2>4, <2>8 DEF LogoutSession, Finish
    <2>9. CASE SwitchToNewGrant(r) \/ SwitchToNewFamily(r) \/ SwitchToLiveFamily(r)
      BY <2>4, <2>9 DEF SwitchToNewGrant, SwitchToNewFamily, SwitchToLiveFamily, SwitchTenant, Finish
    <2> QED
      BY <1>2, <2>1, <2>2, <2>3, <2>5, <2>6, <2>7, <2>8, <2>9 DEF RequestStep
  <1>3. CASE \E r \in Requests : RequestStep(r)
    BY <1>0, <1>2, <1>3
  <1>4. CASE ResetStep
    <2>1. now' = now /\ request' = request
      BY <1>4 DEF ResetStep, BeginReset, ScanRows, HoldRows, CommitReset, RollbackReset
    <2> QED
      BY <1>0, <1>4, <2>1
  <1>5. CASE EnvironmentStep
    <2>1. (now' = now \/ now' = now + 1) /\ request' = request /\ reset' = reset
      BY <1>5 DEF EnvironmentStep, RecordLoginFailure, ToggleBoundary, ReplaceMembership, Tick
    <2> QED
      BY <1>0, <2>1
  <1> QED
    BY <1>1, <1>3, <1>4, <1>5 DEF Next

\* The reset holds the rows it has checked after it locked them.
LEMMA HeldKept ==
  ASSUME IInv, HeldActive, [Next]_vars, CommitReset \/ KeepsHeld
  PROVE  HeldActive'
  <1>0. reset \in ResetState
    BY DEF IInv, Integrity, TypeOK
  <1>1. CASE reset' = reset /\ ~ ResetStep
    <2>1. KeepsHeld
      BY <1>1 DEF ResetStep
    <2> QED
      BY <1>1, <2>1 DEF KeepsHeld, HeldActive, HeldTokens, HeldFamilies, HeldGrants, HeldSessions
  <1>2. CASE BeginReset \/ CommitReset \/ RollbackReset
    <2>1. reset' = NoReset \/ reset' = [NoReset EXCEPT !.stage = 1]
      <3>1. CASE BeginReset
        BY <3>1 DEF BeginReset
      <3>2. CASE CommitReset
        BY <3>2 DEF CommitReset
      <3>3. CASE RollbackReset
        BY <3>3 DEF RollbackReset
      <3> QED
        BY <1>2, <3>1, <3>2, <3>3
    <2>2. reset'.stage \in {0, 1}
      BY <2>1 DEF NoReset
    <2> QED
      BY <2>2 DEF HeldActive, HeldTokens, HeldFamilies, HeldGrants, HeldSessions
  <1>3. CASE ScanRows
    <2>1. UNCHANGED <<session, grant, family, token>>
      BY <1>3 DEF ScanRows, rows
    <2>2. \/ reset.stage = 1 /\ reset'.stage = 2
          \/ reset.stage = 3 /\ reset'.stage = 4 /\ reset'.tokens = reset.tokens
          \/ reset.stage = 5 /\ reset'.stage = 6 /\ reset'.tokens = reset.tokens
             /\ reset'.families = reset.families
          \/ reset.stage = 7 /\ reset'.stage = 8 /\ reset'.tokens = reset.tokens
             /\ reset'.families = reset.families /\ reset'.grants = reset.grants
      BY <1>0, <1>3 DEF ScanRows, ResetState
    <2> QED
      BY <2>1, <2>2 DEF HeldActive, HeldTokens, HeldFamilies, HeldGrants, HeldSessions
  <1>4. CASE HoldRows
    <2>1. UNCHANGED <<session, grant, family, token>>
      BY <1>4 DEF HoldRows, rows
    <2>2. \/ reset.stage = 2 /\ reset'.stage = 3 /\ reset'.tokens = StillActive(token, reset.tokens)
          \/ reset.stage = 4 /\ reset'.stage = 5 /\ reset'.tokens = reset.tokens
             /\ reset'.families = StillActive(family, reset.families)
          \/ reset.stage = 6 /\ reset'.stage = 7 /\ reset'.tokens = reset.tokens
             /\ reset'.families = reset.families /\ reset'.grants = StillActive(grant, reset.grants)
          \/ reset.stage = 8 /\ reset'.stage = 9 /\ reset'.tokens = reset.tokens
             /\ reset'.families = reset.families /\ reset'.grants = reset.grants
             /\ reset'.sessions = StillActive(session, reset.sessions)
      BY <1>0, <1>4 DEF HoldRows, ResetState
    <2> QED
      BY <2>1, <2>2 DEF HeldActive, HeldTokens, HeldFamilies, HeldGrants, HeldSessions, StillActive
  <1> QED
    BY <1>1, <1>2, <1>3, <1>4, ClockStep DEF ResetStep

\* Initially there are no rows.
LEMMA HInvInit == Init => HInv
  <1> SUFFICES ASSUME Init PROVE HInv
    OBVIOUS
  <1>1. HeldActive
    BY DEF Init, NoReset, HeldActive, HeldTokens, HeldFamilies, HeldGrants, HeldSessions
  <1>2. Blank /\ Timely
    BY DEF Init, Blank, Timely, NoRequest
  <1>3. RotationIsLinear
    BY DEF Init, RotationIsLinear
  <1>4. LogoutLeavesNoResidue
    BY DEF Init, LogoutLeavesNoResidue
  <1> QED
    BY <1>1, <1>2, <1>3, <1>4 DEF HInv

\* Every step keeps the invariant.
LEMMA HInvStep == IInv /\ HInv /\ [Next]_vars => HInv'
  <1> SUFFICES ASSUME IInv, HInv, [Next]_vars PROVE HInv'
    OBVIOUS
  <1>1. Integrity /\ Sound /\ Careful
    BY NextSound, NextCareful DEF IInv
  <1>2. HeldActive'
    BY NextCareful, HeldKept DEF HInv
  <1>3. Blank' /\ LogoutLeavesNoResidue'
    BY <1>1, BlankKept, ResidueKept DEF HInv
  <1>4. RotationIsLinear'
    BY <1>1, RotationKept DEF HInv, Careful
  <1>5. Timely'
    <2>1. ASSUME NEW r \in Requests, request'[r].op \in {"login", "refresh", "switch"}
          PROVE  request'[r].at <= now'
      <3>1. request'[r].at \in Nat /\ now \in Nat /\ now' \in Nat /\ now <= now'
        <4>1. request'[r] \in {NoRequest} \cup LoginRequest \cup RefreshRequest
                              \cup ReuseRequest \cup LogoutRequest \cup SwitchRequest
          BY <1>1 DEF Sound, Integrity, TypeOK
        <4>2. request'[r] \in LoginRequest \cup RefreshRequest \cup SwitchRequest
          BY <4>1, <2>1 DEF NoRequest, ReuseRequest, LogoutRequest
        <4>3. request'[r].at \in Nat
          BY <4>2 DEF LoginRequest, RefreshRequest, SwitchRequest
        <4> QED
          BY <4>3, <1>1, ClockStep DEF Integrity, TypeOK
      <3>2. CASE request'[r] = request[r]
        BY <3>1, <3>2, <2>1 DEF HInv, Timely
      <3>3. CASE request'[r] # request[r]
        BY <3>1, <3>3, <2>1, ClockStep
      <3> QED
        BY <3>2, <3>3
    <2>2. \A a \in access' :
            /\ a.expires <= session'[a.session].idle /\ a.expires <= session'[a.session].absolute
            /\ a.expires <= now' + AccessLifetime
      BY <1>1, ClockStep, DeadlinesKept DEF HInv
    <2> QED
      BY <2>1, <2>2 DEF Timely
  <1> QED
    BY <1>2, <1>3, <1>4, <1>5 DEF HInv

\* Both invariants hold in every reachable state.
THEOREM History == Spec => [](IInv /\ HInv)
  <1>1. Init => IInv /\ HInv
    BY IInvInit, HInvInit
  <1>2. IInv /\ HInv /\ [Next]_vars => (IInv /\ HInv)'
    BY IInvStep, HInvStep
  <1> QED
    BY <1>1, <1>2, PTL DEF Spec

\* At most one row of a kind is active, and Refresh Tokens form chains, for any
\* number of Sessions, Tenants and requests that race.
THEOREM LineageTheorem == Spec => []LineageIsLinear
  <1>1. IInv /\ HInv => LineageIsLinear
    BY DEF IInv, HInv, LineageIsLinear
  <1> QED
    BY <1>1, History, PTL

\* CheckPermission, which reads neither the Family nor the deadlines of a Session,
\* accepts an Access Token only while its Family is active and both deadlines lie
\* ahead, though a slow refresh may move the idle deadline back.
THEOREM AccessTheorem == Spec => []AcceptedAccessIsLive
  <1>1. IInv /\ HInv => AcceptedAccessWithinDeadlines
    <2> SUFFICES ASSUME IInv, HInv, NEW a \in access, Authorized(a)
                 PROVE  now < session[a.session].idle /\ now < session[a.session].absolute
      BY DEF AcceptedAccessWithinDeadlines
    <2>1. /\ now \in Nat /\ a.expires \in Nat
          /\ session[a.session].idle \in Nat /\ session[a.session].absolute \in Nat
      BY DEF IInv, Integrity, TypeOK, AccessToken, SessionRow
    <2> QED
      BY <2>1 DEF HInv, Timely, Authorized
  <1> QED
    BY <1>1, History, RevocationReachesAccess, PTL DEF AcceptedAccessIsLive

\* A Grant ends only with its Session, and a logout, also one that races a reset,
\* leaves no Grant, Family or Refresh Token of its Session active.
THEOREM LogoutTheorem == Spec => []GrantsEndWithTheirSession
  <1>1. IInv /\ HInv => GrantsEndWithTheirSession
    BY DEF IInv, HInv, GrantsEndWithTheirSession
  <1> QED
    BY <1>1, History, PTL

\* No step revives a revoked row, frees a consumed Token or lowers a version, though
\* a reset writes rows it checked long before; and no refresh or switch hands out a
\* Token for a boundary that is closed when it commits.
THEOREM HistoryTheorem == Spec => RowsChangeLawfully
  <1> DEFINE Aged == /\ \A s \in Sessions : /\ session'[s].version >= session[s].version
                                            /\ session[s].status = "revoked" => session'[s] = session[s]
                     /\ \A g \in Grants : /\ grant'[g].version >= grant[g].version
                                          /\ grant[g].status = "revoked" => grant'[g] = grant[g]
                     /\ \A f \in Families : family[f].status = "revoked" => family'[f] = family[f]
                     /\ \A t \in Tokens : token[t].status \in {"consumed", "revoked"} => token'[t] = token[t]
  <1>1. IInv /\ HInv /\ [Next]_vars => [Aged]_vars
    BY NextCareful, RowsAged DEF IInv, HInv
  <1>2. IInv /\ HInv /\ [Next]_vars => [MintsOpen]_vars
    BY NextCareful DEF Careful
  <1>3. Spec => [][Aged]_vars
    BY <1>1, History, PTL DEF Spec
  <1>4. Spec => [][MintsOpen]_vars
    BY <1>2, History, PTL DEF Spec
  <1> QED
    BY <1>3, <1>4, PTL DEF RowsChangeLawfully, RowsOnlyAge, MintingRevalidatesBoundary, MintsOpen

=============================================================================
