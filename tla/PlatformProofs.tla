--------------------------- MODULE PlatformProofs ---------------------------
(***************************************************************************)
(* What is proved of the Platform for any number of people, Sessions,      *)
(* roles, commands, Invitations and recoveries.                            *)
(***************************************************************************)
EXTENDS PlatformSystem, FiniteSetTheorems, TLAPS

(***************************************************************************)
(* Sessions.                                                               *)
(***************************************************************************)
\* A Grant gets a new version when its Family is revoked and when it is revoked
\* itself, each of which happens once.
Versioned(row) ==
  /\ row.family = "active" /\ row.grant = "active" => row.version = 1
  /\ row.family = "active" \/ row.grant = "active" => row.version <= 2

RowsVersioned == \A s \in Sessions : session[s] # None => Versioned(session[s])

\* An access token belongs to a Session; a revoked Family leaves it behind.
TokensBehind ==
  \A t \in access :
    /\ session[t.session] # None /\ t.version <= session[t.session].version
    /\ session[t.session].family = "revoked" =>
         t.version < session[t.session].version \/ session[t.session].status = "revoked"

\* A Session that a password opened ends when the password changes.
PasswordsCurrent ==
  \A s \in Sessions :
    session[s] # None /\ session[s].method = "password" /\ session[s].status = "active" =>
      session[s].hash = cred[session[s].person].hash

\* A credential that never was locked has a failure left.
FailuresLeft == \A p \in People : cred[p].locked = "no" => cred[p].failures < MaxFailures

\* Intents replace each other one by one; only the last may be open.
Chain ==
  /\ \A i \in Registered : intent[i].supersedes \in Registered \cup {None}
  /\ \A i, j \in GetFirstAdministratorLeaf : i = j
  /\ \A i \in Registered : ~intent[i].over => i \in GetFirstAdministratorLeaf
  /\ ProvisioningEnds

MembersNumbered == \A p \in People : member[p].gen = 0 <=> member[p].status = "none"

AuthorityOK ==
  /\ human \subseteq People /\ linked \subseteq human
  /\ member \in [People -> MembershipRow]
  /\ bindings \subseteq People \X (1..MaxMemberships) \X Roles
  /\ role \in [Roles -> RoleRow]
  /\ MembersNumbered

SessionsOK ==
  /\ session \in [Sessions -> SessionRow \cup {None}] /\ access \subseteq Token
  /\ RowsVersioned /\ TokensBehind /\ PasswordsCurrent

CredentialsOK ==
  /\ cred \in [People -> Credential] /\ attempt \in [People -> Attempt \cup {None}]
  /\ FailuresLeft

IntentsOK ==
  /\ intent \in [Intents -> IntentRow \cup {None}] /\ completion \in Intents \cup {None}
  /\ Chain

SessionInv == AuthorityOK /\ SessionsOK /\ CredentialsOK /\ IntentsOK

(***************************************************************************)
(* Commands and Invitations.                                               *)
(***************************************************************************)
\* What the command of an operation names.
Complete(c) ==
  /\ c.op \in {"update", "bind", "unbind"} => c.person \in People /\ member[c.person].gen > 0
  /\ c.op = "update" => c.status \in {"active", "suspended", "removed"}
  /\ c.op = "access" => c.status \in {"active", "suspended"}
  /\ c.op = "invite" => c.person \in People
  /\ c.op \in {"resend", "cancel"} => c.id \in Invites

\* What took effect has its receipt.
Receipted ==
  \A x \in applied : \E e \in ledger : x = <<e.actor, e.command.op, e.command.key>>

\* The roles of an open Invitation have their reference rows.
Referenced ==
  \A i \in Invites : inv[i].status = "pending" => \A r \in inv[i].roles : <<i, r>> \in refs

CommandsOK ==
  /\ \A k \in caps : k.token \in Token /\ k.command \in Command /\ Complete(k.command)
  /\ ledger \subseteq Receipt
  /\ applied \subseteq People \X Operations \X Keys /\ repeated = {}
  /\ Receipted

InvitesOK ==
  /\ inv \in [Invites -> InvitationRow] /\ refs \subseteq Invites \X Roles
  /\ mail \subseteq Invites \X (1..MaxGeneration) /\ inbox \subseteq Invites \X (1..MaxGeneration)
  /\ Referenced /\ OnlyCurrentMessagesWait

TenantOK == tenant.status \in {"active", "suspended"} /\ tenant.version \in 1..MaxVersion

AdminInv == CommandsOK /\ InvitesOK /\ GrantedRolesExist /\ TenantOK

\* An approved recovery has its reference.
ApprovalsNamed ==
  \A o \in Recoveries : recovery[o].status \in {"approved", "executed"} =>
    recovery[o].reference \in References

RecoveryInv == RecoveryTypeOK /\ ApprovalsNamed /\ RecoveriesAreFourEyed

IInv == SessionInv /\ AdminInv /\ RecoveryInv

-----------------------------------------------------------------------------
(***************************************************************************)
(* Rows of Sessions.                                                       *)
(***************************************************************************)
LEMMA Bounds ==
  /\ MaxFailures \in Nat /\ MaxFailures > 1 /\ MaxMemberships \in Nat /\ MaxMemberships > 0
  /\ MaxVersion \in Nat /\ MaxVersion > 0 /\ MaxTokens \in Nat /\ MaxTokens > 0
  /\ MaxHash \in Nat /\ MaxHash > 0 /\ Admin \in Roles /\ CustomRoles \subseteq Roles
  BY PlatformAssumption DEF Roles

LEMMA SessionFields ==
  ASSUME NEW row \in SessionRow
  PROVE  /\ row.person \in People /\ row.gen \in 1..MaxMemberships /\ row.method \in {"oidc", "password"}
         /\ row.hash \in 0..MaxHash /\ row.status \in {"active", "revoked"}
         /\ row.grant \in {"active", "revoked"} /\ row.version \in 1..3
         /\ row.family \in {"active", "revoked"} /\ row.token \in 1..MaxTokens /\ row.live \in BOOLEAN
         /\ row.over \in BOOLEAN /\ row.fresh \in BOOLEAN
  BY DEF SessionRow

\* What may happen to a Session after it was opened.
Weaker(new, row) ==
  /\ new \in SessionRow /\ Versioned(new)
  /\ new.person = row.person /\ new.gen = row.gen /\ new.method = row.method /\ new.hash = row.hash
  /\ new.status = "active" => row.status = "active"
  /\ row.version <= new.version
  /\ new.family = "revoked" =>
       row.family = "revoked" \/ row.version < new.version \/ new.status = "revoked"

LEMMA SameIsWeaker ==
  ASSUME NEW row \in SessionRow, Versioned(row)
  PROVE  Weaker(row, row)
  BY SessionFields DEF Weaker

LEMMA RotatedRow ==
  ASSUME NEW row \in SessionRow, Versioned(row), row.token < MaxTokens,
         NEW new, new = CreatePlatformRefreshToken(row)
  PROVE  Weaker(new, row) /\ new.version = row.version /\ new.family = row.family
  <1>1. new = [person |-> row.person, gen |-> row.gen, method |-> row.method, hash |-> row.hash,
               status |-> row.status, grant |-> row.grant, version |-> row.version,
               family |-> row.family, token |-> row.token + 1, live |-> row.live, over |-> row.over,
               fresh |-> row.fresh]
    BY DEF CreatePlatformRefreshToken, SessionRow
  <1>2. row.token + 1 \in 1..MaxTokens
    BY SessionFields, Bounds
  <1>3. new \in SessionRow
    <2>1. /\ row.person \in People /\ row.gen \in 1..MaxMemberships /\ row.method \in {"oidc", "password"}
          /\ row.hash \in 0..MaxHash /\ row.status \in {"active", "revoked"}
          /\ row.grant \in {"active", "revoked"} /\ row.version \in 1..3
          /\ row.family \in {"active", "revoked"} /\ row.token \in 1..MaxTokens /\ row.live \in BOOLEAN
          /\ row.over \in BOOLEAN /\ row.fresh \in BOOLEAN
      BY SessionFields
    <2> QED
      BY <1>1, <1>2, <2>1 DEF SessionRow
  <1>4. /\ new.person = row.person /\ new.gen = row.gen /\ new.method = row.method
        /\ new.hash = row.hash /\ new.status = row.status /\ new.grant = row.grant
        /\ new.version = row.version /\ new.family = row.family
    BY <1>1
  <1> QED
    BY <1>3, <1>4, SessionFields DEF Weaker, Versioned

LEMMA FamilyRevokedRow ==
  ASSUME NEW row \in SessionRow, Versioned(row), row.family = "active", NEW new, new = RevokeFamily(row)
  PROVE  Weaker(new, row)
  <1>1. row.version + 1 \in 1..3 /\ (row.grant = "active" => row.version + 1 <= 2) /\ row.version \in 1..3
    BY SessionFields DEF Versioned
  <1>2. new = [person |-> row.person, gen |-> row.gen, method |-> row.method, hash |-> row.hash,
               status |-> row.status, grant |-> row.grant, version |-> row.version + 1,
               family |-> "revoked", token |-> row.token, live |-> FALSE, over |-> row.over,
               fresh |-> row.fresh]
    BY DEF RevokeFamily, InvalidatePlatformGrantVersion, RevokePlatformFamilyTokens,
           RevokePlatformRefreshFamily, SessionRow
  <1>3. new \in SessionRow
    <2>1. /\ row.person \in People /\ row.gen \in 1..MaxMemberships /\ row.method \in {"oidc", "password"}
          /\ row.hash \in 0..MaxHash /\ row.status \in {"active", "revoked"}
          /\ row.grant \in {"active", "revoked"} /\ row.version \in 1..3
          /\ row.family \in {"active", "revoked"} /\ row.token \in 1..MaxTokens /\ row.live \in BOOLEAN
          /\ row.over \in BOOLEAN /\ row.fresh \in BOOLEAN
      BY SessionFields
    <2> QED
      BY <1>1, <1>2, <2>1 DEF SessionRow
  <1>4. /\ new.person = row.person /\ new.gen = row.gen /\ new.method = row.method
        /\ new.hash = row.hash /\ new.status = row.status /\ new.grant = row.grant
        /\ new.version = row.version + 1 /\ new.family = "revoked"
    BY <1>2
  <1> QED
    BY <1>1, <1>3, <1>4 DEF Weaker, Versioned

\* A logout and a reset leave the same row.
LEMMA RevokedRow ==
  ASSUME NEW row \in SessionRow, Versioned(row), NEW new,
         \/ new = Logout(row)
         \/ new = RevokePlatformSession(RevokePlatformGrantsForPrincipal(
                    RevokePlatformRefreshFamiliesForPrincipal(RevokePlatformRefreshTokensForPrincipal(row))))
  PROVE  Weaker(new, row) /\ new.status = "revoked"
  <1>1. PICK v \in 1..3 : v = (IF row.grant = "active" THEN row.version + 1 ELSE row.version)
    <2>1. row.grant = "active" => row.version <= 2
      BY DEF Versioned
    <2>2. row.version \in 1..3
      BY SessionFields
    <2> QED
      BY <2>1, <2>2
  <1>2. new = [person |-> row.person, gen |-> row.gen, method |-> row.method, hash |-> row.hash,
               status |-> "revoked", grant |-> "revoked", version |-> v,
               family |-> "revoked", token |-> row.token, live |-> FALSE, over |-> row.over,
               fresh |-> row.fresh]
    <2>1. CASE row.grant = "active"
      <3>1. v = row.version + 1
        BY <1>1, <2>1
      <3> QED
        BY <2>1, <3>1
        DEF Logout, RevokePlatformSessionTokens, RevokePlatformSessionFamilies,
            RevokePlatformSessionGrants, RevokePlatformSession, RevokePlatformGrantsForPrincipal,
            RevokePlatformRefreshFamiliesForPrincipal, RevokePlatformRefreshTokensForPrincipal, SessionRow
    <2>2. CASE row.grant = "revoked"
      <3>1. v = row.version
        BY <1>1, <2>2
      <3> QED
        BY <2>2, <3>1
        DEF Logout, RevokePlatformSessionTokens, RevokePlatformSessionFamilies,
            RevokePlatformSessionGrants, RevokePlatformSession, RevokePlatformGrantsForPrincipal,
            RevokePlatformRefreshFamiliesForPrincipal, RevokePlatformRefreshTokensForPrincipal, SessionRow
    <2> QED
      BY <2>1, <2>2, SessionFields
  <1>3. new \in SessionRow
    <2>1. /\ row.person \in People /\ row.gen \in 1..MaxMemberships /\ row.method \in {"oidc", "password"}
          /\ row.hash \in 0..MaxHash /\ row.status \in {"active", "revoked"}
          /\ row.grant \in {"active", "revoked"} /\ row.version \in 1..3
          /\ row.family \in {"active", "revoked"} /\ row.token \in 1..MaxTokens /\ row.live \in BOOLEAN
          /\ row.over \in BOOLEAN /\ row.fresh \in BOOLEAN
      BY SessionFields
    <2> QED
      BY <1>1, <1>2, <2>1 DEF SessionRow
  <1>4. /\ new.person = row.person /\ new.gen = row.gen /\ new.method = row.method
        /\ new.hash = row.hash /\ new.status = "revoked" /\ new.grant = "revoked"
        /\ new.version = v /\ new.family = "revoked"
    BY <1>2
  <1>5. row.version <= v
    BY <1>1, SessionFields
  <1> QED
    BY <1>3, <1>4, <1>5 DEF Weaker, Versioned

LEMMA AgedRow ==
  ASSUME NEW row \in SessionRow, Versioned(row), NEW new,
         new = [row EXCEPT !.fresh = FALSE] \/ new = [row EXCEPT !.over = TRUE, !.fresh = FALSE]
  PROVE  Weaker(new, row)
  <1>1. PICK o \in BOOLEAN :
          new = [person |-> row.person, gen |-> row.gen, method |-> row.method, hash |-> row.hash,
                 status |-> row.status, grant |-> row.grant, version |-> row.version,
                 family |-> row.family, token |-> row.token, live |-> row.live, over |-> o,
                 fresh |-> FALSE]
    <2>1. CASE new = [row EXCEPT !.fresh = FALSE]
      <3>1. new = [person |-> row.person, gen |-> row.gen, method |-> row.method, hash |-> row.hash,
                   status |-> row.status, grant |-> row.grant, version |-> row.version,
                   family |-> row.family, token |-> row.token, live |-> row.live, over |-> row.over,
                   fresh |-> FALSE]
        BY <2>1 DEF SessionRow
      <3>2. row.over \in BOOLEAN
        BY SessionFields
      <3> QED
        BY <3>1, <3>2
    <2>2. CASE new = [row EXCEPT !.over = TRUE, !.fresh = FALSE]
      <3>1. new = [person |-> row.person, gen |-> row.gen, method |-> row.method, hash |-> row.hash,
                   status |-> row.status, grant |-> row.grant, version |-> row.version,
                   family |-> row.family, token |-> row.token, live |-> row.live, over |-> TRUE,
                   fresh |-> FALSE]
        BY <2>2 DEF SessionRow
      <3> QED
        BY <3>1
    <2> QED
      BY <2>1, <2>2
  <1>2. new \in SessionRow
    <2>1. /\ row.person \in People /\ row.gen \in 1..MaxMemberships /\ row.method \in {"oidc", "password"}
          /\ row.hash \in 0..MaxHash /\ row.status \in {"active", "revoked"}
          /\ row.grant \in {"active", "revoked"} /\ row.version \in 1..3
          /\ row.family \in {"active", "revoked"} /\ row.token \in 1..MaxTokens /\ row.live \in BOOLEAN
      BY SessionFields
    <2> QED
      BY <1>1, <2>1 DEF SessionRow
  <1>3. /\ new.person = row.person /\ new.gen = row.gen /\ new.method = row.method
        /\ new.hash = row.hash /\ new.status = row.status /\ new.grant = row.grant
        /\ new.version = row.version /\ new.family = row.family
    BY <1>1
  <1> QED
    BY <1>2, <1>3, SessionFields DEF Weaker, Versioned

LEMMA SessionInvTypes ==
  ASSUME SessionInv
  PROVE  PlatformTypeOK
  BY DEF SessionInv, AuthorityOK, SessionsOK, CredentialsOK, IntentsOK, PlatformTypeOK

\* What a transaction may do to Sessions and access tokens: rows get weaker, a
\* new row is that of a login, a new token is that of a row it leaves current.
NewRow(row) ==
  /\ row \in SessionRow /\ Versioned(row) /\ row.family = "active"
  /\ row.method = "password" => row.hash = cred'[row.person].hash

SessionsMove ==
  /\ session' \in [Sessions -> SessionRow \cup {None}] /\ access' \subseteq Token
  /\ \A s \in Sessions : session[s] = None => session'[s] = None \/ NewRow(session'[s])
  /\ \A s \in Sessions : session[s] # None =>
       /\ Weaker(session'[s], session[s])
       /\ session'[s].status = "active" =>
            cred'[session[s].person].hash = cred[session[s].person].hash
  /\ \A t \in access' \ access :
       /\ session'[t.session] # None /\ session'[t.session].family = "active"
       /\ t.version <= session'[t.session].version

LEMMA NoneIsNoRow ==
  /\ \A row \in SessionRow : row # None
  /\ \A row \in Attempt : row # None
  /\ \A row \in IntentRow : row # None
  BY NoneAssumption

LEMMA MovesKeepSessions ==
  ASSUME SessionsOK, SessionsMove
  PROVE  SessionsOK'
  <1>1. RowsVersioned'
    <2> SUFFICES ASSUME NEW s \in Sessions, session'[s] # None
                 PROVE  Versioned(session'[s])
      BY DEF RowsVersioned, Versioned
    <2> QED
      BY DEF SessionsMove, Weaker, NewRow
  <1>2. TokensBehind'
    <2> SUFFICES ASSUME NEW t \in access'
                 PROVE  /\ session'[t.session] # None /\ t.version <= session'[t.session].version
                        /\ session'[t.session].family = "revoked" =>
                             \/ t.version < session'[t.session].version
                             \/ session'[t.session].status = "revoked"
      BY DEF TokensBehind
    <2>0. t.session \in Sessions /\ t.version \in 1..3
      BY DEF SessionsMove, Token
    <2>1. CASE t \in access
      <3>1. /\ session[t.session] # None /\ t.version <= session[t.session].version
            /\ session[t.session].family = "revoked" =>
                 t.version < session[t.session].version \/ session[t.session].status = "revoked"
        BY <2>1 DEF SessionsOK, TokensBehind
      <3>2. session[t.session] \in SessionRow
        BY <3>1, <2>0 DEF SessionsOK
      <3>3. Weaker(session'[t.session], session[t.session])
        BY <3>1, <2>0 DEF SessionsMove
      <3>4. session'[t.session] \in SessionRow
        BY <3>3 DEF Weaker
      <3>5. /\ session[t.session].version \in 1..3 /\ session'[t.session].version \in 1..3
            /\ session[t.session].status \in {"active", "revoked"}
            /\ session'[t.session].status \in {"active", "revoked"}
        BY <3>2, <3>4, SessionFields
      <3>6. session'[t.session] # None
        BY <3>4, NoneIsNoRow
      <3> QED
        BY <2>0, <3>1, <3>3, <3>5, <3>6 DEF Weaker
    <2>2. CASE t \notin access
      BY <2>2 DEF SessionsMove
    <2> QED
      BY <2>1, <2>2
  <1>3. PasswordsCurrent'
    <2> SUFFICES ASSUME NEW s \in Sessions, session'[s] # None, session'[s].method = "password",
                        session'[s].status = "active"
                 PROVE  session'[s].hash = cred'[session'[s].person].hash
      BY DEF PasswordsCurrent
    <2>1. CASE session[s] = None
      BY <2>1 DEF SessionsMove, NewRow
    <2>2. CASE session[s] # None
      <3>1. Weaker(session'[s], session[s])
        BY <2>2 DEF SessionsMove
      <3>2. session[s].method = "password" /\ session[s].status = "active"
        BY <3>1 DEF Weaker
      <3>3. session[s].hash = cred[session[s].person].hash
        BY <2>2, <3>2 DEF SessionsOK, PasswordsCurrent
      <3>4. cred'[session[s].person].hash = cred[session[s].person].hash
        BY <2>2 DEF SessionsMove
      <3> QED
        BY <3>1, <3>3, <3>4 DEF Weaker
    <2> QED
      BY <2>1, <2>2
  <1> QED
    BY <1>1, <1>2, <1>3 DEF SessionsOK, SessionsMove

\* Rows nobody touches.
LEMMA RowsStay ==
  ASSUME SessionsOK, NEW s \in Sessions, session[s] # None
  PROVE  session[s] \in SessionRow /\ Versioned(session[s]) /\ Weaker(session[s], session[s])
  <1>1. session[s] \in SessionRow /\ Versioned(session[s])
    BY DEF SessionsOK, RowsVersioned
  <1> QED
    BY <1>1, SameIsWeaker

LEMMA SessionsStay ==
  ASSUME SessionsOK, session' = session, access' \subseteq access,
         \A p \in People : cred'[p].hash = cred[p].hash
  PROVE  SessionsOK'
  <1>1. session' \in [Sessions -> SessionRow \cup {None}] /\ access' \subseteq Token
    BY DEF SessionsOK
  <1>2. \A s \in Sessions : session[s] = None => session'[s] = None
    OBVIOUS
  <1>3. ASSUME NEW s \in Sessions, session[s] # None
        PROVE  Weaker(session'[s], session[s]) /\ cred'[session[s].person].hash = cred[session[s].person].hash
    <2>1. session[s] \in SessionRow /\ Weaker(session[s], session[s])
      BY <1>3, RowsStay
    <2>2. session[s].person \in People
      BY <2>1, SessionFields
    <2> QED
      BY <2>1, <2>2
  <1>4. SessionsMove
    BY <1>1, <1>2, <1>3 DEF SessionsMove
  <1> QED
    BY <1>4, MovesKeepSessions

LEMMA OneRowMoves ==
  ASSUME SessionsOK, NEW s \in Sessions, session[s] # None, NEW row, Weaker(row, session[s]),
         session' = [session EXCEPT ![s] = row], access' \subseteq Token, cred' = cred,
         \A t \in access' \ access : t.session = s /\ t.version <= row.version /\ row.family = "active"
  PROVE  SessionsOK'
  <1>1. row \in SessionRow /\ row # None
    BY NoneIsNoRow DEF Weaker
  <1>2. session \in [Sessions -> SessionRow \cup {None}]
    BY DEF SessionsOK
  <1>3. session'[s] = row /\ \A u \in Sessions \ {s} : session'[u] = session[u]
    BY <1>2
  <1>4. session' \in [Sessions -> SessionRow \cup {None}]
    BY <1>1, <1>2
  <1>5. \A u \in Sessions : session[u] = None => session'[u] = None
    BY <1>3
  <1>6. ASSUME NEW u \in Sessions, session[u] # None
        PROVE  Weaker(session'[u], session[u])
    BY <1>3, <1>6, RowsStay
  <1>7. \A t \in access' \ access :
          /\ session'[t.session] # None /\ session'[t.session].family = "active"
          /\ t.version <= session'[t.session].version
    BY <1>1, <1>3
  <1>8. SessionsMove
    BY <1>4, <1>5, <1>6, <1>7 DEF SessionsMove
  <1> QED
    BY <1>8, MovesKeepSessions

LEMMA LoginMoves ==
  ASSUME SessionsOK, NEW s \in Sessions, NEW row, NewRow(row), row.version = 1, SaveLogin(s, row),
         \A p \in People : cred'[p].hash = cred[p].hash
  PROVE  SessionsOK'
  <1>0. session[s] = None /\ session' = [session EXCEPT ![s] = row]
        /\ access' = access \cup {[session |-> s, version |-> 1]}
    BY DEF SaveLogin
  <1>1. row \in SessionRow /\ row # None /\ row.family = "active"
    BY NoneIsNoRow DEF NewRow
  <1>2. session \in [Sessions -> SessionRow \cup {None}]
    BY DEF SessionsOK
  <1>3. session'[s] = row /\ \A u \in Sessions \ {s} : session'[u] = session[u]
    BY <1>0, <1>2
  <1>4. session' \in [Sessions -> SessionRow \cup {None}] /\ access' \subseteq Token
    BY <1>0, <1>1, <1>2 DEF Token, SessionsOK
  <1>5. \A u \in Sessions : session[u] = None => session'[u] = None \/ NewRow(session'[u])
    BY <1>3
  <1>6. ASSUME NEW u \in Sessions, session[u] # None
        PROVE  Weaker(session'[u], session[u]) /\ cred'[session[u].person].hash = cred[session[u].person].hash
    <2>1. u # s /\ session'[u] = session[u]
      BY <1>0, <1>3, <1>6
    <2>2. session[u] \in SessionRow /\ Weaker(session[u], session[u])
      BY <1>6, RowsStay
    <2>3. session[u].person \in People
      BY <2>2, SessionFields
    <2> QED
      BY <2>1, <2>2, <2>3
  <1>7. \A t \in access' \ access :
          /\ session'[t.session] # None /\ session'[t.session].family = "active"
          /\ t.version <= session'[t.session].version
    BY <1>0, <1>1, <1>3
  <1>8. SessionsMove
    BY <1>4, <1>5, <1>6, <1>7 DEF SessionsMove
  <1> QED
    BY <1>8, MovesKeepSessions

\* The Session of a login.
LEMMA NewPlatformSessionIsNew ==
  ASSUME NEW p \in People, NEW g \in 1..MaxMemberships, NEW m \in {"oidc", "password"}, NEW h \in 0..MaxHash,
         m = "password" => h = cred'[p].hash, NEW row,
         row = [person |-> p, gen |-> g, method |-> m, hash |-> h,
                status |-> "active", grant |-> "active", version |-> 1, family |-> "active",
                token |-> 1, live |-> TRUE, over |-> FALSE, fresh |-> TRUE]
  PROVE  NewRow(row) /\ row.version = 1
  <1>1. row \in SessionRow
    <2>1. 1 \in 1..MaxTokens /\ 1 \in 1..3
      BY Bounds
    <2> QED
      BY <2>1 DEF SessionRow
  <1>2. /\ row.version = 1 /\ row.family = "active" /\ row.method = m /\ row.hash = h /\ row.person = p
        /\ row.grant = "active"
    OBVIOUS
  <1> QED
    BY <1>1, <1>2 DEF NewRow, Versioned

LEMMA EnteringMember ==
  ASSUME AuthorityOK, NEW p \in People, MayEnter(p)
  PROVE  member[p].gen \in 1..MaxMemberships
  <1>1. member[p] \in MembershipRow /\ member[p].status = "active"
    BY DEF AuthorityOK, MayEnter
  <1>2. member[p].gen \in 0..MaxMemberships /\ member[p].gen # 0
    BY <1>1 DEF MembershipRow, AuthorityOK, MembersNumbered
  <1> QED
    BY <1>2, Bounds

-----------------------------------------------------------------------------
(***************************************************************************)
(* Each transaction keeps the Sessions in order.                           *)
(***************************************************************************)
LEMMA KnownLoginSessions ==
  ASSUME SessionInv, NEW s \in Sessions, NEW p \in People, CompleteKnownOIDC(s, p)
  PROVE  SessionsOK'
  <1>1. SaveLogin(s, NewPlatformSession(p, "oidc")) /\ MayEnter(p) /\ cred' = cred
    BY DEF CompleteKnownOIDC, WithinPlatformLogin
  <1>2. PICK row : row = NewPlatformSession(p, "oidc")
    OBVIOUS
  <1>3. row = [person |-> p, gen |-> member[p].gen, method |-> "oidc", hash |-> 0,
               status |-> "active", grant |-> "active", version |-> 1, family |-> "active",
               token |-> 1, live |-> TRUE, over |-> FALSE, fresh |-> TRUE]
    BY <1>2 DEF NewPlatformSession
  <1>4. member[p].gen \in 1..MaxMemberships
    BY <1>1, EnteringMember DEF SessionInv
  <1>5. 0 \in 0..MaxHash
    BY Bounds
  <1>6. NewRow(row) /\ row.version = 1
    BY <1>3, <1>4, <1>5, NewPlatformSessionIsNew
  <1>7. SessionsOK /\ SaveLogin(s, row)
    BY <1>1, <1>2 DEF SessionInv
  <1> QED
    BY <1>1, <1>6, <1>7, LoginMoves

LEMMA FirstLoginSessions ==
  ASSUME SessionInv, NEW s \in Sessions, NEW p \in People, CompleteFirstOIDC(s, p)
  PROVE  SessionsOK'
  <1>1. SaveLogin(s, [NewPlatformSession(p, "oidc") EXCEPT !.gen = 1]) /\ cred' = cred
    BY DEF CompleteFirstOIDC, WithinPlatformLogin
  <1>2. PICK row : row = [NewPlatformSession(p, "oidc") EXCEPT !.gen = 1]
    OBVIOUS
  <1>3. row = [person |-> p, gen |-> 1, method |-> "oidc", hash |-> 0,
               status |-> "active", grant |-> "active", version |-> 1, family |-> "active",
               token |-> 1, live |-> TRUE, over |-> FALSE, fresh |-> TRUE]
    BY <1>2 DEF NewPlatformSession
  <1>4. 1 \in 1..MaxMemberships /\ 0 \in 0..MaxHash
    BY Bounds
  <1>5. NewRow(row) /\ row.version = 1
    BY <1>3, <1>4, NewPlatformSessionIsNew
  <1>6. SessionsOK /\ SaveLogin(s, row)
    BY <1>1, <1>2 DEF SessionInv
  <1> QED
    BY <1>1, <1>5, <1>6, LoginMoves

LEMMA CredentialFields ==
  ASSUME NEW c \in Credential
  PROVE  /\ c.hash \in 0..MaxHash /\ c.failures \in 0..MaxFailures
         /\ c.locked \in {"no", "yes", "lapsed"} /\ c.version \in 0..MaxVersion
  BY DEF Credential

\* What may happen to a credential in a login.
CredentialKept(new, c) ==
  /\ new \in Credential /\ new.hash = c.hash
  /\ new.locked = "no" => new.failures < MaxFailures

LEMMA ResetFailuresKeep ==
  ASSUME NEW c \in Credential, c.version < MaxVersion, c.locked = "no" => c.failures < MaxFailures,
         NEW new, new = ResetPasswordFailures(c)
  PROVE  CredentialKept(new, c)
  <1>1. CASE c.failures # 0 \/ c.locked # "no"
    <2>1. new = [hash |-> c.hash, failures |-> 0, locked |-> "no", version |-> c.version + 1]
      BY <1>1 DEF ResetPasswordFailures, Credential
    <2>2. c.hash \in 0..MaxHash /\ c.version + 1 \in 0..MaxVersion /\ 0 \in 0..MaxFailures
      BY CredentialFields, Bounds
    <2>3. new \in Credential
      BY <2>1, <2>2 DEF Credential
    <2> QED
      BY <2>1, <2>3, Bounds DEF CredentialKept
  <1>2. CASE ~(c.failures # 0 \/ c.locked # "no")
    BY <1>2 DEF ResetPasswordFailures, CredentialKept
  <1> QED
    BY <1>1, <1>2

LEMMA RecordFailureKeeps ==
  ASSUME NEW c \in Credential, c.version < MaxVersion, c.locked = "no" => c.failures < MaxFailures,
         c.locked # "yes", NEW new, new = RecordPasswordFailure(c)
  PROVE  CredentialKept(new, c)
  <1>0. c.hash \in 0..MaxHash /\ c.version + 1 \in 0..MaxVersion /\ 1 \in 0..MaxFailures
        /\ c.failures \in 0..MaxFailures
    BY CredentialFields, Bounds
  <1>1. CASE c.locked = "lapsed"
    <2>1. new = [hash |-> c.hash, failures |-> 1, locked |-> "no", version |-> c.version + 1]
      BY <1>1 DEF RecordPasswordFailure, Credential
    <2>2. new \in Credential
      BY <1>0, <2>1 DEF Credential
    <2> QED
      BY <2>1, <2>2, Bounds DEF CredentialKept
  <1>2. CASE c.locked = "no"
    <2>1. c.failures < MaxFailures
      BY <1>2
    <2>2. PICK l \in {"no", "yes"} : l = (IF c.failures + 1 >= MaxFailures THEN "yes" ELSE "no")
      OBVIOUS
    <2>3. new = [hash |-> c.hash, failures |-> c.failures + 1, locked |-> l, version |-> c.version + 1]
      BY <1>2, <2>2 DEF RecordPasswordFailure, Credential
    <2>4. c.failures + 1 \in 0..MaxFailures /\ (l = "no" => c.failures + 1 < MaxFailures)
      BY <1>0, <2>1, <2>2, Bounds
    <2>5. new \in Credential
      BY <1>0, <2>3, <2>4 DEF Credential
    <2> QED
      BY <2>3, <2>4, <2>5 DEF CredentialKept
  <1> QED
    BY <1>1, <1>2, CredentialFields

LEMMA AttemptFields ==
  ASSUME NEW a \in Attempt
  PROVE  a.valid \in BOOLEAN /\ a.hash \in 1..MaxHash /\ a.version \in 0..MaxVersion
  BY DEF Attempt

\* A credential changes in a login, its hash does not.
LEMMA CredentialsKept ==
  ASSUME CredentialsOK, NEW p \in People, NEW new, CredentialKept(new, cred[p]),
         cred' = [cred EXCEPT ![p] = new]
  PROVE  /\ cred' \in [People -> Credential] /\ FailuresLeft'
         /\ \A q \in People : cred'[q].hash = cred[q].hash
  <1>1. cred \in [People -> Credential] /\ FailuresLeft
    BY DEF CredentialsOK
  <1>2. cred'[p] = new /\ \A q \in People \ {p} : cred'[q] = cred[q]
    BY <1>1
  <1>3. cred' \in [People -> Credential]
    BY <1>1 DEF CredentialKept
  <1>4. FailuresLeft'
    BY <1>1, <1>2 DEF FailuresLeft, CredentialKept
  <1> QED
    BY <1>2, <1>3, <1>4 DEF CredentialKept

\* A login attempt ends or begins.
LEMMA AttemptsKept ==
  ASSUME CredentialsOK, NEW p \in People, NEW a \in Attempt \cup {None},
         attempt' = [attempt EXCEPT ![p] = a], cred' \in [People -> Credential], FailuresLeft'
  PROVE  CredentialsOK'
  <1>1. attempt' \in [People -> Attempt \cup {None}]
    BY DEF CredentialsOK
  <1> QED
    BY <1>1 DEF CredentialsOK

LEMMA PasswordLoginKeeps ==
  ASSUME SessionInv, NEW s \in Sessions, NEW p \in People, PasswordLogin(s, p)
  PROVE  SessionsOK' /\ CredentialsOK'
  <1>0. SessionsOK /\ CredentialsOK /\ AuthorityOK
    BY DEF SessionInv
  <1>1. /\ attempt[p] # None /\ LockPlatformPassword(p) /\ MayEnter(p) /\ cred[p].version < MaxVersion
        /\ SaveLogin(s, NewPlatformSession(p, "password"))
        /\ cred' = [cred EXCEPT ![p] = ResetPasswordFailures(@)]
        /\ attempt' = [attempt EXCEPT ![p] = None]
    BY DEF PasswordLogin
  <1>2. cred[p] \in Credential /\ (cred[p].locked = "no" => cred[p].failures < MaxFailures)
        /\ attempt[p] \in Attempt
    BY <1>0, <1>1 DEF CredentialsOK, FailuresLeft
  <1>3. PICK new : new = ResetPasswordFailures(cred[p])
    OBVIOUS
  <1>4. CredentialKept(new, cred[p])
    BY <1>1, <1>2, <1>3, ResetFailuresKeep
  <1>5. cred' = [cred EXCEPT ![p] = new]
    BY <1>1, <1>3
  <1>6. /\ cred' \in [People -> Credential] /\ FailuresLeft'
        /\ \A q \in People : cred'[q].hash = cred[q].hash
    BY <1>0, <1>4, <1>5, CredentialsKept
  <1>7. CredentialsOK'
    BY <1>0, <1>1, <1>6, AttemptsKept
  <1>8. PICK row : row = NewPlatformSession(p, "password")
    OBVIOUS
  <1>9. row = [person |-> p, gen |-> member[p].gen, method |-> "password", hash |-> attempt[p].hash,
               status |-> "active", grant |-> "active", version |-> 1, family |-> "active",
               token |-> 1, live |-> TRUE, over |-> FALSE, fresh |-> TRUE]
    BY <1>8 DEF NewPlatformSession
  <1>10. member[p].gen \in 1..MaxMemberships
    BY <1>0, <1>1, EnteringMember
  <1>11. attempt[p].hash \in 0..MaxHash /\ attempt[p].hash = cred'[p].hash
    <2>1. attempt[p].hash \in 1..MaxHash
      BY <1>2, AttemptFields
    <2> QED
      BY <2>1, <1>1, <1>6, Bounds DEF LockPlatformPassword
  <1>12. NewRow(row) /\ row.version = 1
    BY <1>9, <1>10, <1>11, NewPlatformSessionIsNew
  <1>13. SaveLogin(s, row)
    BY <1>1, <1>8
  <1> QED
    BY <1>0, <1>6, <1>7, <1>12, <1>13, LoginMoves

LEMMA FailureKeeps ==
  ASSUME SessionInv, NEW p \in People, PasswordLoginFailure(p)
  PROVE  SessionsOK' /\ CredentialsOK'
  <1>0. SessionsOK /\ CredentialsOK
    BY DEF SessionInv
  <1>1. /\ cred[p].version < MaxVersion /\ attempt' = [attempt EXCEPT ![p] = None]
        /\ cred' = [cred EXCEPT ![p] =
             IF @.hash = attempt[p].hash /\ @.locked # "yes" THEN RecordPasswordFailure(@) ELSE @]
        /\ session' = session /\ access' = access
    BY DEF PasswordLoginFailure
  <1>2. cred[p] \in Credential /\ (cred[p].locked = "no" => cred[p].failures < MaxFailures)
    BY <1>0 DEF CredentialsOK, FailuresLeft
  <1>3. PICK new : new = (IF cred[p].hash = attempt[p].hash /\ cred[p].locked # "yes"
                          THEN RecordPasswordFailure(cred[p]) ELSE cred[p])
    OBVIOUS
  <1>4. CredentialKept(new, cred[p])
    <2>1. CASE cred[p].hash = attempt[p].hash /\ cred[p].locked # "yes"
      <3>1. new = RecordPasswordFailure(cred[p])
        BY <1>3, <2>1
      <3> QED
        BY <1>1, <1>2, <2>1, <3>1, RecordFailureKeeps
    <2>2. CASE ~(cred[p].hash = attempt[p].hash /\ cred[p].locked # "yes")
      BY <1>2, <1>3, <2>2 DEF CredentialKept
    <2> QED
      BY <2>1, <2>2
  <1>5. cred' = [cred EXCEPT ![p] = new]
    BY <1>1, <1>3
  <1>6. /\ cred' \in [People -> Credential] /\ FailuresLeft'
        /\ \A q \in People : cred'[q].hash = cred[q].hash
    BY <1>0, <1>4, <1>5, CredentialsKept
  <1>7. CredentialsOK'
    BY <1>0, <1>1, <1>6, AttemptsKept
  <1> QED
    BY <1>0, <1>1, <1>6, <1>7, SessionsStay

LEMMA LockEndKeeps ==
  ASSUME SessionInv, NEW p \in People, LockEnds(p)
  PROVE  SessionsOK' /\ CredentialsOK'
  <1>0. SessionsOK /\ CredentialsOK
    BY DEF SessionInv
  <1>1. /\ cred' = [cred EXCEPT ![p].locked = "lapsed"] /\ attempt' = attempt
        /\ session' = session /\ access' = access
    BY DEF LockEnds
  <1>2. cred[p] \in Credential
    BY <1>0 DEF CredentialsOK
  <1>3. PICK new : new = [cred[p] EXCEPT !.locked = "lapsed"]
    OBVIOUS
  <1>4. new = [hash |-> cred[p].hash, failures |-> cred[p].failures, locked |-> "lapsed",
               version |-> cred[p].version]
    BY <1>2, <1>3 DEF Credential
  <1>5. new \in Credential
    BY <1>2, <1>4, CredentialFields DEF Credential
  <1>6. CredentialKept(new, cred[p])
    BY <1>4, <1>5 DEF CredentialKept
  <1>7. cred' = [cred EXCEPT ![p] = new]
    BY <1>1, <1>3
  <1>8. /\ cred' \in [People -> Credential] /\ FailuresLeft'
        /\ \A q \in People : cred'[q].hash = cred[q].hash
    BY <1>0, <1>6, <1>7, CredentialsKept
  <1>9. CredentialsOK'
    BY <1>0, <1>1, <1>8 DEF CredentialsOK
  <1> QED
    BY <1>0, <1>1, <1>8, <1>9, SessionsStay

LEMMA BeginKeeps ==
  ASSUME SessionInv, NEW p \in People, NEW valid \in BOOLEAN, BeginPasswordLogin(p, valid)
  PROVE  SessionsOK' /\ CredentialsOK'
  <1>0. SessionsOK /\ CredentialsOK
    BY DEF SessionInv
  <1>1. /\ cred[p].hash > 0
        /\ attempt' = [attempt EXCEPT ![p] = [ReadPlatformPassword(p) EXCEPT !.valid = valid]]
        /\ session' = session /\ access' = access /\ cred' = cred
    BY DEF BeginPasswordLogin
  <1>2. cred[p] \in Credential
    BY <1>0 DEF CredentialsOK
  <1>3. PICK a : a = [ReadPlatformPassword(p) EXCEPT !.valid = valid]
    OBVIOUS
  <1>4. a = [valid |-> valid, hash |-> cred[p].hash, version |-> cred[p].version]
    BY <1>3 DEF ReadPlatformPassword
  <1>5. cred[p].hash \in 1..MaxHash /\ cred[p].version \in 0..MaxVersion
    BY <1>1, <1>2, CredentialFields, Bounds
  <1>6. a \in Attempt
    BY <1>4, <1>5 DEF Attempt
  <1>7. cred' \in [People -> Credential] /\ FailuresLeft'
    BY <1>0, <1>1 DEF CredentialsOK, FailuresLeft
  <1>8. attempt' = [attempt EXCEPT ![p] = a]
    BY <1>1, <1>3
  <1>9. CredentialsOK'
    BY <1>0, <1>6, <1>7, <1>8, AttemptsKept
  <1> QED
    BY <1>0, <1>1, <1>9, SessionsStay

LEMMA DeniedKeeps ==
  ASSUME SessionInv, NEW p \in People, PasswordLoginDenied(p)
  PROVE  SessionsOK' /\ CredentialsOK'
  <1>0. SessionsOK /\ CredentialsOK
    BY DEF SessionInv
  <1>1. attempt' = [attempt EXCEPT ![p] = None] /\ session' = session /\ access' = access /\ cred' = cred
    BY DEF PasswordLoginDenied
  <1>2. cred' \in [People -> Credential] /\ FailuresLeft'
    BY <1>0, <1>1 DEF CredentialsOK, FailuresLeft
  <1>3. CredentialsOK'
    BY <1>0, <1>1, <1>2, AttemptsKept
  <1> QED
    BY <1>0, <1>1, <1>3, SessionsStay

\* A reset ends every Session of the person, so that none is left to be opened
\* by another password than the current one.
LEMMA ResetKeeps ==
  ASSUME SessionInv, NEW p \in People, ResetPassword(p)
  PROVE  SessionsOK' /\ CredentialsOK'
  <1>0. SessionsOK /\ CredentialsOK
    BY DEF SessionInv
  <1>1. /\ cred[p].hash \in 1..(MaxHash - 1) /\ cred[p].version < MaxVersion
        /\ cred' = [cred EXCEPT ![p] = ResetCredential(@)]
        /\ revokePrincipalSessions(p) /\ access' = access /\ attempt' = attempt
    BY DEF ResetPassword
  <1>2. cred \in [People -> Credential] /\ FailuresLeft
    BY <1>0 DEF CredentialsOK
  <1>3. PICK new : new = ResetCredential(cred[p])
    OBVIOUS
  <1>4. new = [hash |-> cred[p].hash + 1, failures |-> 0, locked |-> "no", version |-> cred[p].version + 1]
    BY <1>3 DEF ResetCredential
  <1>5. /\ cred[p].hash + 1 \in 0..MaxHash /\ cred[p].version + 1 \in 0..MaxVersion
        /\ 0 \in 0..MaxFailures
    BY <1>1, <1>2, CredentialFields, Bounds
  <1>6. new \in Credential
    BY <1>4, <1>5 DEF Credential
  <1>7. cred'[p] = new /\ (\A q \in People \ {p} : cred'[q] = cred[q]) /\ cred' \in [People -> Credential]
    BY <1>1, <1>2, <1>3, <1>6
  <1>8. CredentialsOK'
    <2>1. FailuresLeft'
      BY <1>2, <1>4, <1>7, Bounds DEF FailuresLeft
    <2> QED
      BY <1>0, <1>1, <1>7, <2>1 DEF CredentialsOK
  <1>9. ASSUME NEW s \in Sessions, session[s] # None
        PROVE  /\ Weaker(session'[s], session[s]) /\ session'[s] \in SessionRow
               /\ session'[s].status = "active" =>
                    cred'[session[s].person].hash = cred[session[s].person].hash
    <2>0. session[s] \in SessionRow /\ Versioned(session[s]) /\ Weaker(session[s], session[s])
      BY <1>0, <1>9, RowsStay
    <2>1. CASE session[s].person = p
      <3>1. session'[s] = RevokePlatformSession(RevokePlatformGrantsForPrincipal(
              RevokePlatformRefreshFamiliesForPrincipal(RevokePlatformRefreshTokensForPrincipal(session[s]))))
        BY <1>1, <1>9, <2>1 DEF revokePrincipalSessions
      <3>2. Weaker(session'[s], session[s]) /\ session'[s].status = "revoked"
        BY <2>0, <3>1, RevokedRow
      <3> QED
        BY <3>2 DEF Weaker
    <2>2. CASE session[s].person # p
      <3>1. session'[s] = session[s]
        BY <1>1, <2>2 DEF revokePrincipalSessions
      <3>2. session[s].person \in People
        BY <2>0, SessionFields
      <3> QED
        BY <1>7, <2>0, <2>2, <3>1, <3>2
    <2> QED
      BY <2>1, <2>2
  <1>10. \A s \in Sessions : session[s] = None => session'[s] = None
    BY <1>1 DEF revokePrincipalSessions
  <1>11. session' \in [Sessions -> SessionRow \cup {None}]
    <2>1. \A s \in Sessions : session'[s] \in SessionRow \cup {None}
      BY <1>9, <1>10
    <2>2. DOMAIN session' = Sessions /\ session' = [s \in Sessions |-> session'[s]]
      BY <1>1 DEF revokePrincipalSessions
    <2> QED
      BY <2>1, <2>2
  <1>12. access' \subseteq Token
    BY <1>0, <1>1 DEF SessionsOK
  <1>13. SessionsMove
    BY <1>1, <1>9, <1>10, <1>11, <1>12 DEF SessionsMove
  <1> QED
    BY <1>0, <1>8, <1>13, MovesKeepSessions

LEMMA LogoutSessions ==
  ASSUME SessionsOK, NEW s \in Existing, LogoutSession(s)
  PROVE  SessionsOK'
  <1>0. s \in Sessions /\ session[s] # None
    BY DEF Existing
  <1>1. session' = [session EXCEPT ![s] = Logout(@)] /\ access' = access /\ cred' = cred
    BY DEF LogoutSession, WithinPlatformSession
  <1>2. session[s] \in SessionRow /\ Versioned(session[s])
    BY <1>0, RowsStay
  <1>3. PICK row : row = Logout(session[s])
    OBVIOUS
  <1>4. Weaker(row, session[s])
    BY <1>2, <1>3, RevokedRow
  <1>5. session' = [session EXCEPT ![s] = row] /\ access' \subseteq Token
    BY <1>1, <1>3 DEF SessionsOK
  <1> QED
    BY <1>0, <1>1, <1>4, <1>5, OneRowMoves

LEMMA AgingSessions ==
  ASSUME SessionsOK, NEW s \in Existing, SessionAges(s)
  PROVE  SessionsOK'
  <1>0. s \in Sessions /\ session[s] # None
    BY DEF Existing
  <1>1. /\ \/ session' = [session EXCEPT ![s].fresh = FALSE]
           \/ session' = [session EXCEPT ![s].over = TRUE, ![s].fresh = FALSE]
        /\ access' = access /\ cred' = cred
    BY DEF SessionAges
  <1>2. session[s] \in SessionRow /\ Versioned(session[s])
    BY <1>0, RowsStay
  <1>3. session \in [Sessions -> SessionRow \cup {None}] /\ access' \subseteq Token
    BY <1>1 DEF SessionsOK
  <1>4. PICK row : /\ row = [session[s] EXCEPT !.fresh = FALSE]
                     \/ row = [session[s] EXCEPT !.over = TRUE, !.fresh = FALSE]
                   /\ session' = [session EXCEPT ![s] = row]
    <2>1. CASE session' = [session EXCEPT ![s].fresh = FALSE]
      BY <2>1
    <2>2. CASE session' = [session EXCEPT ![s].over = TRUE, ![s].fresh = FALSE]
      <3>1. session' = [session EXCEPT ![s] = [session[s] EXCEPT !.over = TRUE, !.fresh = FALSE]]
        BY <1>0, <1>3, <2>2
      <3> QED
        BY <3>1
    <2> QED
      BY <1>1, <2>1, <2>2
  <1>5. Weaker(row, session[s])
    BY <1>2, <1>4, AgedRow
  <1> QED
    BY <1>0, <1>1, <1>3, <1>4, <1>5, OneRowMoves

LEMMA RefreshSessions ==
  ASSUME SessionsOK, NEW s \in Existing, NEW n \in 1..MaxTokens, RefreshSession(s, n)
  PROVE  SessionsOK'
  <1>0. s \in Sessions /\ session[s] # None
    BY DEF Existing
  <1>1. session[s] \in SessionRow /\ Versioned(session[s])
    BY <1>0, RowsStay
  <1>2. cred' = cred
    BY DEF RefreshSession, WithinPlatformSession
  <1>3. access \subseteq Token
    BY DEF SessionsOK
  <1>4. CASE Rotate(s, n)
    <2>1. /\ validatePlatformRefresh(s, n) /\ session[s].token < MaxTokens
          /\ session' = [session EXCEPT ![s] = CreatePlatformRefreshToken(@)]
          /\ access' = access \cup {[session |-> s, version |-> session[s].version]}
      BY <1>4 DEF Rotate
    <2>2. PICK row : row = CreatePlatformRefreshToken(session[s])
      OBVIOUS
    <2>3. Weaker(row, session[s]) /\ row.version = session[s].version /\ row.family = session[s].family
      BY <1>1, <2>1, <2>2, RotatedRow
    <2>4. session[s].version \in 1..3
      BY <1>1, SessionFields
    <2>5. access' \subseteq Token
      BY <1>0, <1>3, <2>1, <2>4 DEF Token
    <2>6. \A t \in access' \ access : t.session = s /\ t.version <= row.version /\ row.family = "active"
      BY <2>1, <2>3, <2>4 DEF validatePlatformRefresh
    <2>7. session' = [session EXCEPT ![s] = row]
      BY <2>1, <2>2
    <2> QED
      BY <1>0, <1>2, <2>3, <2>5, <2>6, <2>7, OneRowMoves
  <1>5. CASE /\ session[s].family = "active" /\ session' = [session EXCEPT ![s] = RevokeFamily(@)]
             /\ access' = access
    <2>1. PICK row : row = RevokeFamily(session[s])
      OBVIOUS
    <2>2. Weaker(row, session[s])
      BY <1>1, <1>5, <2>1, FamilyRevokedRow
    <2>3. session' = [session EXCEPT ![s] = row] /\ access' \subseteq Token
      BY <1>3, <1>5, <2>1
    <2> QED
      BY <1>0, <1>2, <1>5, <2>2, <2>3, OneRowMoves
  <1> QED
    BY <1>4, <1>5 DEF RefreshSession

-----------------------------------------------------------------------------
(***************************************************************************)
(* The first administrator.                                                *)
(***************************************************************************)
LEMMA RegisterKeeps ==
  ASSUME SessionInv, NEW i \in Intents, NEW p \in People, NEW previous \in Intents \cup {None},
         Register(i, p, previous)
  PROVE  IntentsOK'
  <1>0. intent \in [Intents -> IntentRow \cup {None}] /\ Chain
    BY DEF SessionInv, IntentsOK
  <1>1. PICK row : row = [person |-> p, over |-> FALSE, supersedes |-> previous]
    OBVIOUS
  <1>2. /\ completion = None /\ completion' = None /\ intent[i] = None /\ MaySupersede(previous)
        /\ intent' = [intent EXCEPT ![i] = row]
    BY <1>1 DEF Register, InsertFirstAdministratorIntent
  <1>3. row \in IntentRow /\ row # None /\ row.supersedes = previous /\ row.over = FALSE
    BY <1>1, NoneIsNoRow DEF IntentRow
  <1>4. /\ intent'[i] = row /\ (\A j \in Intents \ {i} : intent'[j] = intent[j])
        /\ intent' \in [Intents -> IntentRow \cup {None}]
    BY <1>0, <1>2, <1>3
  <1>5. Registered' = Registered \cup {i} /\ i \notin Registered /\ None \notin Registered
        /\ \A j \in Registered : intent'[j] = intent[j]
    BY <1>2, <1>3, <1>4, PlatformAssumption DEF Registered
  <1>6. \A j \in Registered : intent[j].supersedes # i
    <2>1. i # None
      BY PlatformAssumption
    <2> QED
      BY <1>0, <1>5, <2>1 DEF Chain
  <1>7. \A j \in GetFirstAdministratorLeaf : j = previous
    BY <1>0, <1>2 DEF MaySupersede, Chain
  <1>8. GetFirstAdministratorLeaf' \subseteq {i}
    <2> SUFFICES ASSUME NEW j \in Registered', \A k \in Registered' : intent'[k].supersedes # j, j # i
                 PROVE  FALSE
      BY DEF GetFirstAdministratorLeaf
    <2>1. j \in Registered /\ \A k \in Registered : intent[k].supersedes # j
      BY <1>5
    <2>2. j = previous
      BY <2>1, <1>7 DEF GetFirstAdministratorLeaf
    <2> QED
      BY <2>2, <1>3, <1>4, <1>5
  <1>9. i \in GetFirstAdministratorLeaf'
    <2>1. previous # i
      BY <1>2, <1>5, PlatformAssumption DEF MaySupersede, GetFirstAdministratorLeaf
    <2>2. \A k \in Registered' : intent'[k].supersedes # i
      BY <1>3, <1>4, <1>5, <1>6, <2>1
    <2> QED
      BY <1>5, <2>2 DEF GetFirstAdministratorLeaf
  <1>10. \A j \in Registered : intent[j].over
    <2>1. \A j \in GetFirstAdministratorLeaf : intent[j].over
      BY <1>2, <1>7 DEF MaySupersede
    <2> QED
      BY <1>0, <2>1 DEF Chain
  <1>11. Chain'
    <2>1. \A j \in Registered' : intent'[j].supersedes \in Registered' \cup {None}
      <3>1. previous \in Registered \cup {None}
        BY <1>2 DEF MaySupersede, GetFirstAdministratorLeaf
      <3> QED
        BY <3>1, <1>0, <1>3, <1>4, <1>5 DEF Chain
    <2>2. \A j, k \in GetFirstAdministratorLeaf' : j = k
      BY <1>8
    <2>3. \A j \in Registered' : ~intent'[j].over => j \in GetFirstAdministratorLeaf'
      BY <1>5, <1>9, <1>10
    <2>4. ProvisioningEnds'
      BY <1>2 DEF ProvisioningEnds
    <2> QED
      BY <2>1, <2>2, <2>3, <2>4 DEF Chain
  <1> QED
    BY <1>2, <1>4, <1>11 DEF IntentsOK

LEMMA ElapsingIntentKeeps ==
  ASSUME SessionInv, NEW i \in Intents, IntentElapses(i)
  PROVE  IntentsOK'
  <1>0. intent \in [Intents -> IntentRow \cup {None}] /\ Chain /\ completion \in Intents \cup {None}
    BY DEF SessionInv, IntentsOK
  <1>1. intent[i] \in IntentRow /\ completion' = completion
    BY <1>0 DEF IntentElapses
  <1>2. PICK row : row = [intent[i] EXCEPT !.over = TRUE]
    OBVIOUS
  <1>3. row = [person |-> intent[i].person, over |-> TRUE, supersedes |-> intent[i].supersedes]
    BY <1>1, <1>2 DEF IntentRow
  <1>4. row \in IntentRow /\ row # None /\ row.supersedes = intent[i].supersedes /\ row.over = TRUE
    <2>1. row \in IntentRow
      BY <1>1, <1>3 DEF IntentRow
    <2> QED
      BY <1>3, <2>1, NoneIsNoRow
  <1>5. intent' = [intent EXCEPT ![i] = row]
    BY <1>2 DEF IntentElapses
  <1>6. /\ intent'[i] = row /\ (\A j \in Intents \ {i} : intent'[j] = intent[j])
        /\ intent' \in [Intents -> IntentRow \cup {None}]
    BY <1>0, <1>4, <1>5
  <1>7. Registered' = Registered
    BY <1>1, <1>4, <1>6, NoneIsNoRow DEF Registered
  <1>8. \A j \in Registered : /\ intent'[j].supersedes = intent[j].supersedes
                              /\ intent[j].over => intent'[j].over
    BY <1>4, <1>6 DEF Registered
  <1>9. GetFirstAdministratorLeaf' = GetFirstAdministratorLeaf
    BY <1>7, <1>8 DEF GetFirstAdministratorLeaf
  <1>10. Chain'
    <2>1. ProvisioningEnds'
      BY <1>0, <1>1, <1>7, <1>8 DEF ProvisioningEnds, Chain
    <2> QED
      BY <1>0, <1>7, <1>8, <1>9, <2>1 DEF Chain
  <1> QED
    BY <1>0, <1>1, <1>6, <1>10 DEF IntentsOK

LEMMA FirstLoginIntents ==
  ASSUME SessionInv, NEW s \in Sessions, NEW p \in People, CompleteFirstOIDC(s, p)
  PROVE  IntentsOK'
  <1>0. intent \in [Intents -> IntentRow \cup {None}] /\ Chain
    BY DEF SessionInv, IntentsOK
  <1>1. intent' = intent
    BY DEF CompleteFirstOIDC, WithinPlatformLogin
  <1>2. PICK i \in Registered : i \in GetFirstAdministratorLeaf /\ completion' = i
    BY DEF CompleteFirstOIDC, LookupFirstAdministratorCandidate, CreateFirstAdministrator,
           CompleteFirstAdministratorIntent
  <1>3. Registered' = Registered /\ GetFirstAdministratorLeaf' = GetFirstAdministratorLeaf
    BY <1>1 DEF Registered, GetFirstAdministratorLeaf
  <1>4. \A j \in Registered : intent[j].over \/ j = i
    BY <1>0, <1>2 DEF Chain
  <1>5. Chain'
    BY <1>0, <1>1, <1>2, <1>3, <1>4 DEF Chain, ProvisioningEnds
  <1>6. i \in Intents
    BY <1>2 DEF Registered
  <1> QED
    BY <1>0, <1>1, <1>2, <1>5, <1>6 DEF IntentsOK

-----------------------------------------------------------------------------
(***************************************************************************)
(* Memberships, bindings and roles.                                        *)
(***************************************************************************)
LEMMA MembershipFields ==
  ASSUME NEW m \in MembershipRow
  PROVE  /\ m.gen \in 0..MaxMemberships /\ m.version \in 0..MaxVersion
         /\ m.status \in {"none", "active", "suspended", "removed"}
  BY DEF MembershipRow

LEMMA MembershipMoves ==
  ASSUME AuthorityOK, NEW p \in People, NEW row \in MembershipRow, row.gen = 0 <=> row.status = "none",
         member' = [member EXCEPT ![p] = row]
  PROVE  /\ member' \in [People -> MembershipRow] /\ MembersNumbered'
         /\ member'[p] = row /\ \A q \in People \ {p} : member'[q] = member[q]
  <1>1. member \in [People -> MembershipRow] /\ MembersNumbered
    BY DEF AuthorityOK
  <1>2. member'[p] = row /\ \A q \in People \ {p} : member'[q] = member[q]
    BY <1>1
  <1>3. member' \in [People -> MembershipRow]
    BY <1>1
  <1>4. MembersNumbered'
    BY <1>1, <1>2 DEF MembersNumbered
  <1> QED
    BY <1>2, <1>3, <1>4

LEMMA RoleFields ==
  ASSUME NEW r \in RoleRow
  PROVE  r.present \in BOOLEAN /\ r.version \in 1..MaxVersion /\ r.permissions \in SUBSET Permissions
  BY DEF RoleRow

LEMMA RoleMoves ==
  ASSUME AuthorityOK, NEW r \in Roles, NEW row \in RoleRow, role' = [role EXCEPT ![r] = row]
  PROVE  /\ role' \in [Roles -> RoleRow]
         /\ role'[r] = row /\ \A x \in Roles \ {r} : role'[x] = role[x]
  BY DEF AuthorityOK

LEMMA BindingMoves ==
  ASSUME AuthorityOK, NEW p \in People, NEW g \in 1..MaxMemberships, NEW rs \in SUBSET Roles,
         CreatePlatformRoleBinding(p, g, rs)
  PROVE  /\ bindings' \subseteq People \X (1..MaxMemberships) \X Roles
         /\ \A b \in bindings' : b \in bindings \/ b[3] \in rs
  BY DEF AuthorityOK, CreatePlatformRoleBinding

LEMMA FirstLoginAuthority ==
  ASSUME SessionInv, NEW s \in Sessions, NEW p \in People, CompleteFirstOIDC(s, p)
  PROVE  /\ AuthorityOK'
         /\ \A q \in People : member[q].gen > 0 => member'[q].gen > 0
         /\ \A x \in Roles : role[x].present => role'[x].present
         /\ role'[Admin].present
         /\ \A b \in bindings' : b \in bindings \/ b[3] = Admin
  <1>0. AuthorityOK
    BY DEF SessionInv
  <1>1. /\ role' = [role EXCEPT ![Admin].present = TRUE]
        /\ human' = human \cup {p} /\ linked' = linked \cup {p}
        /\ member' = [member EXCEPT ![p] = [gen |-> 1, version |-> 1, status |-> "active"]]
        /\ CreatePlatformRoleBinding(p, 1, {Admin})
    BY DEF CompleteFirstOIDC, InsertAdministratorRole, CreateFirstAdministrator, CreatePlatformMembership
  <1>2. Admin \in Roles /\ 1 \in 1..MaxMemberships /\ 1 \in 0..MaxMemberships /\ 1 \in 0..MaxVersion
    BY Bounds
  <1>3. PICK row : row = [gen |-> 1, version |-> 1, status |-> "active"]
    OBVIOUS
  <1>4. row \in MembershipRow /\ row.gen = 1 /\ (row.gen = 0 <=> row.status = "none")
    BY <1>2, <1>3 DEF MembershipRow
  <1>5. member' = [member EXCEPT ![p] = row]
    BY <1>1, <1>3
  <1>6. /\ member' \in [People -> MembershipRow] /\ MembersNumbered'
        /\ member'[p] = row /\ \A q \in People \ {p} : member'[q] = member[q]
    BY <1>0, <1>4, <1>5, MembershipMoves
  <1>7. PICK new : new = [role[Admin] EXCEPT !.present = TRUE]
    OBVIOUS
  <1>8. role[Admin] \in RoleRow
    BY <1>0, <1>2 DEF AuthorityOK
  <1>9. new = [present |-> TRUE, version |-> role[Admin].version, permissions |-> role[Admin].permissions]
    BY <1>7, <1>8 DEF RoleRow
  <1>10. new \in RoleRow /\ new.present
    <2>1. role[Admin].version \in 1..MaxVersion /\ role[Admin].permissions \in SUBSET Permissions
      BY <1>8, RoleFields
    <2> QED
      BY <1>9, <2>1 DEF RoleRow
  <1>11. role' = [role EXCEPT ![Admin] = new]
    BY <1>1, <1>7
  <1>12. role' \in [Roles -> RoleRow] /\ role'[Admin] = new /\ \A x \in Roles \ {Admin} : role'[x] = role[x]
    BY <1>0, <1>2, <1>10, <1>11, RoleMoves
  <1>13. {Admin} \in SUBSET Roles
    BY <1>2
  <1>14. /\ bindings' \subseteq People \X (1..MaxMemberships) \X Roles
         /\ \A b \in bindings' : b \in bindings \/ b[3] \in {Admin}
    BY <1>0, <1>1, <1>2, <1>13, BindingMoves
  <1>15. human' \subseteq People /\ linked' \subseteq human'
    BY <1>0, <1>1 DEF AuthorityOK
  <1>16. AuthorityOK'
    BY <1>6, <1>12, <1>14, <1>15 DEF AuthorityOK
  <1>17. \A q \in People : member[q].gen > 0 => member'[q].gen > 0
    BY <1>4, <1>6
  <1> QED
    BY <1>2, <1>10, <1>12, <1>14, <1>16, <1>17

LEMMA AuthorityStays ==
  ASSUME AuthorityOK, UNCHANGED authorityVars
  PROVE  AuthorityOK'
  BY DEF AuthorityOK, authorityVars, MembersNumbered

LEMMA CredentialsStay ==
  ASSUME CredentialsOK, cred' = cred, attempt' = attempt
  PROVE  CredentialsOK'
  BY DEF CredentialsOK, FailuresLeft

LEMMA IntentsStay ==
  ASSUME IntentsOK, intent' = intent, completion' = completion
  PROVE  IntentsOK'
  <1>1. Registered' = Registered /\ GetFirstAdministratorLeaf' = GetFirstAdministratorLeaf
    BY DEF Registered, GetFirstAdministratorLeaf
  <1>2. ProvisioningEnds' = ProvisioningEnds
    BY <1>1 DEF ProvisioningEnds
  <1> QED
    BY <1>1, <1>2 DEF IntentsOK, Chain

\* What a transaction on Sessions means to administration.
SessionStep ==
  /\ \A q \in People : member[q].gen > 0 => member'[q].gen > 0
  /\ \A x \in Roles : role[x].present => role'[x].present
  /\ \A b \in bindings' : b \in bindings \/ (b[3] = Admin /\ role'[Admin].present)

LEMMA QuietSessionStep ==
  ASSUME UNCHANGED authorityVars
  PROVE  SessionStep
  BY DEF SessionStep, authorityVars

LEMMA SessionNextKeeps ==
  ASSUME SessionInv, SessionNext
  PROVE  SessionInv' /\ SessionStep
  <1>0. AuthorityOK /\ SessionsOK /\ CredentialsOK /\ IntentsOK
    BY DEF SessionInv
  <1>1. ASSUME NEW p \in People, LockEnds(p) PROVE SessionInv' /\ SessionStep
    <2>1. UNCHANGED authorityVars /\ intent' = intent /\ completion' = completion
      BY <1>1 DEF LockEnds, foundingVars
    <2> QED
      BY <1>0, <1>1, <2>1, LockEndKeeps, AuthorityStays, IntentsStay, QuietSessionStep DEF SessionInv
  <1>2. ASSUME NEW p \in People, ResetPassword(p) PROVE SessionInv' /\ SessionStep
    <2>1. UNCHANGED authorityVars /\ intent' = intent /\ completion' = completion
      BY <1>2 DEF ResetPassword, foundingVars
    <2> QED
      BY <1>0, <1>2, <2>1, ResetKeeps, AuthorityStays, IntentsStay, QuietSessionStep DEF SessionInv
  <1>3. ASSUME NEW p \in People, PasswordLoginDenied(p) PROVE SessionInv' /\ SessionStep
    <2>1. UNCHANGED authorityVars /\ intent' = intent /\ completion' = completion
      BY <1>3 DEF PasswordLoginDenied, WithinPlatformPassword, foundingVars
    <2> QED
      BY <1>0, <1>3, <2>1, DeniedKeeps, AuthorityStays, IntentsStay, QuietSessionStep DEF SessionInv
  <1>4. ASSUME NEW p \in People, PasswordLoginFailure(p) PROVE SessionInv' /\ SessionStep
    <2>1. UNCHANGED authorityVars /\ intent' = intent /\ completion' = completion
      BY <1>4 DEF PasswordLoginFailure, WithinPlatformPassword, foundingVars
    <2> QED
      BY <1>0, <1>4, <2>1, FailureKeeps, AuthorityStays, IntentsStay, QuietSessionStep DEF SessionInv
  <1>5. ASSUME NEW p \in People, NEW valid \in BOOLEAN, BeginPasswordLogin(p, valid)
        PROVE  SessionInv' /\ SessionStep
    <2>1. UNCHANGED authorityVars /\ intent' = intent /\ completion' = completion
      BY <1>5 DEF BeginPasswordLogin, foundingVars
    <2> QED
      BY <1>0, <1>5, <2>1, BeginKeeps, AuthorityStays, IntentsStay, QuietSessionStep DEF SessionInv
  <1>6. ASSUME NEW p \in People, NEW s \in Sessions, CompleteKnownOIDC(s, p)
        PROVE  SessionInv' /\ SessionStep
    <2>1. /\ UNCHANGED authorityVars /\ intent' = intent /\ completion' = completion
          /\ cred' = cred /\ attempt' = attempt
      BY <1>6 DEF CompleteKnownOIDC, WithinPlatformLogin
    <2> QED
      BY <1>0, <1>6, <2>1, KnownLoginSessions, CredentialsStay, AuthorityStays, IntentsStay,
         QuietSessionStep DEF SessionInv
  <1>7. ASSUME NEW p \in People, NEW s \in Sessions, PasswordLogin(s, p)
        PROVE  SessionInv' /\ SessionStep
    <2>1. UNCHANGED authorityVars /\ intent' = intent /\ completion' = completion
      BY <1>7 DEF PasswordLogin, WithinPlatformPassword, foundingVars
    <2> QED
      BY <1>0, <1>7, <2>1, PasswordLoginKeeps, AuthorityStays, IntentsStay, QuietSessionStep DEF SessionInv
  <1>8. ASSUME NEW p \in People, NEW s \in Sessions, CompleteFirstOIDC(s, p)
        PROVE  SessionInv' /\ SessionStep
    <2>1. cred' = cred /\ attempt' = attempt
      BY <1>8 DEF CompleteFirstOIDC, WithinPlatformLogin
    <2>2. AuthorityOK' /\ SessionStep
      BY <1>8, FirstLoginAuthority DEF SessionStep
    <2> QED
      BY <1>0, <1>8, <2>1, <2>2, FirstLoginSessions, FirstLoginIntents, CredentialsStay DEF SessionInv
  <1>9. ASSUME NEW p \in People, NEW i \in Intents, NEW previous \in Intents \cup {None},
               Register(i, p, previous)
        PROVE  SessionInv' /\ SessionStep
    <2>1. /\ UNCHANGED authorityVars /\ cred' = cred /\ attempt' = attempt
          /\ session' = session /\ access' = access
      BY <1>9 DEF Register, sessionVars
    <2> QED
      BY <1>0, <1>9, <2>1, RegisterKeeps, SessionsStay, CredentialsStay, AuthorityStays,
         QuietSessionStep DEF SessionInv
  <1>10. ASSUME NEW s \in Existing, \/ LogoutSession(s) \/ SessionAges(s)
                                    \/ \E n \in 1..MaxTokens : RefreshSession(s, n)
         PROVE  SessionInv' /\ SessionStep
    <2>1. SessionsOK'
      BY <1>0, <1>10, LogoutSessions, AgingSessions, RefreshSessions
    <2>2. /\ UNCHANGED authorityVars /\ intent' = intent /\ completion' = completion
          /\ cred' = cred /\ attempt' = attempt
      BY <1>10 DEF LogoutSession, SessionAges, RefreshSession, WithinPlatformSession, foundingVars
    <2> QED
      BY <1>0, <2>1, <2>2, CredentialsStay, AuthorityStays, IntentsStay, QuietSessionStep DEF SessionInv
  <1>11. ASSUME NEW t \in access, AccessExpires(t) PROVE SessionInv' /\ SessionStep
    <2>1. /\ UNCHANGED authorityVars /\ intent' = intent /\ completion' = completion
          /\ cred' = cred /\ attempt' = attempt /\ session' = session /\ access' \subseteq access
      BY <1>11 DEF AccessExpires, foundingVars
    <2> QED
      BY <1>0, <2>1, SessionsStay, CredentialsStay, AuthorityStays, IntentsStay, QuietSessionStep
      DEF SessionInv
  <1>12. ASSUME NEW i \in Intents, IntentElapses(i) PROVE SessionInv' /\ SessionStep
    <2>1. /\ UNCHANGED authorityVars /\ cred' = cred /\ attempt' = attempt
          /\ session' = session /\ access' = access
      BY <1>12 DEF IntentElapses, sessionVars
    <2> QED
      BY <1>0, <1>12, <2>1, ElapsingIntentKeeps, SessionsStay, CredentialsStay, AuthorityStays,
         QuietSessionStep DEF SessionInv
  <1> QED
    BY <1>1, <1>2, <1>3, <1>4, <1>5, <1>6, <1>7, <1>8, <1>9, <1>10, <1>11, <1>12 DEF SessionNext

-----------------------------------------------------------------------------
(***************************************************************************)
(* Commands and Invitations.                                               *)
(***************************************************************************)
LEMMA AdminInvTypes ==
  ASSUME AdminInv
  PROVE  AdministrationTypeOK
  BY DEF AdminInv, CommandsOK, InvitesOK, TenantOK, AdministrationTypeOK

LEMMA InvitationFields ==
  ASSUME NEW row \in InvitationRow
  PROVE  /\ row.status \in {"absent", "pending", "accepted", "cancelled", "expired"}
         /\ row.email \in People \cup {None} /\ row.roles \in SUBSET Roles /\ row.over \in BOOLEAN
         /\ row.generation \in 0..MaxGeneration /\ row.version \in 0..MaxVersion
         /\ row.created \in (0..MaxMemberships) \X (0..MaxVersion)
  BY DEF InvitationRow

LEMMA CommandFields ==
  ASSUME NEW c \in Command
  PROVE  /\ c.op \in Operations /\ c.person \in People \cup {None}
         /\ c.status \in {"", "active", "suspended", "removed"} /\ c.roles \in SUBSET Roles
         /\ c.permissions \in SUBSET Permissions /\ c.id \in Invites \cup {None}
         /\ c.version \in 0..MaxVersion /\ c.key \in Keys
  BY DEF Command

LEMMA CommandForm ==
  ASSUME NEW o \in Operations, NEW p \in People \cup {None}, NEW st \in {"", "active", "suspended", "removed"},
         NEW rs \in SUBSET Roles, NEW ps \in SUBSET Permissions, NEW i \in Invites \cup {None},
         NEW v \in 0..MaxVersion, NEW k \in Keys, NEW c,
         c = [op |-> o, person |-> p, status |-> st, roles |-> rs, permissions |-> ps, id |-> i,
              version |-> v, key |-> k],
         o \in {"update", "bind", "unbind"} => p \in People /\ member[p].gen > 0,
         o = "update" => st \in {"active", "suspended", "removed"},
         o = "access" => st \in {"active", "suspended"},
         o = "invite" => p \in People,
         o \in {"resend", "cancel"} => i \in Invites
  PROVE  c \in Command /\ Complete(c)
  <1>1. c \in Command
    BY DEF Command
  <1>2. c.op = o /\ c.person = p /\ c.status = st /\ c.id = i
    OBVIOUS
  <1> QED
    BY <1>1, <1>2 DEF Complete

LEMMA KeyedForm ==
  ASSUME NEW k
  PROVE  Keyed(k) = [op |-> "access", person |-> None, status |-> "", roles |-> {}, permissions |-> {},
                     id |-> None, version |-> 0, key |-> k]
  <1>1. PICK c : c = [Blank EXCEPT !.key = k]
    OBVIOUS
  <1>2. c = [op |-> "access", person |-> None, status |-> "", roles |-> {}, permissions |-> {},
             id |-> None, version |-> 0, key |-> k]
    BY <1>1 DEF Blank
  <1> QED
    BY <1>1, <1>2 DEF Keyed

\* Every command a caller can make is complete.
LEMMA CommandsAreComplete ==
  ASSUME AuthorityOK, InvitesOK, TenantOK, NEW k \in Keys, NEW c \in Commands(k)
  PROVE  c \in Command /\ Complete(c)
  <1>0. /\ \A p \in People : member[p] \in MembershipRow
        /\ \A r \in Roles : role[r] \in RoleRow
        /\ \A i \in Invites : inv[i] \in InvitationRow
    BY DEF AuthorityOK, InvitesOK
  <1>3. /\ 0 \in 0..MaxVersion /\ {} \in SUBSET Roles /\ {} \in SUBSET Permissions
        /\ None \in People \cup {None} /\ None \in Invites \cup {None}
        /\ "" \in {"", "active", "suspended", "removed"}
    BY Bounds
  <1>4. /\ "update" \in Operations /\ "bind" \in Operations /\ "unbind" \in Operations
        /\ "createRole" \in Operations /\ "updateRole" \in Operations /\ "deleteRole" \in Operations
        /\ "invite" \in Operations /\ "resend" \in Operations /\ "cancel" \in Operations
        /\ "readInvitations" \in Operations /\ "access" \in Operations
    BY DEF Operations
  <1>5. ASSUME NEW p \in People, member[p].gen > 0, NEW st \in {"active", "suspended", "removed"},
               c = OnMember(k, p, st)
        PROVE  c \in Command /\ Complete(c)
    <2>1. /\ member[p].version \in 0..MaxVersion /\ p \in People \cup {None}
          /\ st \in {"", "active", "suspended", "removed"}
      BY <1>0, MembershipFields
    <2>2. c = [op |-> "update", person |-> p, status |-> st, roles |-> {}, permissions |-> {},
               id |-> None, version |-> member[p].version, key |-> k]
      BY <1>5, KeyedForm DEF OnMember
    <2>3. /\ "update" \in {"update", "bind", "unbind"} => p \in People /\ member[p].gen > 0
          /\ "update" = "update" => st \in {"active", "suspended", "removed"}
          /\ "update" # "access" /\ "update" # "invite" /\ "update" \notin {"resend", "cancel"}
      BY <1>5
    <2> QED
      BY <1>3, <1>4, <2>1, <2>2, <2>3, CommandForm
  <1>6. ASSUME NEW o \in {"bind", "unbind"}, NEW p \in People, member[p].gen > 0, NEW r \in Roles,
               c = OnBinding(k, o, p, r)
        PROVE  c \in Command /\ Complete(c)
    <2>1. /\ member[p].version \in 0..MaxVersion /\ p \in People \cup {None} /\ o \in Operations
          /\ {r} \in SUBSET Roles
      BY <1>0, <1>4, MembershipFields
    <2>2. c = [op |-> o, person |-> p, status |-> "", roles |-> {r}, permissions |-> {},
               id |-> None, version |-> member[p].version, key |-> k]
      BY <1>6, KeyedForm DEF OnBinding
    <2>3. /\ o \in {"update", "bind", "unbind"} => p \in People /\ member[p].gen > 0
          /\ o # "update" /\ o # "access" /\ o # "invite" /\ o \notin {"resend", "cancel"}
      BY <1>6
    <2> QED
      BY <1>3, <2>1, <2>2, <2>3, CommandForm
  <1>7. ASSUME NEW ps \in SUBSET Permissions, c = ToCreateRole(k, ps)
        PROVE  c \in Command /\ Complete(c)
    <2>2. c = [op |-> "createRole", person |-> None, status |-> "", roles |-> {}, permissions |-> ps,
               id |-> None, version |-> 0, key |-> k]
      BY <1>7, KeyedForm DEF ToCreateRole
    <2> QED
      BY <1>3, <1>4, <2>2, CommandForm
  <1>8. ASSUME NEW o \in {"updateRole", "deleteRole"}, NEW r \in Roles, NEW ps \in SUBSET Permissions,
               c = OnRole(k, o, r, ps)
        PROVE  c \in Command /\ Complete(c)
    <2>1. role[r].version \in 0..MaxVersion /\ {r} \in SUBSET Roles /\ o \in Operations
      <3>1. role[r].version \in 1..MaxVersion
        BY <1>0, RoleFields
      <3> QED
        BY <1>4, <3>1, Bounds
    <2>2. c = [op |-> o, person |-> None, status |-> "", roles |-> {r}, permissions |-> ps,
               id |-> None, version |-> role[r].version, key |-> k]
      BY <1>8, KeyedForm DEF OnRole
    <2>3. o \notin {"update", "bind", "unbind", "access", "invite", "resend", "cancel"}
      BY <1>8
    <2> QED
      BY <1>3, <2>1, <2>2, <2>3, CommandForm
  <1>10. ASSUME NEW p \in People, NEW r \in Roles, c = ToInvite(k, p, r)
         PROVE  c \in Command /\ Complete(c)
    <2>1. {r} \in SUBSET Roles
      OBVIOUS
    <2>2. c = [op |-> "invite", person |-> p, status |-> "", roles |-> {r}, permissions |-> {},
               id |-> None, version |-> 0, key |-> k]
      BY <1>10, KeyedForm DEF ToInvite
    <2> QED
      BY <1>3, <1>4, <2>1, <2>2, CommandForm
  <1>11. ASSUME NEW o \in {"resend", "cancel"}, NEW i \in Invites, c = OnInvitation(k, o, i)
         PROVE  c \in Command /\ Complete(c)
    <2>1. inv[i].version \in 0..MaxVersion /\ o \in Operations
      BY <1>0, <1>4, InvitationFields
    <2>2. c = [op |-> o, person |-> None, status |-> "", roles |-> {}, permissions |-> {},
               id |-> i, version |-> inv[i].version, key |-> k]
      BY <1>11, KeyedForm DEF OnInvitation
    <2> QED
      BY <1>3, <2>1, <2>2, CommandForm
  <1>12. ASSUME c = ToRead(k)
         PROVE  c \in Command /\ Complete(c)
    <2>2. c = [op |-> "readInvitations", person |-> None, status |-> "", roles |-> {}, permissions |-> {},
               id |-> None, version |-> 0, key |-> k]
      BY <1>12, KeyedForm DEF ToRead
    <2> QED
      BY <1>3, <1>4, <2>2, CommandForm
  <1>13. ASSUME NEW st \in {"active", "suspended"}, c = OnTenant(k, st)
         PROVE  c \in Command /\ Complete(c)
    <2>1. tenant.version \in 0..MaxVersion
      BY Bounds DEF TenantOK
    <2>2. c = [op |-> "access", person |-> None, status |-> st, roles |-> {}, permissions |-> {},
               id |-> None, version |-> tenant.version, key |-> k]
      BY <1>13, KeyedForm DEF OnTenant
    <2> QED
      BY <1>3, <1>4, <2>1, <2>2, CommandForm
  <1>14. \/ \E p \in People, st \in {"active", "suspended", "removed"} :
              member[p].gen > 0 /\ c = OnMember(k, p, st)
         \/ \E o \in {"bind", "unbind"}, p \in People, r \in Roles :
              member[p].gen > 0 /\ c = OnBinding(k, o, p, r)
         \/ \E ps \in SUBSET Permissions : c = ToCreateRole(k, ps)
         \/ \E r \in Roles, ps \in SUBSET Permissions : c = OnRole(k, "updateRole", r, ps)
         \/ \E r \in Roles : c = OnRole(k, "deleteRole", r, {})
         \/ \E p \in People, r \in Roles : c = ToInvite(k, p, r)
         \/ \E o \in {"resend", "cancel"}, i \in Invites : c = OnInvitation(k, o, i)
         \/ c = ToRead(k)
         \/ \E st \in {"active", "suspended"} : c = OnTenant(k, st)
    BY DEF Commands
  <1> QED
    BY <1>3, <1>5, <1>6, <1>7, <1>8, <1>10, <1>11, <1>12, <1>13, <1>14

\* Some Invitations change, their references and messages go, others come.
LEMMA InvitationsMove ==
  ASSUME InvitesOK, NEW S \in SUBSET Invites, inv' \in [Invites -> InvitationRow],
         \A i \in Invites \ S : inv'[i] = inv[i],
         NEW N \in SUBSET (Invites \X Roles), NEW M \in SUBSET (Invites \X (1..MaxGeneration)),
         refs' = ClearPlatformInvitationRoles(S) \cup N,
         mail' = CancelPlatformInvitationDeliveries(S) \cup M, inbox' = inbox,
         \A i \in S : inv'[i].status = "pending" => \A r \in inv'[i].roles : <<i, r>> \in N,
         \A x \in M : inv'[x[1]].status = "pending" /\ inv'[x[1]].generation = x[2]
  PROVE  InvitesOK'
  <1>1. refs' \subseteq Invites \X Roles /\ mail' \subseteq Invites \X (1..MaxGeneration)
    BY DEF InvitesOK, ClearPlatformInvitationRoles, CancelPlatformInvitationDeliveries
  <1>2. Referenced'
    <2> SUFFICES ASSUME NEW i \in Invites, inv'[i].status = "pending", NEW r \in inv'[i].roles
                 PROVE  <<i, r>> \in refs'
      BY DEF Referenced
    <2>1. CASE i \notin S
      <3>1. <<i, r>> \in refs
        BY <2>1 DEF InvitesOK, Referenced
      <3> QED
        BY <2>1, <3>1 DEF ClearPlatformInvitationRoles
    <2> QED
      BY <2>1
  <1>3. OnlyCurrentMessagesWait'
    <2> SUFFICES ASSUME NEW x \in mail'
                 PROVE  inv'[x[1]].status = "pending" /\ inv'[x[1]].generation = x[2]
      BY DEF OnlyCurrentMessagesWait
    <2>1. CASE x \in CancelPlatformInvitationDeliveries(S)
      <3>1. x \in mail /\ x[1] \notin S
        BY <2>1 DEF CancelPlatformInvitationDeliveries
      <3>2. x[1] \in Invites
        BY <3>1 DEF InvitesOK
      <3> QED
        BY <3>1, <3>2 DEF InvitesOK, OnlyCurrentMessagesWait
    <2> QED
      BY <2>1
  <1> QED
    BY <1>1, <1>2, <1>3 DEF InvitesOK

\* An Invitation ends.
LEMMA EndedRow ==
  ASSUME NEW row \in InvitationRow, row.version < MaxVersion,
         NEW st \in {"accepted", "cancelled", "expired"}, NEW new,
         new = TransitionPlatformInvitationTerminal(row, st)
  PROVE  new \in InvitationRow /\ new.status = st
  <1>1. new = [status |-> st, email |-> row.email, roles |-> row.roles, over |-> row.over,
               generation |-> row.generation, version |-> row.version + 1, created |-> row.created]
    BY DEF TransitionPlatformInvitationTerminal, InvitationRow
  <1>2. /\ row.email \in People \cup {None} /\ row.roles \in SUBSET Roles /\ row.over \in BOOLEAN
        /\ row.generation \in 0..MaxGeneration
        /\ row.created \in (0..MaxMemberships) \X (0..MaxVersion)
    BY InvitationFields
  <1>3. row.version + 1 \in 0..MaxVersion
    BY InvitationFields, Bounds
  <1>4. st \in {"absent", "pending", "accepted", "cancelled", "expired"}
    OBVIOUS
  <1>5. new \in InvitationRow
    BY <1>1, <1>2, <1>3, <1>4 DEF InvitationRow
  <1> QED
    BY <1>1, <1>5

LEMMA ResentRow ==
  ASSUME NEW row \in InvitationRow, row.version < MaxVersion, row.generation < MaxGeneration, NEW new,
         new = ResendPlatformInvitation(row)
  PROVE  /\ new \in InvitationRow /\ new.status = "pending" /\ new.roles = row.roles
         /\ new.generation = row.generation + 1 /\ new.generation \in 1..MaxGeneration
  <1>1. new = [status |-> "pending", email |-> row.email, roles |-> row.roles, over |-> FALSE,
               generation |-> row.generation + 1, version |-> row.version + 1, created |-> row.created]
    BY DEF ResendPlatformInvitation, InvitationRow
  <1>2. /\ row.email \in People \cup {None} /\ row.roles \in SUBSET Roles
        /\ row.created \in (0..MaxMemberships) \X (0..MaxVersion)
    BY InvitationFields
  <1>3. /\ row.version + 1 \in 0..MaxVersion /\ row.generation + 1 \in 1..MaxGeneration
        /\ row.generation + 1 \in 0..MaxGeneration
    BY InvitationFields, Bounds, GenerationAssumption
  <1>4. new \in InvitationRow
    BY <1>1, <1>2, <1>3 DEF InvitationRow
  <1> QED
    BY <1>1, <1>3, <1>4

LEMMA CreatedRow ==
  ASSUME AuthorityOK, NEW p \in People, NEW rs \in SUBSET Roles, NEW new,
         new = CreatePlatformInvitation(p, rs)
  PROVE  /\ new \in InvitationRow /\ new.status = "pending" /\ new.roles = rs /\ new.generation = 1
  <1>1. new = [status |-> "pending", email |-> p, roles |-> rs, over |-> FALSE, generation |-> 1,
               version |-> 1, created |-> <<member[p].gen, member[p].version>>]
    BY DEF CreatePlatformInvitation
  <1>2. member[p] \in MembershipRow
    BY DEF AuthorityOK
  <1>3. <<member[p].gen, member[p].version>> \in (0..MaxMemberships) \X (0..MaxVersion)
    BY <1>2, MembershipFields
  <1>4. 1 \in 0..MaxGeneration /\ 1 \in 0..MaxVersion
    BY Bounds, GenerationAssumption
  <1>5. new \in InvitationRow
    BY <1>1, <1>3, <1>4 DEF InvitationRow
  <1> QED
    BY <1>1, <1>5

\* Some Invitations end.
LEMMA InvitationsEnd ==
  ASSUME InvitesOK, NEW S \in SUBSET Invites, NEW st \in {"accepted", "cancelled", "expired"},
         \A i \in S : inv[i].version < MaxVersion,
         inv' = [i \in Invites |-> IF i \in S THEN TransitionPlatformInvitationTerminal(inv[i], st) ELSE inv[i]],
         refs' = ClearPlatformInvitationRoles(S), mail' = CancelPlatformInvitationDeliveries(S),
         inbox' = inbox
  PROVE  /\ InvitesOK'
         /\ \A i \in Invites : inv'[i].status = "pending" => inv'[i] = inv[i] /\ i \notin S
  <1>1. \A i \in Invites : inv[i] \in InvitationRow
    BY DEF InvitesOK
  <1>2. \A i \in S : inv'[i] \in InvitationRow /\ inv'[i].status = st
    <2> TAKE i \in S
    <2>1. i \in Invites /\ inv'[i] = TransitionPlatformInvitationTerminal(inv[i], st)
      OBVIOUS
    <2>2. inv[i] \in InvitationRow /\ inv[i].version < MaxVersion
      BY <1>1, <2>1
    <2> QED
      BY <2>1, <2>2, EndedRow
  <1>3. \A i \in Invites \ S : inv'[i] = inv[i]
    OBVIOUS
  <1>4. inv' \in [Invites -> InvitationRow]
    <2>1. \A i \in Invites : inv'[i] \in InvitationRow
      BY <1>1, <1>2, <1>3
    <2>2. inv' = [i \in Invites |-> inv'[i]]
      OBVIOUS
    <2> QED
      BY <2>1, <2>2
  <1>5. \A i \in S : inv'[i].status # "pending"
    BY <1>2
  <1>6. PICK N \in SUBSET (Invites \X Roles) : N = {}
    OBVIOUS
  <1>7. PICK M \in SUBSET (Invites \X (1..MaxGeneration)) : M = {}
    OBVIOUS
  <1>8. refs' = ClearPlatformInvitationRoles(S) \cup N /\ mail' = CancelPlatformInvitationDeliveries(S) \cup M
    BY <1>6, <1>7
  <1>9. InvitesOK'
    <2>1. /\ \A i \in S : inv'[i].status = "pending" => \A r \in inv'[i].roles : <<i, r>> \in N
          /\ \A x \in M : inv'[x[1]].status = "pending" /\ inv'[x[1]].generation = x[2]
      BY <1>5, <1>7
    <2> QED
      BY <1>3, <1>4, <1>8, <2>1, InvitationsMove, Zenon
  <1> QED
    BY <1>3, <1>5, <1>9

\* One Invitation gets a new row with its roles and message, others end.
LEMMA InvitationOpens ==
  ASSUME InvitesOK, NEW i \in Invites, NEW old \in SUBSET Invites, NEW row \in InvitationRow,
         row.status = "pending", row.generation \in 1..MaxGeneration, i \notin old,
         \A j \in old : inv[j].version < MaxVersion,
         inv' = [j \in Invites |-> IF j = i THEN row
                   ELSE IF j \in old THEN TransitionPlatformInvitationTerminal(inv[j], "expired") ELSE inv[j]],
         AddInvitationReferences(i, old, row.roles, row.generation), inbox' = inbox
  PROVE  /\ InvitesOK'
         /\ \A j \in Invites : inv'[j].status = "pending" => j = i \/ inv'[j] = inv[j]
         /\ inv'[i] = row
  <1>1. \A j \in Invites : inv[j] \in InvitationRow
    BY DEF InvitesOK
  <1>2. \A j \in old : inv'[j] \in InvitationRow /\ inv'[j].status = "expired"
    <2> TAKE j \in old
    <2>1. j \in Invites /\ inv'[j] = TransitionPlatformInvitationTerminal(inv[j], "expired")
      OBVIOUS
    <2>2. inv[j] \in InvitationRow /\ inv[j].version < MaxVersion
      BY <1>1, <2>1
    <2> QED
      BY <2>1, <2>2, EndedRow
  <1>3. inv'[i] = row /\ \A j \in Invites \ ({i} \cup old) : inv'[j] = inv[j]
    OBVIOUS
  <1>4. inv' \in [Invites -> InvitationRow]
    <2>1. \A j \in Invites : inv'[j] \in InvitationRow
      BY <1>1, <1>2, <1>3
    <2>2. inv' = [j \in Invites |-> inv'[j]]
      OBVIOUS
    <2> QED
      BY <2>1, <2>2
  <1>5. row.roles \in SUBSET Roles
    BY InvitationFields
  <1>6. PICK N : N = {i} \X row.roles
    OBVIOUS
  <1>7. PICK M : M = {<<i, row.generation>>}
    OBVIOUS
  <1>8. N \in SUBSET (Invites \X Roles) /\ M \in SUBSET (Invites \X (1..MaxGeneration))
    BY <1>5, <1>6, <1>7
  <1>9. PICK S \in SUBSET Invites : S = {i} \cup old
    OBVIOUS
  <1>10. /\ refs' = ClearPlatformInvitationRoles(S) \cup N
         /\ mail' = CancelPlatformInvitationDeliveries(S) \cup M
    BY <1>6, <1>7, <1>9
    DEF AddInvitationReferences, AddPlatformInvitationRole, CreatePlatformInvitationDelivery
  <1>11. \A j \in S : inv'[j].status = "pending" => \A r \in inv'[j].roles : <<j, r>> \in N
    BY <1>2, <1>3, <1>6, <1>9
  <1>12. \A x \in M : inv'[x[1]].status = "pending" /\ inv'[x[1]].generation = x[2]
    BY <1>3, <1>7
  <1>13. \A j \in Invites \ S : inv'[j] = inv[j]
    BY <1>3, <1>9
  <1>14. InvitesOK'
    <2>1. InvitesOK /\ inbox' = inbox
      OBVIOUS
    <2> QED
      BY ONLY <1>4, <1>8, <1>9, <1>10, <1>11, <1>12, <1>13, <2>1, InvitationsMove
  <1> QED
    BY <1>2, <1>3, <1>14

-----------------------------------------------------------------------------
(***************************************************************************)
(* What each command does.                                                 *)
(***************************************************************************)
\* The parts of the state that commands, acceptances and time change.
DomainOK == AuthorityOK /\ InvitesOK /\ GrantedRolesExist /\ TenantOK

MembersStay == \A q \in People : member[q].gen > 0 => member'[q].gen > 0

\* An administrator who can log in is left, if there was one.
AdministratorLeft == cred' = cred /\ AdministratorsAbleToLogIn # {} => AdministratorsAbleToLogIn' # {}

DomainStep == DomainOK' /\ MembersStay /\ AdministratorLeft

LEMMA AdministratorStays ==
  ASSUME NEW q \in AdministratorsAbleToLogIn, human \subseteq human', linked \subseteq linked',
         cred' = cred, member'[q].status = "active", member'[q].gen = member[q].gen,
         <<q, member[q].gen, Admin>> \in bindings => <<q, member[q].gen, Admin>> \in bindings'
  PROVE  q \in AdministratorsAbleToLogIn'
  BY DEF AdministratorsAbleToLogIn, ListPlatformAdministratorCandidates, LoginCapable

LEMMA AdministratorIsMember ==
  ASSUME AuthorityOK, NEW q \in AdministratorsAbleToLogIn
  PROVE  q \in People /\ member[q].status = "active" /\ <<q, member[q].gen, Admin>> \in bindings
  BY DEF AdministratorsAbleToLogIn, ListPlatformAdministratorCandidates, AuthorityOK

\* Nothing that makes an administrator changes.
LEMMA AdministratorsUntouched ==
  ASSUME AuthorityOK, human' = human, linked' = linked, member' = member, bindings' = bindings
  PROVE  AdministratorLeft /\ MembersStay
  <1>1. cred' = cred => AdministratorsAbleToLogIn' = AdministratorsAbleToLogIn
    BY DEF AdministratorsAbleToLogIn, ListPlatformAdministratorCandidates, LoginCapable
  <1> QED
    BY <1>1 DEF AdministratorLeft, MembersStay

\* A Membership becomes another row.
LEMMA VersionedRow ==
  ASSUME NEW m \in MembershipRow, m.version < MaxVersion,
         NEW st \in {"none", "active", "suspended", "removed"}, NEW new,
         new = [gen |-> m.gen, version |-> m.version + 1, status |-> st]
  PROVE  new \in MembershipRow /\ new.gen = m.gen /\ new.status = st
  <1>1. m.gen \in 0..MaxMemberships /\ m.version + 1 \in 0..MaxVersion
    BY MembershipFields, Bounds
  <1>2. new \in MembershipRow
    BY <1>1 DEF MembershipRow
  <1> QED
    BY <1>2

LEMMA UpdateMembershipKeeps ==
  ASSUME DomainOK, NEW c \in Command, Complete(c), c.op = "update", UpdateMembership(c),
         human' = human, linked' = linked
  PROVE  DomainStep
  <1>0. AuthorityOK /\ InvitesOK /\ GrantedRolesExist /\ TenantOK
    BY DEF DomainOK
  <1>1. PICK p \in People : p = c.person /\ member[p].gen > 0
    BY DEF Complete
  <1>2. PICK m \in MembershipRow : m = member[p]
    BY <1>0 DEF AuthorityOK
  <1>3. c.status \in {"active", "suspended", "removed"}
    BY DEF Complete
  <1>4. PICK new : new = UpdatePlatformMembershipStatus(m, c.status)
    OBVIOUS
  <1>5. /\ m.version < MaxVersion /\ member' = [member EXCEPT ![p] = new]
        /\ m.status = "active" /\ c.status # "active" => AdministratorsAbleToLogIn # {p}
        /\ bindings' = bindings /\ role' = role /\ inv' = inv /\ refs' = refs /\ mail' = mail
        /\ inbox' = inbox /\ tenant' = tenant
    BY <1>1, <1>2, <1>4 DEF UpdateMembership, protectPlatformAdministrator, invitationVars
  <1>6. new = [gen |-> m.gen, version |-> m.version + 1, status |-> c.status]
    BY <1>4 DEF UpdatePlatformMembershipStatus, MembershipRow
  <1>7. new \in MembershipRow /\ new.gen = m.gen /\ new.status = c.status
    BY <1>3, <1>5, <1>6, VersionedRow
  <1>8. new.gen = 0 <=> new.status = "none"
    BY <1>1, <1>2, <1>3, <1>7
  <1>9. /\ member' \in [People -> MembershipRow] /\ MembersNumbered'
        /\ member'[p] = new /\ \A q \in People \ {p} : member'[q] = member[q]
    BY <1>0, <1>5, <1>7, <1>8, MembershipMoves
  <1>10. AuthorityOK'
    BY <1>0, <1>5, <1>9 DEF AuthorityOK
  <1>11. InvitesOK' /\ GrantedRolesExist' /\ TenantOK'
    BY <1>0, <1>5 DEF InvitesOK, Referenced, OnlyCurrentMessagesWait, GrantedRolesExist, TenantOK
  <1>12. MembersStay
    BY <1>2, <1>7, <1>9 DEF MembersStay
  <1>13. AdministratorLeft
    <2> SUFFICES ASSUME cred' = cred, AdministratorsAbleToLogIn # {}
                 PROVE  AdministratorsAbleToLogIn' # {}
      BY DEF AdministratorLeft
    <2>1. CASE c.status = "active" \/ m.status # "active"
      <3>1. PICK q \in AdministratorsAbleToLogIn : TRUE
        OBVIOUS
      <3>2. q \in People /\ member[q].status = "active"
        BY <1>0, AdministratorIsMember
      <3>3. member'[q].status = "active" /\ member'[q].gen = member[q].gen
        BY <1>2, <1>7, <1>9, <2>1, <3>2
      <3> QED
        BY <1>5, <3>3, AdministratorStays
    <2>2. CASE ~(c.status = "active" \/ m.status # "active")
      <3>1. PICK q \in AdministratorsAbleToLogIn : q # p
        BY <1>5, <2>2
      <3>2. q \in People /\ member[q].status = "active"
        BY <1>0, AdministratorIsMember
      <3>3. member'[q].status = "active" /\ member'[q].gen = member[q].gen
        BY <1>9, <3>1, <3>2
      <3> QED
        BY <1>5, <3>3, AdministratorStays
    <2> QED
      BY <2>1, <2>2
  <1> QED
    BY <1>10, <1>11, <1>12, <1>13 DEF DomainStep, DomainOK

LEMMA BindRoleKeeps ==
  ASSUME DomainOK, NEW c \in Command, Complete(c), c.op = "bind", BindRole(c),
         human' = human, linked' = linked
  PROVE  DomainStep
  <1>0. AuthorityOK /\ InvitesOK /\ GrantedRolesExist /\ TenantOK
    BY DEF DomainOK
  <1>1. PICK p \in People : p = c.person /\ member[p].gen > 0
    BY DEF Complete
  <1>2. PICK m \in MembershipRow : m = member[p]
    BY <1>0 DEF AuthorityOK
  <1>3. PICK new : new = AdvancePlatformMembershipVersion(m)
    OBVIOUS
  <1>4. c.roles \in SUBSET Roles
    BY CommandFields
  <1>5. PICK r \in Roles :
        /\ m.version < MaxVersion /\ member' = [member EXCEPT ![p] = new] /\ role[r].present
        /\ CreatePlatformRoleBinding(p, m.gen, {r})
        /\ role' = role /\ inv' = inv /\ refs' = refs /\ mail' = mail
        /\ inbox' = inbox /\ tenant' = tenant
    BY <1>1, <1>2, <1>3, <1>4 DEF BindRole, mutablePlatformMembership, BindMembershipRole, invitationVars
  <1>6. new = [gen |-> m.gen, version |-> m.version + 1, status |-> m.status]
    BY <1>3 DEF AdvancePlatformMembershipVersion, MembershipRow
  <1>7. new \in MembershipRow /\ new.gen = m.gen /\ new.status = m.status
    BY <1>5, <1>6, MembershipFields, VersionedRow
  <1>8. new.gen = 0 <=> new.status = "none"
    BY <1>0, <1>1, <1>2, <1>7 DEF AuthorityOK, MembersNumbered
  <1>9. /\ member' \in [People -> MembershipRow] /\ MembersNumbered'
        /\ member'[p] = new /\ \A q \in People \ {p} : member'[q] = member[q]
    BY <1>0, <1>5, <1>7, <1>8, MembershipMoves
  <1>10. m.gen \in 1..MaxMemberships
    BY <1>1, <1>2, MembershipFields, Bounds
  <1>11. /\ bindings' \subseteq People \X (1..MaxMemberships) \X Roles
         /\ \A b \in bindings' : b \in bindings \/ b[3] = r
    <2>1. {r} \in SUBSET Roles
      OBVIOUS
    <2> QED
      BY <1>0, <1>5, <1>10, <2>1, BindingMoves
  <1>12. AuthorityOK'
    BY <1>0, <1>5, <1>9, <1>11 DEF AuthorityOK
  <1>13. GrantedRolesExist'
    BY <1>0, <1>5, <1>11 DEF GrantedRolesExist
  <1>14. InvitesOK' /\ TenantOK'
    BY <1>0, <1>5 DEF InvitesOK, Referenced, OnlyCurrentMessagesWait, TenantOK
  <1>15. MembersStay
    BY <1>2, <1>7, <1>9 DEF MembersStay
  <1>16. AdministratorLeft
    <2> SUFFICES ASSUME cred' = cred, NEW q \in AdministratorsAbleToLogIn
                 PROVE  q \in AdministratorsAbleToLogIn'
      BY DEF AdministratorLeft
    <2>1. q \in People /\ member[q].status = "active"
      BY <1>0, AdministratorIsMember
    <2>2. member'[q].status = "active" /\ member'[q].gen = member[q].gen
      BY <1>2, <1>7, <1>9, <2>1
    <2>3. bindings \subseteq bindings'
      BY <1>5 DEF CreatePlatformRoleBinding
    <2> QED
      BY <2>2, <2>3, AdministratorStays
  <1> QED
    BY <1>12, <1>13, <1>14, <1>15, <1>16 DEF DomainStep, DomainOK

LEMMA UnbindRoleKeeps ==
  ASSUME DomainOK, NEW c \in Command, Complete(c), c.op = "unbind", UnbindRole(c),
         human' = human, linked' = linked
  PROVE  DomainStep
  <1>0. AuthorityOK /\ InvitesOK /\ GrantedRolesExist /\ TenantOK
    BY DEF DomainOK
  <1>1. PICK p \in People : p = c.person /\ member[p].gen > 0
    BY DEF Complete
  <1>2. PICK m \in MembershipRow : m = member[p]
    BY <1>0 DEF AuthorityOK
  <1>3. PICK new : new = AdvancePlatformMembershipVersion(m)
    OBVIOUS
  <1>4. c.roles \in SUBSET Roles
    BY CommandFields
  <1>5. PICK r \in Roles :
        /\ m.version < MaxVersion /\ member' = [member EXCEPT ![p] = new]
        /\ bindings' = bindings \ {<<p, m.gen, r>>}
        /\ r = Admin => AdministratorsAbleToLogIn # {p}
        /\ role' = role /\ inv' = inv /\ refs' = refs /\ mail' = mail
        /\ inbox' = inbox /\ tenant' = tenant
    BY <1>1, <1>2, <1>3, <1>4
    DEF UnbindRole, UnbindMembershipRole, RemovePlatformMembershipRoleBinding,
        protectPlatformAdministrator, invitationVars
  <1>6. new = [gen |-> m.gen, version |-> m.version + 1, status |-> m.status]
    BY <1>3 DEF AdvancePlatformMembershipVersion, MembershipRow
  <1>7. new \in MembershipRow /\ new.gen = m.gen /\ new.status = m.status
    BY <1>5, <1>6, MembershipFields, VersionedRow
  <1>8. new.gen = 0 <=> new.status = "none"
    BY <1>0, <1>1, <1>2, <1>7 DEF AuthorityOK, MembersNumbered
  <1>9. /\ member' \in [People -> MembershipRow] /\ MembersNumbered'
        /\ member'[p] = new /\ \A q \in People \ {p} : member'[q] = member[q]
    BY <1>0, <1>5, <1>7, <1>8, MembershipMoves
  <1>10. AuthorityOK'
    BY <1>0, <1>5, <1>9 DEF AuthorityOK
  <1>11. GrantedRolesExist' /\ InvitesOK' /\ TenantOK'
    BY <1>0, <1>5 DEF GrantedRolesExist, InvitesOK, Referenced, OnlyCurrentMessagesWait, TenantOK
  <1>12. MembersStay
    BY <1>2, <1>7, <1>9 DEF MembersStay
  <1>13. AdministratorLeft
    <2> SUFFICES ASSUME cred' = cred, AdministratorsAbleToLogIn # {}
                 PROVE  AdministratorsAbleToLogIn' # {}
      BY DEF AdministratorLeft
    <2>1. PICK q \in AdministratorsAbleToLogIn : r = Admin => q # p
      BY <1>5
    <2>2. q \in People /\ member[q].status = "active"
      BY <1>0, AdministratorIsMember
    <2>3. member'[q].status = "active" /\ member'[q].gen = member[q].gen
      BY <1>2, <1>7, <1>9, <2>2
    <2>4. <<q, member[q].gen, Admin>> # <<p, m.gen, r>>
      BY <2>1
    <2>5. <<q, member[q].gen, Admin>> \in bindings => <<q, member[q].gen, Admin>> \in bindings'
      BY <1>5, <2>4
    <2> QED
      BY <2>3, <2>5, AdministratorStays
  <1> QED
    BY <1>10, <1>11, <1>12, <1>13 DEF DomainStep, DomainOK

\* Commands that leave Memberships and bindings alone.
LEMMA RolesStep ==
  ASSUME DomainOK, human' = human, linked' = linked, member' = member, bindings' = bindings,
         role' \in [Roles -> RoleRow], InvitesOK', GrantedRolesExist', TenantOK'
  PROVE  DomainStep
  <1>1. AuthorityOK
    BY DEF DomainOK
  <1>2. AuthorityOK'
    BY <1>1 DEF AuthorityOK, MembersNumbered
  <1> QED
    BY <1>1, <1>2, AdministratorsUntouched DEF DomainStep, DomainOK

LEMMA CreateRoleKeeps ==
  ASSUME DomainOK, NEW c \in Command, CreateRole(c), human' = human, linked' = linked
  PROVE  DomainStep
  <1>0. AuthorityOK /\ InvitesOK /\ GrantedRolesExist /\ TenantOK
    BY DEF DomainOK
  <1>1. PICK row : row = [present |-> TRUE, version |-> 1, permissions |-> c.permissions]
    OBVIOUS
  <1>2. PICK r \in CustomRoles :
          /\ role' = [role EXCEPT ![r] = row] /\ member' = member /\ bindings' = bindings
          /\ inv' = inv /\ refs' = refs /\ mail' = mail /\ inbox' = inbox /\ tenant' = tenant
    BY <1>1 DEF CreateRole, CreateCustomPlatformRole, invitationVars
  <1>3. row \in RoleRow /\ row.present /\ r \in Roles
    <2>1. c.permissions \in SUBSET Permissions
      BY CommandFields
    <2>2. 1 \in 1..MaxVersion /\ r \in Roles
      BY Bounds
    <2> QED
      BY <1>1, <2>1, <2>2 DEF RoleRow
  <1>4. /\ role' \in [Roles -> RoleRow]
        /\ role'[r] = row /\ \A x \in Roles \ {r} : role'[x] = role[x]
    BY <1>0, <1>2, <1>3, RoleMoves
  <1>5. \A x \in Roles : role[x].present => role'[x].present
    BY <1>3, <1>4
  <1>6. GrantedRolesExist'
    <2>1. \A b \in bindings : b[3] \in Roles
      BY <1>0 DEF AuthorityOK
    <2>2. \A i \in Invites : inv[i].roles \in SUBSET Roles
      BY <1>0, InvitationFields DEF InvitesOK
    <2> QED
      BY <1>0, <1>2, <1>5, <2>1, <2>2 DEF GrantedRolesExist
  <1>7. InvitesOK' /\ TenantOK'
    BY <1>0, <1>2 DEF InvitesOK, Referenced, OnlyCurrentMessagesWait, TenantOK
  <1> QED
    BY <1>2, <1>4, <1>6, <1>7, RolesStep

LEMMA UpdateRoleKeeps ==
  ASSUME DomainOK, NEW c \in Command, UpdateRole(c), human' = human, linked' = linked
  PROVE  DomainStep
  <1>0. AuthorityOK /\ InvitesOK /\ GrantedRolesExist /\ TenantOK
    BY DEF DomainOK
  <1>1. c.roles \in SUBSET Roles /\ c.permissions \in SUBSET Permissions
    BY CommandFields
  <1>2. PICK r \in Roles :
          /\ role[r].present /\ role[r].version < MaxVersion
          /\ role' = [role EXCEPT ![r].version = @ + 1, ![r].permissions = c.permissions]
          /\ member' = member /\ bindings' = bindings
          /\ inv' = inv /\ refs' = refs /\ mail' = mail /\ inbox' = inbox /\ tenant' = tenant
    BY <1>1 DEF UpdateRole, mutablePlatformRole, UpdateCustomPlatformRole, invitationVars
  <1>3. role \in [Roles -> RoleRow] /\ role[r] \in RoleRow
    BY <1>0 DEF AuthorityOK
  <1>4. PICK row : row = [present |-> role[r].present, version |-> role[r].version + 1,
                          permissions |-> c.permissions]
    OBVIOUS
  <1>5. row \in RoleRow /\ row.present
    <2>1. role[r].version + 1 \in 1..MaxVersion /\ role[r].present \in BOOLEAN
      BY <1>2, <1>3, RoleFields, Bounds
    <2> QED
      BY <1>1, <1>2, <1>4, <2>1 DEF RoleRow
  <1>6. role' = [role EXCEPT ![r] = row]
    <2>1. PICK new : new = [role[r] EXCEPT !.version = role[r].version + 1, !.permissions = c.permissions]
      OBVIOUS
    <2>2. role' = [role EXCEPT ![r] = new]
      BY <1>2, <1>3, <2>1
    <2>3. new = [present |-> role[r].present, version |-> role[r].version + 1, permissions |-> c.permissions]
      BY <1>3, <2>1 DEF RoleRow
    <2> QED
      BY <1>4, <2>2, <2>3
  <1>7. /\ role' \in [Roles -> RoleRow]
        /\ role'[r] = row /\ \A x \in Roles \ {r} : role'[x] = role[x]
    BY <1>0, <1>5, <1>6, RoleMoves
  <1>8. \A x \in Roles : role[x].present => role'[x].present
    BY <1>5, <1>7
  <1>9. GrantedRolesExist'
    <2>1. \A b \in bindings : b[3] \in Roles
      BY <1>0 DEF AuthorityOK
    <2>2. \A i \in Invites : inv[i].roles \in SUBSET Roles
      BY <1>0, InvitationFields DEF InvitesOK
    <2> QED
      BY <1>0, <1>2, <1>8, <2>1, <2>2 DEF GrantedRolesExist
  <1>10. InvitesOK' /\ TenantOK'
    BY <1>0, <1>2 DEF InvitesOK, Referenced, OnlyCurrentMessagesWait, TenantOK
  <1> QED
    BY <1>2, <1>7, <1>9, <1>10, RolesStep

\* Invitations that ran out end; what they leave is what was open before.
LEMMA Expiring ==
  ASSUME InvitesOK, NEW some \in SUBSET Invites, expirePlatformInvitation(some), inbox' = inbox
  PROVE  InvitesOK' /\ \A i \in Invites : inv'[i].status = "pending" => inv'[i] = inv[i]
  <1>1. PICK S \in SUBSET Invites : S = {i \in some : inv[i].status = "pending" /\ inv[i].over}
    OBVIOUS
  <1>2. /\ \A i \in S : inv[i].version < MaxVersion
        /\ inv' = [i \in Invites |-> IF i \in S
             THEN TransitionPlatformInvitationTerminal(inv[i], "expired") ELSE inv[i]]
        /\ refs' = ClearPlatformInvitationRoles(S)
        /\ mail' = CancelPlatformInvitationDeliveries(S)
    BY <1>1 DEF expirePlatformInvitation
  <1> QED
    BY <1>2, InvitationsEnd

\* A role is deleted only when nothing refers to it.
LEMMA DeleteRoleKeeps ==
  ASSUME DomainOK, NEW c \in Command, DeleteRole(c), human' = human, linked' = linked
  PROVE  DomainStep
  <1>0. AuthorityOK /\ InvitesOK /\ GrantedRolesExist /\ TenantOK
    BY DEF DomainOK
  <1>1. c.roles \in SUBSET Roles
    BY CommandFields
  <1>2. PICK r \in Roles :
          /\ expirePlatformInvitation(ListExpiredPlatformInvitationsForRole(r)) /\ ~RoleReferenced(r)
          /\ role' = [role EXCEPT ![r].present = FALSE, ![r].permissions = {}]
          /\ member' = member /\ bindings' = bindings /\ inbox' = inbox /\ tenant' = tenant
    BY <1>1 DEF DeleteRole, DeleteCustomPlatformRole
  <1>3. role \in [Roles -> RoleRow] /\ role[r] \in RoleRow
    BY <1>0 DEF AuthorityOK
  <1>4. PICK row : row = [present |-> FALSE, version |-> role[r].version, permissions |-> {}]
    OBVIOUS
  <1>5. row \in RoleRow
    <2>1. role[r].version \in 1..MaxVersion
      BY <1>3, RoleFields
    <2> QED
      BY <1>4, <2>1 DEF RoleRow
  <1>6. role' = [role EXCEPT ![r] = row]
    <2>1. PICK new : new = [role[r] EXCEPT !.present = FALSE, !.permissions = {}]
      OBVIOUS
    <2>2. role' = [role EXCEPT ![r] = new]
      BY <1>2, <1>3, <2>1
    <2>3. new = [present |-> FALSE, version |-> role[r].version, permissions |-> {}]
      BY <1>3, <2>1 DEF RoleRow
    <2> QED
      BY <1>4, <2>2, <2>3
  <1>7. role' \in [Roles -> RoleRow] /\ \A x \in Roles \ {r} : role'[x] = role[x]
    BY <1>0, <1>5, <1>6, RoleMoves
  <1>8. ListExpiredPlatformInvitationsForRole(r) \in SUBSET Invites
    BY DEF ListExpiredPlatformInvitationsForRole
  <1>9. InvitesOK' /\ \A i \in Invites : inv'[i].status = "pending" => inv'[i] = inv[i]
    BY <1>0, <1>2, <1>8, Expiring
  <1>10. GrantedRolesExist'
    <2>1. ASSUME NEW b \in bindings' PROVE role'[b[3]].present
      <3>1. b \in bindings /\ b[3] # r
        BY <1>2, <2>1 DEF RoleReferenced
      <3>2. b[3] \in Roles
        BY <1>0, <3>1 DEF AuthorityOK
      <3> QED
        BY <1>0, <1>7, <3>1, <3>2 DEF GrantedRolesExist
    <2>2. ASSUME NEW i \in Invites, inv'[i].status = "pending", NEW x \in inv'[i].roles
          PROVE  role'[x].present
      <3>1. <<i, x>> \in refs'
        BY <1>9, <2>2 DEF InvitesOK, Referenced
      <3>2. x # r
        BY <1>2, <3>1 DEF RoleReferenced
      <3>3. x \in Roles
        BY <1>9, <3>1 DEF InvitesOK
      <3>4. role[x].present
        BY <1>0, <1>9, <2>2 DEF GrantedRolesExist
      <3> QED
        BY <1>7, <3>2, <3>3, <3>4
    <2> QED
      BY <2>1, <2>2 DEF GrantedRolesExist
  <1>11. TenantOK'
    BY <1>0, <1>2 DEF TenantOK
  <1> QED
    BY <1>2, <1>7, <1>9, <1>10, <1>11, RolesStep

\* Only Invitations change.
LEMMA InvitationsStep ==
  ASSUME DomainOK, human' = human, linked' = linked, member' = member, bindings' = bindings,
         role' = role, tenant' = tenant, InvitesOK',
         \A i \in Invites : inv'[i].status = "pending" =>
           inv'[i] = inv[i] \/ \A r \in inv'[i].roles : role[r].present
  PROVE  DomainStep
  <1>1. AuthorityOK /\ GrantedRolesExist /\ TenantOK
    BY DEF DomainOK
  <1>2. role' \in [Roles -> RoleRow] /\ TenantOK'
    BY <1>1 DEF AuthorityOK, TenantOK
  <1>3. GrantedRolesExist'
    BY <1>1 DEF GrantedRolesExist
  <1> QED
    BY <1>2, <1>3, RolesStep

LEMMA CreateInvitationKeeps ==
  ASSUME DomainOK, NEW c \in Command, Complete(c), c.op = "invite", CreateInvitation(c),
         human' = human, linked' = linked
  PROVE  DomainStep
  <1>0. AuthorityOK /\ InvitesOK /\ GrantedRolesExist /\ TenantOK
    BY DEF DomainOK
  <1>1. c.person \in People /\ c.roles \in SUBSET Roles
    BY CommandFields DEF Complete
  <1>2. PICK pending \in SUBSET Invites : pending = FindPendingPlatformInvitation(c.person)
    BY DEF FindPendingPlatformInvitation
  <1>3. PICK old \in SUBSET Invites : old = {i \in pending : inv[i].over}
    OBVIOUS
  <1>4. /\ member' = member /\ bindings' = bindings /\ role' = role /\ inbox' = inbox /\ tenant' = tenant
        /\ \/ inv' = inv /\ refs' = refs /\ mail' = mail
           \/ /\ \A r \in c.roles : role[r].present
              /\ \A i \in old : inv[i].version < MaxVersion
              /\ \E i \in Invites :
                   /\ inv[i].status = "absent"
                   /\ inv' = [j \in Invites |->
                        IF j = i THEN CreatePlatformInvitation(c.person, c.roles)
                        ELSE IF j \in old THEN TransitionPlatformInvitationTerminal(inv[j], "expired")
                        ELSE inv[j]]
                   /\ AddInvitationReferences(i, old, c.roles, 1)
    BY <1>2, <1>3 DEF CreateInvitation
  <1>5. CASE inv' = inv /\ refs' = refs /\ mail' = mail
    <2>1. InvitesOK'
      BY <1>0, <1>4, <1>5 DEF InvitesOK, Referenced, OnlyCurrentMessagesWait
    <2> QED
      BY <1>4, <1>5, <2>1, InvitationsStep
  <1>6. ASSUME \A r \in c.roles : role[r].present, \A i \in old : inv[i].version < MaxVersion,
               NEW i \in Invites, inv[i].status = "absent",
               inv' = [j \in Invites |->
                        IF j = i THEN CreatePlatformInvitation(c.person, c.roles)
                        ELSE IF j \in old THEN TransitionPlatformInvitationTerminal(inv[j], "expired")
                        ELSE inv[j]],
               AddInvitationReferences(i, old, c.roles, 1)
        PROVE  DomainStep
    <2>1. PICK row : row = CreatePlatformInvitation(c.person, c.roles)
      OBVIOUS
    <2>2. /\ row \in InvitationRow /\ row.status = "pending" /\ row.roles = c.roles
          /\ row.generation = 1 /\ row.generation \in 1..MaxGeneration
      BY <1>0, <1>1, <2>1, CreatedRow, GenerationAssumption
    <2>3. i \notin old
      BY <1>2, <1>3, <1>6 DEF FindPendingPlatformInvitation
    <2>4. /\ inv' = [j \in Invites |-> IF j = i THEN row
               ELSE IF j \in old THEN TransitionPlatformInvitationTerminal(inv[j], "expired") ELSE inv[j]]
          /\ AddInvitationReferences(i, old, row.roles, row.generation)
      BY <1>6, <2>1, <2>2
    <2>5. /\ InvitesOK' /\ inv'[i] = row
          /\ \A j \in Invites : inv'[j].status = "pending" => j = i \/ inv'[j] = inv[j]
      BY <1>0, <1>4, <1>6, <2>2, <2>3, <2>4, InvitationOpens
    <2>6. \A j \in Invites : inv'[j].status = "pending" =>
            inv'[j] = inv[j] \/ \A r \in inv'[j].roles : role[r].present
      BY <1>6, <2>2, <2>5
    <2> QED
      BY <1>4, <2>5, <2>6, InvitationsStep
  <1> QED
    BY <1>4, <1>5, <1>6

LEMMA ResendInvitationKeeps ==
  ASSUME DomainOK, NEW c \in Command, Complete(c), c.op = "resend", ResendInvitation(c),
         human' = human, linked' = linked
  PROVE  DomainStep
  <1>0. AuthorityOK /\ InvitesOK /\ GrantedRolesExist /\ TenantOK
    BY DEF DomainOK
  <1>1. PICK i \in Invites : i = c.id
    BY DEF Complete
  <1>2. inv \in [Invites -> InvitationRow] /\ inv[i] \in InvitationRow
    BY <1>0 DEF InvitesOK
  <1>3. PICK row : row = ResendPlatformInvitation(inv[i])
    OBVIOUS
  <1>4. /\ inv[i].version < MaxVersion /\ inv[i].generation < MaxGeneration
        /\ \A r \in inv[i].roles : role[r].present
        /\ inv' = [inv EXCEPT ![i] = row]
        /\ AddInvitationReferences(i, {}, inv[i].roles, inv[i].generation + 1)
        /\ member' = member /\ bindings' = bindings /\ role' = role /\ inbox' = inbox /\ tenant' = tenant
    BY <1>1, <1>3 DEF ResendInvitation
  <1>5. /\ row \in InvitationRow /\ row.status = "pending" /\ row.roles = inv[i].roles
        /\ row.generation = inv[i].generation + 1 /\ row.generation \in 1..MaxGeneration
    BY <1>2, <1>3, <1>4, ResentRow
  <1>6. PICK old \in SUBSET Invites : old = {}
    OBVIOUS
  <1>7. /\ inv' = [j \in Invites |-> IF j = i THEN row
             ELSE IF j \in old THEN TransitionPlatformInvitationTerminal(inv[j], "expired") ELSE inv[j]]
        /\ AddInvitationReferences(i, old, row.roles, row.generation)
        /\ i \notin old /\ \A j \in old : inv[j].version < MaxVersion
    BY <1>2, <1>4, <1>5, <1>6
  <1>8. /\ InvitesOK' /\ inv'[i] = row
        /\ \A j \in Invites : inv'[j].status = "pending" => j = i \/ inv'[j] = inv[j]
    BY <1>0, <1>4, <1>5, <1>7, InvitationOpens
  <1>9. \A j \in Invites : inv'[j].status = "pending" =>
          inv'[j] = inv[j] \/ \A r \in inv'[j].roles : role[r].present
    BY <1>4, <1>5, <1>8
  <1> QED
    BY <1>4, <1>8, <1>9, InvitationsStep

\* One Invitation ends.
LEMMA EndInvitationKeeps ==
  ASSUME InvitesOK, NEW i \in Invites, NEW st \in {"accepted", "cancelled"}, inv[i].version < MaxVersion,
         EndInvitation(i, st), inbox' = inbox
  PROVE  InvitesOK' /\ \A j \in Invites : inv'[j].status = "pending" => inv'[j] = inv[j]
  <1>1. inv \in [Invites -> InvitationRow]
    BY DEF InvitesOK
  <1>2. PICK S \in SUBSET Invites : S = {i}
    OBVIOUS
  <1>3. /\ \A j \in S : inv[j].version < MaxVersion
        /\ inv' = [j \in Invites |-> IF j \in S
             THEN TransitionPlatformInvitationTerminal(inv[j], st) ELSE inv[j]]
        /\ refs' = ClearPlatformInvitationRoles(S)
        /\ mail' = CancelPlatformInvitationDeliveries(S)
    BY <1>1, <1>2 DEF EndInvitation, clearInvitationReferences
  <1> QED
    BY <1>3, InvitationsEnd

LEMMA CancelInvitationKeeps ==
  ASSUME DomainOK, NEW c \in Command, Complete(c), c.op = "cancel", CancelInvitation(c),
         human' = human, linked' = linked
  PROVE  DomainStep
  <1>0. InvitesOK
    BY DEF DomainOK
  <1>1. c.id \in Invites
    BY DEF Complete
  <1>2. /\ inv[c.id].version < MaxVersion /\ EndInvitation(c.id, "cancelled")
        /\ member' = member /\ bindings' = bindings /\ role' = role /\ inbox' = inbox /\ tenant' = tenant
    BY DEF CancelInvitation
  <1>3. InvitesOK' /\ \A j \in Invites : inv'[j].status = "pending" => inv'[j] = inv[j]
    BY <1>0, <1>1, <1>2, EndInvitationKeeps
  <1> QED
    BY <1>2, <1>3, InvitationsStep

LEMMA ListInvitationsKeeps ==
  ASSUME DomainOK, NEW c, ListInvitations(c), human' = human, linked' = linked
  PROVE  DomainStep
  <1>0. InvitesOK /\ Invites \in SUBSET Invites
    BY DEF DomainOK
  <1>1. /\ expirePlatformInvitation(Invites)
        /\ member' = member /\ bindings' = bindings /\ role' = role /\ inbox' = inbox /\ tenant' = tenant
    BY DEF ListInvitations
  <1>2. InvitesOK' /\ \A j \in Invites : inv'[j].status = "pending" => inv'[j] = inv[j]
    BY <1>0, <1>1, Expiring
  <1> QED
    BY <1>1, <1>2, InvitationsStep

LEMMA UpdateTenantAccessKeeps ==
  ASSUME DomainOK, NEW c \in Command, Complete(c), c.op = "access", UpdateTenantAccess(c),
         human' = human, linked' = linked
  PROVE  DomainStep
  <1>0. AuthorityOK /\ InvitesOK /\ GrantedRolesExist /\ TenantOK
    BY DEF DomainOK
  <1>1. /\ tenant.version = c.version /\ c.version < MaxVersion
        /\ tenant' = [status |-> c.status, version |-> tenant.version + 1]
        /\ member' = member /\ bindings' = bindings /\ role' = role
        /\ inv' = inv /\ refs' = refs /\ mail' = mail /\ inbox' = inbox
    BY DEF UpdateTenantAccess, UpdateTargetTenantAccess, invitationVars
  <1>2. TenantOK'
    BY <1>0, <1>1, Bounds DEF TenantOK, Complete
  <1>3. InvitesOK' /\ GrantedRolesExist' /\ role' \in [Roles -> RoleRow]
    BY <1>0, <1>1 DEF InvitesOK, Referenced, OnlyCurrentMessagesWait, GrantedRolesExist, AuthorityOK
  <1> QED
    BY <1>1, <1>2, <1>3, RolesStep

LEMMA MutationKeeps ==
  ASSUME DomainOK, NEW c \in Command, Complete(c), Mutation(c), human' = human, linked' = linked
  PROVE  DomainStep
  BY UpdateMembershipKeeps, BindRoleKeeps, UnbindRoleKeeps, CreateRoleKeeps, UpdateRoleKeeps,
     DeleteRoleKeeps, CreateInvitationKeeps, ResendInvitationKeeps, CancelInvitationKeeps,
     UpdateTenantAccessKeeps
  DEF Mutation

-----------------------------------------------------------------------------
(***************************************************************************)
(* Administration keeps the invariant.                                     *)
(***************************************************************************)
LEMMA CommandsStay ==
  ASSUME CommandsOK, MembersStay, caps' \subseteq caps, ledger' = ledger, applied' = applied,
         repeated' = repeated
  PROVE  CommandsOK'
  <1>1. \A k \in caps' : k.token \in Token /\ k.command \in Command /\ Complete(k.command)'
    BY DEF CommandsOK, Complete, MembersStay
  <1> QED
    BY <1>1 DEF CommandsOK, Receipted

\* A token that is accepted stands for a person.
LEMMA AcceptedToken ==
  ASSUME SessionsOK, NEW t, ValidatePrincipal(t)
  PROVE  /\ t \in access /\ t.session \in Sessions /\ session[t.session] \in SessionRow
         /\ session[t.session].person \in People
  <1>1. t \in access
    BY DEF ValidatePrincipal
  <1>2. t.session \in Sessions /\ session[t.session] # None
    BY <1>1 DEF SessionsOK, TokensBehind, Token
  <1>3. session[t.session] \in SessionRow
    BY <1>2 DEF SessionsOK
  <1> QED
    BY <1>1, <1>2, <1>3, SessionFields

\* What an action of administration does to the invariant and to the promises
\* about single steps.
Authorized ==
  \A e \in ledger' \ ledger :
    \E t \in access : session[t.session].person = e.actor /\ CheckPermission(t, PolicyOf(e.command.op))

AdministrationStep == SessionInv' /\ AdminInv' /\ AdministratorLeft /\ Authorized

\* The Sessions, the credentials and the intents are left alone.
LEMMA SessionInvStays ==
  ASSUME SessionInv, AuthorityOK', UNCHANGED <<sessionVars, foundingVars>>
  PROVE  SessionInv'
  <1>1. /\ session' = session /\ access' = access /\ cred' = cred /\ attempt' = attempt
        /\ intent' = intent /\ completion' = completion
    BY DEF sessionVars, foundingVars
  <1>2. SessionsOK /\ CredentialsOK /\ IntentsOK
    BY DEF SessionInv
  <1> QED
    BY <1>1, <1>2, SessionsStay, CredentialsStay, IntentsStay DEF SessionInv

LEMMA DomainIs ==
  ASSUME SessionInv, AdminInv
  PROVE  DomainOK /\ CommandsOK
  BY DEF SessionInv, AdminInv, DomainOK

LEMMA AuthorizeKeeps ==
  ASSUME SessionInv, AdminInv, NEW t \in access, NEW k \in Keys, NEW c \in Commands(k),
         AuthorizeAdministration(t, c)
  PROVE  AdministrationStep
  <1>1. /\ caps' = caps \cup {[token |-> t, command |-> c]}
        /\ ledger' = ledger /\ applied' = applied /\ repeated' = repeated
        /\ human' = human /\ linked' = linked /\ member' = member /\ bindings' = bindings /\ role' = role
        /\ UNCHANGED <<sessionVars, foundingVars>>
        /\ inv' = inv /\ refs' = refs /\ mail' = mail /\ inbox' = inbox /\ tenant' = tenant
    BY DEF AuthorizeAdministration, platformVars, authorityVars, invitationVars
  <1>2. AuthorityOK /\ InvitesOK /\ GrantedRolesExist /\ TenantOK /\ CommandsOK
    BY DEF SessionInv, AdminInv
  <1>3. c \in Command /\ Complete(c)
    BY <1>2, CommandsAreComplete
  <1>4. t \in Token
    BY DEF SessionInv, SessionsOK
  <1>5. CommandsOK'
    <2>1. ASSUME NEW x \in caps' PROVE x.token \in Token /\ x.command \in Command /\ Complete(x.command)'
      <3>1. CASE x \in caps
        BY <1>1, <1>2, <3>1 DEF CommandsOK, Complete
      <3>2. CASE x = [token |-> t, command |-> c]
        <4>1. x.token = t /\ x.command = c
          BY <3>2
        <4>2. Complete(c)'
          BY <1>1, <1>3 DEF Complete
        <4>3. x.command \in Command /\ Complete(x.command)'
          BY <1>3, <4>1, <4>2
        <4> QED
          BY <1>4, <4>1, <4>3
      <3> QED
        BY <1>1, <3>1, <3>2
    <2> QED
      BY <1>1, <1>2, <2>1 DEF CommandsOK, Receipted
  <1>6. AuthorityOK' /\ InvitesOK' /\ GrantedRolesExist' /\ TenantOK'
    BY <1>1, <1>2
    DEF AuthorityOK, MembersNumbered, InvitesOK, Referenced, OnlyCurrentMessagesWait,
        GrantedRolesExist, TenantOK
  <1>7. SessionInv'
    BY <1>1, <1>6, SessionInvStays
  <1>8. AdministratorLeft
    BY <1>1, <1>2, AdministratorsUntouched
  <1>9. Authorized
    BY <1>1 DEF Authorized
  <1> QED
    BY <1>5, <1>6, <1>7, <1>8, <1>9 DEF AdministrationStep, AdminInv

\* A step of the domain under the guard, with the commands in order.
LEMMA DomainStepKeeps ==
  ASSUME SessionInv, DomainStep, CommandsOK', UNCHANGED <<sessionVars, foundingVars>>, Authorized
  PROVE  AdministrationStep
  <1>1. AuthorityOK' /\ InvitesOK' /\ GrantedRolesExist' /\ TenantOK' /\ AdministratorLeft
    BY DEF DomainStep, DomainOK
  <1> QED
    BY <1>1, SessionInvStays DEF AdministrationStep, AdminInv

\* The receipt of the same identity stops a repetition, so nothing takes effect
\* twice.
LEMMA MutateKeeps ==
  ASSUME SessionInv, AdminInv, NEW k \in caps, mutate(k)
  PROVE  AdministrationStep
  <1>0. DomainOK /\ CommandsOK /\ SessionsOK
    BY DomainIs DEF SessionInv
  <1>1. /\ CheckPermission(k.token, PolicyOf(k.command.op)) /\ FindPlatformMutation(k) = {}
        /\ Mutation(k.command) /\ human' = human /\ linked' = linked
        /\ UNCHANGED <<sessionVars, foundingVars>>
        /\ ledger' = ledger \cup {[actor |-> ActorOf(k), command |-> k.command]}
        /\ applied' = applied \cup {<<ActorOf(k), k.command.op, k.command.key>>}
        /\ repeated' = repeated \cup (applied \cap {<<ActorOf(k), k.command.op, k.command.key>>})
        /\ caps' \subseteq caps
    BY DEF mutate, withinAuthorized, SavePlatformMutation, NoteEffect, Answered
  <1>2. k.token \in Token /\ k.command \in Command /\ Complete(k.command)
    BY <1>0 DEF CommandsOK
  <1>3. PICK c \in Command : c = k.command /\ Complete(c)
    BY <1>2
  <1>4. DomainStep
    BY <1>0, <1>1, <1>3, MutationKeeps
  <1>5. k.token \in access /\ ActorOf(k) \in People
    BY <1>0, <1>1, AcceptedToken DEF CheckPermission, ActorOf
  <1>6. PICK actor \in People : actor = ActorOf(k)
    BY <1>5
  <1>7. PICK identity : identity = <<actor, c.op, c.key>>
    OBVIOUS
  <1>8. c.op \in Operations /\ c.key \in Keys
    BY CommandFields
  <1>9. identity \in People \X Operations \X Keys
    BY <1>7, <1>8
  <1>10. identity \notin applied
    <2> SUFFICES ASSUME identity \in applied PROVE FALSE
      OBVIOUS
    <2>1. PICK e \in ledger : identity = <<e.actor, e.command.op, e.command.key>>
      BY <1>0 DEF CommandsOK, Receipted
    <2>2. e.actor = actor /\ e.command.op = c.op /\ e.command.key = c.key
      BY <1>7, <2>1
    <2>3. e \in FindPlatformMutation(k)
      BY <1>3, <1>6, <2>2 DEF FindPlatformMutation
    <2> QED
      BY <1>1, <2>3
  <1>11. PICK receipt : receipt = [actor |-> actor, command |-> c]
    OBVIOUS
  <1>12. receipt \in Receipt /\ receipt.actor = actor /\ receipt.command = c
    BY <1>11 DEF Receipt
  <1>13. ledger' = ledger \cup {receipt} /\ applied' = applied \cup {identity} /\ repeated' = {}
    BY <1>0, <1>1, <1>3, <1>6, <1>7, <1>10, <1>11 DEF CommandsOK
  <1>14. CommandsOK'
    <2>1. \A x \in caps' : x.token \in Token /\ x.command \in Command /\ Complete(x.command)'
      BY <1>0, <1>1, <1>4 DEF CommandsOK, Complete, DomainStep, MembersStay
    <2>2. Receipted'
      <3>1. identity = <<receipt.actor, receipt.command.op, receipt.command.key>>
        BY <1>7, <1>12
      <3>2. \A x \in applied : \E e \in ledger : x = <<e.actor, e.command.op, e.command.key>>
        BY <1>0 DEF CommandsOK, Receipted
      <3> QED
        BY <1>13, <3>1, <3>2 DEF Receipted
    <2>3. ledger' \subseteq Receipt /\ applied' \subseteq People \X Operations \X Keys
      BY <1>0, <1>9, <1>12, <1>13 DEF CommandsOK
    <2> QED
      BY <1>13, <2>1, <2>2, <2>3 DEF CommandsOK
  <1>15. Authorized
    BY <1>1, <1>3, <1>5, <1>6, <1>12, <1>13 DEF Authorized, ActorOf
  <1> QED
    BY <1>1, <1>4, <1>14, <1>15, DomainStepKeeps

LEMMA ReadKeeps ==
  ASSUME SessionInv, AdminInv, NEW k \in caps, read(k)
  PROVE  AdministrationStep
  <1>0. DomainOK /\ CommandsOK
    BY DomainIs
  <1>1. /\ ListInvitations(k.command) /\ caps' \subseteq caps /\ human' = human /\ linked' = linked
        /\ UNCHANGED <<sessionVars, foundingVars>>
        /\ ledger' = ledger /\ applied' = applied /\ repeated' = repeated
    BY DEF read
  <1>2. DomainStep
    BY <1>0, <1>1, ListInvitationsKeeps
  <1>3. CommandsOK'
    BY <1>0, <1>1, <1>2, CommandsStay DEF DomainStep
  <1>4. Authorized
    BY <1>1 DEF Authorized
  <1> QED
    BY <1>1, <1>2, <1>3, <1>4, DomainStepKeeps

\* Nothing of the Platform changes but the Invitations, their messages and the
\* commands.
LEMMA QuietStepKeeps ==
  ASSUME SessionInv, AdminInv, UNCHANGED platformVars, tenant' = tenant, caps' \subseteq caps,
         ledger' = ledger, applied' = applied, repeated' = repeated, InvitesOK',
         \A i \in Invites : inv'[i].status = "pending" =>
           inv[i].status = "pending" /\ inv'[i].roles = inv[i].roles
  PROVE  AdministrationStep
  <1>0. DomainOK /\ CommandsOK
    BY DomainIs
  <1>1. /\ human' = human /\ linked' = linked /\ member' = member /\ bindings' = bindings /\ role' = role
        /\ UNCHANGED <<sessionVars, foundingVars>>
    BY DEF platformVars, authorityVars
  <1>2. \A i \in Invites : inv'[i].status = "pending" =>
          inv'[i] = inv[i] \/ \A r \in inv'[i].roles : role[r].present
    BY <1>0 DEF DomainOK, GrantedRolesExist
  <1>3. DomainStep
    BY <1>0, <1>1, <1>2, InvitationsStep
  <1>4. CommandsOK'
    BY <1>0, <1>3, CommandsStay DEF DomainStep
  <1>5. Authorized
    BY DEF Authorized
  <1> QED
    BY <1>1, <1>3, <1>4, <1>5, DomainStepKeeps

LEMMA CommandEndKeeps ==
  ASSUME SessionInv, AdminInv, NEW k \in caps, CommandEnds(k)
  PROVE  AdministrationStep
  <1>1. /\ caps' \subseteq caps /\ UNCHANGED platformVars /\ ledger' = ledger /\ applied' = applied
        /\ repeated' = repeated /\ tenant' = tenant
        /\ inv' = inv /\ refs' = refs /\ mail' = mail /\ inbox' = inbox
    BY DEF CommandEnds, invitationVars
  <1>2. InvitesOK'
    BY <1>1 DEF AdminInv, InvitesOK, Referenced, OnlyCurrentMessagesWait
  <1> QED
    BY <1>1, <1>2, QuietStepKeeps

LEMMA DispatchKeeps ==
  ASSUME SessionInv, AdminInv, NEW x \in mail, Dispatch(x)
  PROVE  AdministrationStep
  <1>1. /\ mail' = mail \ {x} /\ inbox' = inbox \cup {x} /\ UNCHANGED platformVars
        /\ caps' = caps /\ ledger' = ledger /\ applied' = applied /\ repeated' = repeated
        /\ inv' = inv /\ refs' = refs /\ tenant' = tenant
    BY DEF Dispatch, commandVars
  <1>2. InvitesOK
    BY DEF AdminInv
  <1>3. InvitesOK'
    BY <1>1, <1>2 DEF InvitesOK, Referenced, OnlyCurrentMessagesWait
  <1> QED
    BY <1>1, <1>3, QuietStepKeeps

LEMMA InvitationElapsesKeeps ==
  ASSUME SessionInv, AdminInv, NEW i \in Invites, InvitationElapses(i)
  PROVE  AdministrationStep
  <1>0. InvitesOK /\ inv \in [Invites -> InvitationRow] /\ inv[i] \in InvitationRow
    BY DEF AdminInv, InvitesOK
  <1>1. PICK row : row = [inv[i] EXCEPT !.over = TRUE]
    OBVIOUS
  <1>2. /\ inv' = [inv EXCEPT ![i] = row] /\ UNCHANGED platformVars
        /\ caps' = caps /\ ledger' = ledger /\ applied' = applied /\ repeated' = repeated
        /\ refs' = refs /\ mail' = mail /\ inbox' = inbox /\ tenant' = tenant
    BY <1>1 DEF InvitationElapses, commandVars
  <1>3. row = [status |-> inv[i].status, email |-> inv[i].email, roles |-> inv[i].roles, over |-> TRUE,
               generation |-> inv[i].generation, version |-> inv[i].version, created |-> inv[i].created]
    BY <1>0, <1>1 DEF InvitationRow
  <1>4. row \in InvitationRow
    <2>1. /\ inv[i].status \in {"absent", "pending", "accepted", "cancelled", "expired"}
          /\ inv[i].email \in People \cup {None} /\ inv[i].roles \in SUBSET Roles
          /\ inv[i].generation \in 0..MaxGeneration /\ inv[i].version \in 0..MaxVersion
          /\ inv[i].created \in (0..MaxMemberships) \X (0..MaxVersion)
      BY <1>0, InvitationFields
    <2> QED
      BY <1>3, <2>1 DEF InvitationRow
  <1>5. row.status = inv[i].status /\ row.roles = inv[i].roles /\ row.generation = inv[i].generation
    BY <1>3
  <1>6. inv'[i] = row /\ (\A j \in Invites \ {i} : inv'[j] = inv[j]) /\ inv' \in [Invites -> InvitationRow]
    BY <1>0, <1>2, <1>4
  <1>7. \A j \in Invites : inv'[j].status = inv[j].status /\ inv'[j].roles = inv[j].roles
                             /\ inv'[j].generation = inv[j].generation
    BY <1>5, <1>6
  <1>8. InvitesOK'
    <2>1. Referenced'
      BY <1>0, <1>2, <1>7 DEF InvitesOK, Referenced
    <2>2. \A x \in mail : x[1] \in Invites
      BY <1>0 DEF InvitesOK
    <2>3. OnlyCurrentMessagesWait'
      BY <1>0, <1>2, <1>7, <2>2 DEF InvitesOK, OnlyCurrentMessagesWait
    <2> QED
      BY <1>0, <1>2, <1>6, <2>1, <2>3 DEF InvitesOK
  <1> QED
    BY <1>2, <1>7, <1>8, QuietStepKeeps

LEMMA AcceptKeeps ==
  ASSUME SessionInv, AdminInv, NEW i \in Invites, NEW p \in People, Accept(p, i)
  PROVE  AdministrationStep
  <1>0. DomainOK /\ CommandsOK /\ AuthorityOK /\ InvitesOK /\ GrantedRolesExist /\ TenantOK
    BY DomainIs DEF DomainOK
  <1>1. member[p] \in MembershipRow
    BY <1>0 DEF AuthorityOK
  <1>2. PICK g : g = member[p].gen + 1
    OBVIOUS
  <1>3. PICK row : row = [gen |-> g, version |-> 1, status |-> "active"]
    OBVIOUS
  <1>4. /\ inv[i].version < MaxVersion /\ (\A r \in inv[i].roles : role[r].present)
        /\ member[p].status \in {"none", "removed"} /\ member[p].gen < MaxMemberships
        /\ member' = [member EXCEPT ![p] = row] /\ CreatePlatformRoleBinding(p, g, inv[i].roles)
        /\ EndInvitation(i, "accepted")
        /\ human' = human /\ linked' = linked /\ role' = role /\ UNCHANGED <<sessionVars, foundingVars>>
        /\ caps' = caps /\ ledger' = ledger /\ applied' = applied /\ repeated' = repeated
        /\ inbox' = inbox /\ tenant' = tenant
    BY <1>2, <1>3
    DEF Accept, ExistingPlatformMembership, CreateMembership, CreatePlatformMembership, commandVars
  <1>5. g \in 1..MaxMemberships /\ g \in 0..MaxMemberships /\ 1 \in 0..MaxVersion
    BY <1>1, <1>2, <1>4, MembershipFields, Bounds
  <1>6. row \in MembershipRow /\ row.gen = g /\ row.status = "active"
    BY <1>3, <1>5 DEF MembershipRow
  <1>7. row.gen = 0 <=> row.status = "none"
    BY <1>5, <1>6
  <1>8. /\ member' \in [People -> MembershipRow] /\ MembersNumbered'
        /\ member'[p] = row /\ \A q \in People \ {p} : member'[q] = member[q]
    BY <1>0, <1>4, <1>6, <1>7, MembershipMoves
  <1>9. inv[i].roles \in SUBSET Roles
    BY <1>0, InvitationFields DEF InvitesOK
  <1>10. /\ bindings' \subseteq People \X (1..MaxMemberships) \X Roles
         /\ \A b \in bindings' : b \in bindings \/ b[3] \in inv[i].roles
    BY <1>0, <1>4, <1>5, <1>9, BindingMoves
  <1>11. AuthorityOK'
    BY <1>0, <1>4, <1>8, <1>10 DEF AuthorityOK
  <1>12. InvitesOK' /\ \A j \in Invites : inv'[j].status = "pending" => inv'[j] = inv[j]
    BY <1>0, <1>4, EndInvitationKeeps
  <1>13. GrantedRolesExist'
    BY <1>0, <1>4, <1>10, <1>12 DEF GrantedRolesExist
  <1>14. TenantOK'
    BY <1>0, <1>4 DEF TenantOK
  <1>15. MembersStay
    BY <1>5, <1>6, <1>8 DEF MembersStay
  <1>16. AdministratorLeft
    <2> SUFFICES ASSUME cred' = cred, NEW q \in AdministratorsAbleToLogIn
                 PROVE  q \in AdministratorsAbleToLogIn'
      BY DEF AdministratorLeft
    <2>1. q \in People /\ member[q].status = "active"
      BY <1>0, AdministratorIsMember
    <2>2. q # p
      BY <1>4, <2>1
    <2>3. member'[q].status = "active" /\ member'[q].gen = member[q].gen
      BY <1>8, <2>1, <2>2
    <2>4. bindings \subseteq bindings'
      BY <1>4 DEF CreatePlatformRoleBinding
    <2> QED
      BY <1>4, <2>3, <2>4, AdministratorStays
  <1>17. DomainStep
    BY <1>11, <1>12, <1>13, <1>14, <1>15, <1>16 DEF DomainStep, DomainOK
  <1>18. CommandsOK' /\ Authorized
    BY <1>0, <1>4, <1>15, CommandsStay DEF Authorized
  <1> QED
    BY <1>4, <1>17, <1>18, DomainStepKeeps

LEMMA AdministrationNextKeeps ==
  ASSUME SessionInv, AdminInv, AdministrationNext
  PROVE  AdministrationStep
  BY AuthorizeKeeps, MutateKeeps, ReadKeeps, CommandEndKeeps, DispatchKeeps, InvitationElapsesKeeps,
     AcceptKeeps DEF AdministrationNext

-----------------------------------------------------------------------------
(***************************************************************************)
(* Sessions and administration together.                                   *)
(***************************************************************************)
LEMMA SessionNextAuthority ==
  ASSUME SessionNext
  PROVE  UNCHANGED authorityVars \/ \E s \in Sessions, p \in People : CompleteFirstOIDC(s, p)
  BY DEF SessionNext, LockEnds, ResetPassword, PasswordLoginDenied, PasswordLoginFailure,
         WithinPlatformPassword, BeginPasswordLogin, CompleteKnownOIDC, PasswordLogin, Register,
         LogoutSession, SessionAges, RefreshSession, WithinPlatformSession, AccessExpires, IntentElapses

\* Nobody loses authority in a transaction on Sessions.
LEMMA SessionNextAdministrators ==
  ASSUME SessionInv, SessionNext
  PROVE  AdministratorLeft
  <1>0. AuthorityOK
    BY DEF SessionInv
  <1>1. CASE UNCHANGED authorityVars
    <2>1. human' = human /\ linked' = linked /\ member' = member /\ bindings' = bindings
      BY <1>1 DEF authorityVars
    <2> QED
      BY <1>0, <2>1, AdministratorsUntouched
  <1>2. ASSUME NEW s \in Sessions, NEW p \in People, CompleteFirstOIDC(s, p)
        PROVE  AdministratorLeft
    <2>1. /\ p \notin human /\ human \subseteq human' /\ linked \subseteq linked'
          /\ member' = [member EXCEPT ![p] = [gen |-> 1, version |-> 1, status |-> "active"]]
          /\ bindings \subseteq bindings'
      BY <1>2 DEF CompleteFirstOIDC, PlatformBootstrapIdentityAvailable, CreateFirstAdministrator,
                  CreatePlatformMembership, CreatePlatformRoleBinding
    <2> SUFFICES ASSUME cred' = cred, NEW q \in AdministratorsAbleToLogIn
                 PROVE  q \in AdministratorsAbleToLogIn'
      BY DEF AdministratorLeft
    <2>2. q \in People /\ member[q].status = "active"
      BY <1>0, AdministratorIsMember
    <2>3. q # p
      BY <2>1 DEF AdministratorsAbleToLogIn, ListPlatformAdministratorCandidates
    <2>4. member'[q] = member[q]
      BY <1>0, <2>1, <2>2, <2>3 DEF AuthorityOK
    <2> QED
      BY <2>1, <2>2, <2>4, AdministratorStays
  <1> QED
    BY <1>1, <1>2, SessionNextAuthority

LEMMA SessionStepKeepsAdmin ==
  ASSUME SessionInv, AdminInv, SessionNext, UNCHANGED adminVars
  PROVE  AdministrationStep
  <1>1. /\ caps' = caps /\ ledger' = ledger /\ applied' = applied /\ repeated' = repeated
        /\ inv' = inv /\ refs' = refs /\ mail' = mail /\ inbox' = inbox /\ tenant' = tenant
    BY DEF adminVars, commandVars, invitationVars
  <1>2. SessionInv' /\ SessionStep
    BY SessionNextKeeps
  <1>3. CommandsOK /\ InvitesOK /\ GrantedRolesExist /\ TenantOK /\ AuthorityOK
    BY DEF AdminInv, SessionInv
  <1>4. MembersStay
    BY <1>2 DEF SessionStep, MembersStay
  <1>5. CommandsOK'
    BY <1>1, <1>3, <1>4, CommandsStay
  <1>6. InvitesOK' /\ TenantOK'
    BY <1>1, <1>3 DEF InvitesOK, Referenced, OnlyCurrentMessagesWait, TenantOK
  <1>7. GrantedRolesExist'
    <2>1. \A b \in bindings : b[3] \in Roles
      BY <1>3 DEF AuthorityOK
    <2>2. \A i \in Invites : inv[i].roles \in SUBSET Roles
      BY <1>3, InvitationFields DEF InvitesOK
    <2> QED
      BY <1>1, <1>2, <1>3, <2>1, <2>2 DEF GrantedRolesExist, SessionStep
  <1>8. Authorized
    BY <1>1 DEF Authorized
  <1>9. AdministratorLeft
    BY SessionNextAdministrators
  <1> QED
    BY <1>2, <1>5, <1>6, <1>7, <1>8, <1>9 DEF AdministrationStep, AdminInv

LEMMA PlatformStill ==
  ASSUME SessionInv, AdminInv, UNCHANGED vars
  PROVE  AdministrationStep
  <1>1. /\ UNCHANGED platformVars /\ caps' = caps /\ ledger' = ledger /\ applied' = applied
        /\ repeated' = repeated /\ inv' = inv /\ refs' = refs /\ mail' = mail /\ inbox' = inbox
        /\ tenant' = tenant
    BY DEF vars, adminVars, commandVars, invitationVars
  <1>2. InvitesOK'
    BY <1>1 DEF AdminInv, InvitesOK, Referenced, OnlyCurrentMessagesWait
  <1> QED
    BY <1>1, <1>2, QuietStepKeeps

-----------------------------------------------------------------------------
(***************************************************************************)
(* Recovery of Tenants.                                                    *)
(***************************************************************************)
LEMMA RecoveryFields ==
  ASSUME NEW row \in RecoveryRow
  PROVE  /\ row.status \in {"none", "pending", "approved", "executed"}
         /\ row.target \in People \cup {None} /\ row.requester \in People \cup {None}
         /\ row.approver \in People \cup {None} /\ row.reference \in References \cup {None}
         /\ row.over \in BOOLEAN
  BY DEF RecoveryRow

\* A row that does not leave the order of its operation.
LEMMA RecoveryMoves ==
  ASSUME RecoveryInv, NEW o \in Recoveries, NEW row \in RecoveryRow,
         recovery' = [recovery EXCEPT ![o] = row],
         \A x \in References : reserved[x] # None => reserved'[x] = reserved[x],
         reserved' \in [References -> Recoveries \cup {None, "bootstrap"}],
         row.status \in {"approved", "executed"} =>
           row.requester # row.approver /\ row.reference \in References /\ reserved'[row.reference] = o,
         tenantMember' \in [People -> {"none", "active", "suspended", "removed"}],
         tenantAdmins' \subseteq People
  PROVE  /\ RecoveryInv'
         /\ recovery'[o] = row /\ \A r \in Recoveries \ {o} : recovery'[r] = recovery[r]
  <1>1. recovery \in [Recoveries -> RecoveryRow] /\ RecoveriesAreFourEyed /\ ApprovalsNamed
    BY DEF RecoveryInv, RecoveryTypeOK
  <1>2. recovery'[o] = row /\ \A r \in Recoveries \ {o} : recovery'[r] = recovery[r]
    BY <1>1
  <1>3. recovery' \in [Recoveries -> RecoveryRow]
    BY <1>1
  <1>4. RecoveriesAreFourEyed'
    <2> SUFFICES ASSUME NEW r \in Recoveries, recovery'[r].status \in {"approved", "executed"}
                 PROVE  /\ recovery'[r].requester # recovery'[r].approver
                        /\ reserved'[recovery'[r].reference] = r
      BY DEF RecoveriesAreFourEyed
    <2>1. CASE r = o
      BY <1>2, <2>1
    <2>2. CASE r # o
      <3>1. recovery'[r] = recovery[r]
        BY <1>2, <2>2
      <3>2. recovery[r].requester # recovery[r].approver /\ reserved[recovery[r].reference] = r
        BY <1>1, <3>1 DEF RecoveriesAreFourEyed
      <3>3. r # None /\ recovery[r].reference \in References
        BY <1>1, <3>1, RecoveryAssumption DEF ApprovalsNamed
      <3> QED
        BY <3>1, <3>2, <3>3
    <2> QED
      BY <2>1, <2>2
  <1>5. ApprovalsNamed'
    BY <1>1, <1>2 DEF ApprovalsNamed
  <1> QED
    BY <1>2, <1>3, <1>4, <1>5 DEF RecoveryInv, RecoveryTypeOK

\* What a step of a recovery keeps and does.
Restores ==
  \A o \in Recoveries : Executes(o) =>
    TenantAdministrators = {} /\ TenantAdministrators' = {recovery[o].target}

RecoveryStep == RecoveryInv' /\ Restores

LEMMA RequestKeeps ==
  ASSUME SessionInv, RecoveryInv, NEW t \in access, NEW o \in Recoveries, NEW p \in People,
         RequestTenantAdminRecovery(t, o, p)
  PROVE  RecoveryStep
  <1>1. CheckPermission(t, {"recover"})
    BY DEF RequestTenantAdminRecovery, Recoverer
  <1>2. PICK caller \in People : caller = CallerOf(t)
    BY <1>1, AcceptedToken DEF SessionInv, CheckPermission, CallerOf
  <1>3. PICK row : row = CreateTenantAdminRecovery(p, caller)
    OBVIOUS
  <1>4. /\ recovery' = [recovery EXCEPT ![o] = row] /\ reserved' = reserved
        /\ tenantMember' = tenantMember /\ tenantAdmins' = tenantAdmins
    BY <1>2, <1>3 DEF RequestTenantAdminRecovery
  <1>5. row \in RecoveryRow /\ row.status = "pending"
    BY <1>3 DEF CreateTenantAdminRecovery, RecoveryRow
  <1>6. RecoveryTypeOK
    BY DEF RecoveryInv
  <1>7. /\ RecoveryInv'
        /\ recovery'[o] = row /\ \A r \in Recoveries \ {o} : recovery'[r] = recovery[r]
    BY <1>4, <1>5, <1>6, RecoveryMoves DEF RecoveryTypeOK
  <1>8. \A r \in Recoveries : ~Executes(r)
    BY <1>5, <1>7 DEF Executes
  <1> QED
    BY <1>7, <1>8 DEF RecoveryStep, Restores

LEMMA ApproveKeeps ==
  ASSUME SessionInv, RecoveryInv, NEW t \in access, NEW o \in Recoveries, NEW x \in References,
         ApproveTenantAdminRecovery(t, o, x)
  PROVE  RecoveryStep
  <1>1. CheckPermission(t, {"recover"})
    BY DEF ApproveTenantAdminRecovery, Recoverer
  <1>2. PICK caller \in People : caller = CallerOf(t)
    BY <1>1, AcceptedToken DEF SessionInv, CheckPermission, CallerOf
  <1>3. PICK row : row = ApproveRecovery(recovery[o], caller, x)
    OBVIOUS
  <1>4. /\ recovery' = [recovery EXCEPT ![o] = row] /\ caller # recovery[o].requester
        /\ reserved[x] = None /\ reserved' = [reserved EXCEPT ![x] = o]
        /\ tenantMember' = tenantMember /\ tenantAdmins' = tenantAdmins
    BY <1>2, <1>3 DEF ApproveTenantAdminRecovery, ReserveRestoreRecoveryApproval
  <1>5. RecoveryTypeOK
    BY DEF RecoveryInv
  <1>6. recovery[o] \in RecoveryRow
    BY <1>5 DEF RecoveryTypeOK
  <1>7. row = [status |-> "approved", target |-> recovery[o].target, requester |-> recovery[o].requester,
               approver |-> caller, reference |-> x, over |-> FALSE]
    BY <1>3, <1>6 DEF ApproveRecovery, RecoveryRow
  <1>8. row \in RecoveryRow
    <2>1. recovery[o].target \in People \cup {None} /\ recovery[o].requester \in People \cup {None}
      BY <1>6, RecoveryFields
    <2> QED
      BY <1>7, <2>1 DEF RecoveryRow
  <1>9. row.status = "approved" /\ row.requester # row.approver /\ row.reference = x
    BY <1>4, <1>7
  <1>10. /\ reserved' \in [References -> Recoveries \cup {None, "bootstrap"}] /\ reserved'[x] = o
         /\ \A y \in References : reserved[y] # None => reserved'[y] = reserved[y]
    BY <1>4, <1>5 DEF RecoveryTypeOK
  <1>11. /\ RecoveryInv'
         /\ recovery'[o] = row /\ \A r \in Recoveries \ {o} : recovery'[r] = recovery[r]
    BY <1>4, <1>5, <1>8, <1>9, <1>10, RecoveryMoves DEF RecoveryTypeOK
  <1>12. \A r \in Recoveries : ~Executes(r)
    BY <1>9, <1>11 DEF Executes
  <1> QED
    BY <1>11, <1>12 DEF RecoveryStep, Restores

LEMMA ExecuteKeeps ==
  ASSUME SessionInv, RecoveryInv, NEW t \in access, NEW proof \in access, NEW o \in Recoveries,
         NEW x \in References, ExecuteTenantAdminRecovery(t, proof, o, x), UNCHANGED platformVars
  PROVE  RecoveryStep
  <1>1. PICK row : row = CompleteRecovery(recovery[o])
    OBVIOUS
  <1>2. PICK p : p = recovery[o].target
    OBVIOUS
  <1>3. /\ recovery' = [recovery EXCEPT ![o] = row] /\ reserved' = reserved
        /\ recovery[o].status = "approved"
        /\ TenantAdministrators = {} /\ p \in human /\ LoginCapable(p)
        /\ tenantMember' = [tenantMember EXCEPT ![p] = "active"] /\ tenantAdmins' = tenantAdmins \cup {p}
    BY <1>1, <1>2
    DEF ExecuteTenantAdminRecovery, ValidateRecoveryTarget, TenantAdminRecoveryLoginTarget,
        RestoreRecoveryAdministrator
  <1>4. RecoveryTypeOK /\ RecoveriesAreFourEyed /\ ApprovalsNamed
    BY DEF RecoveryInv
  <1>5. recovery[o] \in RecoveryRow
    BY <1>4 DEF RecoveryTypeOK
  <1>6. row = [status |-> "executed", target |-> recovery[o].target, requester |-> recovery[o].requester,
               approver |-> recovery[o].approver, reference |-> recovery[o].reference,
               over |-> recovery[o].over]
    BY <1>1, <1>5 DEF CompleteRecovery, RecoveryRow
  <1>7. row \in RecoveryRow
    BY <1>5, <1>6, RecoveryFields DEF RecoveryRow
  <1>8. /\ row.status = "executed" /\ row.requester # row.approver
        /\ row.reference \in References /\ reserved'[row.reference] = o
    BY <1>3, <1>4, <1>6 DEF RecoveriesAreFourEyed, ApprovalsNamed
  <1>9. p \in People
    BY <1>3 DEF SessionInv, AuthorityOK
  <1>10. /\ tenantMember' \in [People -> {"none", "active", "suspended", "removed"}]
         /\ tenantAdmins' \subseteq People
         /\ tenantMember'[p] = "active" /\ \A q \in People \ {p} : tenantMember'[q] = tenantMember[q]
    BY <1>3, <1>4, <1>9 DEF RecoveryTypeOK
  <1>11. /\ RecoveryInv'
         /\ recovery'[o] = row /\ \A r \in Recoveries \ {o} : recovery'[r] = recovery[r]
    BY <1>3, <1>4, <1>7, <1>8, <1>10, RecoveryMoves DEF RecoveryTypeOK
  <1>12. \A q : LoginCapable(q)' <=> LoginCapable(q)
    BY DEF LoginCapable, platformVars, authorityVars, sessionVars
  <1>13. TenantAdministrators' = {p}
    <2>1. p \in TenantAdministrators'
      BY <1>3, <1>10, <1>12 DEF TenantAdministrators
    <2>2. ASSUME NEW q \in TenantAdministrators', q # p PROVE FALSE
      <3>1. q \in tenantAdmins /\ tenantMember'[q] = "active" /\ LoginCapable(q)
        BY <1>3, <1>12, <2>2 DEF TenantAdministrators
      <3>2. q \in People
        BY <1>4, <3>1 DEF RecoveryTypeOK
      <3>3. q \in TenantAdministrators
        BY <1>10, <2>2, <3>1, <3>2 DEF TenantAdministrators
      <3> QED
        BY <1>3, <3>3
    <2> QED
      BY <2>1, <2>2
  <1>14. \A r \in Recoveries : Executes(r) => r = o
    BY <1>11 DEF Executes
  <1> QED
    BY <1>2, <1>3, <1>11, <1>13, <1>14 DEF RecoveryStep, Restores

LEMMA ElapseKeeps ==
  ASSUME RecoveryInv, NEW o \in Recoveries, RecoveryElapses(o)
  PROVE  RecoveryStep
  <1>1. PICK row : row = [recovery[o] EXCEPT !.over = TRUE]
    OBVIOUS
  <1>2. /\ recovery' = [recovery EXCEPT ![o] = row] /\ reserved' = reserved
        /\ recovery[o].status \in {"pending", "approved"}
        /\ tenantMember' = tenantMember /\ tenantAdmins' = tenantAdmins
    BY <1>1 DEF RecoveryElapses
  <1>3. RecoveryTypeOK /\ RecoveriesAreFourEyed /\ ApprovalsNamed
    BY DEF RecoveryInv
  <1>4. recovery[o] \in RecoveryRow
    BY <1>3 DEF RecoveryTypeOK
  <1>5. row = [status |-> recovery[o].status, target |-> recovery[o].target,
               requester |-> recovery[o].requester, approver |-> recovery[o].approver,
               reference |-> recovery[o].reference, over |-> TRUE]
    BY <1>1, <1>4 DEF RecoveryRow
  <1>6. row \in RecoveryRow
    <2>1. /\ recovery[o].status \in {"none", "pending", "approved", "executed"}
          /\ recovery[o].target \in People \cup {None} /\ recovery[o].requester \in People \cup {None}
          /\ recovery[o].approver \in People \cup {None} /\ recovery[o].reference \in References \cup {None}
      BY <1>4, RecoveryFields
    <2> QED
      BY <1>5, <2>1 DEF RecoveryRow
  <1>7. /\ row.status = recovery[o].status
        /\ row.status \in {"approved", "executed"} =>
             row.requester # row.approver /\ row.reference \in References /\ reserved'[row.reference] = o
    BY <1>2, <1>3, <1>5 DEF RecoveriesAreFourEyed, ApprovalsNamed
  <1>8. /\ RecoveryInv'
        /\ recovery'[o] = row /\ \A r \in Recoveries \ {o} : recovery'[r] = recovery[r]
    BY <1>2, <1>3, <1>6, <1>7, RecoveryMoves DEF RecoveryTypeOK
  <1>9. \A r \in Recoveries : ~Executes(r)
    BY <1>2, <1>7, <1>8 DEF Executes
  <1> QED
    BY <1>8, <1>9 DEF RecoveryStep, Restores

\* No recovery moves.
LEMMA RecoveriesStay ==
  ASSUME RecoveryInv, recovery' = recovery,
         reserved' \in [References -> Recoveries \cup {None, "bootstrap"}],
         \A x \in References : reserved[x] # None => reserved'[x] = reserved[x],
         tenantMember' \in [People -> {"none", "active", "suspended", "removed"}],
         tenantAdmins' \subseteq People
  PROVE  RecoveryStep
  <1>1. RecoveryTypeOK /\ RecoveriesAreFourEyed /\ ApprovalsNamed
    BY DEF RecoveryInv
  <1>2. RecoveriesAreFourEyed'
    BY <1>1, RecoveryAssumption DEF RecoveriesAreFourEyed, ApprovalsNamed
  <1>3. RecoveryTypeOK' /\ ApprovalsNamed'
    BY <1>1 DEF RecoveryTypeOK, ApprovalsNamed
  <1>4. \A r \in Recoveries : ~Executes(r)
    BY DEF Executes
  <1> QED
    BY <1>2, <1>3, <1>4 DEF RecoveryStep, RecoveryInv, Restores

LEMMA RecoveryNextKeeps ==
  ASSUME SessionInv, RecoveryInv, RecoveryNext, UNCHANGED platformVars
  PROVE  RecoveryStep
  <1>0. RecoveryTypeOK
    BY DEF RecoveryInv
  <1>1. ASSUME NEW x \in References, BootstrapRecoveryApproved(x) PROVE RecoveryStep
    <2>1. /\ reserved[x] = None /\ reserved' = [reserved EXCEPT ![x] = "bootstrap"] /\ recovery' = recovery
          /\ tenantMember' = tenantMember /\ tenantAdmins' = tenantAdmins
      BY <1>1 DEF BootstrapRecoveryApproved, ReserveRestoreRecoveryApproval
    <2>2. /\ reserved' \in [References -> Recoveries \cup {None, "bootstrap"}]
          /\ \A y \in References : reserved[y] # None => reserved'[y] = reserved[y]
      BY <1>0, <2>1 DEF RecoveryTypeOK
    <2> QED
      BY <1>0, <2>1, <2>2, RecoveriesStay DEF RecoveryTypeOK
  <1>2. ASSUME NEW p \in People, TenantChanges(p) PROVE RecoveryStep
    <2>1. /\ \E st \in {"active", "suspended", "removed"} : tenantMember' = [tenantMember EXCEPT ![p] = st]
          /\ tenantAdmins' \subseteq tenantAdmins \cup {p}
          /\ recovery' = recovery /\ reserved' = reserved
      BY <1>2 DEF TenantChanges
    <2>2. /\ tenantMember' \in [People -> {"none", "active", "suspended", "removed"}]
          /\ tenantAdmins' \subseteq People
      BY <1>0, <2>1 DEF RecoveryTypeOK
    <2> QED
      BY <1>0, <2>1, <2>2, RecoveriesStay DEF RecoveryTypeOK
  <1> QED
    BY <1>1, <1>2, RequestKeeps, ApproveKeeps, ExecuteKeeps, ElapseKeeps DEF RecoveryNext

LEMMA RecoveryStill ==
  ASSUME RecoveryInv, UNCHANGED recoveryVars
  PROVE  RecoveryStep
  <1>1. RecoveryTypeOK
    BY DEF RecoveryInv
  <1>2. /\ recovery' = recovery /\ reserved' = reserved /\ tenantMember' = tenantMember
        /\ tenantAdmins' = tenantAdmins
    BY DEF recoveryVars
  <1> QED
    BY <1>1, <1>2, RecoveriesStay DEF RecoveryTypeOK

-----------------------------------------------------------------------------
(***************************************************************************)
(* The initial states.                                                     *)
(***************************************************************************)
LEMMA InitSessions ==
  ASSUME PlatformInit
  PROVE  SessionInv /\ \A b \in bindings : role[b[3]].present
  <1>1. PICK established \in BOOLEAN, recovering \in BOOLEAN :
          LET here == IF established THEN People ELSE {}
              first == IF established THEN Founders ELSE {}
              recoverers == IF recovering THEN Recoverers ELSE {}
          IN /\ recovering => established
             /\ human = here /\ linked = first \cap {Founder}
             /\ member = [p \in People |->
                  IF p \in first THEN [gen |-> 1, version |-> 1, status |-> "active"]
                                 ELSE [gen |-> 0, version |-> 0, status |-> "none"]]
             /\ bindings = (first \X {1} \X {Admin}) \cup (recoverers \X {1} \X {RecoveryRole})
             /\ role = [r \in Roles |->
                  [present |-> (r = Admin /\ established) \/ (r = RecoveryRole /\ recovering),
                   version |-> 1,
                   permissions |-> IF r = Admin THEN AdminPermissions
                                   ELSE IF r = RecoveryRole /\ recovering THEN {"recover"} ELSE {}]]
             /\ session = [s \in Sessions |-> None]
             /\ access = {}
             /\ cred = [p \in People |-> [hash |-> IF p \in here THEN 1 ELSE 0, failures |-> 0,
                                          locked |-> "no", version |-> 0]]
             /\ attempt = [p \in People |-> None]
             /\ completion = IF established THEN FirstIntent ELSE None
             /\ intent = [i \in Intents |-> IF i = completion
                  THEN [person |-> Founder, over |-> TRUE, supersedes |-> None] ELSE None]
    BY Zenon DEF PlatformInit
  <1>2. PICK first \in SUBSET Founders : first = IF established THEN Founders ELSE {}
    BY <1>1
  <1>3. PICK recoverers \in SUBSET Recoverers : recoverers = IF recovering THEN Recoverers ELSE {}
    BY <1>1
  <1>4. /\ Founder \in Founders /\ Founder \in People /\ FirstIntent \in Intents
        /\ Founders \subseteq People /\ Recoverers \subseteq Founders
        /\ RecoveryRole \in Roles /\ Admin \in Roles /\ RecoveryRole # Admin
    BY PlatformAssumption DEF Founder, FirstIntent, Roles
  <1>5. /\ recovering => established
        /\ human \subseteq People /\ linked = first \cap {Founder} /\ (established => human = People)
        /\ member = [p \in People |->
             IF p \in first THEN [gen |-> 1, version |-> 1, status |-> "active"]
                            ELSE [gen |-> 0, version |-> 0, status |-> "none"]]
        /\ bindings = (first \X {1} \X {Admin}) \cup (recoverers \X {1} \X {RecoveryRole})
    BY <1>1, <1>2, <1>3
  <1>6. role \in [Roles -> RoleRow] /\ (established => role[Admin].present)
        /\ (recovering => role[RecoveryRole].present)
    <2>1. role = [r \in Roles |->
                  [present |-> (r = Admin /\ established) \/ (r = RecoveryRole /\ recovering),
                   version |-> 1,
                   permissions |-> IF r = Admin THEN AdminPermissions
                                   ELSE IF r = RecoveryRole /\ recovering THEN {"recover"} ELSE {}]]
      BY <1>1
    <2>2. ASSUME NEW r \in Roles PROVE role[r] \in RoleRow
      <3>1. PICK pr \in BOOLEAN : pr = ((r = Admin /\ established) \/ (r = RecoveryRole /\ recovering))
        OBVIOUS
      <3>2. PICK ps \in SUBSET Permissions :
              ps = IF r = Admin THEN AdminPermissions
                   ELSE IF r = RecoveryRole /\ recovering THEN {"recover"} ELSE {}
        BY PlatformAssumption
      <3>3. role[r] = [present |-> pr, version |-> 1, permissions |-> ps]
        BY <2>1, <3>1, <3>2
      <3>4. 1 \in 1..MaxVersion
        BY Bounds
      <3> QED
        BY <3>3, <3>4 DEF RoleRow
    <2>3. role = [r \in Roles |-> role[r]]
      BY <2>1
    <2>4. established => role[Admin].present
      BY <1>4, <2>1
    <2>5. recovering => role[RecoveryRole].present
      BY <1>4, <2>1
    <2> QED
      BY <2>2, <2>3, <2>4, <2>5
  <1>7. AuthorityOK
    <2>1. linked \subseteq human
      BY <1>2, <1>4, <1>5
    <2>2. member \in [People -> MembershipRow]
      <3>1. 0 \in 0..MaxMemberships /\ 1 \in 0..MaxMemberships /\ 0 \in 0..MaxVersion /\ 1 \in 0..MaxVersion
        BY Bounds
      <3>2. /\ [gen |-> 1, version |-> 1, status |-> "active"] \in MembershipRow
            /\ [gen |-> 0, version |-> 0, status |-> "none"] \in MembershipRow
        BY <3>1 DEF MembershipRow
      <3> QED
        BY <1>5, <3>2
    <2>3. MembersNumbered
      BY <1>5 DEF MembersNumbered
    <2>4. bindings \subseteq People \X (1..MaxMemberships) \X Roles
      <3>1. 1 \in 1..MaxMemberships
        BY Bounds
      <3> QED
        BY <1>4, <1>5, <3>1
    <2> QED
      BY <1>5, <1>6, <2>1, <2>2, <2>3, <2>4 DEF AuthorityOK
  <1>8. \A b \in bindings : role[b[3]].present
    <2> SUFFICES ASSUME NEW b \in bindings PROVE role[b[3]].present
      OBVIOUS
    <2>1. CASE b \in first \X {1} \X {Admin}
      <3>1. b[3] = Admin /\ b[1] \in first
        BY <2>1
      <3> QED
        BY <1>2, <1>6, <3>1
    <2>2. CASE b \in recoverers \X {1} \X {RecoveryRole}
      <3>1. b[3] = RecoveryRole /\ b[1] \in recoverers
        BY <2>2
      <3> QED
        BY <1>3, <1>6, <3>1
    <2> QED
      BY <1>5, <2>1, <2>2
  <1>9. SessionsOK
    <2>1. session = [s \in Sessions |-> None] /\ access = {}
      BY <1>1
    <2> QED
      BY <2>1 DEF SessionsOK, RowsVersioned, TokensBehind, PasswordsCurrent
  <1>10. CredentialsOK
    <2>1. PICK here : here = IF established THEN People ELSE {}
      OBVIOUS
    <2>2. cred = [p \in People |-> [hash |-> IF p \in here THEN 1 ELSE 0, failures |-> 0,
                                    locked |-> "no", version |-> 0]]
          /\ attempt = [p \in People |-> None]
      BY <1>1, <2>1
    <2>3. 0 \in 0..MaxHash /\ 1 \in 0..MaxHash /\ 0 \in 0..MaxFailures /\ 0 \in 0..MaxVersion
      BY Bounds
    <2>4. cred \in [People -> Credential]
      BY <2>2, <2>3 DEF Credential
    <2>5. FailuresLeft
      BY <2>2, Bounds DEF FailuresLeft
    <2> QED
      BY <2>2, <2>4, <2>5 DEF CredentialsOK
  <1>11. IntentsOK
    <2>1. PICK row : row = [person |-> Founder, over |-> TRUE, supersedes |-> None]
      OBVIOUS
    <2>2. row \in IntentRow /\ row # None /\ row.over /\ row.supersedes = None
      BY <1>4, <2>1, NoneIsNoRow DEF IntentRow
    <2>3. /\ intent = [i \in Intents |-> IF i = completion THEN row ELSE None]
          /\ completion \in Intents \cup {None}
      BY <1>1, <1>4, <2>1
    <2>4. intent \in [Intents -> IntentRow \cup {None}]
      BY <2>2, <2>3
    <2>5. \A i \in Registered : i = completion /\ intent[i] = row
      BY <2>2, <2>3 DEF Registered
    <2>6. \A i \in Registered : i \in Intents /\ None \notin Intents
      BY PlatformAssumption DEF Registered
    <2>7. Chain
      BY <2>2, <2>5, <2>6 DEF Chain, GetFirstAdministratorLeaf, ProvisioningEnds
    <2> QED
      BY <2>3, <2>4, <2>7 DEF IntentsOK
  <1> QED
    BY <1>7, <1>8, <1>9, <1>10, <1>11 DEF SessionInv

LEMMA InitHolds ==
  ASSUME SystemInit
  PROVE  IInv
  <1>1. PlatformInit /\ AdministrationInit /\ RecoveryInit
    BY DEF SystemInit, Init
  <1>2. SessionInv /\ \A b \in bindings : role[b[3]].present
    BY <1>1, InitSessions
  <1>3. PICK row : row = [status |-> "absent", email |-> None, roles |-> {}, over |-> FALSE,
                          generation |-> 0, version |-> 0, created |-> <<0, 0>>]
    OBVIOUS
  <1>4. row \in InvitationRow /\ row.status = "absent"
    <2>1. 0 \in 0..MaxGeneration /\ 0 \in 0..MaxVersion /\ 0 \in 0..MaxMemberships
      BY Bounds, GenerationAssumption
    <2>2. <<0, 0>> \in (0..MaxMemberships) \X (0..MaxVersion)
      BY <2>1
    <2> QED
      BY <1>3, <2>1, <2>2 DEF InvitationRow
  <1>5. inv = [i \in Invites |-> row]
    BY <1>1, <1>3 DEF AdministrationInit
  <1>6. /\ caps = {} /\ ledger = {} /\ applied = {} /\ repeated = {} /\ refs = {} /\ mail = {} /\ inbox = {}
        /\ tenant = [status |-> "active", version |-> 1]
    BY <1>1 DEF AdministrationInit
  <1>7. InvitesOK
    BY <1>4, <1>5, <1>6 DEF InvitesOK, Referenced, OnlyCurrentMessagesWait
  <1>8. CommandsOK
    BY <1>6 DEF CommandsOK, Receipted
  <1>9. GrantedRolesExist
    BY <1>2, <1>4, <1>5 DEF GrantedRolesExist
  <1>10. TenantOK
    BY <1>6, Bounds DEF TenantOK
  <1>11. RecoveryInv
    <2>1. PICK none : none = [status |-> "none", target |-> None, requester |-> None, approver |-> None,
                              reference |-> None, over |-> FALSE]
      OBVIOUS
    <2>2. none \in RecoveryRow /\ none.status = "none"
      BY <2>1 DEF RecoveryRow
    <2>3. /\ recovery = [o \in Recoveries |-> none] /\ reserved = [x \in References |-> None]
          /\ tenantMember = [p \in People |-> "none"] /\ tenantAdmins = {}
      BY <1>1, <2>1 DEF RecoveryInit
    <2> QED
      BY <2>2, <2>3 DEF RecoveryInv, RecoveryTypeOK, ApprovalsNamed, RecoveriesAreFourEyed
  <1> QED
    BY <1>2, <1>7, <1>8, <1>9, <1>10, <1>11 DEF IInv, AdminInv

-----------------------------------------------------------------------------
(***************************************************************************)
(* The theorems.                                                           *)
(***************************************************************************)
LEMMA SystemStep ==
  ASSUME IInv, [SystemNext]_systemVars
  PROVE  AdministrationStep /\ RecoveryStep
  <1>0. SessionInv /\ AdminInv /\ RecoveryInv
    BY DEF IInv
  <1>1. CASE Next /\ UNCHANGED recoveryVars
    BY <1>0, <1>1, RecoveryStill, SessionStepKeepsAdmin, AdministrationNextKeeps DEF Next
  <1>2. CASE RecoveryNext /\ UNCHANGED <<platformVars, adminVars>>
    <2>1. UNCHANGED vars /\ UNCHANGED platformVars
      BY <1>2 DEF vars
    <2> QED
      BY <1>0, <1>2, <2>1, PlatformStill, RecoveryNextKeeps
  <1>3. CASE UNCHANGED systemVars
    <2>1. UNCHANGED vars /\ UNCHANGED recoveryVars
      BY <1>3 DEF systemVars
    <2> QED
      BY <1>0, <2>1, PlatformStill, RecoveryStill
  <1> QED
    BY <1>1, <1>2, <1>3 DEF SystemNext

\* The inductive invariant of the Platform holds in every reachable state.
THEOREM PlatformInvariantTheorem == SystemSpec => []IInv
  <1>1. SystemInit => IInv
    BY InitHolds
  <1>2. IInv /\ [SystemNext]_systemVars => IInv'
    BY SystemStep DEF AdministrationStep, RecoveryStep, IInv
  <1> QED
    BY <1>1, <1>2, PTL DEF SystemSpec

LEMMA EntryIsGuarded ==
  ASSUME IInv
  PROVE  PlatformEntryIsGuarded
  <1>0. SessionsOK /\ IntentsOK
    BY DEF IInv, SessionInv
  <1>1. ASSUME NEW t \in access, ValidatePrincipal(t)
        PROVE  /\ session[t.session] \in SessionRow /\ t.session \in Sessions
               /\ session[t.session].status = "active"
               /\ session[t.session].version = t.version
               /\ GrantMembership(t.session) = "active"
    <2>1. session[t.session] \in SessionRow /\ t.session \in Sessions
      BY <1>0, <1>1, AcceptedToken
    <2>2. ~platformAuthorizationDenial(LookupPlatformAuthorization(t, {}), t)
      BY <1>1 DEF ValidatePrincipal
    <2>3. PICK state : state = LookupPlatformAuthorization(t, {})
      OBVIOUS
    <2>4. /\ state.membership = GrantMembership(t.session) /\ state.session = session[t.session].status
          /\ state.version = session[t.session].version
      BY <2>3 DEF LookupPlatformAuthorization
    <2>5. state.membership = "active" /\ state.session = "active" /\ state.version = t.version
      BY <2>2, <2>3 DEF platformAuthorizationDenial
    <2> QED
      BY <2>1, <2>4, <2>5
  <1>2. ReuseEndsAccess
    <2> SUFFICES ASSUME NEW t \in access, session[t.session].family = "revoked", ValidatePrincipal(t)
                 PROVE  FALSE
      BY DEF ReuseEndsAccess
    <2>1. /\ session[t.session] \in SessionRow
          /\ session[t.session].status = "active" /\ session[t.session].version = t.version
      BY <1>1
    <2>2. t.version < session[t.session].version
      BY <1>0, <2>1 DEF SessionsOK, TokensBehind
    <2>3. session[t.session].version \in 1..3
      BY <2>1, SessionFields
    <2> QED
      BY <2>1, <2>2, <2>3
  <1>3. ResetEndsPasswordSessions
    <2> SUFFICES ASSUME NEW t \in access, ValidatePrincipal(t), session[t.session].method = "password"
                 PROVE  session[t.session].hash = cred[session[t.session].person].hash
      BY DEF ResetEndsPasswordSessions
    <2>1. /\ session[t.session] \in SessionRow /\ t.session \in Sessions
          /\ session[t.session].status = "active"
      BY <1>1
    <2>2. session[t.session] # None
      BY <2>1, NoneIsNoRow
    <2> QED
      BY <1>0, <2>1, <2>2 DEF SessionsOK, PasswordsCurrent
  <1>4. RemovalIsForGood
    <2> SUFFICES ASSUME NEW t \in access, ValidatePrincipal(t)
                 PROVE  session[t.session].gen = member[session[t.session].person].gen
      BY DEF RemovalIsForGood
    <2>1. GrantMembership(t.session) = "active"
      BY <1>1
    <2> QED
      BY <2>1 DEF GrantMembership, MembershipStatus
  <1>5. OneIntendedAtATime /\ ProvisioningEnds
    BY <1>0 DEF IntentsOK, Chain, OneIntendedAtATime
  <1> QED
    BY <1>2, <1>3, <1>4, <1>5 DEF PlatformEntryIsGuarded

\* Reuse of a Refresh token, a password reset and the removal of a member end
\* the access they are meant to end, a login under way included, and only one
\* person at a time can become the first administrator, for any number of
\* people, Sessions and intents.
THEOREM EntryTheorem == SystemSpec => []PlatformEntryIsGuarded
  <1>1. IInv => PlatformEntryIsGuarded
    BY EntryIsGuarded
  <1> QED
    BY <1>1, PlatformInvariantTheorem, PTL

\* Platform commands that wait, repeat or race: the rows keep their types,
\* authority is that of the commit, a repetition has no effect, no deleted role
\* is granted, no replaced message waits, and an administrator able to log in
\* remains unless a password locks.
THEOREM AdministrationTheorem == SystemSpec => AdministrationIsSafe
  <1>1. IInv => TypeOK /\ RetriedCommandsTakeEffectOnce /\ GrantedRolesExist /\ OnlyCurrentMessagesWait
    BY SessionInvTypes, AdminInvTypes
    DEF IInv, TypeOK, AdminInv, CommandsOK, InvitesOK, RetriedCommandsTakeEffectOnce
  <1>2. IInv /\ [SystemNext]_systemVars =>
          [\A e \in ledger' \ ledger :
             \E t \in access : session[t.session].person = e.actor
                                /\ CheckPermission(t, PolicyOf(e.command.op))]_vars
    BY SystemStep DEF AdministrationStep, Authorized
  <1>3. IInv /\ [SystemNext]_systemVars =>
          [AdministratorsAbleToLogIn # {} /\ AdministratorsAbleToLogIn' = {} => cred' # cred]_vars
    BY SystemStep DEF AdministrationStep, AdministratorLeft
  <1> QED
    BY <1>1, <1>2, <1>3, PlatformInvariantTheorem, PTL
    DEF SystemSpec, AdministrationIsSafe, ChangesAreAuthorized, AdministrationKeepsAnAdministrator

\* A recovery takes two people and an approval reference of its own, and only
\* replaces an administrator who is still missing when it is executed.
THEOREM RecoveryTheorem == SystemSpec => RecoveryIsFourEyed
  <1>1. IInv => RecoveryTypeOK /\ RecoveriesAreFourEyed
    BY DEF IInv, RecoveryInv
  <1>2. IInv /\ [SystemNext]_systemVars =>
          [\A o \in Recoveries : Executes(o) =>
             TenantAdministrators = {} /\ TenantAdministrators' = {recovery[o].target}]_recoveryVars
    BY SystemStep DEF RecoveryStep, Restores
  <1> QED
    BY <1>1, <1>2, PlatformInvariantTheorem, PTL DEF SystemSpec, RecoveryIsFourEyed, RecoveryOnlyReplacesALoss
=============================================================================
