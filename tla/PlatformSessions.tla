-------------------------- MODULE PlatformSessions --------------------------
(***************************************************************************)
(* How people get into the Platform boundary (BOSS) and lose it again: the *)
(* first administrator, whom an operator names and an OIDC login appoints, *)
(* logins by OIDC and by password, Refresh rotation and reuse, logout,     *)
(* password reset, and the lookup that answers whether an access token has *)
(* authority now.                                                          *)
(*                                                                         *)
(* Each transaction takes the Platform administrator guard first and is    *)
(* one action.  A password login is two: the password is read and verified *)
(* without a lock, the Session is created under it.                        *)
(*                                                                         *)
(* A login creates one Session with one Grant, one Family and one Refresh  *)
(* token, and nothing adds a second Grant or Family to it, so the four     *)
(* rows are one record.  A person stands for a normalized email and its    *)
(* Human.  Time is the events that matter: a lock ends, a token, a Session *)
(* or an intent runs out, an authentication gets old.                      *)
(***************************************************************************)
EXTENDS Naturals, FiniteSets

CONSTANTS
  People,           \* normalized emails
  Sessions,         \* Session identities
  CustomRoles,      \* roles administrators may create
  Permissions,      \* Platform permissions
  AdminPermissions, \* PlatformAdministratorPermissions
  Intents,          \* first administrator intents
  Founders,         \* administrators of a Platform that is established
  Recoverers,       \* those of them who may recover Tenants
  RecoveryRole,     \* the custom role they hold
  MaxFailures,      \* wrong passwords before the credential is locked (5)
  MaxMemberships,   \* bound: Membership rows of one person
  MaxVersion,       \* bound: versions of a row
  MaxTokens,        \* bound: Refresh tokens of one Family
  MaxHash,          \* bound: passwords of one person
  Admin,            \* the system role platform-admin
  None              \* no value

ASSUME PlatformAssumption ==
  /\ AdminPermissions \subseteq Permissions /\ Founders \subseteq People
  /\ Recoverers \subseteq Founders /\ RecoveryRole \in CustomRoles
  /\ Founders # {} /\ Intents # {}
  /\ "recover" \in Permissions
  /\ MaxFailures \in Nat \ {0, 1} /\ MaxMemberships \in Nat \ {0}
  /\ MaxVersion \in Nat \ {0} /\ MaxTokens \in Nat \ {0} /\ MaxHash \in Nat \ {0}
  /\ Admin \notin CustomRoles
  /\ None \notin People \cup Sessions \cup Intents

VARIABLES
  human,      \* principals with their verified email
  linked,     \* people with an active identity of the BOSS provider
  member,     \* platform_memberships: the latest row of each person
  bindings,   \* platform_role_bindings: person, Membership row, role
  role,       \* platform_roles with platform_role_permissions
  session,    \* sessions, platform_session_grants, families and tokens
  access,     \* unexpired access tokens: Session and Grant version
  cred,       \* password_credentials
  attempt,    \* a password login in flight
  intent,     \* first_administrator_intents
  completion  \* first_administrator_completions

authorityVars == <<human, linked, member, bindings, role>>
sessionVars == <<session, access, cred, attempt>>
foundingVars == <<intent, completion>>
platformVars == <<authorityVars, sessionVars, foundingVars>>

Roles == CustomRoles \cup {Admin}
MembershipRow == [gen : 0..MaxMemberships, version : 0..MaxVersion,
                  status : {"none", "active", "suspended", "removed"}]
RoleRow == [present : BOOLEAN, version : 1..MaxVersion, permissions : SUBSET Permissions]
SessionRow ==
  [person : People, gen : 1..MaxMemberships, method : {"oidc", "password"},
   hash : 0..MaxHash, status : {"active", "revoked"}, grant : {"active", "revoked"},
   version : 1..3, family : {"active", "revoked"}, token : 1..MaxTokens, live : BOOLEAN,
   over : BOOLEAN, fresh : BOOLEAN]
Token == [session : Sessions, version : 1..3]
Credential == [hash : 0..MaxHash, failures : 0..MaxFailures,
               locked : {"no", "yes", "lapsed"}, version : 0..MaxVersion]
Attempt == [valid : BOOLEAN, hash : 1..MaxHash, version : 0..MaxVersion]
IntentRow == [person : People, over : BOOLEAN, supersedes : Intents \cup {None}]

\* No row is mistaken for the absence of one.
ASSUME NoneAssumption == None \notin SessionRow \cup Attempt \cup IntentRow

PlatformTypeOK ==
  /\ human \subseteq People /\ linked \subseteq human
  /\ member \in [People -> MembershipRow]
  /\ bindings \subseteq People \X (1..MaxMemberships) \X Roles
  /\ role \in [Roles -> RoleRow]
  /\ \A s \in Sessions : session[s] = None \/ session[s] \in SessionRow
  /\ access \subseteq Token
  /\ cred \in [People -> Credential]
  /\ \A p \in People : attempt[p] = None \/ attempt[p] \in Attempt
  /\ \A i \in Intents : intent[i] = None \/ intent[i] \in IntentRow
  /\ completion \in Intents \cup {None}

Founder == CHOOSE p \in Founders : TRUE
FirstIntent == CHOOSE i \in Intents : TRUE

\* A Platform nobody has entered yet, or one whose Founders are administrators
\* by an earlier appointment and Invitations, and where some of them may have
\* been given a role for recoveries.
PlatformInit ==
  \E established, recovering \in BOOLEAN :
    LET here == IF established THEN People ELSE {}
        first == IF established THEN Founders ELSE {}
        recoverers == IF recovering THEN Recoverers ELSE {}
    IN /\ recovering => established
       /\ human = here /\ linked = first \cap {Founder}
       /\ member = [p \in People |->
            IF p \in first THEN [gen |-> 1, version |-> 1, status |-> "active"]
                           ELSE [gen |-> 0, version |-> 0, status |-> "none"]]
       /\ bindings = (first \X {1} \X {Admin}) \cup (recoverers \X {1} \X {RecoveryRole})
       /\ role = [r \in Roles |->
            [present |-> (r = Admin /\ established) \/ (r = RecoveryRole /\ recovering),
             version |-> 1,
             permissions |-> IF r = Admin THEN AdminPermissions
                             ELSE IF r = RecoveryRole /\ recovering THEN {"recover"} ELSE {}]]
       /\ session = [s \in Sessions |-> None]
       /\ access = {}
       /\ cred = [p \in People |-> [hash |-> IF p \in here THEN 1 ELSE 0, failures |-> 0,
                                    locked |-> "no", version |-> 0]]
       /\ attempt = [p \in People |-> None]
       /\ completion = IF established THEN FirstIntent ELSE None
       /\ intent = [i \in Intents |-> IF i = completion
            THEN [person |-> Founder, over |-> TRUE, supersedes |-> None] ELSE None]

-----------------------------------------------------------------------------
(* Authority. *)

Existing == {s \in Sessions : session[s] # None}

\* Memberships other than the latest are removed: a new row is only created
\* for a person whose last one is.
MembershipStatus(p, gen) == IF member[p].gen = gen THEN member[p].status ELSE "removed"

\* The Grant names the Membership row it was made for.
GrantMembership(s) == MembershipStatus(session[s].person, session[s].gen)

PermissionAllowed(p, gen, wanted) ==
  \A x \in wanted : \E r \in Roles : <<p, gen, r>> \in bindings /\ x \in role[r].permissions

LookupPlatformAuthorization(t, wanted) ==
  LET s == session[t.session]
  IN [membership |-> GrantMembership(t.session), session |-> s.status, over |-> s.over,
      grant |-> s.grant, version |-> s.version,
      allowed |-> PermissionAllowed(s.person, s.gen, wanted)]

platformAuthorizationDenial(state, t) ==
  \/ state.membership # "active"
  \/ state.session # "active" \/ state.over
  \/ state.grant # "active"
  \/ state.version # t.version

\* The token is unexpired, and what it stands for is current.
ValidatePrincipal(t) ==
  t \in access /\ ~platformAuthorizationDenial(LookupPlatformAuthorization(t, {}), t)

CheckPermission(t, wanted) ==
  /\ ValidatePrincipal(t)
  /\ LookupPlatformAuthorization(t, wanted).allowed

\* An enabled identity that can open a Session now: a locked password cannot.
LoginCapable(p) ==
  p \in human /\ (p \in linked \/ (cred[p].hash > 0 /\ cred[p].locked # "yes"))

-----------------------------------------------------------------------------
(* Logins. *)

NewPlatformSession(p, method) ==
  [person |-> p, gen |-> member[p].gen, method |-> method,
   hash |-> IF method = "password" THEN attempt[p].hash ELSE 0,
   status |-> "active", grant |-> "active", version |-> 1, family |-> "active",
   token |-> 1, live |-> TRUE, over |-> FALSE, fresh |-> TRUE]

SaveLogin(s, row) ==
  /\ session[s] = None
  /\ session' = [session EXCEPT ![s] = row]
  /\ access' = access \cup {[session |-> s, version |-> 1]}

\* What a transaction of an OIDC login leaves alone.
WithinPlatformLogin == UNCHANGED <<cred, attempt, intent>>

MayEnter(p) == p \in human /\ member[p].status = "active"

LookupPlatformOIDC(p) == p \in linked

\* An identity IAM knows, of a person whose Membership is active.
CompleteKnownOIDC(s, p) ==
  /\ LookupPlatformOIDC(p) /\ MayEnter(p)
  /\ SaveLogin(s, NewPlatformSession(p, "oidc"))
  /\ UNCHANGED <<authorityVars, completion>> /\ WithinPlatformLogin

\* platformPasswordState of an account whose credential is not locked.
ReadPlatformPassword(p) ==
  [valid |-> TRUE, hash |-> cred[p].hash, version |-> cred[p].version]

\* The password is verified against the hash that was read.
BeginPasswordLogin(p, valid) ==
  /\ attempt[p] = None /\ cred[p].hash > 0 /\ cred[p].locked # "yes"
  /\ attempt' = [attempt EXCEPT ![p] = [ReadPlatformPassword(p) EXCEPT !.valid = valid]]
  /\ UNCHANGED <<authorityVars, session, access, cred, foundingVars>>

\* Mutant: the lock is looked at again, the credential is not.
StillUnlocked(p) == cred[p].locked # "yes"

LockPlatformPassword(p) ==
  /\ cred[p].hash = attempt[p].hash /\ cred[p].version = attempt[p].version
  /\ cred[p].locked # "yes"

\* What a transaction of a password login leaves alone.
WithinPlatformPassword == UNCHANGED <<authorityVars, foundingVars>>

ResetPasswordFailures(c) ==
  IF c.failures # 0 \/ c.locked # "no"
  THEN [c EXCEPT !.failures = 0, !.locked = "no", !.version = @ + 1] ELSE c

PasswordLogin(s, p) ==
  /\ attempt[p] # None /\ attempt[p].valid
  /\ LockPlatformPassword(p) /\ MayEnter(p)
  /\ cred[p].version < MaxVersion
  /\ SaveLogin(s, NewPlatformSession(p, "password"))
  /\ cred' = [cred EXCEPT ![p] = ResetPasswordFailures(@)]
  /\ attempt' = [attempt EXCEPT ![p] = None]
  /\ WithinPlatformPassword

\* What changed meanwhile, or a missing Membership, is audited and costs the
\* credential nothing.
PasswordLoginDenied(p) ==
  /\ attempt[p] # None /\ attempt[p].valid
  /\ ~(LockPlatformPassword(p) /\ MayEnter(p))
  /\ attempt' = [attempt EXCEPT ![p] = None]
  /\ UNCHANGED <<session, access, cred>> /\ WithinPlatformPassword

\* The first failure after a lock has lapsed starts the count again.
RecordPasswordFailure(c) ==
  IF c.locked = "lapsed"
  THEN [c EXCEPT !.failures = 1, !.locked = "no", !.version = @ + 1]
  ELSE [c EXCEPT !.failures = @ + 1, !.version = @ + 1,
                 !.locked = IF c.failures + 1 >= MaxFailures THEN "yes" ELSE "no"]

\* A wrong password counts against the credential it was compared with, and
\* only while that is not locked.
PasswordLoginFailure(p) ==
  /\ attempt[p] # None /\ ~attempt[p].valid
  /\ cred[p].version < MaxVersion
  /\ cred' = [cred EXCEPT ![p] =
       IF @.hash = attempt[p].hash /\ @.locked # "yes" THEN RecordPasswordFailure(@) ELSE @]
  /\ attempt' = [attempt EXCEPT ![p] = None]
  /\ UNCHANGED <<session, access>> /\ WithinPlatformPassword

LockEnds(p) ==
  /\ cred[p].locked = "yes"
  /\ cred' = [cred EXCEPT ![p].locked = "lapsed"]
  /\ UNCHANGED <<authorityVars, session, access, attempt, foundingVars>>

-----------------------------------------------------------------------------
(* The life of a Session. *)

\* What a transaction of one Session leaves alone.
WithinPlatformSession == UNCHANGED <<authorityVars, cred, attempt, foundingVars>>

validatePlatformRefresh(s, n) ==
  /\ session[s].live /\ n = session[s].token
  /\ session[s].family = "active" /\ session[s].grant = "active"
  /\ session[s].status = "active" /\ ~session[s].over
  /\ GrantMembership(s) = "active"

Consumed(s, n) == n < session[s].token

\* The token after the one it consumes.
CreatePlatformRefreshToken(row) == [row EXCEPT !.token = @ + 1]

\* A new token takes over, a new access token is issued, and the idle deadline
\* moves.
Rotate(s, n) ==
  /\ validatePlatformRefresh(s, n) /\ session[s].token < MaxTokens
  /\ session' = [session EXCEPT ![s] = CreatePlatformRefreshToken(@)]
  /\ access' = access \cup {[session |-> s, version |-> session[s].version]}

RevokePlatformRefreshFamily(row) == [row EXCEPT !.family = "revoked"]

RevokePlatformFamilyTokens(row) == [row EXCEPT !.live = FALSE]

InvalidatePlatformGrantVersion(row) == [row EXCEPT !.version = @ + 1]

RevokeFamily(row) ==
  InvalidatePlatformGrantVersion(
    RevokePlatformFamilyTokens(RevokePlatformRefreshFamily(row)))

\* A consumed token that comes back ends its Family.
RefreshSession(s, n) ==
  /\ n \in 1..session[s].token
  /\ \/ Rotate(s, n)
     \/ /\ Consumed(s, n) /\ session[s].family = "active"
        /\ session' = [session EXCEPT ![s] = RevokeFamily(@)]
        /\ UNCHANGED access
  /\ WithinPlatformSession

RevokePlatformSessionGrants(row) ==
  IF row.grant = "active" THEN [row EXCEPT !.grant = "revoked", !.version = @ + 1] ELSE row

RevokePlatformSessionFamilies(row) == [row EXCEPT !.family = "revoked"]

RevokePlatformSessionTokens(row) == [row EXCEPT !.live = FALSE]

RevokePlatformSession(row) == [row EXCEPT !.status = "revoked"]

Logout(row) ==
  RevokePlatformSessionTokens(RevokePlatformSessionFamilies(
    RevokePlatformSessionGrants(RevokePlatformSession(row))))

\* Any Refresh token of the Session ends it, a consumed one too.
LogoutSession(s) ==
  /\ session[s].status = "active"
  /\ session' = [session EXCEPT ![s] = Logout(@)]
  /\ UNCHANGED access /\ WithinPlatformSession

RevokePlatformRefreshTokensForPrincipal(row) == [row EXCEPT !.live = FALSE]
RevokePlatformRefreshFamiliesForPrincipal(row) == [row EXCEPT !.family = "revoked"]

RevokePlatformGrantsForPrincipal(row) ==
  [row EXCEPT !.grant = "revoked", !.version = IF row.grant = "active" THEN @ + 1 ELSE @]

revokePrincipalSessions(p) ==
  session' = [s \in Sessions |->
    IF session[s] # None /\ session[s].person = p
    THEN RevokePlatformSession(RevokePlatformGrantsForPrincipal(
           RevokePlatformRefreshFamiliesForPrincipal(
             RevokePlatformRefreshTokensForPrincipal(session[s]))))
    ELSE session[s]]

ResetCredential(c) ==
  [hash |-> c.hash + 1, failures |-> 0, locked |-> "no", version |-> c.version + 1]

\* CompletePasswordAction of a reset.
ResetPassword(p) ==
  /\ cred[p].hash \in 1..(MaxHash - 1) /\ cred[p].version < MaxVersion
  /\ cred' = [cred EXCEPT ![p] = ResetCredential(@)]
  /\ revokePrincipalSessions(p)
  /\ UNCHANGED <<authorityVars, access, attempt, foundingVars>>

AccessExpires(t) ==
  /\ t \in access
  /\ access' = access \ {t}
  /\ UNCHANGED <<authorityVars, session, cred, attempt, foundingVars>>

SessionAges(s) ==
  /\ \/ session[s].fresh /\ session' = [session EXCEPT ![s].fresh = FALSE]
     \/ ~session[s].over /\ session' = [session EXCEPT ![s].over = TRUE, ![s].fresh = FALSE]
  /\ UNCHANGED <<authorityVars, access, cred, attempt, foundingVars>>

-----------------------------------------------------------------------------
(* The first administrator. *)

Registered == {i \in Intents : intent[i] # None}

GetFirstAdministratorLeaf ==
  {i \in Registered : \A j \in Registered : intent[j].supersedes # i}

\* An intent replaces the one before it by name, and only once that ran out.
MaySupersede(previous) ==
  \/ GetFirstAdministratorLeaf = {} /\ previous = None
  \/ previous \in GetFirstAdministratorLeaf /\ intent[previous].over

InsertFirstAdministratorIntent(i, row) == intent' = [intent EXCEPT ![i] = row]

\* The same manifest again is answered with its receipt.
Register(i, p, previous) ==
  /\ completion = None
  /\ intent[i] = None /\ MaySupersede(previous)
  /\ InsertFirstAdministratorIntent(i, [person |-> p, over |-> FALSE, supersedes |-> previous])
  /\ UNCHANGED <<authorityVars, sessionVars, completion>>

IntentElapses(i) ==
  /\ intent[i] # None /\ ~intent[i].over
  /\ intent' = [intent EXCEPT ![i].over = TRUE]
  /\ UNCHANGED <<authorityVars, sessionVars, completion>>

AdministratorPresent ==
  \E p \in human : member[p].status = "active" /\ <<p, member[p].gen, Admin>> \in bindings

LookupFirstAdministratorCandidate(i) ==
  /\ i \in GetFirstAdministratorLeaf
  /\ completion = None /\ ~AdministratorPresent

PlatformBootstrapIdentityAvailable(p) == p \notin human /\ p \notin linked

\* platform-admin is inserted when it is missing.
InsertAdministratorRole == role' = [role EXCEPT ![Admin].present = TRUE]

CreatePlatformMembership(p, gen) ==
  member' = [member EXCEPT ![p] = [gen |-> gen, version |-> 1, status |-> "active"]]

CreatePlatformRoleBinding(p, gen, rs) == bindings' = bindings \cup ({p} \X {gen} \X rs)

CompleteFirstAdministratorIntent(i) == completion' = i

CreateFirstAdministrator(i, p) ==
  /\ human' = human \cup {p} /\ linked' = linked \cup {p}
  /\ CreatePlatformMembership(p, 1) /\ CreatePlatformRoleBinding(p, 1, {Admin})
  /\ CompleteFirstAdministratorIntent(i)

\* An identity nobody knows: the Human, its email and identity, the Membership
\* with its role, the completion and the Session are one transaction.
CompleteFirstOIDC(s, p) ==
  /\ ~LookupPlatformOIDC(p)
  /\ \E i \in Registered :
       /\ LookupFirstAdministratorCandidate(i)
       /\ intent[i].person = p /\ ~intent[i].over
       /\ PlatformBootstrapIdentityAvailable(p)
       /\ InsertAdministratorRole
       /\ CreateFirstAdministrator(i, p)
  /\ SaveLogin(s, [NewPlatformSession(p, "oidc") EXCEPT !.gen = 1])
  /\ WithinPlatformLogin

SessionNext ==
  \/ \E p \in People :
       \/ LockEnds(p) \/ ResetPassword(p)
       \/ PasswordLoginDenied(p) \/ PasswordLoginFailure(p)
       \/ \E valid \in BOOLEAN : BeginPasswordLogin(p, valid)
       \/ \E s \in Sessions :
            CompleteKnownOIDC(s, p) \/ PasswordLogin(s, p) \/ CompleteFirstOIDC(s, p)
       \/ \E i \in Intents, previous \in Intents \cup {None} : Register(i, p, previous)
  \/ \E s \in Existing :
       \/ LogoutSession(s) \/ SessionAges(s)
       \/ \E n \in 1..MaxTokens : RefreshSession(s, n)
  \/ \E t \in access : AccessExpires(t)
  \/ \E i \in Intents : IntentElapses(i)

-----------------------------------------------------------------------------
(* What the Platform promises about entry. *)

\* A Refresh token that came back twice ends every access token of its Family:
\* the version of the Grant leaves them behind (RevokeFamily).
ReuseEndsAccess ==
  \A t \in access : session[t.session].family = "revoked" => ~ValidatePrincipal(t)

\* A reset ends what the old password opened, a login that was under way while
\* the password changed included (PasswordLogin compares the credential again
\* under its lock).
ResetEndsPasswordSessions ==
  \A t \in access :
    LET s == session[t.session]
    IN ValidatePrincipal(t) /\ s.method = "password" => s.hash = cred[s.person].hash

\* A person who was removed and invited again does not get the authority of
\* Sessions from before the removal: a Grant belongs to one Membership row.
RemovalIsForGood ==
  \A t \in access :
    LET s == session[t.session] IN ValidatePrincipal(t) => s.gen = member[s.person].gen

\* While one person is intended to be the first administrator nobody else is,
\* however many operators register intents.
OneIntendedAtATime ==
  \A i, j \in Registered : ~intent[i].over /\ ~intent[j].over => i = j

\* Once the Platform has its first administrator provisioning is over: no other
\* intent is left that a login could complete.
ProvisioningEnds ==
  completion # None => \A i \in Registered : intent[i].over \/ i = completion

\* Reuse, reset and removal end the access they are meant to end, also that of a
\* login still under way, and only one person at a time can become the first
\* administrator (RevokeFamily, PasswordLogin, Register).
PlatformEntryIsGuarded ==
  /\ ReuseEndsAccess /\ ResetEndsPasswordSessions /\ RemovalIsForGood
  /\ OneIntendedAtATime /\ ProvisioningEnds
=============================================================================
