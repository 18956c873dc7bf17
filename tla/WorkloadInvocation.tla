------------------------- MODULE WorkloadInvocation -------------------------
(***************************************************************************)
(* Workload tokens, delegations and continuations, and the requests that   *)
(* issue and verify them against the current database.                     *)
(*                                                                         *)
(* A credential carries the versions of the rows it was issued from.  A    *)
(* request reads those rows again, one check per step, while the owner     *)
(* revokes and restores them.  A peer's identity and its grant are one     *)
(* check: the grant query compares the identity's version again.  The      *)
(* paired authority of a snapshot reader is read in one transaction.       *)
(***************************************************************************)
EXTENDS Naturals, FiniteSets, FiniteSetsExt

CONSTANTS
  Callers, Receivers,   \* workloads that call, and that receive the calls
  Humans, APIKeys,      \* subjects on whose behalf they call
  NeverExpiring,        \* API Keys without an expiry
  Requests,             \* requests under way at once
  WorkloadTokenMaxTTL, DelegationMaxTTL, SessionContinuationMaxTTL, \* ticks
  SubjectLife,          \* when the subjects' credentials expire
  MaxTime, MaxChanges,  \* bounds: the clock, and changes by the owner
  MaxIssued,            \* bound: credentials of each kind
  None                  \* no value

ASSUME InvocationAssumption ==
  /\ {WorkloadTokenMaxTTL, DelegationMaxTTL, SessionContinuationMaxTTL, SubjectLife} \subseteq Nat \ {0}
  /\ {MaxTime, MaxChanges, MaxIssued} \subseteq Nat
  /\ NeverExpiring \subseteq APIKeys /\ Callers \cap Receivers = {}

VARIABLES
  row,      \* rows of the database by name: status and version
  loaded,   \* the revision of the target registry this process runs with
  now, changes,
  request,  \* requests between two reads
  wats, delegations, continuations, \* credentials released
  audit,    \* credential issues in the audit log
  answer,   \* the last positive answer to a receiver
  invocations \* who was told to admit which caller for which subject

invocationVars == <<row, loaded, now, changes, request, wats, delegations,
                    continuations, audit, answer, invocations>>
credentialVars == <<wats, delegations, continuations, audit>>
verdictVars == <<answer, invocations>>

Workloads == Callers \cup Receivers
Subjects == Humans \cup APIKeys

-----------------------------------------------------------------------------
(* Rows and claims. *)

\* What a caller may be granted: calls on behalf of a subject, calls of its
\* own, and the two operations of a snapshot reader.
PairedAuthority == {"begin", "page"}
WorkloadOnly == {"submit"} \cup PairedAuthority
Delegated == {"call"}
CallerOperations == {"issue", "delegate"} \cup WorkloadOnly \cup Delegated
ReceiverOperations == {"verify", "check", "resume", "receive"}

IdentityRow(w) == <<"identity", w>>
GrantRow(w, operation) == <<"grant", w, operation>>
SubjectRow(s) == <<"subject", s>>
RegistryRow == <<"registry">>
RowNames ==
  {IdentityRow(w) : w \in Workloads}
    \cup {GrantRow(c, o) : c \in Callers, o \in CallerOperations}
    \cup {GrantRow(r, o) : r \in Receivers, o \in ReceiverOperations}
    \cup {SubjectRow(s) : s \in Subjects} \cup {RegistryRow}

Current(n, version) == row[n].active /\ row[n].version = version
Versions == [n \in RowNames |-> row[n].version]

Version == 0..MaxChanges
WorkloadIdentity == [workload : Workloads, version : Version]
DirectCaller ==
  [identity : WorkloadIdentity, operation : CallerOperations \cup ReceiverOperations,
   grant : Version, revision : Version]
DelegatedSubject == [id : Subjects, version : Version]
Instant == 0..(MaxTime + WorkloadTokenMaxTTL + DelegationMaxTTL + SessionContinuationMaxTTL)
WorkloadTokenClaims == [id : 1..MaxIssued, caller : DirectCaller, expires : Instant]
DelegationClaims ==
  [wat : 1..MaxIssued, caller : DirectCaller, subject : DelegatedSubject, revision : Version,
   issued : Instant, expires : Instant]
SessionContinuationClaims ==
  [caller : DirectCaller, receiver : DirectCaller, authority : DirectCaller,
   subject : DelegatedSubject, revision : Version, expires : Instant]

\* A human's access token expires; an API Key does unless it never expires.
Unexpired(s) == s \in NeverExpiring \/ now < SubjectLife

\* The rows a directly authenticated caller rests on, and their versions.
RowsOf(c) ==
  {<<IdentityRow(c.identity.workload), c.identity.version>>,
   <<GrantRow(c.identity.workload, c.operation), c.grant>>, <<RegistryRow, c.revision>>}

-----------------------------------------------------------------------------
(* Reads of the database. *)

\* The active binding of a verified peer and its active platform workload.
ResolveWorkloadIdentity(w) == row[IdentityRow(w)].active

\* The registration joined by CheckWorkloadGrant: enabled, and of the digest
\* that this process was started with.
TargetRegistered == Current(RegistryRow, loaded)

CheckWorkloadGrant(identity, operation) ==
  /\ Current(IdentityRow(identity.workload), identity.version)
  /\ row[GrantRow(identity.workload, operation)].active
  /\ TargetRegistered

\* What Authenticate finds for a peer.
Authenticate(w) == [workload |-> w, version |-> row[IdentityRow(w)].version]

\* The caller that Authorize returns for a grant it found.
AuthorizedCaller(identity, operation) ==
  [identity |-> identity, operation |-> operation,
   grant |-> row[GrantRow(identity.workload, operation)].version, revision |-> loaded]

\* The observed peer is the caller of the token, with the same versions.
currentCaller(claimed, peer) ==
  /\ ResolveWorkloadIdentity(peer)
  /\ Authenticate(peer) = claimed.identity
  /\ CheckWorkloadGrant(claimed.identity, claimed.operation)
  /\ AuthorizedCaller(claimed.identity, claimed.operation) = claimed

\* The target is enabled in the registry loaded, under the revision bound.
ValidateRegisteredInvocation(revision) == revision = loaded

\* The subject's Session Grant or API Key has the version delegated.  Only a
\* key's expiry is looked at: a token's bounds the delegation instead.
currentSubject(s, revision) ==
  /\ ValidateRegisteredInvocation(revision)
  /\ Current(SubjectRow(s.id), s.version)
  /\ s.id \in APIKeys => Unexpired(s.id)

\* VerifyWorkload, VerifyDelegation and VerifyContinuation of the codec: the
\* targets named are enabled under the loaded revision, the time has not come.
VerifyWorkload(wat) == now < wat.expires /\ wat.caller.revision = loaded
VerifyDelegation(d) == now < d.expires /\ d.caller.revision = loaded /\ d.revision = loaded
VerifyContinuation(k) ==
  /\ now < k.expires /\ k.revision = loaded
  /\ \A c \in {k.caller, k.receiver, k.authority} : c.revision = loaded

-----------------------------------------------------------------------------
(* Requests. *)

Idle == [step |-> "idle"]
Step(r, name) == request[r].step = name
Ingress(r) == request[r].ingress
At(r, step, operation) == Step(r, step) /\ Ingress(r).operation = operation
Continue(r, req) == request' = [request EXCEPT ![r] = req]
\* The request with its next step and what it has read.
Having(r, step, read) ==
  [step |-> step, ingress |-> Ingress(r), start |-> request[r].start, read |-> read]

\* A request that only read.
ReadOnly == UNCHANGED <<row, loaded, now, changes, credentialVars, verdictVars>>

\* The middleware: the peer's identity and its grant to call this operation.
WorkloadIdentityMiddleware(r, w, operation) ==
  /\ Step(r, "idle")
  /\ ResolveWorkloadIdentity(w) /\ CheckWorkloadGrant(Authenticate(w), operation)
  /\ Continue(r, [step |-> "entered", ingress |-> AuthorizedCaller(Authenticate(w), operation),
                  start |-> Versions, read |-> None])
  /\ ReadOnly

\* A request is refused, its connection lost, or its audit append fails.
Abandon(r) == ~Step(r, "idle") /\ Continue(r, Idle) /\ ReadOnly

\* IssueWorkloadToken and IssueLocalWorkloadToken: the caller's grant of the
\* target is read after its ingress.
IssueWorkloadToken(r, target) ==
  /\ At(r, "entered", "issue")
  /\ CheckWorkloadGrant(Ingress(r).identity, target)
  /\ Cardinality(wats) < MaxIssued
  /\ Continue(r, Having(r, "signed",
       [id |-> Cardinality(wats) + 1, caller |-> AuthorizedCaller(Ingress(r).identity, target),
        expires |-> now + WorkloadTokenMaxTTL]))
  /\ ReadOnly

\* IssueDelegation first checks the caller of the presented token.
DelegationCaller(r, wat) ==
  /\ At(r, "entered", "delegate")
  /\ VerifyWorkload(wat) /\ wat.caller.operation \in Delegated
  /\ currentCaller(wat.caller, Ingress(r).identity.workload)
  /\ Continue(r, Having(r, "caller", [wat |-> wat]))
  /\ ReadOnly

\* CheckPermission on the subject's credential.
CheckPermission(r, s) ==
  /\ At(r, "caller", "delegate")
  /\ row[SubjectRow(s)].active /\ Unexpired(s)
  /\ Continue(r, Having(r, "subject",
       [wat |-> request[r].read.wat, subject |-> [id |-> s, version |-> row[SubjectRow(s)].version]]))
  /\ ReadOnly

\* The version delegated is the one in a human's token; a key is read again.
subjectReference(s) ==
  IF s.id \in Humans THEN s ELSE [id |-> s.id, version |-> row[SubjectRow(s.id)].version]

\* A delegation ends with the first of its own time, its token's and its subject's.
DelegationExpiry(wat, s) ==
  Min({now + DelegationMaxTTL, wat.expires}
        \cup (IF s \in NeverExpiring THEN {} ELSE {SubjectLife}))

IssueDelegation(r) ==
  LET read == request[r].read s == subjectReference(read.subject) IN
  /\ At(r, "subject", "delegate")
  /\ (s.id \in APIKeys) => row[SubjectRow(s.id)].active
  /\ DelegationExpiry(read.wat, s.id) > now
  /\ Cardinality(delegations) < MaxIssued
  /\ Continue(r, Having(r, "signed",
       [wat |-> read.wat.id, caller |-> read.wat.caller, subject |-> s, revision |-> loaded,
        issued |-> now, expires |-> DelegationExpiry(read.wat, s.id)]))
  /\ ReadOnly

\* AppendCredentialIssue, before the credential is released.
recordIssue(r) ==
  /\ Step(r, "signed")
  /\ audit' = audit \cup {request[r].read}
  /\ Continue(r, Having(r, "recorded", request[r].read))
  /\ UNCHANGED <<row, loaded, now, changes, wats, delegations, continuations, verdictVars>>

\* The answer of both issuers.  A delegation remembers who it was given to.
Release(r) ==
  /\ Step(r, "recorded")
  /\ IF Ingress(r).operation = "issue"
       THEN wats' = wats \cup {request[r].read} /\ UNCHANGED delegations
       ELSE /\ delegations' = delegations \cup {<<Ingress(r).identity.workload, request[r].read>>}
            /\ UNCHANGED wats
  /\ Continue(r, Idle)
  /\ UNCHANGED <<row, loaded, now, changes, continuations, audit, verdictVars>>

-----------------------------------------------------------------------------
(* Verification for a receiver. *)

\* The receiver's own grant for the audience: Verify and verifyCaller.
ReceiverAuthority(r) ==
  /\ Step(r, "entered") /\ Ingress(r).operation \in {"verify", "check"}
  /\ CheckWorkloadGrant(Ingress(r).identity, "receive")
  /\ Continue(r, Having(r, "receiver",
                        [authority |-> AuthorizedCaller(Ingress(r).identity, "receive")]))
  /\ ReadOnly

\* A positive answer, with the rows it rests on.
Answer(r, kind, caller, s, rows) ==
  answer' = [kind |-> kind, by |-> Ingress(r).identity.workload, caller |-> caller.identity.workload,
             subject |-> s, rows |-> rows, start |-> request[r].start]

\* Verify: the token, its caller and the delegation made for it.
VerifyInvocation(r, wat, d, peer) ==
  /\ At(r, "receiver", "verify")
  /\ VerifyWorkload(wat) /\ currentCaller(wat.caller, peer)
  /\ VerifyDelegation(d)
  /\ d.wat = wat.id /\ d.caller = wat.caller /\ d.expires <= wat.expires
  /\ ValidateRegisteredInvocation(d.revision)
  /\ Continue(r, Having(r, "caller", [authority |-> request[r].read.authority, delegation |-> d]))
  /\ ReadOnly

\* A continuation ends with its own time or the subject's credential.
ContinuationExpiry(s) ==
  Min({now + SessionContinuationMaxTTL}
        \cup (IF s \in NeverExpiring THEN {} ELSE {SubjectLife}))

\* The end of Verify: the subject as it is now, and a continuation unless the
\* target is registered without one.
Verify(r) ==
  LET d == request[r].read.delegation
      authority == request[r].read.authority IN
  /\ At(r, "caller", "verify")
  /\ currentSubject(d.subject, d.revision)
  /\ \/ UNCHANGED continuations
     \/ /\ ContinuationExpiry(d.subject.id) > now
        /\ Cardinality(continuations) < MaxIssued
        /\ continuations' = continuations \cup
             {[caller |-> d.caller, receiver |-> Ingress(r), authority |-> authority,
               subject |-> d.subject, revision |-> d.revision, expires |-> ContinuationExpiry(d.subject.id)]}
  /\ Answer(r, "invocation", d.caller, d.subject.id,
            RowsOf(d.caller) \cup RowsOf(authority) \cup RowsOf(Ingress(r))
              \cup {<<SubjectRow(d.subject.id), d.subject.version>>})
  /\ invocations' = invocations \cup {<<Ingress(r).identity.workload, d.caller.identity.workload, d.subject.id>>}
  /\ Continue(r, Idle)
  /\ UNCHANGED <<row, loaded, now, changes, wats, delegations, audit>>

\* verifyCaller of a target without paired authority.
VerifyCaller(r, wat, peer) ==
  /\ At(r, "receiver", "check")
  /\ VerifyWorkload(wat) /\ wat.caller.operation \in WorkloadOnly \ PairedAuthority
  /\ currentCaller(wat.caller, peer)
  /\ Answer(r, "caller", wat.caller, None,
            RowsOf(wat.caller) \cup RowsOf(request[r].read.authority) \cup RowsOf(Ingress(r)))
  /\ Continue(r, Idle)
  /\ UNCHANGED <<row, loaded, now, changes, credentialVars, invocations>>

\* Mutant: the ingress read by the middleware is not compared with the snapshot.
EarlierIngress(ingress, claimed, peer) ==
  /\ claimed.identity.workload = peer /\ currentCaller(claimed, peer)
  /\ CheckWorkloadGrant(ingress.identity, "check")
  /\ CheckWorkloadGrant(ingress.identity, "receive")
  /\ \A o \in PairedAuthority : CheckWorkloadGrant(claimed.identity, o)

\* Receiver, caller and both grants of the pair in one snapshot.
ReadCurrentAuthority(ingress, claimed, peer) ==
  /\ claimed.identity.workload = peer
  /\ currentCaller(claimed, peer)
  /\ CheckWorkloadGrant(ingress.identity, "check")
  /\ AuthorizedCaller(ingress.identity, "check") = ingress
  /\ CheckWorkloadGrant(ingress.identity, "receive")
  /\ \A o \in PairedAuthority : CheckWorkloadGrant(claimed.identity, o)

\* What the revision given to the receiver is a digest of.
workloadAuthorityRevision(claimed) ==
  UNION {RowsOf(AuthorizedCaller(claimed.identity, o)) : o \in PairedAuthority}

\* verifyCaller of a snapshot reader.
VerifyAuthority(r, wat, peer) ==
  /\ At(r, "entered", "check")
  /\ VerifyWorkload(wat) /\ wat.caller.operation \in PairedAuthority
  /\ ReadCurrentAuthority(Ingress(r), wat.caller, peer)
  /\ Answer(r, "authority", wat.caller, None,
            workloadAuthorityRevision(wat.caller) \cup RowsOf(Ingress(r)))
  /\ Continue(r, Idle)
  /\ UNCHANGED <<row, loaded, now, changes, credentialVars, invocations>>

-----------------------------------------------------------------------------
(* Continuations. *)

\* VerifyContinuation first compares the receiver and its grant of the audience.
ContinuationReceiver(r, k) ==
  /\ At(r, "entered", "resume") /\ VerifyContinuation(k)
  /\ k.receiver.identity = Ingress(r).identity
  /\ CheckWorkloadGrant(Ingress(r).identity, "receive")
  /\ AuthorizedCaller(Ingress(r).identity, "receive") = k.authority
  /\ Continue(r, Having(r, "receiver", [proof |-> k]))
  /\ ReadOnly

\* Then the grant under which it verified the invocation.
OriginalVerification(r) ==
  LET k == request[r].read.proof IN
  /\ At(r, "receiver", "resume")
  /\ CheckWorkloadGrant(Ingress(r).identity, "verify")
  /\ AuthorizedCaller(Ingress(r).identity, "verify") = k.receiver
  /\ Continue(r, Having(r, "original", request[r].read))
  /\ ReadOnly

\* Then the caller admitted.
ContinuationCaller(r) ==
  LET k == request[r].read.proof IN
  /\ At(r, "original", "resume")
  /\ currentCaller(k.caller, k.caller.identity.workload)
  /\ Continue(r, Having(r, "caller", request[r].read))
  /\ ReadOnly

\* And its subject.
ContinuationSubject(r) ==
  LET k == request[r].read.proof IN
  /\ At(r, "caller", "resume")
  /\ currentSubject(k.subject, k.revision)
  /\ Answer(r, "continuation", k.caller, k.subject.id,
            RowsOf(k.caller) \cup RowsOf(k.receiver) \cup RowsOf(k.authority)
              \cup {<<SubjectRow(k.subject.id), k.subject.version>>})
  /\ Continue(r, Idle)
  /\ UNCHANGED <<row, loaded, now, changes, credentialVars, invocations>>

-----------------------------------------------------------------------------
(* Changes of the rows, a restart with another registry, and time. *)

\* A row gets its next version.
Change(n, active) ==
  /\ changes < MaxChanges
  /\ row' = [row EXCEPT ![n] = [active |-> active, version |-> @.version + 1]]
  /\ changes' = changes + 1
  /\ UNCHANGED <<loaded, now, request, credentialVars, verdictVars>>

\* The deployment owner revokes or restores a workload's identity or grant: no
\* command of the program does.
OwnerChanges(n) == Change(n, ~row[n].active)

\* An API Key is revoked, or the Session Grant of a human.
RevokeSubject(s) == row[SubjectRow(s)].active /\ Change(SubjectRow(s), FALSE)

\* A bundle is installed that changes the targets, and may close them.
InstallRegistry(enabled) == Change(RegistryRow, enabled)

\* A process starts only with the registry installed: ValidateWorkloadRegistry.
Restart ==
  /\ loaded # row[RegistryRow].version
  /\ loaded' = row[RegistryRow].version
  /\ request' = [r \in Requests |-> Idle]
  /\ UNCHANGED <<row, now, changes, credentialVars, verdictVars>>

Tick ==
  /\ now < MaxTime /\ now' = now + 1
  /\ UNCHANGED <<row, loaded, changes, request, credentialVars, verdictVars>>

InvocationInit ==
  /\ row = [n \in RowNames |-> [active |-> TRUE, version |-> 0]]
  /\ loaded = 0 /\ now = 0 /\ changes = 0
  /\ request = [r \in Requests |-> Idle]
  /\ wats = {} /\ delegations = {} /\ continuations = {} /\ audit = {}
  /\ answer = None /\ invocations = {}

RequestNext(r) ==
  \/ \E c \in Callers, o \in {"issue", "delegate"} : WorkloadIdentityMiddleware(r, c, o)
  \/ \E w \in Receivers, o \in {"verify", "check", "resume"} : WorkloadIdentityMiddleware(r, w, o)
  \/ \E target \in Delegated \cup WorkloadOnly : IssueWorkloadToken(r, target)
  \/ \E wat \in wats : DelegationCaller(r, wat)
  \/ \E s \in Subjects : CheckPermission(r, s)
  \/ IssueDelegation(r)
  \/ recordIssue(r)
  \/ Release(r)
  \/ ReceiverAuthority(r)
  \/ \E wat \in wats, d \in delegations, c \in Callers : VerifyInvocation(r, wat, d[2], c)
  \/ Verify(r)
  \/ \E wat \in wats, c \in Callers : VerifyCaller(r, wat, c)
  \/ \E wat \in wats, c \in Callers : VerifyAuthority(r, wat, c)
  \/ \E k \in continuations : ContinuationReceiver(r, k)
  \/ OriginalVerification(r)
  \/ ContinuationCaller(r)
  \/ ContinuationSubject(r)
  \/ Abandon(r)

InvocationNext ==
  \/ \E r \in Requests : RequestNext(r)
  \/ \E n \in RowNames \ ({SubjectRow(s) : s \in Subjects} \cup {RegistryRow}) : OwnerChanges(n)
  \/ \E s \in Subjects : RevokeSubject(s)
  \/ \E enabled \in BOOLEAN : InstallRegistry(enabled)
  \/ Restart
  \/ Tick

InvocationSpec == InvocationInit /\ [][InvocationNext]_invocationVars

-----------------------------------------------------------------------------
(* Properties. *)

InvocationTypeOK ==
  /\ row \in [RowNames -> [active : BOOLEAN, version : Version]]
  /\ loaded \in Version /\ now \in 0..MaxTime /\ changes \in Version
  /\ \A r \in Requests : Step(r, "idle") \/ Ingress(r) \in DirectCaller
  /\ \A wat \in wats : wat \in WorkloadTokenClaims
  /\ \A d \in delegations : d \in Callers \X DelegationClaims
  /\ \A k \in continuations : k \in SessionContinuationClaims
  /\ invocations \subseteq Receivers \X Callers \X Subjects

\* A positive answer rests on no row that was changed before its request began:
\* what was revoked is refused, and stays refused for old credentials after it
\* is restored, whichever read of the request the revocation falls between.
NoUseAfterRevocation ==
  answer # None => \A use \in answer.rows : use[2] >= answer.start[use[1]]

\* The authority revision given to a receiver names receiver, caller and both
\* grants as they were at one instant, though the middleware read its ingress
\* earlier (ReadCurrentAuthority).
AuthorityIsOneCut ==
  [][answer' # answer /\ answer'.kind = "authority"
       => \A use \in answer'.rows : Current(use[1], use[2])]_invocationVars

\* No credential made from a subject's credential outlives it, and no
\* delegation its caller's token.
LifetimesNest ==
  /\ \A d \in delegations :
       /\ d[2].subject.id \notin NeverExpiring => d[2].expires <= SubjectLife
       /\ \E wat \in wats : wat.id = d[2].wat /\ d[2].expires <= wat.expires
  /\ \A k \in continuations : k.subject.id \notin NeverExpiring => k.expires <= SubjectLife

\* Every token and delegation a caller holds is in the audit log.
ReleasedIsAudited == wats \cup {d[2] : d \in delegations} \subseteq audit

\* A delegation is only ever given to the workload that it names, though any
\* workload may present another's token.
DelegationsStayWithTheirCaller ==
  \A d \in delegations : d[2].caller.identity.workload = d[1]

\* A receiver continues only what it was itself told to admit.
ContinuationFollowsAdmission ==
  (answer # None /\ answer.kind = "continuation")
    => <<answer.by, answer.caller, answer.subject>> \in invocations

\* What a workload may do rests on rows as they were since its request began
\* (for a snapshot reader: as they were at one instant), on credentials that end
\* with those they came from, are its own and are on record, and on what the
\* receiver was told to admit.
InvocationsAreAuthorized ==
  /\ [](/\ InvocationTypeOK /\ NoUseAfterRevocation /\ LifetimesNest
        /\ ReleasedIsAudited
        /\ DelegationsStayWithTheirCaller /\ ContinuationFollowsAdmission)
  /\ AuthorityIsOneCut
=============================================================================
