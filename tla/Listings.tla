------------------------------ MODULE Listings ------------------------------
(***************************************************************************)
(* Paged lists over rows that change between two pages: Sessions, the      *)
(* Memberships, Roles, Workloads and API Keys of a Tenant, Platform        *)
(* Memberships and Roles, both audit trails, dead letters, their attempts  *)
(* and the permission catalog.                                             *)
(*                                                                         *)
(* Every page is a query of its own that starts behind the last identity   *)
(* of the page before.  Some cursors are that bare identity and are taken  *)
(* from anybody for any question; others also carry what they were issued  *)
(* for and are refused for anything else.  None is signed: callers present *)
(* them as they were issued.  A behaviour is about one of the lists.       *)
(* Identities are UUIDs in their order; transactions commit them in any    *)
(* order.  A page whose caller is not authorized, or that fails, changes   *)
(* nothing.                                                                *)
(***************************************************************************)
EXTENDS Naturals, FiniteSets, Sequences, SequencesExt

CONSTANTS
  Readers,     \* callers
  Holders,     \* Tenants, Humans or consumers a row belongs to
  MaxId,       \* bound: rows of the list
  MaxRevision, \* bound: policy revisions that are deployed
  PageLimit,   \* rows of a page
  Nothing      \* no row, no cursor, no filter

ASSUME ListingAssumption ==
  MaxId \in Nat /\ PageLimit \in Nat \ {0} /\ Nothing \notin Holders

Ids == 1..MaxId
Filters == {"active", "ended", Nothing}
Row == [boundary : Holders, status : {"active", "ended"}]

TenantLists == {"sessions", "memberships", "roles", "workloads", "keys"}
PlatformLists == {"platform_sessions", "platform_memberships", "platform_roles", "platform_audit",
                  "dead_letters", "attempts"}
Lists == TenantLists \cup PlatformLists \cup {"audit", "catalog"}

Newest == {"audit", "platform_audit"}               \* these begin with the newest row
Bare == TenantLists \cup {"platform_sessions"}      \* their cursors are an identity and no more
Personal == PlatformLists \ Bare                    \* theirs name the caller and the policy revision

VARIABLES
  list,     \* the list this behaviour is about
  table,    \* its rows
  revision, \* the policy revision of the running registry
  walk,     \* the last page each caller got, its cursor, and what led to it
  reading   \* a page of Roles whose rows are still being read one by one

listingVars == <<list, table, revision, walk, reading>>

\* "seen" are the rows of a walk from its first page to the last.  Its present
\* question was first asked behind "start"; "kept" were there, and "steady" did
\* not change, all the time since then.  "actor" asked the first page, under
\* the policy revision "since".
NoWalk == [phase |-> "none", boundary |-> Nothing, filter |-> Nothing, after |-> 0,
           revision |-> 0, seen |-> <<>>, start |-> 0, kept |-> {}, steady |-> {},
           actor |-> Nothing, since |-> 0]

Present == {i \in Ids : table[i] # Nothing}

ListingInit ==
  /\ list \in Lists
  /\ table \in [Ids -> Row \cup {Nothing}]
  /\ revision = 1
  /\ walk = [r \in Readers |-> NoWalk]
  /\ reading = [r \in Readers |-> Nothing]

-----------------------------------------------------------------------------
(* The queries: what each of them selects behind a position, 0 for none. *)

Within(b) == {i \in Present : table[i].boundary = b}
Having(f, S) == {i \in S : f = Nothing \/ table[i].status = f}
Behind(i, S) == {j \in S : j > i}
Before(i, S) == {j \in S : i = 0 \/ j < i}

ListOwnedHumanSessions(b, i) == Behind(i, Within(b))
ListTenantAuthorizationMemberships(b, f, i) == Behind(i, Having(f, Within(b)))
ListTenantAuthorizationRoles(b, i) == Behind(i, Within(b))
ListTenantWorkloads(b, f, i) == Behind(i, Having(f, Within(b)))
ListAPIKeys(b, i) == Behind(i, Within(b))
ListPlatformMemberships(f, i) == Behind(i, Having(f, Present))
ListPlatformRoles(i) == Behind(i, Present)
ListCoreDLQEntries(b, i) == Behind(i, Within(b))
ListCoreDLQAttempts(b, i) == Behind(i, Within(b))
ListTenantAuditEvents(b, f, i) == Before(i, Having(f, Within(b)))

\* Without a Tenant, the events of all of them and of the Platform.
ListPlatformAuditEvents(b, f, i) ==
  Before(i, Having(f, IF b = Nothing THEN Present ELSE Within(b)))

-----------------------------------------------------------------------------
(* Cursors: what each of them was issued for, besides the position. *)

sessionCursor == {}
tenantAdminPage == {}
auditQueryCursor == {"boundary", "filter"}
platformAuditCursor == {"actor", "boundary", "filter", "revision"}

\* Mutant: the cursor forgets the status it was issued for.
PageWithoutStatus == {"actor", "revision"}
platformAdminPage == {"actor", "filter", "revision"}
coreDLQPage == {"actor", "boundary", "revision"}
permissionCatalogCursor == {"boundary", "revision"}

\* Caller r asks for the first page, for the one behind the cursor that caller q
\* was given last, or for the one behind an identity q from elsewhere, which
\* only a bare cursor can be.  A field the cursor lacks is not compared.
Presents(r, q, b, f, fields) ==
  /\ q \in Ids => fields = {}
  /\ q \in Readers =>
       /\ walk[q].phase = "open"
       /\ "actor" \in fields => q = r
       /\ "revision" \in fields => walk[q].revision = revision
       /\ "boundary" \in fields => walk[q].boundary = b
       /\ "filter" \in fields => walk[q].filter = f

After(q) == IF q \in Readers THEN walk[q].after ELSE IF q = Nothing THEN 0 ELSE q

-----------------------------------------------------------------------------
(* Pages. *)

Rank(i, S) == Cardinality({j \in S : j <= i})
Sorted(S) == [k \in 1..Cardinality(S) |-> CHOOSE i \in S : Rank(i, S) = k]

Shown(rows) == IF Len(rows) > PageLimit THEN SubSeq(rows, 1, PageLimit) ELSE rows

\* The walk that r's page continues.  Behind the cursor of another question the
\* walk goes on, but has asked this one from there only.
From(r, q, b, f) ==
  IF q \notin Readers
    THEN [NoWalk EXCEPT !.start = After(q), !.kept = Present, !.steady = Present,
                        !.actor = r, !.since = revision]
  ELSE IF walk[q].boundary = b /\ walk[q].filter = f
    THEN walk[q]
    ELSE [walk[q] EXCEPT !.start = After(q), !.kept = Present, !.steady = Present]

\* One row more than a page is read: it tells whether there is a next page, and
\* the cursor is the last row that is shown.
Page(r, q, b, f, rows) ==
  LET more == Len(rows) > PageLimit
  IN [From(r, q, b, f) EXCEPT
        !.phase = IF more THEN "open" ELSE "done", !.boundary = b, !.filter = f,
        !.after = IF more THEN rows[PageLimit] ELSE 0, !.revision = revision,
        !.seen = @ \o Shown(rows)]

Shows(r, q, b, f, fields, rows) ==
  /\ Presents(r, q, b, f, fields)
  /\ walk' = [walk EXCEPT ![r] = Page(r, q, b, f, rows)]
  /\ UNCHANGED <<list, table, revision, reading>>

ListSessions(r, q, b) ==
  /\ list = "sessions"
  /\ Shows(r, q, b, Nothing, sessionCursor, Sorted(ListOwnedHumanSessions(b, After(q))))

listPlatformSessions(r, q, b) ==
  /\ list = "platform_sessions"
  /\ Shows(r, q, b, Nothing, sessionCursor, Sorted(ListOwnedHumanSessions(b, After(q))))

ListMemberships(r, q, b, f) ==
  /\ list = "memberships"
  /\ Shows(r, q, b, f, tenantAdminPage, Sorted(ListTenantAuthorizationMemberships(b, f, After(q))))

WorkloadPage(r, q, b, f) ==
  /\ list = "workloads"
  /\ Shows(r, q, b, f, tenantAdminPage, Sorted(ListTenantWorkloads(b, f, After(q))))

APIKeyPage(r, q, b) ==
  /\ list = "keys"
  /\ Shows(r, q, b, Nothing, tenantAdminPage, Sorted(ListAPIKeys(b, After(q))))

\* The identities first, then each Role in a statement of its own.
ListRoles(r, q, b) ==
  /\ list = "roles" /\ reading[r] = Nothing
  /\ Presents(r, q, b, Nothing, tenantAdminPage)
  /\ LET rows == Sorted(ListTenantAuthorizationRoles(b, After(q)))
     IN reading' = [reading EXCEPT ![r] =
          [roles |-> ToSet(Shown(rows)), page |-> Page(r, q, b, Nothing, rows)]]
  /\ UNCHANGED <<list, table, revision, walk>>

\* A Role that was deleted in the meantime fails the page.
GetRoles(r) ==
  /\ reading[r] # Nothing
  /\ walk' = IF reading[r].roles \subseteq Present
               THEN [walk EXCEPT ![r] = reading[r].page]
               ELSE walk
  /\ reading' = [reading EXCEPT ![r] = Nothing]
  /\ UNCHANGED <<list, table, revision>>

AuditQuery(r, q, b, f) ==
  /\ list = "audit"
  /\ Shows(r, q, b, f, auditQueryCursor, Reverse(Sorted(ListTenantAuditEvents(b, f, After(q)))))

PlatformMembershipPage(r, q, f) ==
  /\ list = "platform_memberships"
  /\ Shows(r, q, Nothing, f, platformAdminPage, Sorted(ListPlatformMemberships(f, After(q))))

PlatformRolePage(r, q) ==
  /\ list = "platform_roles"
  /\ Shows(r, q, Nothing, Nothing, platformAdminPage, Sorted(ListPlatformRoles(After(q))))

CoreDLQEntryPage(r, q, b) ==
  /\ list = "dead_letters"
  /\ Shows(r, q, b, Nothing, coreDLQPage, Sorted(ListCoreDLQEntries(b, After(q))))

GetCoreDLQEntry(r, q, b) ==
  /\ list = "attempts"
  /\ Shows(r, q, b, Nothing, coreDLQPage, Sorted(ListCoreDLQAttempts(b, After(q))))

\* Every page is an event of the trail itself.  Its identity is made after the
\* rows were read and carries this server's clock: it may be newer or older than
\* any that is there.
ListAuditEvents(r, q, b, f) ==
  /\ list = "platform_audit"
  /\ Presents(r, q, b, f, platformAuditCursor)
  /\ \E i \in Ids \ Present, row \in Row : table' = [table EXCEPT ![i] = row]
  /\ walk' = [walk EXCEPT ![r] =
       Page(r, q, b, f, Reverse(Sorted(ListPlatformAuditEvents(b, f, After(q)))))]
  /\ UNCHANGED <<list, revision, reading>>

\* The catalog is the registry's own: the position has to be one of it.
PermissionCatalogPage(r, q, b) ==
  /\ list = "catalog"
  /\ After(q) \in Within(b) \cup {0}
  /\ Shows(r, q, b, Nothing, permissionCatalogCursor, Sorted(Behind(After(q), Within(b))))

-----------------------------------------------------------------------------
(* Rows change between any two pages. *)

Survives(w, i) ==
  [w EXCEPT !.steady = @ \ {i}, !.kept = IF table'[i] = Nothing THEN @ \ {i} ELSE @]

Change(i, row) ==
  /\ table' = [table EXCEPT ![i] = row]
  /\ walk' = [r \in Readers |-> Survives(walk[r], i)]
  /\ reading' = [r \in Readers |->
       IF reading[r] = Nothing THEN Nothing
       ELSE [reading[r] EXCEPT !.page = Survives(@, i)]]
  /\ UNCHANGED list

\* Attempts are numbered in the order of their commits.
Insert(i) ==
  /\ list # "catalog" /\ i \notin Present
  /\ list = "attempts" => \A j \in Present : j < i
  /\ \E row \in Row : Change(i, row)
  /\ UNCHANGED revision

Update(i) ==
  /\ list \in {"sessions", "platform_sessions", "memberships", "workloads", "keys",
              "platform_memberships"}
  /\ i \in Present /\ table[i].status = "active"
  /\ Change(i, [table[i] EXCEPT !.status = "ended"])
  /\ UNCHANGED revision

Delete(i) ==
  /\ list \in {"roles", "platform_roles"} /\ i \in Present
  /\ Change(i, Nothing)
  /\ UNCHANGED revision

\* A new registry, with a new catalog.
Deploy ==
  /\ revision < MaxRevision /\ revision' = revision + 1
  /\ IF list = "catalog"
       THEN \E i \in Ids : \E row \in IF i \in Present THEN {Nothing} ELSE Row : Change(i, row)
       ELSE UNCHANGED <<list, table, walk, reading>>

ListingNext ==
  \/ \E r \in Readers, q \in Readers \cup Ids \cup {Nothing} :
       \/ \E b \in Holders :
            \/ ListSessions(r, q, b) \/ listPlatformSessions(r, q, b) \/ APIKeyPage(r, q, b)
            \/ ListRoles(r, q, b) \/ CoreDLQEntryPage(r, q, b) \/ GetCoreDLQEntry(r, q, b)
            \/ PermissionCatalogPage(r, q, b)
            \/ \E f \in Filters :
                 ListMemberships(r, q, b, f) \/ WorkloadPage(r, q, b, f) \/ AuditQuery(r, q, b, f)
       \/ \E f \in Filters : PlatformMembershipPage(r, q, f)
       \/ PlatformRolePage(r, q)
       \/ \E b \in Holders \cup {Nothing}, f \in Filters : ListAuditEvents(r, q, b, f)
  \/ \E r \in Readers : GetRoles(r)
  \/ \E i \in Ids : Insert(i) \/ Update(i) \/ Delete(i)
  \/ Deploy

ListingSpec == ListingInit /\ [][ListingNext]_listingVars

-----------------------------------------------------------------------------
(* Properties. *)

\* No walk shows a row twice or goes back, however rows come, change and go
\* between its pages and whoever's cursor it continues, of this question or of
\* another (After, Page).
WalksGoForward ==
  \A r \in Readers : \A i, j \in DOMAIN walk[r].seen :
    i < j => IF list \in Newest THEN walk[r].seen[i] > walk[r].seen[j]
                                ELSE walk[r].seen[i] < walk[r].seen[j]

\* A walk that has come to its end has shown every row that answered its
\* question all the time since it was first asked, from that place on: one page
\* more is asked for whenever a row is left (ListSessions and its siblings).
WalksAreComplete ==
  \A r \in Readers :
    walk[r].phase = "done" =>
      LET w == walk[r]
          asked == IF w.boundary = Nothing THEN Present ELSE Within(w.boundary)
          due == IF w.filter = Nothing THEN w.kept ELSE Having(w.filter, asked) \cap w.steady
          ahead == IF list \in Newest THEN Before(w.start, asked) ELSE Behind(w.start, asked)
      IN due \cap ahead \subseteq {w.seen[k] : k \in DOMAIN w.seen}

\* Where a cursor says what it was issued for, every walk began at the first
\* row and asked one question throughout: no cursor of another one was taken for
\* a place in it.  One that names its caller and the policy revision led the
\* same caller on, under the policy that the first page was read with; the
\* catalog's names the revision only (platformAdminPage and its siblings).
WalksKeepTheirQuestion ==
  \A r \in Readers :
    walk[r].phase # "none" =>
      /\ list \notin Bare => walk[r].start = 0
      /\ list \in Personal => walk[r].actor = r
      /\ list \in Personal \cup {"catalog"} => walk[r].since = walk[r].revision

\* A list read page by page shows every row that stays from where it was asked
\* for and none twice, while rows change and cursors go astray; where cursors
\* say what they are for, that is from the first row on, to one caller.
WalksAreFaithful == WalksGoForward /\ WalksAreComplete /\ WalksKeepTheirQuestion
=============================================================================
