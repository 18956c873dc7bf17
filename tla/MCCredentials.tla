---------------------------- MODULE MCCredentials ----------------------------
EXTENDS InvitedAccounts, OIDCFlows, Throttles, OnlineAuthorization, Listings, TLC

CONSTANTS h1, d1, r1, b1, o1, st1, ch1

\* The component that moves: they share nothing but the accounts.
VARIABLE part

Parts == {"requests", "letters", "invited", "oidc", "logins", "limits", "calls", "uses", "online", "listings"}

\* Requests overlap while one dispatcher sends, or dispatchers overlap while
\* one request is made at a time.  Identities are interchangeable and used in
\* one order.
PasswordScenarios ==
  \/ part = "requests" /\ \A d \in Dispatchers \ {d1} : dispatcher'[d] = Resting
  \/ part = "letters" /\ Cardinality(asked') <= 1 /\ Cardinality(completed') <= 1

PasswordParts ==
  /\ \A o \in Operations : request'[o] # None => request'[o1] # None
  /\ PasswordScenarios

ChallengesInOrder ==
  \A c \in Challenges : challenge'[c].status # "none" => challenge'[ch1].status # "none"

\* States are used in one order, and one person is suspended at most.
StatesInOrder ==
  /\ Cardinality(enters') >= 1
  /\ \A st \in States : operation'[st].status # "unused" => operation'[st1].status # "unused"

\* What is refused for one reason needs no variants of the others, and what is
\* refused anyway no changes.
OneVariant ==
  \/ /\ query'.policy.known /\ query'.policy.token /\ query'.policy.key
     /\ (query'.proof = "good" /\ query'.home) \/ query'.policy.iam
     /\ query'.proof = "good" \/ query'.home
  \/ query'.policy.iam /\ query'.home /\ query'.proof = "good"

OneKind ==
  /\ \/ query'.proof = "good" /\ query'.policy.known /\ query'.policy.token /\ query'.policy.key
     \/ factChanges' = 0
  /\ OneVariant

\* Somebody else's row may lie between the first and the last one.  The trail
\* that its readers add to has room for two pages of one walk.  One reader
\* among any changes, or two that may take each other's cursors, in one list of
\* each shape, while nothing changes.  A policy is deployed where cursors name
\* its revision.  A status is nothing where it neither changes nor is asked for.
\* Cursors of other questions are taken in one list of each shape, pointing to
\* the first row where rows are filtered.
Stateless == {"roles", "platform_roles", "dead_letters", "attempts", "catalog"}
OneStranger ==
  /\ \A i \in Present : table[i].boundary # b1 => i = 2
  /\ list # "platform_audit" => MaxId \notin Present
  /\ list \in Stateless => \A i \in Present : table[i].status = "active"
Starts ==
  CASE list = "memberships" -> {0, 1}
    [] list \in {"keys", "platform_sessions", "workloads", "roles"} -> {0}
    [] OTHER -> 0..(MaxId - 2)
Reading ==
  /\ OneStranger'
  /\ list \notin Personal \cup {"catalog"} => revision' = 1
  /\ \A r \in Readers :
       walk'[r].start \in Starts /\ (reading'[r] # Nothing => reading'[r].page.start \in Starts)
  /\ \/ /\ \A r \in Readers \ {r1} : walk'[r] = NoWalk /\ reading'[r] = Nothing
        /\ walk'[r1].boundary \in {Nothing, b1}
     \/ /\ revision' = 1 /\ \A r \in Readers : walk'[r] = NoWalk \/ walk'[r].steady = Present'
        /\ Cardinality({r \in Readers : reading'[r] # Nothing}) <= 1
        /\ list = "memberships" => \A r \in Readers : walk'[r].start = 0
        /\ list \notin {"keys", "platform_sessions", "workloads", "roles"}

MCInit ==
  /\ part \in Parts
  /\ PasswordInit /\ InvitedInit /\ ThrottleInit
  /\ part \notin {"requests", "letters"} => \A p \in People : ~account[p].known
  /\ part = "letters" => \A p \in People : account[p].password # None
  /\ OIDCInit /\ \A x \in Subjects : email[x] = h1
  /\ part # "oidc" => (\A x \in Subjects : identity[x] = NoOne)
                        /\ \A s \in Seats : seat[s].person = h1 /\ seat[s].boundary = "tenant"
  /\ OnlineInit
  /\ Cardinality((TenantFacts \cup OwnFacts) \ facts) <= IF part = "online" THEN 1 ELSE 0
  /\ ListingInit /\ OneStranger
  /\ list = "platform_audit" => Cardinality(Present) <= 2
  /\ part # "listings" => list = "sessions" /\ Present = {}

MCNext ==
  /\ UNCHANGED part
  /\ \/ /\ part \in {"requests", "letters"} /\ PasswordNext /\ PasswordParts
        /\ UNCHANGED <<challengeVars, oidcVars, throttleVars, limiterVars, usageVars, onlineVars, listingVars>>
     \/ /\ part = "invited" /\ InvitedNext /\ ChallengesInOrder
        /\ UNCHANGED <<oidcVars, throttleVars, limiterVars, usageVars, onlineVars, listingVars>>
     \/ /\ part = "invited" /\ \E p \in People : AccountAppears(p)
        /\ UNCHANGED <<challengeVars, oidcVars, throttleVars, limiterVars, usageVars, onlineVars, listingVars>>
     \/ /\ part = "oidc" /\ OIDCNext /\ StatesInOrder
        /\ UNCHANGED <<passwordVars, challengeVars, throttleVars, limiterVars, usageVars, onlineVars, listingVars>>
     \/ /\ part \in {"logins", "limits", "calls", "uses"} /\ ThrottleNext
        /\ UNCHANGED <<passwordVars, challengeVars, oidcVars>>
        /\ (part # "logins" => UNCHANGED throttleVars)
        /\ (part # "limits" => \A x \in Dimensions : counter'[x] = counter[x])
        /\ (part # "calls" => \A x \in RefreshTokens \cup Creators : counter'[x] = counter[x])
        /\ (part # "uses" => UNCHANGED usageVars)
        /\ UNCHANGED <<onlineVars, listingVars>>
     \/ /\ part = "online" /\ OnlineNext /\ OneKind
        /\ UNCHANGED <<passwordVars, challengeVars, oidcVars, throttleVars, limiterVars, usageVars,
                        listingVars>>
     \/ /\ part = "listings" /\ ListingNext /\ Reading
        /\ UNCHANGED <<passwordVars, challengeVars, oidcVars, throttleVars, limiterVars, usageVars,
                        onlineVars>>

mcVars == <<part, passwordVars, challengeVars, oidcVars, throttleVars, limiterVars, usageVars, onlineVars, listingVars>>
MCSpec == MCInit /\ [][MCNext]_mcVars

=============================================================================
