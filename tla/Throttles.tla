----------------------------- MODULE Throttles -----------------------------
(***************************************************************************)
(* What Redis counts: failed logins by account and by address, uses of a   *)
(* limited operation, and the last use of each API Key on its way to the   *)
(* database.                                                               *)
(*                                                                         *)
(* A login checks its buckets, verifies the password and records a failure *)
(* in three steps; every script is one.  Time passes in ticks; a bucket    *)
(* keeps what is left of its block and of its life.                        *)
(***************************************************************************)
EXTENDS Naturals, FiniteSets, FiniteSetsExt

CONSTANTS
  Accounts, Addresses, \* what a login is counted by
  Clients,             \* concurrent logins
  Limit,               \* failures until a bucket is blocked for a whole window
  Window, BaseDelay,   \* ticks
  Dimensions,          \* counters of requests by email or address
  RefreshTokens, Creators, \* counters of refreshes of a token and of key creations
  MaxUses,             \* their limit
  APIKeys, Flushers,   \* keys whose use is recorded, and who records it
  Granularity,         \* ticks by which last_used_at may lag (15 minutes)
  MaxTime,             \* bound: time of a use
  Nobody               \* no value

\* NewRedisLoginThrottle.
ASSUME ThrottlesAssumption ==
  /\ Limit \in Nat /\ Limit \in 2..31 /\ BaseDelay \in Nat \ {0} /\ Window \in Nat /\ BaseDelay < Window
  /\ MaxUses \in Nat \ {0} /\ Granularity \in Nat /\ MaxTime \in Nat
  /\ IsFiniteSet(Clients) /\ Accounts \cap Addresses = {}

VARIABLES
  bucket,   \* the hashes of failed logins
  login,    \* logins between check and outcome
  counter,  \* the counters of limited operations
  passed,   \* operations let through in a counter's window
  pendingUse, \* the sorted set of observed uses
  batch,    \* what a flusher has read
  lastUsed, \* api_keys.last_used_at
  observed  \* the latest use of a key

throttleVars == <<bucket, login>>
limiterVars == <<counter, passed>>
usageVars == <<pendingUse, batch, lastUsed, observed>>

Buckets == Accounts \cup Addresses
Limited == Dimensions \cup RefreshTokens \cup Creators
MaxFailed == Limit + Cardinality(Clients)
NoBucket == [count |-> 0, blocked |-> 0, ttl |-> 0]

ThrottleTypeOK ==
  /\ bucket \in [Buckets -> [count : 0..MaxFailed, blocked : 0..Window, ttl : 0..Window]]
  /\ \A c \in Clients : login[c] = Nobody \/ login[c] \in Accounts \X Addresses
  /\ counter \in [Limited -> [count : 0..(MaxUses + 1), ttl : 0..Window]]
  /\ passed \in [Limited -> Nat]
  /\ pendingUse \in [APIKeys -> 0..MaxTime] /\ lastUsed \in [APIKeys -> 0..MaxTime]
  /\ observed \in [APIKeys -> 0..MaxTime]
  /\ batch \in [Flushers -> [key : APIKeys \cup {Nobody}, at : 0..MaxTime, saved : BOOLEAN]]

ThrottleInit ==
  /\ bucket = [b \in Buckets |-> NoBucket]
  /\ login = [c \in Clients |-> Nobody]
  /\ counter = [x \in Limited |-> [count |-> 0, ttl |-> 0]]
  /\ passed = [x \in Limited |-> 0]
  /\ pendingUse = [k \in APIKeys |-> 0] /\ lastUsed = [k \in APIKeys |-> 0]
  /\ observed = [k \in APIKeys |-> 0]
  /\ batch = [f \in Flushers |-> [key |-> Nobody, at |-> 0, saved |-> FALSE]]

-----------------------------------------------------------------------------
(* Failed logins. *)

\* checkLoginThrottle.
Blocked(b) == bucket[b].blocked > 0

\* Neither the account nor the address is blocked.
Check(c, account_, address) ==
  /\ login[c] = Nobody
  /\ ~Blocked(account_) /\ ~Blocked(address)
  /\ login' = [login EXCEPT ![c] = <<account_, address>>]
  /\ UNCHANGED <<bucket, limiterVars, usageVars>>

Smaller(x, y) == IF x < y THEN x ELSE y

\* The delay doubles, and is the whole window from the limit on.
Delay(count) ==
  IF count >= Limit THEN Window ELSE Smaller(BaseDelay * 2^(Smaller(count, Limit) - 1), Window)

\* The buckets of a login.
keys(c) == {login[c][1], login[c][2]}

\* recordLoginThrottleFailure.
Failed(row) ==
  [count |-> row.count + 1, blocked |-> Delay(row.count + 1), ttl |-> Window]

RecordFailure(c) ==
  /\ login[c] # Nobody
  /\ bucket' = [b \in Buckets |->
       IF b \in keys(c) THEN Failed(bucket[b]) ELSE bucket[b]]
  /\ login' = [login EXCEPT ![c] = Nobody]
  /\ UNCHANGED <<limiterVars, usageVars>>

\* A login forgets the failures of its account; that this may fail is ignored.
Reset(c) ==
  /\ login[c] # Nobody
  /\ bucket' \in {bucket, [bucket EXCEPT ![login[c][1]] = NoBucket]}
  /\ login' = [login EXCEPT ![c] = Nobody]
  /\ UNCHANGED <<limiterVars, usageVars>>

Aged(row) ==
  IF row.ttl <= 1 THEN NoBucket
  ELSE [row EXCEPT !.ttl = @ - 1, !.blocked = IF @ = 0 THEN 0 ELSE @ - 1]

-----------------------------------------------------------------------------
(* Limited operations. *)

\* acquireInvitedAccountLimit: every dimension has room, or none is counted.
HasRoom(xs) == \A x \in xs : counter[x].count < MaxUses

Counted(row) ==
  [count |-> row.count + 1, ttl |-> IF row.count = 0 THEN Window ELSE row.ttl]

acquire(xs) ==
  /\ HasRoom(xs)
  /\ counter' = [x \in Limited |-> IF x \in xs THEN Counted(counter[x]) ELSE counter[x]]
  /\ passed' = [x \in Limited |-> IF x \in xs THEN passed[x] + 1 ELSE passed[x]]
  /\ UNCHANGED <<throttleVars, usageVars>>

\* A request is counted by its email and its address.
AcquireVerificationRequest == \E xs \in kSubset(2, Dimensions) : acquire(xs)

\* A completion is counted by its address.
AcquireAccountCompletion == \E xs \in kSubset(1, Dimensions) : acquire(xs)

\* checkRefreshThrottle: every call is counted, and let through up to the
\* limit.  Counting stops with the first one too many.
CountCall(x) ==
  /\ counter[x].count <= MaxUses
  /\ counter' = [counter EXCEPT ![x] = Counted(@)]
  /\ passed' = [passed EXCEPT ![x] = IF counter[x].count + 1 > MaxUses THEN @ ELSE @ + 1]
  /\ UNCHANGED <<throttleVars, usageVars>>

CheckRefresh(x) == x \in RefreshTokens /\ CountCall(x)

AcquireAPIKeyCreation(x) == x \in Creators /\ CountCall(x)

Tick ==
  /\ bucket' = [b \in Buckets |-> Aged(bucket[b])]
  /\ counter' = [x \in Limited |->
       IF counter[x].ttl <= 1 THEN [count |-> 0, ttl |-> 0] ELSE [counter[x] EXCEPT !.ttl = @ - 1]]
  /\ passed' = [x \in Limited |-> IF counter'[x].ttl = 0 THEN 0 ELSE passed[x]]
  /\ UNCHANGED <<login, usageVars>>

-----------------------------------------------------------------------------
(* Uses of API Keys. *)

\* observeAPIKeyUse: the later of the two.
Later(previous, at) == IF at > previous THEN at ELSE previous

\* Observations of concurrent requests may come in any order.
ObserveAPIKeyUse(k, at) ==
  /\ pendingUse' = [pendingUse EXCEPT ![k] = Later(@, at)]
  /\ observed' = [observed EXCEPT ![k] = Later(@, at)]
  /\ UNCHANGED <<throttleVars, limiterVars, batch, lastUsed>>

\* Flush, one entry at a time: it is read, ...
ReadUse(f, k) ==
  /\ batch[f].key = Nobody /\ pendingUse[k] > 0
  /\ batch' = [batch EXCEPT ![f] = [key |-> k, at |-> pendingUse[k], saved |-> FALSE]]
  /\ UNCHANGED <<throttleVars, limiterVars, pendingUse, lastUsed, observed>>

\* ... recorded, when it is newer by more than the granularity, ...
RecordAPIKeyUse(last, at) == IF last = 0 \/ last + Granularity < at THEN at ELSE last

SaveUse(f) ==
  LET b == batch[f]
  IN /\ b.key # Nobody /\ ~b.saved
     /\ lastUsed' = [lastUsed EXCEPT ![b.key] = RecordAPIKeyUse(@, b.at)]
     /\ batch' = [batch EXCEPT ![f].saved = TRUE]
     /\ UNCHANGED <<throttleVars, limiterVars, pendingUse, observed>>

\* Mutant: the entry is removed whatever it says by now.
RemoveUse(current, at) == 0

\* acknowledgeAPIKeyUse: ... and removed unless it moved on.
RemainingUse(current, at) == IF current <= at THEN 0 ELSE current

AcknowledgeUse(f) ==
  LET b == batch[f]
  IN /\ b.key # Nobody /\ b.saved
     /\ pendingUse' = [pendingUse EXCEPT ![b.key] = RemainingUse(@, b.at)]
     /\ batch' = [batch EXCEPT ![f].key = Nobody]
     /\ UNCHANGED <<throttleVars, limiterVars, lastUsed, observed>>

\* PostgreSQL or Redis fails, or the process stops.
FlushFails(f) ==
  /\ batch[f].key # Nobody
  /\ batch' = [batch EXCEPT ![f].key = Nobody]
  /\ UNCHANGED <<throttleVars, limiterVars, pendingUse, lastUsed, observed>>

ThrottleNext ==
  \/ Tick
  \/ \E c \in Clients :
       \/ RecordFailure(c) \/ Reset(c)
       \/ \E account_ \in Accounts, address \in Addresses : Check(c, account_, address)
  \/ \E x \in Limited : CheckRefresh(x) \/ AcquireAPIKeyCreation(x)
  \/ AcquireVerificationRequest \/ AcquireAccountCompletion
  \/ \E k \in APIKeys, at \in 1..MaxTime : ObserveAPIKeyUse(k, at)
  \/ \E f \in Flushers :
       \/ SaveUse(f) \/ AcknowledgeUse(f) \/ FlushFails(f)
       \/ \E k \in APIKeys : ReadUse(f, k)

ThrottleSpec == ThrottleInit /\ [][ThrottleNext]_<<throttleVars, limiterVars, usageVars>>

-----------------------------------------------------------------------------
(* What the counters promise. *)

\* However logins overlap, an account or address sees at most as many wrong
\* passwords in a row as the limit, and one more for every login that was
\* already past its check.
GuessingIsThrottled == \A b \in Buckets : bucket[b].count < Limit + Cardinality(Clients)

\* Logging in to one's own account does not free the address one is guessing
\* from: its bucket only grows or runs out.
AddressesStayCounted ==
  [][\A b \in Addresses : bucket'[b].count < bucket[b].count => bucket[b].ttl = 1]_throttleVars

\* No dimension lets more through in its window than its limit, though the
\* dimensions of one request are different from those of the next.
LimitsHold == \A x \in Limited : passed[x] <= MaxUses

\* A use that was observed is recorded, up to the granularity, or still
\* waiting to be, whatever flushers overlap with it or stop half way.
UsesAreNotLost ==
  \A k \in APIKeys : observed[k] <= pendingUse[k] \/ observed[k] <= lastUsed[k] + Granularity

\* Counters bound what overlapping requests get through, and no use is lost
\* between an observation and the flush that records it.
ThrottlesHold ==
  /\ [](ThrottleTypeOK /\ GuessingIsThrottled /\ LimitsHold /\ UsesAreNotLost)
  /\ AddressesStayCounted
=============================================================================
