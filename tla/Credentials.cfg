SPECIFICATION MCSpec
CONSTANTS
  People = {p1}
  Operations = {o1, o2}
  RequestKeys = {q1, q2}
  CompletionKeys = {c1, c2}
  Passwords = {w1}
  Dispatchers = {d1, d2}
  MaxAttempts = 1
  MaxClaims = 2
  MaxAsked = 2
  Challenges = {ch1, ch2}
  AccountKeys = {ak1, ak2}
  MaxGuesses = 2
  Humans = {h1, h2}
  h1 = h1
  d1 = d1
  o1 = o1
  st1 = st1
  ch1 = ch1
  Subjects = {x1}
  States = {st1, st2}
  OIDCKeys = {ok1}
  Seats = {s1}
  Accounts = {ac1, ac2}
  Addresses = {ip1}
  Clients = {cl1, cl2}
  Limit = 3
  Window = 5
  BaseDelay = 1
  Dimensions = {em1, em2, ad1}
  RefreshTokens = {rt1}
  Creators = {cr1}
  MaxUses = 2
  APIKeys = {key1}
  Flushers = {f1, f2}
  Granularity = 1
  MaxTime = 3
  Expiry = 1
  MaxOnlineClock = 1
  MaxFactChanges = 2
  LifecycleObservation = TRUE
  Readers = {r1, r2}
  r1 = r1
  b1 = b1
  Holders = {b1, b2}
  MaxId = 4
  MaxRevision = 2
  PageLimit = 1
  Nothing = Nothing
  None = None
  NoOne = NoOne
  Nobody = Nobody
INVARIANTS
  AnswersAreSound
  WalksAreFaithful
PROPERTIES
  PasswordsAreProtected
  InvitedAccountsAreEarned
  FlowsAreSafe
  ThrottlesHold
CHECK_DEADLOCK FALSE
