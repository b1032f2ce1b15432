SPECIFICATION AdmissionSpec
CONSTANTS
  c1 = c1
  c2 = c2
  d1 = d1
  d2 = d2
  \* MetabaseMembers
  People = {u1, u2}
  Known = {u1}
  AccessIds = {d1, d2}
  MemberCalls = {c3}
  Nobody = Nobody
  \* ServiceAccounts
  Accounts = {d1, d2}
  Keys = {k1}
  Mappers = {c1, c2}
  NoKey = NoKey
  \* Sessions
  Tokens = {t1}
  States = {s1}
  Requests = {c1, c2}
  CacheDuration = 0
  SessionLength = 2
  MaxTime = 1
  NoToken = NoToken
  \* TeamTokens
  Slugs = {1, 2}
  Limit = 1
  Updaters = {p1, p2}
  Uploaders = {c3}
  Secrets = {k1, k2}
  NoSecret = NoSecret
  \* MetabaseCollections
  Mapped = {d1, d2}
  Names = {n1}
  Taggers = {c1, c2}
  NoRow = NoRow
SYMMETRY MCSymmetry
INVARIANT AdmissionTypeOK
INVARIANT MembersHaveAccess
INVARIANT GrantedAreMembers
INVARIANT BindingsAreKept
INVARIANT RecordedKeyWorks
INVARIANT GroupsAreCurrent
INVARIANT SteadyTeamsAreListed
INVARIANT TokensSurvive
INVARIANT TaggedOnce
CHECK_DEADLOCK FALSE
