SPECIFICATION PublishingSpec
CONSTANTS
  c1 = c1
  c2 = c2
  d1 = d1
  d2 = d2
  n1 = n1
  n2 = n2
  ga = ga
  gb = gb
  u1 = u1
  u2 = u2
  \* Stories
  StoryIds = {s1}
  StoryTeams = {ta, tb}
  Files = {1, 2}
  IndexPages = {2}
  Pages = {1, 2}
  Uploads = {v1}
  StoryCalls = {c1, c2}
  NoStory = NoStory
  \* JoinableViews
  Sources = {1, 2}
  BqDatasets = {b1, b2}
  OwnersOf <- MCOwnersOf
  GroupsOf <- MCGroupsOf
  Users = {u1}
  Others = {}
  Joinables = {j1}
  ViewCalls = {c3}
  AccessCalls = {c1, c2}
  MaxRows = 1
  NoView = NoView
  \* Catalogue
  ProductIds = {d1, d2}
  DatasetIds = {x1}
  OwnerGroups = {ga, gb}
  Editors = {u1, u2}
  MemberOfGroups <- MCMemberOfGroups
  Tables = {t1}
  ProjectGroup <- MCProjectGroup
  Columns = {n1, n2}
  PiiChoices <- MCPiiChoices
  TeamIds = {i1}
  Edits = {c1, c2}
  Nothing = Nothing
  Gone = Gone
  \* DatasourceSync
  Registered = {x1}
  Pseudonymised = {}
  Syncs = {c1, c2}
  MaxShape = 2
  NoSync = NoSync
  \* Keywords
  DatasetItems = {x1}
  StoryItems = {s1}
  Words = {d1, d2}
  Renamings <- MCRenamings
  KeywordJobs = {c1, c2}
  Absent = Absent
  \* TeamCatalogue
  Areas = {1, 2}
  CatalogueTeams = {t1}
  CataloguePods = {c1, c2}
  Lifetime = 0
  LastHour = 1
  NoAnswer = NoAnswer
SYMMETRY MCSymmetry
INVARIANT PublishingTypeOK
INVARIANT StoryShowsUploads
INVARIANT DeletedIsNotServed
INVARIANT ListedIsUsable
INVARIANT RevokedAreOut
INVARIANT ViewersHadAccess
INVARIANT DeletedIsShown
PROPERTY OwnerNeverChanges
PROPERTY OnlyOwnersChangeDatasets
INVARIANT HiddenColumnsAreHidden
INVARIANT ShownIsFresh
INVARIANT RetiredIsGone
PROPERTY StoredAreaIsRecent
CHECK_DEADLOCK FALSE
