SPECIFICATION AllSpec
CONSTANTS
  Sessions = {a, b}
  Sources = {h1}
  JobIds = {1, 2, 3}
  MaxTokens = 1
  MaxCharge = 2
  SessionTokens = 2
  QueueCap = 1
  Permits = 1
  KeptRows = 1
  MaxCrashes = 1
  None = None
  Migrators = {"m1", "m2"}
  Kinds = {"rtk", "headroom"}
  Rows <- MCRows
  Identities = {"i1", "i2"}
  Mapping <- MCMapping
  StoreQuota = 2
  Calls = {"c1", "c2", "c3"}
  OneByte = {"x"}
  Question <- MCQuestion
  Reply <- MCReply
  MaxFrame = 5
  MaxWaiting = 2
  MaxAdmitted = 1
  MaxMishaps = 2
  Histories = {"old", "new", "elsewhere"}
  Hashes = {"m1", "m2", "r1", "r2"}
  NodeIds = {"leaf", "other", "top"}
  Messages <- MCMessages
  ChildOf <- MCChildOf
  Owned = {"old", "new"}
  NodeChildren <- MCNodeChildren
  NodeSources <- MCNodeSources
  Ranked <- MCRanked
  Text <- MCText
  Budgets = {1, 2, 6}
  Limits = {1, 2}
  Depths = {0, 1, 2}
  RefSize = 2
  MaxDepth = 2
  MaxChanges = 3
  Nobody = Nobody
SYMMETRY Symmetry
CHECK_DEADLOCK FALSE
INVARIANTS
  LifetimeBudget
  ProviderLoad
  NoIdlePermit
  PagesInOrder
  Recoverable
  AnswersExact
  MigratedIsComplete
  OmissionsExact
PROPERTIES
  RejectedStaysRejected
  PagesAdvance
