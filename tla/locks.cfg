SPECIFICATION LockSpec
CONSTANTS
  Runs <- OneRun
  Jobs <- OneJobs
  Seeds <- TreeSeeds
  Domains = {"x", "y"}
  Workers = {w1, w2}
  RunOf <- OneRunOf
  DomainOf <- OneDomainOf
  Rank <- OneRank
  MaxAttempts = 2
  MaxPages = 2
  MaxDepth = 1
  LeaseSeconds = 1
  CrawlDelay = 1
  MaxCandidates = 3
  MaxSelected = 1
  Timely = FALSE
  MayCrash = TRUE
  Null = Null
  MaxAge = 1
INVARIANTS
  ReportsNeverDeadlock
  SafeUnderRowLocks
  WithinPageBudget
PROPERTIES
  CommitsAreAtomic
SYMMETRY WorkerSymmetry
CHECK_DEADLOCK FALSE
