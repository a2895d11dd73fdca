SPECIFICATION StorageSpec
CONSTANTS
  Runs <- TwoRuns
  Jobs <- TwoJobs
  Seeds <- TwoSeeds
  Domains = {"x"}
  Workers = {w1, w2}
  RunOf <- TwoRunOf
  DomainOf <- TwoDomainOf
  Rank <- TwoRank
  MaxAttempts = 2
  MaxPages = 2
  MaxDepth = 1
  LeaseSeconds = 2
  CrawlDelay = 1
  MaxCandidates = 2
  MaxSelected = 2
  Timely = TRUE
  MayCrash = TRUE
  Null = Null
INVARIANTS
  RowDescribesObject
  OneRequestPerHost
SYMMETRY WorkerSymmetry
CHECK_DEADLOCK FALSE
