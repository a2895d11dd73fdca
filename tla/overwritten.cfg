SPECIFICATION StorageSpec
CONSTANTS
  Runs <- OneRun
  Jobs <- PairJobs
  Seeds <- TreeSeeds
  Domains = {"x"}
  Workers = {w1, w2}
  RunOf <- PairRunOf
  DomainOf <- PairDomainOf
  Rank <- PairRank
  MaxAttempts = 2
  MaxPages = 2
  MaxDepth = 1
  LeaseSeconds = 1
  CrawlDelay = 1
  MaxCandidates = 2
  MaxSelected = 1
  Timely = FALSE
  MayCrash = FALSE
  Null = Null
INVARIANTS
  RowDescribesObject
CHECK_DEADLOCK FALSE
