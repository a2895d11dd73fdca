SPECIFICATION Spec
CONSTANTS
  Runs <- OneRun
  Jobs <- OneJobs
  Seeds <- OneSeeds
  Domains = {"x", "y"}
  Workers = {w1, w2}
  RunOf <- OneRunOf
  DomainOf <- OneDomainOf
  Rank <- OneRank
  MaxAttempts = 1
  MaxPages = 3
  MaxDepth = 1
  LeaseSeconds = 2
  CrawlDelay = 1
  MaxCandidates = 2
  MaxSelected = 2
  Timely = FALSE
  MayCrash = TRUE
  Null = Null
INVARIANTS
  SucceededMeansAllSucceeded
CHECK_DEADLOCK FALSE
