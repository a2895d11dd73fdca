SPECIFICATION FairFleetSpec
CONSTANTS
  Runs <- OneRun
  Jobs <- OneJobs
  Seeds <- OneSeeds
  Domains = {"x", "y"}
  Workers = {w1, w2}
  RunOf <- OneRunOf
  DomainOf <- OneDomainOf
  Rank <- OneRank
  MaxAttempts = 2
  MaxPages = 3
  MaxDepth = 1
  LeaseSeconds = 2
  CrawlDelay = 1
  MaxCandidates = 1
  MaxSelected = 1
  Timely = TRUE
  MayCrash = FALSE
  Null = Null
  IdlePolls = 2
  MaxMessages = 2
  MayFailPublish = FALSE
INVARIANTS
  NobodyLeavesWork
PROPERTIES
  CampaignsEnd
  CancelledJobsEnd
CHECK_DEADLOCK FALSE
