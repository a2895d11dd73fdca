SPECIFICATION FairSpec
CONSTANTS
  Runs <- OneRun
  Jobs <- PairJobs
  Seeds <- TreeSeeds
  Domains = {"x"}
  Workers = {w1, w2}
  RunOf <- PairRunOf
  DomainOf <- PairDomainOf
  Rank <- PairRank
  MaxAttempts = 2
  MaxPages = 2
  MaxDepth = 1
  LeaseSeconds = 1
  CrawlDelay = 1
  MaxCandidates = 2
  MaxSelected = 2
  Timely = FALSE
  MayCrash = TRUE
  Null = Null
PROPERTIES
  CampaignsEnd
CHECK_DEADLOCK FALSE
