SPECIFICATION InsistentSpec
CONSTANTS
  Runs <- OneRun
  Jobs <- PairJobs
  Seeds <- TreeSeeds
  Domains = {"x"}
  Workers = {w1, w2}
  RunOf <- PairRunOf
  DomainOf <- PairDomainOf
  Rank <- PairRank
  MaxAttempts = 2
  MaxPages = 2
  MaxDepth = 1
  LeaseSeconds = 1
  CrawlDelay = 1
  MaxCandidates = 2
  MaxSelected = 1
  Timely = FALSE
  MayCrash = TRUE
  Null = Null
  IdlePolls = 2
  MaxMessages = 1
  MayFailPublish = TRUE
PROPERTIES
  CampaignsDrain
  ImplementsCampaign
CHECK_DEADLOCK FALSE
