SPECIFICATION FairBriefSpec
CONSTANTS
  Runs <- OneRun
  Jobs <- PairJobs
  Seeds <- PairJobs
  Domains = {"x"}
  Workers = {w1}
  RunOf <- PairRunOf
  DomainOf <- PairDomainOf
  Rank <- PairRank
  MaxAttempts = 1
  MaxPages = 2
  MaxDepth = 1
  LeaseSeconds = 1
  CrawlDelay = 1
  MaxCandidates = 2
  MaxSelected = 0
  Timely = FALSE
  MayCrash = FALSE
  Null = Null
  Requests = {q1, q2}
  Usable <- PairJobs
  MayDie = TRUE
PROPERTIES
  BriefsSettle
CHECK_DEADLOCK FALSE
