SPECIFICATION BriefSpec
CONSTANTS
  Runs <- OneRun
  Jobs <- OneJobs
  Seeds <- OneJobs
  Domains = {"x", "y"}
  Workers = {w1, w2}
  RunOf <- OneRunOf
  DomainOf <- OneDomainOf
  Rank <- OneRank
  MaxAttempts = 2
  MaxPages = 3
  MaxDepth = 1
  LeaseSeconds = 1
  CrawlDelay = 1
  MaxCandidates = 1
  MaxSelected = 0
  Timely = FALSE
  MayCrash = FALSE
  Null = Null
  Requests = {q1, q2}
  Usable <- OneUsable
  MayDie = TRUE
INVARIANTS
  OneGenerator
  BriefCitesItsEvidence
  BriefMissesNoPage
  OrphanedByDeath
PROPERTIES
  ReadyIsFinal
SYMMETRY RequestSymmetry
CHECK_DEADLOCK FALSE
