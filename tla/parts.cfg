SPECIFICATION PartsSpec
CONSTANTS
  MaxDocuments = 50
  MaxPerDocument = 3600
  MinPerDocument = 160
  DirectLimit = 18000
  GroupLimit = 12000
  MaxGroups = 4
  Header = 613
  HeaderEstimate = 600
  HeadingEstimate = 220
  Corpora <- CodeCorpora
  PartialLengths = {3900, 7800}
  Preamble = 592
  MaxReducerInput = 24000
  Links <- PageLinks
  PageUrl <- SeedPage
  AllowedDomains <- CampaignDomains
  Intent = {1, 2}
  MaxDiscovered = 2
  MaxSelectedUrls = 2
  PageBudget = 3
  Clients = {c1, c2, c3}
  Keys = {"k"}
  Payloads <- ClientPayloads
  AllowedHosts = {"x"}
  MaxSubmissions = 2
  NoRow = NoRow
  MaxResponseBytes = 6
  ChunkSizes = {1, 2, 5}
  DeclaredLengths = {4, 6, 7}
  NoLength = NoLength
  MaxArrived = 12
  PageTags <- Elements
  MaxTokens = 5
  Processes = {p1, p2, p3}
  WorkerIds = {"w"}
  IdOf <- OneId
  Leasable = {"i", "j"}
  NoJob = NoJob
INVARIANTS
  BundlesFit
  CallsAreBounded
  CitationsAreGrounded
  BestEvidenceIsCarried
  LongHeadingsHideOnlyLater
  KeptForItsPath
  SelectionIsSafe
  CreationIsIdempotent
  RefusalsAreJustified
  PageIsWholeAndBounded
  TextIsVisible
  RowsTellTheTruth
CHECK_DEADLOCK FALSE
