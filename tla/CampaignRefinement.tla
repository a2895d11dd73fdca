------------------------- MODULE CampaignRefinement -------------------------
(***************************************************************************)
(* The crawl implements Campaign: the client's view of a campaign is its    *)
(* status and the sets of its open, succeeded and failed jobs.              *)
(***************************************************************************)
EXTENDS CrawlProperties

OwedJobs == [r \in Runs |-> {j \in Jobs : RunOf[j] = r /\ Open(j)}]
JobsWith(s) == [r \in Runs |-> {j \in Jobs : RunOf[j] = r /\ job[j].status = s}]

Client == INSTANCE Campaign WITH
  Campaigns <- Runs,
  Pages     <- Jobs,
  phase     <- run,
  owed      <- OwedJobs,
  won       <- JobsWith("SUCCEEDED"),
  lost      <- JobsWith("FAILED")

\* Leases, reclaims, retries, stale workers, pacing and crashes are invisible
\* to the client: every step of the crawl is one step of its campaign or none.
ImplementsCampaign == Client!Spec

=============================================================================
