------------------------------ MODULE MCCrawl ------------------------------
(***************************************************************************)
(* Instances of the crawl for TLC.  A job is named after its campaign, its  *)
(* host and its place: the seed "r_x1" is a page of host x in campaign r.   *)
(***************************************************************************)
EXTENDS CampaignRefinement, TLC

\* Worker ids are interchangeable; used by the runs without liveness only.
WorkerSymmetry == Permutations(Workers)

(* One campaign: two seeds on one host, and one link they may discover *)
OneRun == {"r"}
OneJobs == {"r_x1", "r_x2", "r_y1"}
OneSeeds == {"r_x1", "r_x2"}
OneRunOf == [j \in OneJobs |-> "r"]
OneDomainOf == [j \in OneJobs |-> IF j = "r_y1" THEN "y" ELSE "x"]
OneRank == [j \in OneJobs |->
             CASE j = "r_x1" -> 1 [] j = "r_x2" -> 2 [] j = "r_y1" -> 3]

(* Two campaigns that share a host, one of them with a link to discover *)
TwoRuns == {"r", "s"}
TwoJobs == {"r_x1", "r_x2", "s_x1"}
TwoSeeds == {"r_x1", "s_x1"}
TwoRunOf == [j \in TwoJobs |-> IF j = "s_x1" THEN "s" ELSE "r"]
TwoDomainOf == [j \in TwoJobs |-> "x"]
TwoRank == [j \in TwoJobs |->
             CASE j = "r_x1" -> 1 [] j = "s_x1" -> 2 [] j = "r_x2" -> 3]

(* One campaign with one seed that may discover two links, on two hosts *)
TreeSeeds == {"r_x1"}

(* One campaign with one seed and one link, on one host *)
PairJobs == {"r_x1", "r_x2"}
PairRunOf == [j \in PairJobs |-> "r"]
PairDomainOf == [j \in PairJobs |-> "x"]
PairRank == [j \in PairJobs |-> IF j = "r_x1" THEN 1 ELSE 2]

=============================================================================
