------------------------------ MODULE MCBriefs ------------------------------
(* The crawl with briefs on the instances of MCCrawl. *)
EXTENDS MCCrawl, CampaignBriefs

\* Requests are interchangeable, too.
RequestSymmetry == Permutations(Requests) \cup WorkerSymmetry

(* The page of the third job has no text. *)
OneUsable == {"r_x1", "r_x2"}

=============================================================================
