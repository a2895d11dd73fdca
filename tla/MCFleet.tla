------------------------------ MODULE MCFleet ------------------------------
(* The fleet on the instances of MCCrawl. *)
EXTENDS MCCrawl, WorkerFleet

=============================================================================
