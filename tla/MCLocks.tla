------------------------------ MODULE MCLocks ------------------------------
(* The crawl at the grain of its row locks, on the instances of MCCrawl. *)
EXTENDS RowLocking, MCCrawl

=============================================================================
