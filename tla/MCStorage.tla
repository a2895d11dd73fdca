----------------------------- MODULE MCStorage -----------------------------
(* The crawl with the object store on the instances of MCCrawl. *)
EXTENDS MCCrawl, PageStorage

=============================================================================
