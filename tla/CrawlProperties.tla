-------------------------- MODULE CrawlProperties --------------------------
(***************************************************************************)
(* What the crawl promises: the properties the runs check and the proofs    *)
(* establish, and the statements of the documentation the code refutes.     *)
(***************************************************************************)
EXTENDS CrawlSystem

\* Every row, worker and document set has its declared shape.
TypeOK ==
  /\ StoreTypeOK
  /\ worker \in [Workers -> WorkerState]
  /\ docs \subseteq Jobs

\* What a process in the middle of a job may count on: it holds a token
\* of a row in the frontier, and expands the pages of seeds only (TypeOK is inductive together with it).
WorkerHoldsToken ==
  \A w \in Workers : worker[w].pc \in Working =>
    /\ Claimed(w) \in Tokens
    /\ Exists(ClaimedJob(w))
    /\ worker[w].pc = "expand" => job[ClaimedJob(w)].depth = 0

LiveLease(j) == job[j].status = "LEASED" /\ job[j].left > 0

\* Across all campaigns at most one live lease exists per host, and the
\* host's policy row is the reservation of exactly that lease: claims,
\* reclaims of expired leases and releases by token (job_leasing.py) never
\* let two live leases share a host or free a host still leased.
DomainExclusive ==
  \A j \in Jobs : LiveLease(j) =>
    /\ policy[DomainOf[j]].token = job[j].token
    /\ policy[DomainOf[j]].left = job[j].left
    /\ \A k \in Jobs \ {j} : LiveLease(k) => DomainOf[k] # DomainOf[j]

\* A campaign with a verdict has no open work, and keeps none: neither a late
\* enqueue by a stale worker nor a retry adds a job after the last one closed.
VerdictIsQuiescent ==
  \A r \in Runs : run[r] \in CompletedRun => \A j \in JobsOf(r) : ~Open(j)

\* A RUNNING campaign always has open work: whatever the order in which
\* several workers finish, pauses and resumes included, the last one to
\* finish closes the campaign.
RunningHasOpenWork ==
  \A r \in Runs : run[r] = "RUNNING" => \E j \in JobsOf(r) : Open(j)

\* Each verdict is justified by the jobs: SUCCEEDED has a success, FAILED has
\* a failure and no success, PARTIALLY_SUCCEEDED has one of each.
VerdictJustified ==
  \A r \in Runs :
    /\ run[r] = "SUCCEEDED" => SomeSucceeded(r)
    /\ run[r] = "FAILED" => SomeFailed(r) /\ ~SomeSucceeded(r)
    /\ run[r] = "PARTIALLY_SUCCEEDED" => SomeFailed(r) /\ SomeSucceeded(r)

\* A page counted as crawled is stored: a SUCCEEDED job has its document row,
\* whichever of the workers that held it completed it.
SuccessIsStored == \A j \in Jobs : job[j].status = "SUCCEEDED" => j \in docs

\* A cancelled campaign keeps nothing a worker could still claim; only jobs
\* that were leased when it was cancelled are open, and a failure of one of
\* them is not put back for a retry.
CancelledIsDrained ==
  \A r \in Runs : run[r] = "CANCELLED" =>
    \A j \in JobsOf(r) : Open(j) => job[j].status = "LEASED"

\* Expansion keeps a campaign within its page budget, however many workers
\* expand at once, unless the seeds alone already exceed it.
WithinPageBudget ==
  \A r \in Runs :
    \/ Cardinality(JobsOf(r)) <= MaxPages
    \/ JobsOf(r) = {j \in Seeds : RunOf[j] = r}

\* Verdicts and job results are never revised: no retry, reclaim, stale
\* report, resume or cancellation changes them.
ResultsAreFinal ==
  [][/\ \A r \in Runs : run[r] \in CompletedRun => run'[r] = run[r]
     /\ \A j \in Jobs : job[j].status \in TerminalJobStatuses =>
                          job'[j] = job[j]]_vars

-----------------------------------------------------------------------------
(* The invariants behind them, inductive together *)

\* The lease columns agree with the status; a row's token is the last drawn.
LeaseShape ==
  \A j \in Jobs : IF job[j].status = "LEASED"
                  THEN job[j].token = <<j, job[j].drawn>>
                  ELSE job[j].token = Null /\ job[j].left = Expired

\* A live lease is the reservation of its host.
LeaseIsReservation ==
  \A j \in Jobs : LiveLease(j) =>
    /\ policy[DomainOf[j]].token = job[j].token
    /\ policy[DomainOf[j]].left = job[j].left

\* A token a process holds has been drawn.
TokensIssued ==
  \A w \in Workers : worker[w].pc \in Working =>
    Claimed(w)[2] <= job[ClaimedJob(w)].drawn

\* No two processes hold the same token, and a row's token is held by the
\* row's owner only: both follow from every claim drawing a fresh one.
SingleFinalizer ==
  \A w \in Workers : worker[w].pc \in Working =>
    /\ \A v \in Workers \ {w} :
         worker[v].pc \in Working => Claimed(v) # Claimed(w)
    /\ job[ClaimedJob(w)].token = Claimed(w) => job[ClaimedJob(w)].owner = w

\* A process past its save has a stored page.
SavedBeforeReported ==
  \A w \in Workers :
    worker[w].pc \in {"expand", "complete"} => ClaimedJob(w) \in docs

\* The frontier never shrinks below the seeds, a campaign that has not been
\* decided owes work, only started campaigns have leased jobs, and only
\* cancelled ones have cancelled jobs.
FrontierShape ==
  /\ \A j \in Seeds : Exists(j)
  /\ \A j \in Jobs : job[j].status # "SKIPPED"
  /\ \A j \in Jobs : job[j].status = "LEASED" => run[RunOf[j]] # "PENDING"
  /\ \A j \in Jobs : job[j].status = "CANCELLED" => run[RunOf[j]] = "CANCELLED"
  /\ \A r \in Runs : run[r] = "PENDING" => \E j \in JobsOf(r) : Open(j)

-----------------------------------------------------------------------------
(* With leases that outlast the work done under them *)

\* One request per host at a time, across campaigns and workers.
OneRequestPerHost ==
  \A v, w \in Workers :
    (v # w /\ worker[v].pc = "fetch" /\ worker[w].pc = "fetch")
      => DomainOf[ClaimedJob(v)] # DomainOf[ClaimedJob(w)]

-----------------------------------------------------------------------------
(* Progress *)

\* A job whose last attempt ran out of lease: no claim takes it, no worker can
\* finalize it.
Abandoned(j) ==
  /\ job[j].status = "LEASED"
  /\ job[j].attempts = MaxAttempts
  /\ job[j].left <= 0

\* A RUNNING campaign ends or is paused, although workers crash and overrun
\* their leases, unless the last attempt of one of its jobs ran out of
\* lease.
CampaignsDrain ==
  \A r \in Runs :
    run[r] = "RUNNING" ~> \/ run[r] # "RUNNING"
                          \/ \E j \in JobsOf(r) : Abandoned(j)

\* A RUNNING campaign ends or is paused.
CampaignsEnd == \A r \in Runs : run[r] = "RUNNING" ~> run[r] # "RUNNING"

\* A cancelled campaign's leased jobs end, if their workers finish in time.
CancelledJobsEnd ==
  \A r \in Runs :
    run[r] = "CANCELLED" ~> \A j \in JobsOf(r) : ~Open(j)

-----------------------------------------------------------------------------
(* Statements of the documentation *)

\* docs/ARCHITECTURE.md, "Campaign completion": all jobs of a SUCCEEDED
\* campaign succeeded; complete_job does not look at failed siblings.
SucceededMeansAllSucceeded ==
  \A r \in Runs : run[r] = "SUCCEEDED" => ~SomeFailed(r)

=============================================================================
