--------------------------- MODULE CampaignStore ---------------------------
(***************************************************************************)
(* The PostgreSQL rows that coordinate OpenRevive: campaigns (crawl_run),   *)
(* the durable frontier (crawl_job) and the per-host pacing rows            *)
(* (crawl_domain_policy).  The control plane and every crawler worker read  *)
(* and write these rows in transactions; the modules that extend this one   *)
(* give one action per transaction.                                         *)
(*                                                                          *)
(* Timestamps.  The code only ever compares a stored timestamp with the     *)
(* database clock, so a timestamp is kept as the time left until it:        *)
(*   lease_expires_at > now   is  left > 0     (the lease is live)          *)
(*   lease_expires_at = now   is  left = 0     (neither live nor reclaimable)*)
(*   lease_expires_at < now   is  left < 0     (reclaimable)                *)
(* Expired stands for every passed timestamp and for NULL: no reader tells  *)
(* them apart once the status and token columns are taken into account.     *)
(***************************************************************************)
EXTENDS Integers, FiniteSets

CONSTANTS
  Runs,          \* campaigns
  Jobs,          \* possible frontier rows: one per (campaign, normalized URL)
  Seeds,         \* the rows inserted when their campaign is created
  Domains,       \* hostnames
  Workers,       \* worker ids
  RunOf,         \* crawl_job.crawl_run_id, a function on Jobs
  DomainOf,      \* crawl_job.domain, a function on Jobs
  Rank,          \* frontier order, lowest first: priority, depth, age, then
                 \* the id (claims) or the URL (enqueue's cut-off) as tie-break
  MaxAttempts,   \* crawl_run.max_attempts, copied to each job
  MaxPages,      \* crawl_run.max_pages
  MaxDepth,      \* crawl_run.max_depth
  LeaseSeconds,  \* lease duration, in clock ticks
  CrawlDelay,    \* crawl_domain_policy.crawl_delay_seconds, in clock ticks
  Null           \* SQL NULL in a token or owner column

Tokens == Jobs \X Nat
  \* lease tokens: <<j, n>> is the n-th uuid4 drawn by the claims of job j

ASSUME StoreAssumption ==
  /\ Seeds \subseteq Jobs
  /\ RunOf \in [Jobs -> Runs]
  /\ DomainOf \in [Jobs -> Domains]
  /\ Rank \in [Jobs -> Nat]
  /\ \A j, k \in Jobs : j # k => Rank[j] # Rank[k]
  /\ MaxAttempts \in Nat \ {0}
  /\ MaxPages \in Nat \ {0}
  /\ MaxDepth \in Nat
  /\ LeaseSeconds \in Nat \ {0}
  /\ CrawlDelay \in Nat \ {0}

\* Every campaign is created with at least one seed URL.
ASSUME SeedAssumption == \A r \in Runs : \E j \in Seeds : RunOf[j] = r

ASSUME NullAssumption == Null \notin Workers /\ Null \notin Tokens

VARIABLES
  run,      \* run[r]: crawl_run.status
  job,      \* job[j]: the crawl_job row
  policy    \* policy[d]: the crawl_domain_policy row

storeVars == <<run, job, policy>>

Expired == -1

RunStatus == {"PENDING", "RUNNING", "PAUSED", "SUCCEEDED",
              "PARTIALLY_SUCCEEDED", "FAILED", "CANCELLED"}

CompletedRun == {"SUCCEEDED", "PARTIALLY_SUCCEEDED", "FAILED"}

TerminalJobStatuses == {"SUCCEEDED", "FAILED", "SKIPPED", "CANCELLED"}

OpenJobStatuses == {"PENDING", "LEASED", "RETRY_PENDING"}

JobStatus == OpenJobStatuses \cup TerminalJobStatuses

\* "ABSENT" marks a URL its campaign has not put in the frontier yet.  "drawn"
\* is no column but history: how many tokens the row's claims have drawn.
JobRow == [status   : JobStatus \cup {"ABSENT"},
           depth    : 0..1,
           attempts : 0..MaxAttempts,
           drawn    : Nat,
           owner    : Workers \cup {Null},
           token    : Tokens \cup {Null},
           left     : Expired..LeaseSeconds]

PolicyRow == [token : Tokens \cup {Null},
              left  : Expired..LeaseSeconds,
              pause : Expired..CrawlDelay]

\* A row that nobody holds: the lease columns are NULL.
Unleased(s, d, n, drawn) ==
  [status |-> s, depth |-> d, attempts |-> n, drawn |-> drawn,
   owner |-> Null, token |-> Null, left |-> Expired]

NewJob(d) == Unleased("PENDING", d, 0, 0)
NoJob == Unleased("ABSENT", 1, 0, 0)

NewPolicy == [token |-> Null, left |-> Expired, pause |-> 0]

\* The rows just after create_crawl_run committed each campaign with its seeds.
StoreInit ==
  /\ run = [r \in Runs |-> "PENDING"]
  /\ job = [j \in Jobs |-> IF j \in Seeds THEN NewJob(0) ELSE NoJob]
  /\ policy = [d \in Domains |-> NewPolicy]

StoreTypeOK ==
  /\ run \in [Runs -> RunStatus]
  /\ job \in [Jobs -> JobRow]
  /\ policy \in [Domains -> PolicyRow]

Exists(j) == job[j].status # "ABSENT"
Open(j) == job[j].status \in OpenJobStatuses
JobsOf(r) == {j \in Jobs : RunOf[j] = r /\ Exists(j)}

\* Row j once it leaves a lease (or never held one) with status s.
Released(j, s) == Unleased(s, job[j].depth, job[j].attempts, job[j].drawn)

\* The first n elements of S in frontier order (ORDER BY ... LIMIT n).
FirstByRank(S, n) ==
  {c \in S : Cardinality({d \in S : Rank[d] < Rank[c]}) < n}

=============================================================================
