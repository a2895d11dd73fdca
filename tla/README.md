# OpenRevive in TLA+

A verification development for OpenRevive: a FastAPI control plane, a PostgreSQL
database that holds a durable crawl frontier, finite crawler workers, an object
store for raw pages and an LLM step that briefs finished campaigns. All
coordination happens through database transactions (READ COMMITTED with row
locks), so the models are about what transactions of independent processes may
do to each other's rows.

Everything below names code by its path under `services/api/app/`; "Reading
order" says where to begin.

## Inventory of the system

| Component | State | Operations | Hard part | Correct when |
| --- | --- | --- | --- | --- |
| Campaign lifecycle API, `api/routers/crawl_runs.py` | `crawl_run.status` | create, start, pause, resume (reconciles), cancel, publish wake-up | races with workers that finish, fail, expand or hold leases | a verdict only when nothing is open, a RUNNING campaign always has open work, a cancelled one keeps nothing claimable |
| Job leasing, `crawler/job_leasing.py` | job lease columns, `crawl_domain_policy` | claim, release of the host | reclaim of expired leases, SKIP LOCKED, 32-job window, host reservations shared by campaigns | one live lease per host, no report without the live lease, retry budget |
| Finalization, `crawler/job_finalization.py`, `job_failure.py` | job result, campaign verdict | complete, fail | stale workers, last job of a campaign, paused and cancelled campaigns | results and verdicts final and justified |
| Frontier, `crawler/frontier_discovery.py`, `frontier_selection.py`, `frontier_persistence.py` | new job rows | discover, select, enqueue | no lease check, budget shared by concurrent expansions, order of a page's links, an untrusted selection | budget, no growth after the verdict, one candidate per path, only links of the page |
| Worker runtime and process, `crawler/worker_runtime.py`, `worker_service.py`, `worker_loop.py`, `worker_entrypoint.py`, `worker_main.py` | process memory | one cycle: claim, heartbeat, fetch, save, expand, report; idle exit; shutdown | crash between any two steps, `LeaseLostError` ends the process | every outcome is reported or recoverable |
| Heartbeats, `crawler/worker_heartbeats.py` | `worker_heartbeat` | register, a write per phase of a cycle, STOPPED | a failing write ends the process; a successor under the id of a dead process | a live row names what its process does |
| Fetching, `crawler/http_fetcher.py` | - | status, headers, streamed body | a body longer than its header, or without one | a page is whole and within the limit |
| Extraction, `crawler/document_persistence.py` | stack of open tags, four depths | start tag, end tag, text | tags that are never closed, or closed out of order | the text is what the page shows |
| Documents, `crawler/document_persistence.py`, `artifact_storage.py`, `minio_artifact_store.py` | object store, `crawled_document` | put object, insert row | object before row, two workers on one job | a row's hash describes its object |
| Briefs, `briefing/campaign_brief_service.py` | `campaign_brief` | reserve, retry, mark ready, mark failed | crash while GENERATING, concurrent requests, late documents | one generator per fingerprint, READY is final |
| Evidence and generation, `briefing/evidence_packing.py`, `bedrock_brief_generator.py` | - | plan, direct call, map and reducer calls | several budgets that are estimated one way and spent another, reference tables per call | budgets kept, citations of what was sent, the best evidence sent |
| Wake-ups, `crawler/crawl_run_events.py` and the queue that starts workers | queued messages | publish | publish fails after the commit, finite workers exit | work is not stranded |

Components left to the environment: the web servers that are crawled, the language
model (an answer or an error), the object store's put, PostgreSQL's locks and
rollbacks, the queue and the pipe that starts workers, the web client (any request
at any time). Not modelled at all: workspaces and collections, access control,
settings, migrations, infrastructure scripts. `PROJECT.json` lists every
component with its status and every hazard with the property that would catch it.

### How the parts interact

A client creates a campaign: one `crawl_run` row and one `crawl_job` row per
seed. *Start* makes it RUNNING and publishes a wake-up message; a message starts
a worker process. A worker polls: one transaction leases a job and reserves its
host. The rest of the attempt runs without a lock: fetch, save the page (look
for a row, put the object, insert the row), and for a root page discover and
enqueue links. A last transaction reports success or failure, if the row still
carries the worker's live lease; the report that closes the last open job also
gives the campaign's verdict. A lease that runs out makes the job claimable
again, while the process that held it may still be working. A worker that polls
idle twice leaves. When the campaign has a good verdict, a client may ask for a
brief: the API reserves a row for the fingerprint of the stored documents, has
the model write, and stores the outcome.

## Modules

| Module | Models | State | Steps |
| --- | --- | --- | --- |
| `CampaignStore` | the rows (`models/`) and creation | `run`, `job`, `policy` | initial state only |
| `JobLeasing` | `crawler/job_leasing.py` | - | `ClaimNextJob`, `ReleaseDomainLease` |
| `JobFinalization` | `crawler/job_finalization.py`, `job_failure.py` | - | `CompleteJob`, `FailJob` |
| `FrontierPersistence` | `crawler/frontier_persistence.py` | - | `EnqueueDiscoveredLinks` |
| `CampaignControl` | start, pause, resume, cancel in `api/routers/crawl_runs.py` | - | one action each |
| `CrawlSystem` | `crawler/worker_runtime.py` on those rows, clock, crashes | `worker`, `docs` | one action per stage of `process_next_job`, `Crash`, `Restart`, `Tick` |
| `CrawlProperties` | what the crawl promises | - | - |
| `Campaign` | abstract: a campaign seen by its client | `phase`, `owed`, `won`, `lost` | `Start` ... `Settle` |
| `CampaignRefinement` | the mapping from `CrawlSystem` to `Campaign` | - | - |
| `RowLocking` | the same transactions, one step per row lock | `tx`, `locks` | begin, lock, commit of each transaction, `DeadlockVictim`, `CrashLocked` |
| `WorkerFleet` | `crawler/worker_loop.py`, `crawl_run_events.py`, the pipe | `alive`, `idle`, `asleep`, `queue`, `unsent` | polls, launch, publish and its failures |
| `PageStorage` | `crawler/worker_main.py`'s save, `document_persistence.py` | `saving`, `object`, `hash` | `Look`, `Put`, `Insert`, `SaveFails` |
| `CampaignBriefs` | brief requests, `briefing/campaign_brief_service.py` | `brief`, `cited`, `request`, `lost` | one action per transaction of a request, `Dies` |
| `EvidencePacking` | `briefing/evidence_packing.py` | - | pure: ranking, budgets, groups, cards |
| `BriefGeneration` | `briefing/bedrock_brief_generator.py` | `stage`, `corpus`, `plan`, `partials`, `calls`, `brief` | one action per call of the model |
| `FrontierDiscovery` | `crawler/frontier_discovery.py`, `frontier_selection.py` | `discovery`, `kept`, `offered`, `selected` | `ReadLink`, `Offer`, `Select` |
| `WorkerHeartbeats` | `crawler/worker_heartbeats.py` and its calls in `worker_service.py`, `worker_entrypoint.py` | `process`: the life of each process; `heartbeat`: the row of each worker id | one action per phase and its write, which may fail; `Dies` |
| `PageFetching` | `crawler/http_fetcher.py` | `fetching`, `fetched`, `body`; `arrived` (history) | status and headers, chunks, end, errors |
| `ContentExtraction` | the extraction of `crawler/document_persistence.py` | `stack`, `depth`, `parts`; `tokens` (history) | one action per start tag, end tag, text |
| `CampaignCreation` | `create_crawl_run` in `api/routers/crawl_runs.py` | `creation`, `campaigns`, `seedJobs`, `answers` | one action per read, flush and commit of a request, `Aborts` |
| `MCCrawl`, `MCLocks`, `MCFleet`, `MCStorage`, `MCBriefs`, `MCParts` | instances for TLC | - | - |
| `CrawlProofs`, `LeaseProofs`, `TimelyProofs`, `RefinementProofs`, `LockProofs`, `BriefProofs`, `PartProofs`, `ContentProofs` | proofs | - | - |

`JobLeasing`, `FrontierPersistence` and `CampaignControl` each extend
`CampaignStore` and hold transactions only; `CrawlSystem` puts them together.
`WorkerFleet`, `PageStorage` and `CampaignBriefs` each extend the crawl by a part
that leaves its rows alone: they add variables and let the crawl take its steps.
`RowLocking` takes the crawl apart instead: its transactions begin, lock row after
row and commit, and the property `CommitsAreAtomic` leads back to `CrawlSystem`.
`EvidencePacking`, `BriefGeneration` and `FrontierDiscovery` model what is done with
the contents of pages, apart from the rows: the crawl takes any selection that
`FrontierDiscovery` may make, `CampaignBriefs` either outcome of `BriefGeneration`,
and the fetch of `CrawlSystem` either outcome of `PageFetching`. `WorkerHeartbeats`
and `ContentExtraction` stand alone: no decision reads a heartbeat or a text.
`CampaignCreation` ends where `CampaignStore` begins, with a PENDING campaign and its
seeds. `MCParts` explores these parts beside each other, one at a time.

Reading order: `CampaignStore`, `JobLeasing`, `JobFinalization`, `CrawlSystem`,
`CrawlProperties`; then any of the others.

### How the models correspond to the code

*Transactions.* Every transaction that changes rows is one step, except in
`RowLocking`. The code locks the rows it decides on (`FOR UPDATE`), so the steps of
two transactions on one row do not interleave. Whatever happens between two
transactions of one worker or request is a step of its own, and other processes run
in between.

*Row locks.* In `RowLocking` each `SELECT ... FOR UPDATE`, and each row that the
`UPDATE` of a cancellation comes to, is a step that waits for the row. `tx[s]` holds
what the transaction has read and the rows it will lock next; what it writes appears
with its commit. A claim passes over locked rows (`SKIP LOCKED`) and keeps the rows
of candidates whose host turned out busy, as the code does. `func.now()` is the start
of the transaction: `tx[s].age` is how far a transaction's clock is behind, and every
comparison and every new timestamp uses it. When sessions wait for one another, one
of them is rolled back: a worker process then ends, except that a rolled back
expansion is reported by `fail_job`; the client of a cancellation is answered 500.

A *late claim* is one that read its campaign's status, without a lock, before a pause
or a cancellation and commits after it. `docs/ARCHITECTURE.md` (278) says that a
paused campaign stops new claims; such a claim was on its way. The other modules
leave it out; `RowLocking` has it, and `SafeUnderRowLocks` holds with it.

*Heartbeats.* A process registers under its id, and every phase of a cycle (polling,
processing a job, idle, stopped) writes the row; a write that fails raises, nobody
catches it, and the process ends, its row as it was. Processes of one explicit
`WORKER_ID` run one after another, never at the same time, which is what the deployment
does; a random id has one process. A busy worker's row goes from STARTING straight to
PROCESSING: `docs/ARCHITECTURE.md` (697) draws "STARTING -> IDLE -> PROCESSING", which
only a worker that polls in vain takes.

*Fetching.* An answer is a status, a content type, a declared length, if any, and
chunks. A page is what arrived before the server ended the body; the limit is checked
against the declared length first and after every chunk.

*Extraction.* A page is a sequence of tags and texts. The code files text by four
counters (ignored, main, article, title) which start and end tags raise and lower; the
reference `OpenAfter` in `ContentExtraction` asks of each text which elements are open
around it, without counters. Tokenizing, decoding and white space are left out.

*Claims.* The code walks the first 32 runnable jobs in frontier order and skips
those whose row another transaction has locked, so a claim may end up with any
candidate whose host is ready: `ClaimNextJob` may take any of them.

*Time.* The code only compares stored timestamps with the database clock, so a
timestamp is the time left until it and `Tick` counts all of them down. Values
above, at and below zero keep the three cases apart that `>` and `<` make: a
lease that expires exactly now is neither live nor reclaimable.

*Tokens.* Every claim draws a fresh UUID as its lease token, whatever the row says. The
model numbers the draws: `drawn` (history) counts those of a job, and the token of a
claim is the job with the next number (`FreshToken`). Nothing decides by `drawn`, which
is apart from `attempt_count`: that no two claims share a token is assumed of UUIDs, not
shown. What is checked and proved is how the code uses them: reports and releases
compare tokens, and nothing else tells an owner from a stale holder.

*Errors.* Whatever the runtime turns into `fail_job` goes to stage `fail`; what it
does not catch (`LeaseLostError`, any error of a report) ends the process, which
`LoseLease` and `Crash` do. A selector that raises completes the job with no
links, as the code does.

*Pages.* Two attempts may fetch different bytes, so a page is named by the token
of its attempt: in `PageStorage` a row and an object agree if their tokens do.

*Fingerprints.* The fingerprint is a hash of all documents of the campaign (and of
fields that never change after creation); the model uses the set of documents.

*Contents.* A document is what the packing looks at: its provenance, the words of
the intent it names, its hash and the lengths of its text, of its sentences on the
intent and of its card's heading. A link is the URL it points to, split into what
normalization looks at, and the concepts of the intent that its text and path name.
An answer of the model is the references or ids it names, wrong ones included.

*Creation.* The row that a request has inserted and not committed blocks others with
its key, as the unique index does; an abort, anywhere, takes it back. A seed is the
page it names and how the client spelled it.

*Mutated forms.* Operators commented as a mutated form are plausible mistakes in
the operator below them. No specification uses them: each property of a passing
run is known to fail when one of them takes the operator's place.

## Runs

| Run | Module | Asks | Answer |
| --- | --- | --- | --- |
| `safety` | `MCCrawl` | leases, verdicts, results, stored pages under crashes, overruns and all control requests | seven properties hold |
| `locks` | `MCLocks` | the crawl lock by lock, with deaths in the middle of transactions and clocks a tick old: who can wait for whom, are commits those of one-step transactions, do verdicts, leases and the page budget survive | no cycle without a claim or a cancellation; they are, but for late claims; they do |
| `timely` | `MCStorage` | two campaigns on one host, leases that outlast the work: one request per host, rows describe objects | hold |
| `handoff` | `MCFleet` | finite workers without crashes, a claim that sees one runnable job at a time: is work ever left to nobody, does every campaign end and every cancelled job close | never; they do |
| `insistent` | `MCFleet` | crashes, overruns, failing publishes, a client that repeats its request: does a campaign drain, and is it the abstract `Campaign` to its client | yes, but for jobs whose last attempt ran out of lease; it is |
| `briefs` | `MCBriefs` | concurrent brief requests, failures, deaths, late documents | five properties hold |
| `parts` | `MCParts` | are bundles, calls and citations within bounds, is the best evidence sent, and what does a long heading hide; which links are kept and selected; does one campaign come of one idempotency key; is a fetched page whole and bounded, its text what it shows; do heartbeat rows tell the truth | twelve properties hold |
| `masked` | `MCCrawl` | are all jobs of a SUCCEEDED campaign successes, as documented | no |
| `stuck` | `MCCrawl` | is every job of a dead worker recovered | no |
| `stranded` | `MCFleet` | does the last worker leave only when work is drained | no |
| `overwritten` | `MCStorage` | does a row describe its object when attempts overlap | no |
| `abandoned` | `MCBriefs` | does every brief settle when the client asks again | no |

### What the refuted statements mean

* `masked`: `complete_job` gives SUCCEEDED when the last open job succeeds and does
  not look at failed siblings; `fail_job` and resume do. The verdict of one success
  and one failure depends on which came last. `docs/ARCHITECTURE.md` (414-416)
  promises PARTIALLY_SUCCEEDED.
* `stuck`: a claim requires `attempt_count < max_attempts` also of an expired lease.
  A worker that dies in a job's last attempt leaves the job LEASED and its campaign
  RUNNING for ever; only a cancellation ends the campaign, and the job stays LEASED.
  `CampaignsDrain` states the liveness that is left.
* `stranded`: a dead worker's lease lasts 180 seconds by default, two idle polls two.
  The next worker finds nothing to claim, leaves, and nothing starts another one.
  A client that repeats *start* or *resume* helps (`insistent`).
* `overwritten`: the object key names the job, not the attempt. The slower of two
  attempts overwrites the object and its insert is refused, so the row keeps a hash
  that the object does not have.
* `abandoned`: only FAILED rows are retried; a row whose request ended while the
  model wrote stays GENERATING, and every later request is answered with it.

What `locks` says of deadlocks: completions, failures and expansions alone never wait
in a cycle, since they lock job, host and campaign in this order. A cancellation does
not: it holds the campaign's row while it waits for its jobs, and TLC finds the cycle
of a cancellation and a report of one of them, which PostgreSQL breaks by rolling one
back; either the worker's process ends or the client gets a 500. A claim that keeps
the rows of a candidate it passed over may be part of a cycle as well.
`CommitsAreAtomic` is about transactions that no clock tick overtook; that verdicts,
leases and the budget survive old clock readings is `SafeUnderRowLocks` and
`WithinPageBudget` in the same run.

Known and not a run of its own: a request that outlives its lease overlaps with the
next request to its host (`OneRequestPerHost` needs `Timely`), and 32 runnable jobs
of hosts that are not ready hide a ready job behind them until a host cools down, which
delays a campaign and does not stop it (`handoff`, whose window is one job).
In `parts`: a reducer prompt may exceed its limit by up to three characters, since
its preamble is counted with single line breaks and sent with double ones, which no
property states; a page with a title as long as a group hides the pages that its call
ranks after it, and if it is the best of a group every generation for that campaign
fails. `BestEvidenceIsCarried` asks for headings no longer than the code expects;
`LongHeadingsHideOnlyLater` says that longer ones do no more harm than that.

### Instances and bounds

Workers: two, the fewest for every race between an owner and a stale holder; they are
interchangeable and reduced by symmetry where no liveness is checked. Jobs: two or three
in one campaign (two seeds on one host and a link on another; one seed with one or two
links), or two campaigns that share a host. That is the fewest for a last-job race, a
sibling verdict, an expansion cut off by the budget, and a reservation passed between
campaigns. `MaxAttempts` 2: one retry, one reclaim, one exhausted budget. `LeaseSeconds`
1 or 2 and `CrawlDelay` 1 ticks reach every order of expiry and cooldown of two leases.
`MaxCandidates` below the number of jobs lets the window cut; in `handoff` it is one
job, so seeds of a host that cools down hide a ready job of another. Fleet: `IdlePolls`
2 as in the code, at most one or two messages (`MaxMessages`). Briefs: two requests,
which may each be submitted any number of times, and one page without text. Content: the
limits of the code themselves; campaigns of one or two kinds of pages, up to 14 distinct
ones, a copy and an empty one, which is enough to fill a single call, one group, all
four groups and more than those (`MaxDocuments`, 50, is not reached: four groups hold 12
to 14 long pages; with short ones the cut would be the same prefix); a page with eleven
links to four paths, read in any order, of which two are offered and two selected;
answers that cite the first, the last or no card. Creation: three clients, two requests
each, one key (keys do not interact), requests that differ in spelling, in seeds and in
settings; two clients race and one repeats itself, and a third waits for the first to
abort. Locks: one tick (`MaxAge` 1) is how far a transaction's clock may be behind,
because the store's clocks stop one tick past expiry, where all the code's comparisons
are decided; an older transaction would need finer clocks there and meets the same
cases. With two workers and a request, every cycle of up to three sessions can form.
Fetching: a limit of 6 bytes, declared lengths below, at and above it, chunks of 1, 2
and 5, arrivals cut at 12 (`MaxArrived`). Extraction: all pages of up to five tags and
texts (`MaxTokens`), one element of each kind the code treats apart. Heartbeats: three
successive processes of one id, two jobs. Runs that bound nothing else stop only because
a campaign is over: the frontier is finite, attempts are bounded by `MaxAttempts`, and a
finished system has no step left, hence `CHECK_DEADLOCK FALSE`.

### Fairness and other assumptions

Safety runs assume none. `FairSpec` (used by `stuck`): time passes, idle workers
poll, working ones take their next step, a process that ended is replaced. No
fairness makes anybody start, resume or cancel, and none keeps a process from
dying: `Work` in `FleetFairness` may be the crash. `FairFleetSpec` adds a queue that
accepts every message in the end, `InsistentSpec` a client that goes on sending
start or resume while its campaign is RUNNING, which is what the 503 answer and
`docs/ARCHITECTURE.md` (268) ask of it. `FairBriefSpec`: requests are served and
submitted again. In `WorkerFleet` a tick is the pause between two idle polls, so a
worker that has to wait for one cooldown tick polls at most once in vain; an idle
poll means nothing is claimable, which leaves out polls that come back empty only
because a concurrent transaction held the row for a moment.

`Timely` stands for a lease (180 s by default) that outlasts timeout, save and
report; where it is FALSE a worker may be slower than any lease.

## Proofs

For every set of campaigns, jobs, hosts, workers, clients, processes, links and
documents, and for every limit that the assumptions allow. Assumed of the constants is
what the `ASSUME` of each module says and no more: shapes (`StoreAssumption`,
`DiscoveryAssumption`, `PackingAssumption`, `GenerationAssumption` and their like), a
finite frontier (`FrontierAssumption`), a seed for every campaign (`SeedAssumption`),
transactions whose clock is at most one tick behind (`AgeAssumption`, see "Instances and
bounds"), and a header of a bundle that is paid for by the excerpts (`RoomAssumption`):
in the code it is 13 characters longer than what the limits reserve for it. Fifty
excerpts in a direct call of 18,000 get more than 13 each, and so do the at most 48 in a
group of 12,000: evidence that does not fit a direct call leaves at least two documents
to other groups. Where a theorem needs more it says so itself, in its `ASSUME`.

| Theorem | Says | By |
| --- | --- | --- |
| `CrawlProofs!TypeCorrect` | `Spec => []TypeOK` | `TypeInv` |
| `CrawlProofs!BudgetKeptAlways` | `Spec => []WithinPageBudget` | counting |
| `CrawlProofs!DecidedIsQuiescent` | `Spec => []VerdictIsQuiescent` | `VerdictInv` |
| `CrawlProofs!RunningOwesWork` | `Spec => []RunningHasOpenWork` | `VerdictInv` |
| `CrawlProofs!CancelledDrains` | `Spec => []CancelledIsDrained` | `VerdictInv` |
| `CrawlProofs!VerdictsSound` | `Spec => []` of these and of the verdicts' justification | `VerdictInv` |
| `LeaseProofs!DomainExclusivity` | `Spec => []DomainExclusive` | `LeaseInv` |
| `LeaseProofs!SuccessStored` | `Spec => []SuccessIsStored` | `StoredInv` |
| `LeaseProofs!ResultsFinal` | `Spec => ResultsAreFinal` | `LeaseInv` |
| `TimelyProofs!HostsAreSpared` | `Timely`: `Spec => []OneRequestPerHost` | `HoldsLease` |
| `TimelyProofs!RowsDescribeObjects` | `Timely`: `StorageSpec => []RowDescribesObject` | `SaveInv` |
| `TimelyProofs!WorkIsAttended` | `Timely`, no crash, no failing publish, `IdlePolls > CrawlDelay`: `FleetSpec => []NobodyLeavesWork` | `FleetInv` |
| `RefinementProofs!CrawlImplementsCampaign` | `Spec => ImplementsCampaign` | `VerdictInv` |
| `RefinementProofs!FleetImplementsCrawl` | `FleetSpec => Spec` | step by step |
| `RefinementProofs!FleetImplementsCampaign` | `FleetSpec => ImplementsCampaign` | the two before |
| `RefinementProofs!LocksImplementCampaign` | `LockSpec => ImplementsCampaign` | `SafeInv` |
| `LockProofs!NoReportDeadlock` | `LockSpec => []ReportsNeverDeadlock` | `LockInv` |
| `LockProofs!SafeUnderLocks` | `LockSpec => []SafeUnderRowLocks` | `SafeInv` |
| `LockProofs!BudgetUnderLocks` | `LockSpec => []WithinPageBudget` | `SafeInv` |
| `LockProofs!TransactionsAreAtomic` | `LockSpec => CommitsAreAtomic` | `SafeInv` |
| `LockProofs!ResultsFinalUnderLocks` | `LockSpec => ResultsAreFinal` | `SafeInv` |
| `BriefProofs!OneGeneratorAlways` | `BriefSpec => []OneGenerator` | `BriefInvariant` |
| `BriefProofs!OrphansAreOfTheLost` | `BriefSpec => []OrphanedByDeath` | `BriefInvariant` |
| `BriefProofs!CitationsMatchFingerprint` | `BriefSpec => []BriefCitesItsEvidence` | `BriefInvariant` |
| `BriefProofs!ReadyIsFinalAlways` | `BriefSpec => ReadyIsFinal` | `BriefInvariant` |
| `BriefProofs!NoPageIsMissed` | `BriefSpec => []BriefMissesNoPage` | `CoverInv` |
| `BriefProofs!BriefsImplementCrawl` | `BriefSpec => Spec` | step by step |
| `PartProofs!PageSafe` | `FetchSpec => []PageIsWholeAndBounded` | `FetchInv` |
| `PartProofs!RowsSafe` | `HeartbeatSpec => []RowsTellTheTruth` | `HeartbeatInv` |
| `PartProofs!OneCampaignPerKey`, `RefusedForAnother` | `CreationSpec => []CreationIsIdempotent`, `[]RefusalsAreJustified` | `CreationInv` |
| `PartProofs!BestVariantKept`, `SelectionSafe` | `DiscoverySpec => []KeptForItsPath`, `[]SelectionIsSafe` | `DiscoveryInv` |
| `ContentProofs!TextIsKept` | `ExtractionSpec => []TextIsVisible` | `ExtractionInv` |
| `ContentProofs!BundlesAreCapped` | `GenSpec => []BundlesFit` | `GenInv` |
| `ContentProofs!CallsAreCapped` | `GenSpec => []CallsAreBounded` | `GenInv` |
| `ContentProofs!BriefsAreGrounded` | `GenSpec => []CitationsAreGrounded` | `GenInv` |
| `ContentProofs!BestIsCarried` | `GenSpec => []BestEvidenceIsCarried` | `ReadAndPlanned`, counting |
| `ContentProofs!LongHeadingsHideLittle` | `GenSpec => []LongHeadingsHideOnlyLater` | `ReadAndPlanned`, counting |

### The arguments

* `TypeInv` is `TypeOK` with `WorkerHoldsToken`: a step of a working process stays
  in the declared shapes only if the process holds a token of a row in the frontier.
* `LeaseInv`: the lease columns agree with the status and the token is
  the last one drawn; a live lease is the reservation of its host. Exclusivity follows because
  two live leases on a host would make one policy row name two tokens. Every other
  step either counts both timers down together or gives up both.
* `VerdictInv` adds `FrontierShape` to the verdict properties: seeds exist, undecided
  campaigns owe work, only started campaigns have leased jobs, only cancelled ones
  cancelled jobs. The heart is `VerdictSettle`: a report on a leased job of a campaign
  keeps the invariant, whatever the campaign's status and siblings.
* `TokenInv`: tokens that processes hold have been drawn, so a fresh one is held by no
  process, however stale its own, and whatever the attempts spent. `SingleFinalizer` (no
  two processes hold the token of one row) follows; it is a lemma of other proofs and no
  result of its own, since it rests on tokens being fresh.
* `StoredInv`: processes past their save have a document row, and documents stay.
* `ResultsFinal` is the step lemma `FinalStep`: a report needs the row to be LEASED, a
  cancellation takes only PENDING and RETRY_PENDING rows, an enqueue only absent ones.
* `BudgetKeptAlways`: `FirstByRankSize` says that a query with `LIMIT n` returns at most
  n rows, because the number of rows before each of them tells the rows apart and is
  one of `0 .. n-1`. So an expansion adds no more rows than it counted as missing.
* `HoldsLease`: with `Timely`, a process at work holds the live lease of its job, since
  no claim takes a live one and the clock waits. Two requests to one host would be two
  live leases on it; two saves of one job would be two holders of one token, so what is
  put is still there when the row is inserted (`SaveInv`).
* `WorkIsAttended`: a leased job is somebody's (`WorkIsHeld`), and what a poll finds
  nothing to claim of waits for a host that cools down (`NothingIsLeft`). The pause of a
  host is the cooldown alone, at most `CrawlDelay` ticks, and every tick is one idle poll
  of everybody who waits, so a process that was idle for n polls has seen n ticks of it
  (`Outlasts`). `FleetInv`: a RUNNING campaign has a message, a process at work, or one
  that outlasts every cooldown, which cannot be the one whose last idle poll it is.
* `CrawlImplementsCampaign`: a report is the settling of a page (`ClientSettle`), an
  expansion a discovery, everything else of a worker nothing. `VerdictInv` is needed for
  the answers of resume: without it a campaign of cancelled pages could succeed.
* `LockInv`: what a report or an expansion holds is a prefix of job, host, campaign. In a
  cycle of them each would wait for one that waits for a higher row, and there are three
  levels only.
* `SafeInv` is what the crawl keeps between transactions (`StoreInv`), who holds which
  rows (`LockInv`), and `Promises`: what a transaction has read and still relies on is
  true as long as it holds the row it was read from, and what it read without a lock or
  by an old clock is no better than that. A commit is then shown to be one of the crawl's
  steps, or a step that keeps its invariants for the reasons those do: the crawl's lemmas
  are stated for `UntimedNext`, whose claims and reports may judge by any reading of the
  clock that a transaction may have. `CommitsAreAtomic` needs the reading of this tick
  (`tx[s].age = 0`) and a claim that is not late.
* `BriefInvariant` joins the three brief properties with the types: a GENERATING row
  has a living generator or lost one, never both, so a reservation and a retry start
  from a row that nobody generates, and an outcome is stored by its only generator.
* `CoverInv`: a request that has seen a good verdict sees every page counted as crawled,
  since such a campaign has no open job and a success is stored before it is reported.
* `FetchInv`, `HeartbeatInv`, `CreationInv` and `DiscoveryInv` strengthen the properties of
  the smaller parts: until a chunk is one too many, all that arrived is held; one process
  at a time lives under an id; a request about to commit is the only one of its key, and
  what was answered stays true; what is kept of a path is the best of what was read of it.
* `ExtractionInv`: the stack consists of the elements that `OpenAfter` finds open, in their
  order (`Stacks`), the counters count its entries (`Counts`), and the parts file the text
  that shows (`Files`). An end tag takes the same elements off both, or none.
* `GenInv`: the plan is one the packing makes (`PlanOf`: every bundle within its limit,
  its cards of different documents of the campaign, no document in two), and what a stage
  has got of the model cites what it was sent. The functions of `EvidencePacking` are
  recursive over positions of a sequence. That each is what its equation says is
  `Recursion`; what holds of all its values is `IntervalInduction`. Both come from a
  statement without operator parameters: a set of numbers with 0 and all successors is
  `Nat` (`Induction`). The order of `InOrder` comes from counting, as that of a query:
  fewer documents outrank the better of two.
* `BestIsCarried` is one lemma per step of `EvidencePlan`. What is planned is a run from the
  top of the ranking, at least one document, and all unless one more would exceed the
  groups together (`TopOfRanking`). The groups are consecutive runs of it (`Consecutive`),
  each but the last full up to an excerpt (`FilledInTurn`). Ranking a run again changes
  nothing, as two sequences of the same documents, each best first, are the same
  (`OneOrder`, `RankedStays`). The limits of n cards add up to no more than the headings
  leave, since shares rounded down do not exceed what is shared (`SharesFit`, `LimitsFit`);
  so each card finds room up to the first long heading (`CardsAreAdded`), and the bundle
  is the whole run where there is none (`BundleIsWhole`). The runs laid
  end to end are one run from the top (`RunsLaidEndToEnd`), cut only at the last group
  allowed, when all groups are full (`GroupsBeforeAreFull`).
* `LongHeadingsHideLittle` shares its lemmas: a card once made stays (`CardsAreKept`), so
  what has found room ahead of a long heading is shown (`BundleShows`), and every call
  that is planned has such room (`RoomInACall`, `GroupHasRoom`).

Through `FleetImplementsCrawl`, `BriefsImplementCrawl` and `StorageMoves` the invariants
hold of the fleet, under brief requests and with the object store, too.

Only model-checked: liveness (no prover here reasons about fairness), in particular
`CampaignsDrain` and its like.

## Not modelled, and why

* Of the database: the share locks of foreign keys and the insertion of a host's first
  policy row, which no decision depends on; `RowLocking` starts from rows that exist.
* Of `RowLocking`: cycles of claims alone, or of a cancellation and an expansion, are
  allowed by the model and by the property; that PostgreSQL meets them has not been shown.
* The HTTP client's connection pool, the reading of the environment, read endpoints.
* Tokenizing, decoding and white space of pages, URL parsing, the matching of words and
  the choice of sentences: they are fields of tokens, links and documents.
* Workspaces, collections, access control, sessions and migrations: single-row writes,
  stateless filters and set-up that nothing races with.
* A campaign with more seeds than `max_pages`, which creation accepts: no expansion adds
  to it, so its pages stay the seeds. `WithinPageBudget` says so.
* A page insert refused by the unique constraint: the attempt fails and is retried, and
  the retry finds the row. `PageStorage` has it, as an error of the save.

## Plan

Done: creation, the crawl with its control, its row locks, fleet, storage, heartbeats and
briefs; fetching, extraction, discovery, packing and generation; proofs of every safety
property of these that a passing run checks. Left: anchors nested in anchors in
`frontier_discovery.py`'s parser, and URL normalization.

## Running

```text
tlc -config safety.cfg MCCrawl        any run: its .cfg with the module in the table
tlapm LeaseProofs.tla                 any module of proofs
```
