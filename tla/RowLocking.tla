----------------------------- MODULE RowLocking -----------------------------
(***************************************************************************)
(* The transactions of CrawlSystem at the grain of their row locks.  Every  *)
(* SELECT ... FOR UPDATE, and every row an UPDATE visits, is one step; what  *)
(* was read before a lock was granted may be stale afterwards, and sessions *)
(* wait for one another.  PostgreSQL (READ COMMITTED) is external: a lock is*)
(* held until its transaction ends, writes appear when it commits, and one   *)
(* session of a waiting cycle is rolled back.                               *)
(*                                                                          *)
(* A transaction judges time by the clock reading it began with: tx.age is   *)
(* how many ticks old that is.  Start, pause and resume lock one row only    *)
(* and are one step once that row is free.                                  *)
(***************************************************************************)
EXTENDS CampaignRefinement, Sequences

CONSTANT MaxAge   \* bound: how many ticks a transaction may last

\* Expired reads are exact for one tick: the floor of CampaignStore's clocks.
ASSUME AgeAssumption == MaxAge \in 0..1

VARIABLES
  tx,     \* tx[s]: the transaction session s is in
  locks   \* locks[s]: the rows it has locked

lockVars == <<vars, tx, locks>>

Sessions == Workers \cup Runs   \* a campaign's session is its API request

JobRowOf(j) == <<"job", j>>
HostRow(d) == <<"host", d>>
RunRow(r) == <<"run", r>>

\* A job as a query found it; a later lease of it shows by its own token.
Seen(j) == <<j, job[j].drawn>>

(* op: what the transaction does; plan: the rows its next statements lock;
   todo: the query result it still walks through; links: the children it
   will insert; verdict: the status it will give its campaign, or "".       *)
NoTx == [op |-> "none", age |-> 0, plan |-> <<>>, todo |-> {},
         links |-> {}, verdict |-> ""]

LockInit ==
  /\ Init
  /\ tx = [s \in Sessions |-> NoTx]
  /\ locks = [s \in Sessions |-> {}]

Free(row, s) == \A t \in Sessions \ {s} : row \notin locks[t]

Begin(s, t) ==
  /\ tx[s].op = "none"
  /\ tx' = [tx EXCEPT ![s] = t]

\* Commit or rollback: the transaction's locks are gone.
End(s) ==
  /\ tx' = [tx EXCEPT ![s] = NoTx]
  /\ locks' = [locks EXCEPT ![s] = {}]

Grantable(s) == tx[s].plan # <<>> /\ Free(Head(tx[s].plan), s)

\* The next row of the plan is free, and locked.
Lock(s) ==
  /\ Grantable(s)
  /\ locks' = [locks EXCEPT ![s] = @ \cup {Head(tx[s].plan)}]

-----------------------------------------------------------------------------
(* claim_next_job *)

\* The candidate window is read without locks.
BeginClaim(w) ==
  /\ worker[w].pc = "idle"
  /\ Candidates # {}
  /\ Begin(w, [NoTx EXCEPT !.op = "claim", !.todo = {Seen(j) : j \in Candidates}])
  /\ UNCHANGED <<vars, locks>>

\* The best candidate left, and the rest of the window.
Best(w) == CHOOSE c \in tx[w].todo : \A d \in tx[w].todo : Rank[c[1]] <= Rank[d[1]]
Rest(w) == tx[w].todo \ {Best(w)}

\* The WHERE clause again, on the locked row.  Against the transaction's own
\* clock a LEASED row is reclaimable only if its lease is the one that had
\* run out when the transaction began.
StillRunnable(c) ==
  LET row == job[c[1]]
  IN  /\ run[RunOf[c[1]]] = "RUNNING"
      /\ row.attempts < MaxAttempts
      /\ \/ row.status \in {"PENDING", "RETRY_PENDING"}
         \/ row.status = "LEASED" /\ Seen(c[1]) = c

\* FOR UPDATE SKIP LOCKED: a locked or changed candidate is passed over.
TryCandidate(w) ==
  /\ tx[w].op = "claim" /\ tx[w].plan = <<>> /\ tx[w].verdict = ""
  /\ tx[w].todo # {}
  /\ LET row == JobRowOf(Best(w)[1])
     IN  IF Free(row, w) /\ StillRunnable(Best(w))
         THEN /\ locks' = [locks EXCEPT ![w] = @ \cup {row}]
              /\ tx' = [tx EXCEPT ![w].plan = <<HostRow(DomainOf[Best(w)[1]])>>]
         ELSE /\ tx' = [tx EXCEPT ![w].todo = Rest(w)]
              /\ UNCHANGED locks
  /\ UNCHANGED vars

\* Mutated form of HostReady: only the cooldown is checked.
HostCooledDown(w, d) == policy[d].pause + tx[w].age <= 0

\* The host's reservation and cooldown by the transaction's clock.
HostReady(w, d) ==
  /\ policy[d].left + tx[w].age <= 0
  /\ policy[d].pause + tx[w].age <= 0

\* The host's row is locked; a busy host sends the claim to the next
\* candidate with the job's and the host's rows still locked.
LockHost(w) ==
  /\ tx[w].op = "claim" /\ Lock(w)
  /\ IF HostReady(w, DomainOf[Best(w)[1]])
     THEN tx' = [tx EXCEPT ![w].plan = <<>>, ![w].verdict = "LEASED"]
     ELSE tx' = [tx EXCEPT ![w].plan = <<>>, ![w].todo = Rest(w)]
  /\ UNCHANGED vars

CommitClaim(w) ==
  /\ tx[w].op = "claim" /\ tx[w].verdict = "LEASED"
  /\ LET j == Best(w)[1]
         token == FreshToken(j)
         left == LeaseSeconds - tx[w].age
     IN  /\ job' = [job EXCEPT ![j] = [ClaimRow(w, j, token) EXCEPT !.left = left]]
         /\ policy' = [policy EXCEPT ![DomainOf[j]].token = token,
                                     ![DomainOf[j]].left = left]
         /\ worker' = [worker EXCEPT ![w] = [pc |-> "fetch", token |-> token]]
  /\ End(w)
  /\ UNCHANGED <<run, docs>>

\* Nothing in the window could be claimed.
ClaimNothing(w) ==
  /\ tx[w].op = "claim" /\ tx[w].todo = {}
  /\ End(w)
  /\ UNCHANGED vars

-----------------------------------------------------------------------------
(* complete_job, fail_job and enqueue_discovered_links *)

\* Mutated form of LockPlan: the campaign's row comes first.
LockPlanRunFirst(op, j) ==
  IF op = "enqueue" THEN <<JobRowOf(j), RunRow(RunOf[j])>>
  ELSE <<RunRow(RunOf[j]), JobRowOf(j), HostRow(DomainOf[j])>>

\* Mutated form of LockPlan: the campaign's row is only read.
LockPlanWithoutRun(op, j) ==
  IF op = "enqueue" THEN <<JobRowOf(j)>>
  ELSE <<JobRowOf(j), HostRow(DomainOf[j])>>

\* The rows in the order in which the transactions lock them.
LockPlan(op, j) ==
  IF op = "enqueue" THEN <<JobRowOf(j), RunRow(RunOf[j])>>
  ELSE <<JobRowOf(j), HostRow(DomainOf[j]), RunRow(RunOf[j])>>

BeginWork(w, op, S) ==
  /\ Begin(w, [NoTx EXCEPT !.op = op, !.plan = LockPlan(op, ClaimedJob(w)),
                           !.links = S])
  /\ UNCHANGED <<vars, locks>>

BeginReport(w) ==
  \E op \in {"complete", "fail"} : worker[w].pc = op /\ BeginWork(w, op, {})

\* enqueue_discovered_links returns at once when it is given no links.
BeginEnqueue(w) ==
  /\ worker[w].pc = "expand"
  /\ \E S \in Selections(ClaimedJob(w)) : S # {} /\ BeginWork(w, "enqueue", S)

NothingToEnqueue(w) ==
  /\ worker[w].pc = "expand" /\ tx[w].op = "none"
  /\ Goto(w, "complete")
  /\ UNCHANGED <<storeVars, docs, tx, locks>>

\* The lease check, on the locked row and by the transaction's clock.
OwnedWhenBegun(w) ==
  LET row == job[ClaimedJob(w)]
  IN  /\ row.status = "LEASED" /\ row.owner = w /\ row.token = Claimed(w)
      /\ row.left + tx[w].age > 0

Reporting(w) == tx[w].op \in {"complete", "fail"}

ChecksLease(w) == Reporting(w) /\ Head(tx[w].plan) = JobRowOf(ClaimedJob(w))

\* The campaign's new status, "" if the report leaves it alone.
VerdictOn(op, j) ==
  LET decides == LastOpenJob(j) /\ run[RunOf[j]] = "RUNNING"
  IN  CASE decides /\ op = "complete" -> "SUCCEEDED"
        [] decides /\ op = "fail" /\ FailureStatus(j) = "FAILED"
             -> FailureVerdict(RunOf[j])
        [] OTHER -> ""

\* The transaction with its last lock: it counts the campaign's jobs.
Counted(w) ==
  LET j == ClaimedJob(w)
  IN  [tx[w] EXCEPT !.plan = <<>>,
                    !.verdict = IF Reporting(w) THEN VerdictOn(tx[w].op, j) ELSE "",
                    !.links = NewChildren(j, tx[w].links)]

\* The lock leaves the plan; with the last one the transaction goes on.
Granted(w) ==
  IF Tail(tx[w].plan) = <<>> THEN Counted(w)
  ELSE [tx[w] EXCEPT !.plan = Tail(tx[w].plan)]

LockRow(w) ==
  /\ Reporting(w) \/ tx[w].op = "enqueue"
  /\ Lock(w)
  /\ ChecksLease(w) => OwnedWhenBegun(w)
  /\ tx' = [tx EXCEPT ![w] = Granted(w)]
  /\ UNCHANGED vars

\* LeaseLostError rolls back and ends the process.
LoseLeaseLocked(w) ==
  /\ Reporting(w) /\ Grantable(w)
  /\ ChecksLease(w) /\ ~OwnedWhenBegun(w)
  /\ worker' = [worker EXCEPT ![w] = Down]
  /\ End(w)
  /\ UNCHANGED <<storeVars, docs>>

\* The cooldown runs from the clock reading the report began with.
CommitReport(w) ==
  LET j == ClaimedJob(w)
      d == DomainOf[j]
      status == IF tx[w].op = "complete" THEN "SUCCEEDED" ELSE FailureStatus(j)
  IN  /\ Reporting(w) /\ tx[w].plan = <<>>
      /\ job' = [job EXCEPT ![j] = Released(j, status)]
      /\ policy' = IF policy[d].token # Claimed(w) THEN policy
                   ELSE [policy EXCEPT ![d] =
                           [token |-> Null, left |-> Expired,
                            pause |-> CrawlDelay - tx[w].age]]
      /\ run' = IF tx[w].verdict = "" THEN run
                ELSE [run EXCEPT ![RunOf[j]] = tx[w].verdict]
      /\ worker' = [worker EXCEPT ![w] = Idle]
      /\ End(w)
      /\ UNCHANGED docs

CommitEnqueue(w) ==
  /\ tx[w].op = "enqueue" /\ tx[w].plan = <<>>
  /\ job' = [k \in Jobs |-> IF k \in tx[w].links /\ ~Exists(k)
                            THEN NewJob(job[ClaimedJob(w)].depth + 1)
                            ELSE job[k]]
  /\ Goto(w, "complete")
  /\ End(w)
  /\ UNCHANGED <<run, policy, docs>>

-----------------------------------------------------------------------------
(* cancel_crawl_run *)

\* The campaign's row is locked and the UPDATE takes its snapshot of the jobs.
BeginCancel(r) ==
  /\ Cancellable(r)
  /\ Free(RunRow(r), r)
  /\ Begin(r, [NoTx EXCEPT !.op = "cancel",
                           !.todo = {Seen(j) : j \in {k \in JobsOf(r) : CancelledJob(k)}}])
  /\ locks' = [locks EXCEPT ![r] = {RunRow(r)}]
  /\ UNCHANGED vars

\* The UPDATE comes to its next row, in any order, and waits for its lock.
VisitJob(r) ==
  /\ tx[r].op = "cancel" /\ tx[r].plan = <<>>
  /\ \E c \in tx[r].todo :
       tx' = [tx EXCEPT ![r].plan = <<JobRowOf(c[1])>>, ![r].todo = @ \ {c}]
  /\ UNCHANGED <<vars, locks>>

LockJob(r) ==
  /\ tx[r].op = "cancel" /\ Lock(r)
  /\ tx' = [tx EXCEPT ![r].plan = <<>>]
  /\ UNCHANGED vars

\* A row that changed while the UPDATE waited for it is judged again.
CommitCancel(r) ==
  /\ tx[r].op = "cancel" /\ tx[r].plan = <<>> /\ tx[r].todo = {}
  /\ run' = [run EXCEPT ![r] = "CANCELLED"]
  /\ job' = [j \in Jobs |-> IF JobRowOf(j) \in locks[r] /\ CancelledJob(j)
                            THEN Released(j, "CANCELLED")
                            ELSE job[j]]
  /\ End(r)
  /\ UNCHANGED <<policy, worker, docs>>

ShortControl(r) ==
  /\ tx[r].op = "none" /\ Free(RunRow(r), r)
  /\ StartCrawlRun(r) \/ PauseCrawlRun(r) \/ ResumeCrawlRun(r)
  /\ UNCHANGED <<worker, docs, tx, locks>>

-----------------------------------------------------------------------------
(* Waiting, failure and time *)

\* The sessions that hold the row s is waiting for.
WaitsFor(s) ==
  IF tx[s].plan = <<>> THEN {}
  ELSE {t \in Sessions \ {s} : Head(tx[s].plan) \in locks[t]}

\* The sets of sessions that wait for one another.
WaitCycles ==
  {S \in (SUBSET Sessions) \ {{}} :
     /\ \A s \in S : WaitsFor(s) \cap S # {}
     /\ \A t \in S : \E s \in S : t \in WaitsFor(s)}

\* The exception of a claim or a report ends the process; one of an expansion
\* is reported by fail_job; the client of a cancellation is answered 500.
AfterError(s) ==
  IF s \notin Workers THEN worker
  ELSE [worker EXCEPT ![s] = IF tx[s].op = "enqueue"
                             THEN [@ EXCEPT !.pc = "fail"] ELSE Down]

DeadlockVictim(s) ==
  /\ \E S \in WaitCycles : s \in S
  /\ worker' = AfterError(s)
  /\ End(s)
  /\ UNCHANGED <<storeVars, docs>>

\* The process dies, inside a transaction or between two.
CrashLocked(w) ==
  /\ MayCrash
  /\ worker[w].pc \in Working \/ tx[w].op # "none"
  /\ worker' = [worker EXCEPT ![w] = Down]
  /\ End(w)
  /\ UNCHANGED <<storeVars, docs>>

Aged(t) == IF t.op = "none" THEN t ELSE [t EXCEPT !.age = @ + 1]

\* Time passes for every stored timestamp and every open transaction.
TickLocked ==
  /\ \A s \in Sessions : tx[s].op # "none" => tx[s].age < MaxAge
  /\ \/ \E j \in Jobs : job[j].left > Expired
     \/ \E d \in Domains : policy[d].left > Expired \/ policy[d].pause > Expired
  /\ job' = [j \in Jobs |-> [job[j] EXCEPT !.left = Sooner(@)]]
  /\ policy' = [d \in Domains |-> [policy[d] EXCEPT !.left = Sooner(@),
                                                    !.pause = Sooner(@)]]
  /\ tx' = [s \in Sessions |-> Aged(tx[s])]
  /\ UNCHANGED <<run, worker, docs, locks>>

-----------------------------------------------------------------------------

\* The steps between transactions, as in CrawlSystem.
Between(w) ==
  /\ tx[w].op = "none"
  /\ FetchPage(w) \/ PersistDocument(w) \/ ExpansionFails(w) \/ Restart(w)
  /\ UNCHANGED <<tx, locks>>

WorkerLockStep(w) ==
  \/ BeginClaim(w) \/ TryCandidate(w) \/ LockHost(w)
  \/ CommitClaim(w) \/ ClaimNothing(w)
  \/ BeginReport(w) \/ BeginEnqueue(w) \/ NothingToEnqueue(w)
  \/ LockRow(w) \/ LoseLeaseLocked(w) \/ CommitReport(w) \/ CommitEnqueue(w)
  \/ Between(w) \/ CrashLocked(w)

ControlLockStep(r) ==
  \/ BeginCancel(r) \/ VisitJob(r) \/ LockJob(r) \/ CommitCancel(r)
  \/ ShortControl(r)

LockNext ==
  \/ \E w \in Workers : WorkerLockStep(w)
  \/ \E r \in Runs : ControlLockStep(r)
  \/ \E s \in Sessions : DeadlockVictim(s)
  \/ TickLocked

LockSpec == LockInit /\ [][LockNext]_lockVars

-----------------------------------------------------------------------------
(* Properties *)

\* Reports and expansions lock the job, the host and the campaign in this
\* order, so they never wait for one another in a cycle, stale workers
\* included.  Every cycle has a claim in it, which keeps the rows of the
\* candidates it passed over, or a cancellation, which holds the campaign's
\* row while it waits for its jobs.
ReportsNeverDeadlock ==
  \A S \in WaitCycles : \E s \in S : tx[s].op \in {"claim", "cancel"}

\* A claim that read its status or its window before what changed them: its
\* campaign was paused or cancelled, or better jobs joined the frontier since.
LateClaim(s) ==
  LET j == Best(s)[1]
  IN  /\ tx[s].op = "claim"
      /\ run[RunOf[j]] # "RUNNING" \/ (Runnable(j) /\ j \notin Candidates)

\* Transactions may be treated as atomic, as every other module does: one that
\* no clock tick overtook commits what its one-step form in CrawlSystem would
\* write at that moment, except for a late claim.
CommitsAreAtomic ==
  [][\A s \in Sessions :
       (/\ tx[s].op # "none" /\ tx'[s].op = "none"
        /\ tx[s].age = 0 /\ storeVars' # storeVars /\ ~LateClaim(s)) => Next]_lockVars

\* What the one-step transactions keep safe stays safe when they interleave
\* lock by lock, late claims and stale clock readings included: the counts
\* and checks behind it are made under the locks that make them stay true.
SafeUnderRowLocks ==
  /\ DomainExclusive
  /\ VerdictIsQuiescent
  /\ RunningHasOpenWork
  /\ VerdictJustified
  /\ SuccessIsStored
  /\ CancelledIsDrained

=============================================================================
