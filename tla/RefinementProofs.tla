-------------------------- MODULE RefinementProofs --------------------------
(***************************************************************************)
(* The refinements, for every instance: the crawl implements the client's   *)
(* view of a campaign, and a fleet of finite workers implements the crawl.  *)
(* What is proved of the crawl holds in the cloud deployment as well.       *)
(***************************************************************************)
EXTENDS LockProofs, TimelyProofs

-----------------------------------------------------------------------------
(* The crawl implements the client's view of a campaign *)

\* What the client sees of campaign r.
LEMMA ClientView ==
  ASSUME NEW r \in Runs
  PROVE  /\ OwedJobs[r] = {j \in Jobs : RunOf[j] = r /\ Open(j)}
         /\ \A s : JobsWith(s)[r] = {j \in Jobs : RunOf[j] = r /\ job[j].status = s}
BY DEF OwedJobs, JobsWith

\* A new campaign owes its seeds.
LEMMA ClientInit == TypeInv /\ Init => Client!Init
<1> SUFFICES ASSUME TypeInv, Init PROVE Client!Init
  OBVIOUS
<1> USE StoreAssumption
<1>1. \A k \in Jobs : job[k].status = IF k \in Seeds THEN "PENDING" ELSE "ABSENT"
  BY DEF Init, StoreInit, NewJob, NoJob, Unleased
<1>2. run = [r \in Runs |-> "PENDING"]
  BY DEF Init, StoreInit
<1>3. OwedJobs \in [Runs -> (SUBSET Jobs) \ {{}}]
  <2>1. ASSUME NEW r \in Runs
        PROVE  {j \in Jobs : RunOf[j] = r /\ Open(j)} \in (SUBSET Jobs) \ {{}}
    BY <1>1, SeedAssumption DEF Open, OpenJobStatuses
  <2>2. QED
    BY <2>1 DEF OwedJobs
<1>4. JobsWith("SUCCEEDED") = [r \in Runs |-> {}] /\ JobsWith("FAILED") = [r \in Runs |-> {}]
  BY <1>1 DEF JobsWith
<1>5. QED
  BY <1>2, <1>3, <1>4 DEF Client!Init

\* Steps that leave the campaigns and which jobs are open, succeeded and failed.
LEMMA ClientStutter ==
  ASSUME run' = run,
         \A k \in Jobs : \/ job'[k].status = job[k].status
                         \/ Open(k) /\ Open(k)'
  PROVE  UNCHANGED Client!campaignVars
<1>1. \A k \in Jobs : /\ Open(k)' <=> Open(k)
                      /\ job'[k].status = "SUCCEEDED" <=> job[k].status = "SUCCEEDED"
                      /\ job'[k].status = "FAILED" <=> job[k].status = "FAILED"
  BY DEF Open, OpenJobStatuses
<1>2. OwedJobs' = OwedJobs
  BY <1>1 DEF OwedJobs
<1>3. JobsWith("SUCCEEDED")' = JobsWith("SUCCEEDED")
  BY <1>1 DEF JobsWith
<1>4. JobsWith("FAILED")' = JobsWith("FAILED")
  BY <1>1 DEF JobsWith
<1>5. QED
  BY <1>2, <1>3, <1>4 DEF Client!campaignVars

\* The rows of a campaign are open, absent or terminal.
LEMMA OpenOrTerminal ==
  ASSUME TypeInv, VerdictInv
  PROVE  \A k \in Jobs : Exists(k) => (job[k].status \in TerminalJobStatuses <=> ~Open(k))
<1>1. \A k \in Jobs : job[k].status \in JobStatus \cup {"ABSENT"}
  BY DEF TypeInv, TypeOK, StoreTypeOK, JobRow
<1>2. QED
  BY <1>1 DEF Exists, Open, JobStatus, OpenJobStatuses, TerminalJobStatuses

\* A report that settles a page: the page leaves the owed ones, and the client
\* is told the verdict when it was the last one of a running campaign.
LEMMA ClientSettle ==
  ASSUME TypeInv, VerdictInv, NEW j \in Jobs, job[j].status = "LEASED",
         NEW s \in {"SUCCEEDED", "FAILED", "CANCELLED"}, NEW v,
         s # "SUCCEEDED" => (s = "CANCELLED" <=> run[RunOf[j]] = "CANCELLED"),
         job' = [job EXCEPT ![j] = Released(j, s)],
         run' = [run EXCEPT ![RunOf[j]] = v],
         LET r == RunOf[j]
             w == IF s = "SUCCEEDED" THEN JobsWith("SUCCEEDED")[r] \cup {j}
                  ELSE JobsWith("SUCCEEDED")[r]
             l == IF s = "FAILED" THEN JobsWith("FAILED")[r] \cup {j}
                  ELSE JobsWith("FAILED")[r]
         IN  IF LastOpenJob(j) /\ run[r] = "RUNNING" THEN v \in Client!Verdicts(w, l)
             ELSE v = run[r]
  PROVE  Client!Next
<1> USE StoreAssumption
<1> DEFINE r == RunOf[j]
           won == JobsWith("SUCCEEDED")
           lost == JobsWith("FAILED")
           w == IF s = "SUCCEEDED" THEN won[r] \cup {j} ELSE won[r]
           l == IF s = "FAILED" THEN lost[r] \cup {j} ELSE lost[r]
<1>1. r \in Runs /\ job \in [Jobs -> JobRow] /\ run \in [Runs -> RunStatus]
  BY DEF TypeInv, TypeOK, StoreTypeOK
<1>2. /\ job'[j].status = s /\ ~Open(j)' /\ Open(j)
      /\ \A k \in Jobs \ {j} : job'[k].status = job[k].status
  BY <1>1 DEF Released, Unleased, Open, OpenJobStatuses
<1>3. OwedJobs' = [OwedJobs EXCEPT ![r] = @ \ {j}]
  <2>1. \A q \in Runs : {k \in Jobs : RunOf[k] = q /\ Open(k)'} =
          IF q = r THEN {k \in Jobs : RunOf[k] = r /\ Open(k)} \ {j}
          ELSE {k \in Jobs : RunOf[k] = q /\ Open(k)}
    BY <1>2 DEF Open
  <2>2. QED
    BY <1>1, <2>1 DEF OwedJobs
<1>4. won' = [won EXCEPT ![r] = w]
  <2>1. \A q \in Runs : {k \in Jobs : RunOf[k] = q /\ job'[k].status = "SUCCEEDED"} =
          IF q = r THEN w ELSE {k \in Jobs : RunOf[k] = q /\ job[k].status = "SUCCEEDED"}
    BY <1>1, <1>2 DEF JobsWith
  <2> HIDE DEF w
  <2>2. QED
    BY <1>1, <2>1 DEF JobsWith
<1>5. lost' = [lost EXCEPT ![r] = l]
  <2>1. \A q \in Runs : {k \in Jobs : RunOf[k] = q /\ job'[k].status = "FAILED"} =
          IF q = r THEN l ELSE {k \in Jobs : RunOf[k] = q /\ job[k].status = "FAILED"}
    BY <1>1, <1>2 DEF JobsWith
  <2> HIDE DEF l
  <2>2. QED
    BY <1>1, <2>1 DEF JobsWith
<1>6. LastOpenJob(j) <=> OwedJobs[r] = {j}
  <2>1. LastOpenJob(j) <=> \A k \in JobsOf(r) \ {j} : ~Open(k)
    BY OpenOrTerminal DEF LastOpenJob, JobsOf
  <2>2. \A k \in Jobs : Open(k) => Exists(k)
    BY DEF Open, OpenJobStatuses, Exists
  <2>3. QED
    BY <1>1, <1>2, <2>1, <2>2, ClientView DEF JobsOf
<1>7. j \in OwedJobs[r]
  BY <1>1, <1>2, ClientView
<1>8. v \in IF run[r] = "RUNNING" /\ OwedJobs[r] = {j}
            THEN Client!Verdicts(w, l) ELSE {run[r]}
  BY <1>6
<1>9. Client!Settle(r, j, w, l)
  <2> HIDE DEF w, l, won, lost, r
  <2>1. QED
    BY <1>3, <1>4, <1>5, <1>7, <1>8 DEF Client!Settle, won, lost, r
<1>10. Client!Crawled(r, j) \/ Client!GivenUp(r, j) \/ Client!Dropped(r, j)
  <2>1. CASE s = "SUCCEEDED"
    BY <1>9, <2>1 DEF Client!Crawled
  <2>2. CASE s = "FAILED"
    BY <1>9, <2>2 DEF Client!GivenUp
  <2>3. CASE s = "CANCELLED"
    BY <1>9, <2>3 DEF Client!Dropped
  <2>4. QED
    BY <2>1, <2>2, <2>3
<1>11. QED
  BY <1>1, <1>10 DEF Client!Next

\* An expansion that inserts rows discovers their pages.
LEMMA ClientDiscover ==
  ASSUME TypeInv, VerdictInv, NEW parent \in Jobs, NEW S \in SUBSET Jobs,
         \A k \in S : RunOf[k] = RunOf[parent],
         EnqueueDiscoveredLinks(parent, S)
  PROVE  [Client!Next]_Client!campaignVars
<1> USE StoreAssumption
<1> DEFINE N == NewChildren(parent, S)
           r == RunOf[parent]
<1>1. /\ N \subseteq S /\ \A k \in N : job[k].status = "ABSENT"
      /\ N # {} => run[r] \in {"RUNNING", "PAUSED"}
  BY DEF NewChildren, FirstByRank, Exists, Expandable
<1>2. /\ run' = run
      /\ \A k \in N : job'[k].status = "PENDING"
      /\ \A k \in Jobs \ N : job'[k].status = job[k].status
  BY <1>1 DEF EnqueueDiscoveredLinks, NewJob, Unleased
<1> HIDE DEF N
<1>3. CASE N = {}
  BY <1>2, <1>3, ClientStutter
<1>4. CASE N # {}
  <2>1. r \in Runs /\ N \in SUBSET Jobs /\ run[r] \in {"RUNNING", "PAUSED"}
    BY <1>1, <1>4
  <2>2. N \cap (OwedJobs[r] \cup JobsWith("SUCCEEDED")[r] \cup JobsWith("FAILED")[r]) = {}
    BY <1>1, <2>1, ClientView DEF Open, OpenJobStatuses
  <2>3. OwedJobs' = [OwedJobs EXCEPT ![r] = @ \cup N]
    <3>1. \A q \in Runs : {k \in Jobs : RunOf[k] = q /\ Open(k)'} =
            IF q = r THEN {k \in Jobs : RunOf[k] = r /\ Open(k)} \cup N
            ELSE {k \in Jobs : RunOf[k] = q /\ Open(k)}
      BY <1>1, <1>2 DEF Open, OpenJobStatuses
    <3>2. QED
      BY <2>1, <3>1 DEF OwedJobs
  <2>4. \A k \in Jobs : /\ job'[k].status = "SUCCEEDED" <=> job[k].status = "SUCCEEDED"
                        /\ job'[k].status = "FAILED" <=> job[k].status = "FAILED"
    BY <1>1, <1>2
  <2>5. JobsWith("SUCCEEDED")' = JobsWith("SUCCEEDED")
    BY <2>4 DEF JobsWith
  <2>6. JobsWith("FAILED")' = JobsWith("FAILED")
    BY <2>4 DEF JobsWith
  <2>7. Client!Discover(r, N)
    BY <1>2, <2>1, <2>2, <2>3, <2>5, <2>6 DEF Client!Discover
  <2>8. QED
    BY <2>1, <2>7 DEF Client!Next
<1>5. QED
  BY <1>3, <1>4

\* What the client does to a campaign is what it sees.
LEMMA ClientControl ==
  ASSUME TypeInv, VerdictInv, NEW r \in Runs, Control(r)
  PROVE  Client!Next
<1> USE StoreAssumption
<1>1. job \in [Jobs -> JobRow] /\ run \in [Runs -> RunStatus]
  BY DEF TypeInv, TypeOK, StoreTypeOK
<1>2. CASE CancelCrawlRun(r)
  <2>1. /\ run[r] \in {"PENDING", "RUNNING", "PAUSED"}
        /\ run' = [run EXCEPT ![r] = "CANCELLED"]
        /\ \A k \in Jobs : job'[k] = IF RunOf[k] = r /\ CancelledJob(k)
                                     THEN Released(k, "CANCELLED") ELSE job[k]
    BY <1>2 DEF CancelCrawlRun, Cancellable
  <2>2. \A k \in Jobs : job'[k].status = IF RunOf[k] = r /\ CancelledJob(k)
                                         THEN "CANCELLED" ELSE job[k].status
    <3>1. \A k \in Jobs : Released(k, "CANCELLED").status = "CANCELLED"
      BY DEF Released, Unleased
    <3>2. QED
      BY <2>1, <3>1
  <2> DEFINE inFlight == {k \in Jobs : RunOf[k] = r /\ job[k].status = "LEASED"}
  <2>3. inFlight \in SUBSET OwedJobs[r]
    BY ClientView DEF Open, OpenJobStatuses
  <2>4. OwedJobs' = [OwedJobs EXCEPT ![r] = inFlight]
    <3>1. \A q \in Runs : {k \in Jobs : RunOf[k] = q /\ Open(k)'} =
            IF q = r THEN inFlight ELSE {k \in Jobs : RunOf[k] = q /\ Open(k)}
      BY <2>2 DEF Open, OpenJobStatuses, CancelledJob
    <3> HIDE DEF inFlight
    <3>2. QED
      BY <3>1 DEF OwedJobs
  <2>5. \A k \in Jobs : /\ job'[k].status = "SUCCEEDED" <=> job[k].status = "SUCCEEDED"
                        /\ job'[k].status = "FAILED" <=> job[k].status = "FAILED"
    BY <2>2 DEF CancelledJob
  <2>6. JobsWith("SUCCEEDED")' = JobsWith("SUCCEEDED")
    BY <2>5 DEF JobsWith
  <2>7. JobsWith("FAILED")' = JobsWith("FAILED")
    BY <2>5 DEF JobsWith
  <2> HIDE DEF inFlight
  <2>8. Client!Cancel(r)
    BY <2>1, <2>3, <2>4, <2>6, <2>7 DEF Client!Cancel
  <2>9. QED
    BY <2>8 DEF Client!Next
<1>3. ASSUME job' = job
      PROVE  UNCHANGED <<OwedJobs, JobsWith("SUCCEEDED"), JobsWith("FAILED")>>
  BY <1>3 DEF OwedJobs, JobsWith, Open
<1>4. CASE StartCrawlRun(r)
  BY <1>3, <1>4 DEF StartCrawlRun, Client!Next, Client!Start
<1>5. CASE PauseCrawlRun(r)
  BY <1>3, <1>5 DEF PauseCrawlRun, Client!Next, Client!Pause
<1>6. CASE ResumeCrawlRun(r)
  <2>1. /\ run[r] = "PAUSED" /\ job' = job
        /\ run' = [run EXCEPT ![r] = ReconciledStatus(r)]
    BY <1>6 DEF ResumeCrawlRun
  <2>2. AllTerminal(r) <=> OwedJobs[r] = {}
    <3>1. \A k \in JobsOf(r) : job[k].status \in TerminalJobStatuses <=> ~Open(k)
      BY OpenOrTerminal DEF JobsOf
    <3>2. \A k \in Jobs : Open(k) => Exists(k)
      BY DEF Open, OpenJobStatuses, Exists
    <3>3. JobsOf(r) # {}
      BY SeedAssumption DEF VerdictInv, FrontierShape, JobsOf
    <3>4. QED
      BY <3>1, <3>2, <3>3, ClientView DEF AllTerminal, JobsOf
  <2>3. \A s \in {"SUCCEEDED", "FAILED"} : HasStatus(r, s) <=> JobsWith(s)[r] # {}
    BY ClientView DEF HasStatus, JobsOf, Exists
  <2>4. ASSUME AllTerminal(r) PROVE HasStatus(r, "SUCCEEDED") \/ HasStatus(r, "FAILED")
    <3>1. PICK k \in JobsOf(r) : job[k].status \in TerminalJobStatuses
      BY <2>4 DEF AllTerminal
    <3>2. job[k].status \notin {"SKIPPED", "CANCELLED"}
      BY <2>1, <3>1 DEF VerdictInv, FrontierShape, JobsOf
    <3>3. QED
      BY <3>1, <3>2 DEF HasStatus, TerminalJobStatuses
  <2>5. ReconciledStatus(r) \in
          IF OwedJobs[r] = {}
          THEN Client!Verdicts(JobsWith("SUCCEEDED")[r], JobsWith("FAILED")[r])
          ELSE {"RUNNING"}
    <3>1. CASE ~AllTerminal(r)
      BY <2>2, <3>1 DEF ReconciledStatus
    <3>2. CASE AllTerminal(r) /\ ~HasStatus(r, "FAILED")
      BY <2>2, <2>3, <2>4, <3>2 DEF ReconciledStatus, Client!Verdicts
    <3>3. CASE AllTerminal(r) /\ HasStatus(r, "FAILED") /\ HasStatus(r, "SUCCEEDED")
      BY <2>2, <2>3, <3>3 DEF ReconciledStatus, Client!Verdicts
    <3>4. CASE AllTerminal(r) /\ HasStatus(r, "FAILED") /\ ~HasStatus(r, "SUCCEEDED")
      BY <2>2, <2>3, <3>4 DEF ReconciledStatus, Client!Verdicts
    <3>5. QED
      BY <3>1, <3>2, <3>3, <3>4
  <2>6. Client!Resume(r)
    BY <1>3, <2>1, <2>5 DEF Client!Resume
  <2>7. QED
    BY <2>6 DEF Client!Next
<1>7. QED
  BY <1>2, <1>4, <1>5, <1>6 DEF Control

\* A report is a settled page, or a retry the client does not see.
LEMMA ClientReport ==
  ASSUME TypeInv, VerdictInv, NEW w \in Workers, NEW n, Settles(w, n)
  PROVE  [Client!Next]_Client!campaignVars
<1> USE StoreAssumption
<1> DEFINE j == ClaimedJob(w)
           r == RunOf[j]
           s == ReportedStatus(w)
           v == ReportedVerdict(w)
           won == JobsWith("SUCCEEDED")[r]
           lost == JobsWith("FAILED")[r]
<1>0. job \in [Jobs -> JobRow] /\ run \in [Runs -> RunStatus]
  BY DEF TypeInv, TypeOK, StoreTypeOK
<1>1. /\ j \in Jobs /\ r \in Runs
      /\ job[j].status = "LEASED"
      /\ job' = [job EXCEPT ![j] = Released(j, s)]
      /\ run' = [run EXCEPT ![r] = v]
      /\ worker[w].pc \in {"complete", "fail"}
  BY AtWork DEF Settles, Working
<1>2. /\ s \in {"SUCCEEDED", "FAILED", "CANCELLED", "RETRY_PENDING"}
      /\ s = "SUCCEEDED" <=> worker[w].pc = "complete"
      /\ s # "SUCCEEDED" => (s = "CANCELLED" <=> run[r] = "CANCELLED")
  BY <1>1 DEF ReportedStatus, FailureStatus
<1>3. v = IF s \in {"SUCCEEDED", "FAILED"} /\ LastOpenJob(j) /\ run[r] = "RUNNING"
          THEN IF worker[w].pc = "complete" THEN "SUCCEEDED" ELSE FailureVerdict(r)
          ELSE run[r]
  BY DEF ReportedVerdict
<1>4. CASE s = "RETRY_PENDING"
  <2>1. run' = run
    BY <1>0, <1>1, <1>3, <1>4
  <2>2. Released(j, "RETRY_PENDING").status = "RETRY_PENDING"
    BY DEF Released, Unleased
  <2> HIDE DEF j, s
  <2>3. \A k \in Jobs : job'[k].status = job[k].status \/ (Open(k) /\ Open(k)')
    BY <1>0, <1>1, <1>4, <2>2 DEF Open, OpenJobStatuses
  <2>4. QED
    BY <2>1, <2>3, ClientStutter
<1>5. CASE s # "RETRY_PENDING"
  <2>1. /\ s = "SUCCEEDED" => "SUCCEEDED" \in Client!Verdicts(won \cup {j}, lost)
        /\ s = "FAILED" => FailureVerdict(r) \in Client!Verdicts(won, lost \cup {j})
    <3>1. SomeSucceeded(r) <=> won # {}
      BY <1>1, ClientView DEF SomeSucceeded, JobsOf, Exists
    <3>2. QED
      BY <3>1 DEF FailureVerdict, Client!Verdicts
  <2>2. IF LastOpenJob(j) /\ run[r] = "RUNNING"
        THEN v \in Client!Verdicts(IF s = "SUCCEEDED" THEN won \cup {j} ELSE won,
                                   IF s = "FAILED" THEN lost \cup {j} ELSE lost)
        ELSE v = run[r]
    <3> HIDE DEF j, r, s, v, won, lost
    <3>1. QED
      BY <1>2, <1>3, <1>5, <2>1
  <2> HIDE DEF j, s, v
  <2>3. QED
    BY <1>1, <1>2, <1>5, <2>2, ClientSettle
<1>6. QED
  BY <1>4, <1>5

\* Every step of the crawl is a step of the client's view or none, whatever
\* clock readings its transactions judged by.
LEMMA ClientUntimed ==
  TypeInv /\ VerdictInv /\ [UntimedNext]_vars => [Client!Next]_Client!campaignVars
<1> SUFFICES ASSUME TypeInv, VerdictInv, [UntimedNext]_vars
             PROVE  [Client!Next]_Client!campaignVars
  OBVIOUS
<1> USE StoreAssumption
<1>0. job \in [Jobs -> JobRow]
  BY DEF TypeInv, TypeOK, StoreTypeOK
<1>1. ASSUME NEW w \in Workers, NEW j \in Jobs, NEW left, Leases(w, j, left)
      PROVE  UNCHANGED Client!campaignVars
  <2> DEFINE row == ClaimRow(w, j, FreshToken(j))
  <2>1. run' = run /\ Open(j) /\ job' = [job EXCEPT ![j] = [row EXCEPT !.left = left]]
    BY <1>1 DEF Leases
  <2>2. [row EXCEPT !.left = left].status = "LEASED"
    BY DEF ClaimRow
  <2> HIDE DEF row
  <2>3. job'[j].status = "LEASED" /\ \A k \in Jobs \ {j} : job'[k] = job[k]
    BY <1>0, <2>1, <2>2
  <2>4. QED
    BY <2>1, <2>3, ClientStutter DEF Open, OpenJobStatuses
<1>2. ASSUME NEW w \in Workers, ExpandFrontier(w)
      PROVE  [Client!Next]_Client!campaignVars
  <2>1. ClaimedJob(w) \in Jobs
    BY <1>2, AtWork DEF ExpandFrontier, Working
  <2>2. PICK S \in Selections(ClaimedJob(w)) :
          EnqueueDiscoveredLinks(ClaimedJob(w), S)
    BY <1>2 DEF ExpandFrontier
  <2>3. S \in SUBSET Jobs /\ \A k \in S : RunOf[k] = RunOf[ClaimedJob(w)]
    BY DEF Selections
  <2>4. QED
    BY <2>1, <2>2, <2>3, ClientDiscover
<1>3. ASSUME NEW p, TimePasses(p) PROVE UNCHANGED Client!campaignVars
  <2>1. \A k \in Jobs : job'[k].status = job[k].status
    BY <1>0, <1>3 DEF TimePasses, JobRow
  <2>2. QED
    BY <1>3, <2>1, ClientStutter DEF TimePasses
<1>4. CASE UNCHANGED <<run, job>>
  BY <1>4, ClientStutter
<1>5. QED
  BY <1>1, <1>2, <1>3, <1>4, ClientReport, ClientControl
     DEF UntimedNext, FetchPage, PersistDocument, ExpansionFails, Stops, Restart,
         storeVars, vars

\* In particular, every step of the single transactions.
LEMMA ClientStep ==
  TypeInv /\ VerdictInv /\ [Next]_vars => [Client!Next]_Client!campaignVars
BY NextIsUntimed, ClientUntimed

\* What a client sees of a campaign is the abstract one, whatever the workers,
\* leases, retries and crashes behind it.
THEOREM CrawlImplementsCampaign == Spec => ImplementsCampaign
<1>1. Init => TypeInv /\ VerdictInv /\ Client!Init
  BY TypeInit, VerdictInit, ClientInit
<1>2. TypeInv /\ VerdictInv /\ [Next]_vars => (TypeInv /\ VerdictInv)'
  BY TypeStep, VerdictStep
<1>3. TypeInv /\ VerdictInv /\ [Next]_vars => [Client!Next]_Client!campaignVars
  BY ClientStep
<1>4. QED
  BY <1>1, <1>2, <1>3, PTL DEF Spec, ImplementsCampaign, Client!Spec

\* It is so when the transactions behind it interleave lock by lock, and their
\* clock readings are a tick old.
THEOREM LocksImplementCampaign == LockSpec => ImplementsCampaign
<1>1. LockInit => SafeInv /\ Client!Init
  BY SafeInit, ClientInit DEF LockInit, SafeInv, StoreInv
<1>2. SafeInv /\ [LockNext]_lockVars => SafeInv'
  BY SafeStep
<1>3. SafeInv /\ [LockNext]_lockVars => [Client!Next]_Client!campaignVars
  BY LocksAreUntimed, ClientUntimed DEF SafeInv, StoreInv
<1>4. QED
  BY <1>1, <1>2, <1>3, PTL DEF LockSpec, ImplementsCampaign, Client!Spec

-----------------------------------------------------------------------------
(* The fleet implements the crawl *)

\* Launches by messages, idle exits and repeated wake-ups add no behaviour to
\* the campaigns: the deployed fleet implements the crawl.
THEOREM FleetImplementsCrawl == FleetSpec => Spec
<1>1. FleetInit => Init
  BY DEF FleetInit
<1>2. QED
  BY <1>1, FleetStep, PTL DEF FleetSpec, Spec

\* Deployed as finite workers, too, a campaign is what its client is promised.
THEOREM FleetImplementsCampaign == FleetSpec => ImplementsCampaign
BY FleetImplementsCrawl, CrawlImplementsCampaign, PTL

=============================================================================
