---------------------------- MODULE CrawlProofs ----------------------------
(***************************************************************************)
(* The safety properties of CrawlProperties, proved for every set of        *)
(* campaigns, jobs, hosts and workers and every value of the limits.        *)
(***************************************************************************)
EXTENDS CrawlProperties, FiniteSetTheorems, TLAPS

TypeInv == TypeOK /\ WorkerHoldsToken

(* What the transactions write, whatever clock readings they judged by.  The
   steps of CrawlSystem are among the steps below, and so are those of its
   transactions at the grain of their row locks.                            *)

\* Worker w leases job j for the next left ticks.
Leases(w, j, left) ==
  LET token == FreshToken(j)
      d == DomainOf[j]
  IN  /\ Open(j) /\ job[j].attempts < MaxAttempts /\ run[RunOf[j]] # "PENDING"
      /\ policy[d].left <= 0
      /\ job' = [job EXCEPT ![j] = [ClaimRow(w, j, token)
                                      EXCEPT !.left = left]]
      /\ policy' = [policy EXCEPT ![d] = [token |-> token, left |-> left,
                                          pause |-> policy[d].pause]]
      /\ worker' = [worker EXCEPT ![w] = [pc |-> "fetch", token |-> token]]
      /\ UNCHANGED <<run, docs>>

\* The status worker w's report gives its job, and the one it leaves its
\* campaign with.
ReportedStatus(w) ==
  IF worker[w].pc = "complete" THEN "SUCCEEDED" ELSE FailureStatus(ClaimedJob(w))

ReportedVerdict(w) ==
  LET j == ClaimedJob(w)
      r == RunOf[j]
  IN  IF /\ ReportedStatus(w) \in {"SUCCEEDED", "FAILED"}
         /\ LastOpenJob(j)
         /\ run[r] = "RUNNING"
      THEN IF worker[w].pc = "complete" THEN "SUCCEEDED" ELSE FailureVerdict(r)
      ELSE run[r]

\* The policy rows once token t lets go of host d for a cooldown of n ticks.
FreedFor(d, t, n) ==
  IF policy[d].token # t THEN policy
  ELSE [policy EXCEPT ![d] = [token |-> Null, left |-> Expired, pause |-> n]]

\* Worker w, owner of its job's lease, reports; the host cools down n ticks.
Settles(w, n) ==
  LET j == ClaimedJob(w)
  IN  /\ worker[w].pc \in {"complete", "fail"}
      /\ job[j].status = "LEASED" /\ job[j].owner = w /\ job[j].token = Claimed(w)
      /\ job' = [job EXCEPT ![j] = Released(j, ReportedStatus(w))]
      /\ policy' = FreedFor(DomainOf[j], Claimed(w), n)
      /\ run' = [run EXCEPT ![RunOf[j]] = ReportedVerdict(w)]
      /\ worker' = [worker EXCEPT ![w] = Idle]
      /\ UNCHANGED docs

\* The process of worker w ends.
Stops(w) ==
  /\ worker' = [worker EXCEPT ![w] = Down]
  /\ UNCHANGED <<storeVars, docs>>

\* Leases and reservations run on; p is what becomes of the cooldowns.
TimePasses(p) ==
  /\ job' = [j \in Jobs |-> [job[j] EXCEPT !.left = Sooner(@)]]
  /\ policy' = [d \in Domains |-> [token |-> policy[d].token,
                                   left |-> Sooner(policy[d].left),
                                   pause |-> p[d]]]
  /\ UNCHANGED <<run, worker, docs>>

UntimedNext ==
  \/ \E w \in Workers :
       \/ \E j \in Jobs, left \in 0..LeaseSeconds : Leases(w, j, left)
       \/ \E n \in 0..CrawlDelay : Settles(w, n)
       \/ FetchPage(w) \/ PersistDocument(w) \/ ExpandFrontier(w)
       \/ ExpansionFails(w) \/ Stops(w) \/ Restart(w)
  \/ \E r \in Runs : Control(r) /\ UNCHANGED <<worker, docs>>
  \/ \E p \in [Domains -> Expired..CrawlDelay] : TimePasses(p)

\* A claim is a lease for the full term.
LEMMA ClaimLeases ==
  ASSUME TypeInv, NEW w \in Workers, NEW j \in Jobs, Claim(w, j)
  PROVE  Leases(w, j, LeaseSeconds)
<1> USE StoreAssumption
<1> DEFINE token == FreshToken(j)
<1>1. /\ Runnable(j) /\ policy[DomainOf[j]].left <= 0
      /\ job' = [job EXCEPT ![j] = ClaimRow(w, j, token)]
      /\ policy' = [policy EXCEPT ![DomainOf[j]] =
                     [token |-> token, left |-> LeaseSeconds,
                      pause |-> policy[DomainOf[j]].pause]]
      /\ worker' = [worker EXCEPT ![w] = [pc |-> "fetch", token |-> token]]
      /\ UNCHANGED <<run, docs>>
  BY DEF Claim, ClaimNextJob, Candidates, FirstByRank, DomainReady
<1>2. Open(j) /\ job[j].attempts < MaxAttempts /\ run[RunOf[j]] # "PENDING"
  BY <1>1 DEF Runnable, Open, OpenJobStatuses
<1>3. ClaimRow(w, j, token) = [ClaimRow(w, j, token)
                                 EXCEPT !.left = LeaseSeconds]
  BY DEF ClaimRow
<1>4. QED
  BY <1>1, <1>2, <1>3 DEF Leases

\* A report starts the full cooldown.
LEMMA ReportSettles ==
  ASSUME TypeInv, NEW w \in Workers, Complete(w) \/ Fail(w)
  PROVE  Settles(w, CrawlDelay)
<1> USE StoreAssumption
<1> DEFINE j == ClaimedJob(w)
<1>1. /\ worker[w].pc \in {"complete", "fail"} /\ docs' = docs
      /\ worker' = [worker EXCEPT ![w] = Idle]
      /\ job[j].status = "LEASED" /\ job[j].owner = w /\ job[j].token = Claimed(w)
      /\ policy' = FreedFor(DomainOf[j], Claimed(w), CrawlDelay)
  BY DEF Complete, Fail, CompleteJob, FailJob, OwnsLiveLease, ClaimedJob,
         ReleaseDomainLease, FreedFor
<1>2. /\ job' = [job EXCEPT ![j] = Released(j, ReportedStatus(w))]
      /\ run' = [run EXCEPT ![RunOf[j]] = ReportedVerdict(w)]
  <2>1. CASE Complete(w)
    <3>1. ReportedStatus(w) = "SUCCEEDED"
      BY <2>1 DEF Complete, ReportedStatus
    <3>2. /\ job' = [job EXCEPT ![j] = Released(j, "SUCCEEDED")]
          /\ run' = [run EXCEPT ![RunOf[j]] =
                       IF LastOpenJob(j) /\ run[RunOf[j]] = "RUNNING"
                       THEN "SUCCEEDED" ELSE run[RunOf[j]]]
      BY <2>1 DEF Complete, CompleteJob, ClaimedJob
    <3>3. ReportedVerdict(w) = IF LastOpenJob(j) /\ run[RunOf[j]] = "RUNNING"
                               THEN "SUCCEEDED" ELSE run[RunOf[j]]
      BY <2>1, <3>1 DEF Complete, ReportedVerdict
    <3> HIDE DEF j
    <3>4. QED
      BY <3>1, <3>2, <3>3
  <2>2. CASE Fail(w)
    <3>1. ReportedStatus(w) = FailureStatus(j)
      BY <2>2 DEF Fail, ReportedStatus
    <3>2. /\ job' = [job EXCEPT ![j] = Released(j, FailureStatus(j))]
          /\ run' = [run EXCEPT ![RunOf[j]] =
                       IF /\ FailureStatus(j) = "FAILED"
                          /\ LastOpenJob(j)
                          /\ run[RunOf[j]] = "RUNNING"
                       THEN FailureVerdict(RunOf[j]) ELSE run[RunOf[j]]]
      BY <2>2 DEF Fail, FailJob, ClaimedJob
    <3>3. FailureStatus(j) # "SUCCEEDED"
      BY DEF FailureStatus
    <3>4. ReportedVerdict(w) = IF /\ FailureStatus(j) = "FAILED"
                                  /\ LastOpenJob(j)
                                  /\ run[RunOf[j]] = "RUNNING"
                               THEN FailureVerdict(RunOf[j]) ELSE run[RunOf[j]]
      BY <2>2, <3>1, <3>3 DEF Fail, ReportedVerdict
    <3> HIDE DEF j
    <3>5. QED
      BY <3>1, <3>2, <3>4
  <2>3. QED
    BY <2>1, <2>2
<1>3. QED
  BY <1>1, <1>2 DEF Settles

\* The steps of the crawl are among those whose clock readings are free.
LEMMA NextIsUntimed == TypeInv /\ [Next]_vars => [UntimedNext]_vars
<1> SUFFICES ASSUME TypeInv, Next PROVE UntimedNext
  OBVIOUS
<1> USE StoreAssumption
<1>1. ASSUME NEW w \in Workers, NEW j \in Jobs, Claim(w, j) PROVE UntimedNext
  <2>1. Leases(w, j, LeaseSeconds) /\ LeaseSeconds \in 0..LeaseSeconds
    BY <1>1, ClaimLeases
  <2>2. QED
    BY <2>1 DEF UntimedNext
<1>2. ASSUME NEW w \in Workers, Complete(w) \/ Fail(w) PROVE UntimedNext
  <2>1. Settles(w, CrawlDelay) /\ CrawlDelay \in 0..CrawlDelay
    BY <1>2, ReportSettles
  <2>2. QED
    BY <2>1 DEF UntimedNext
<1>3. ASSUME NEW w \in Workers, LoseLease(w) \/ Crash(w) PROVE UntimedNext
  BY <1>3 DEF LoseLease, Crash, Stops, UntimedNext
<1>4. CASE Tick
  <2> DEFINE p == [d \in Domains |-> IF policy[d].pause > 0 THEN policy[d].pause - 1
                                                           ELSE 0]
  <2>1. p \in [Domains -> Expired..CrawlDelay]
    BY DEF TypeInv, TypeOK, StoreTypeOK, PolicyRow, Expired
  <2>2. TimePasses(p)
    BY <1>4 DEF Tick, TimePasses
  <2> HIDE DEF p
  <2>3. QED
    BY <2>1, <2>2 DEF UntimedNext
<1>5. QED
  BY <1>1, <1>2, <1>3, <1>4 DEF Next, WorkerStep, UntimedNext

-----------------------------------------------------------------------------
(* Types *)

\* No row leaves the frontier or changes its depth.
RowsKept ==
  \A k \in Jobs : Exists(k) => Exists(k)' /\ job'[k].depth = job[k].depth

\* Initially every row has its type and no worker is at work.
LEMMA TypeInit == Init => TypeInv
<1> USE StoreAssumption, NullAssumption
<1> SUFFICES ASSUME Init PROVE TypeInv
  OBVIOUS
<1>1. NewJob(0) \in JobRow /\ NoJob \in JobRow /\ NewPolicy \in PolicyRow
  BY DEF NewJob, NoJob, Unleased, NewPolicy, JobRow, PolicyRow, JobStatus,
         OpenJobStatuses, TerminalJobStatuses, Expired
<1>2. StoreTypeOK
  BY <1>1 DEF Init, StoreInit, StoreTypeOK, RunStatus
<1>3. worker \in [Workers -> WorkerState]
  BY DEF Init, Idle, WorkerState
<1>4. QED
  BY <1>2, <1>3 DEF Init, Idle, TypeInv, TypeOK, WorkerHoldsToken, Working

\* A row that leaves its lease is a row.
LEMMA ReleasedType ==
  ASSUME StoreTypeOK, NEW j \in Jobs, NEW s \in JobStatus
  PROVE  Released(j, s) \in JobRow
<1>1. job[j] \in JobRow
  BY DEF StoreTypeOK
<1>2. QED
  BY <1>1, StoreAssumption DEF JobRow, Released, Unleased, Expired

\* Releasing a host keeps the policy rows well typed.
LEMMA ReleaseType ==
  ASSUME StoreTypeOK, NEW d \in Domains, NEW t, NEW n \in 0..CrawlDelay
  PROVE  FreedFor(d, t, n) \in [Domains -> PolicyRow]
<1>1. [token |-> Null, left |-> Expired, pause |-> n] \in PolicyRow
  BY StoreAssumption DEF PolicyRow, Expired
<1>2. QED
  BY <1>1 DEF StoreTypeOK, FreedFor

\* A claim writes a row of its type and hands out a token.
LEMMA ClaimType ==
  ASSUME TypeInv, NEW w \in Workers, NEW j \in Jobs, NEW left \in 0..LeaseSeconds,
         Leases(w, j, left)
  PROVE  TypeInv'
<1> USE StoreAssumption
<1> DEFINE token == FreshToken(j)
           row == [ClaimRow(w, j, token) EXCEPT !.left = left]
<1>1. job[j] \in JobRow /\ job[j].attempts < MaxAttempts
  BY DEF TypeInv, TypeOK, StoreTypeOK, Leases
<1>2. job[j].attempts + 1 \in 0..MaxAttempts /\ job[j].drawn + 1 \in Nat
  BY <1>1 DEF JobRow
<1>3. token \in Tokens
  BY <1>2 DEF Tokens, FreshToken
<1>4. row \in JobRow /\ row.status = "LEASED" /\ row.depth = job[j].depth
  <2> HIDE DEF token
  <2>1. left \in Expired..LeaseSeconds
    BY DEF Expired
  <2>2. QED
    BY <1>1, <1>2, <1>3, <2>1 DEF JobRow, ClaimRow, JobStatus, OpenJobStatuses
<1>5. DomainOf[j] \in Domains
  OBVIOUS
<1>6. [token |-> token, left |-> left, pause |-> policy[DomainOf[j]].pause] \in PolicyRow
  BY <1>3, <1>5 DEF TypeInv, TypeOK, StoreTypeOK, PolicyRow, Expired
<1>7. /\ job' = [job EXCEPT ![j] = row]
      /\ policy' = [policy EXCEPT ![DomainOf[j]] =
                     [token |-> token, left |-> left,
                      pause |-> policy[DomainOf[j]].pause]]
      /\ worker' = [worker EXCEPT ![w] = [pc |-> "fetch", token |-> token]]
      /\ run' = run /\ docs' = docs /\ token[1] = j
  BY DEF Leases, FreshToken
<1> HIDE DEF token, row
<1>8. StoreTypeOK'
  BY <1>4, <1>5, <1>6, <1>7 DEF TypeInv, TypeOK, StoreTypeOK
<1>9. worker' \in [Workers -> WorkerState]
  BY <1>3, <1>7 DEF TypeInv, TypeOK, WorkerState, Working
<1>10. RowsKept /\ Exists(j)'
  BY <1>4, <1>7 DEF TypeInv, TypeOK, StoreTypeOK, RowsKept, Exists
<1>11. WorkerHoldsToken'
  BY <1>3, <1>7, <1>10 DEF TypeInv, TypeOK, WorkerHoldsToken, Claimed,
                          ClaimedJob, Tokens, RowsKept
<1>12. QED
  BY <1>7, <1>8, <1>9, <1>11 DEF TypeInv, TypeOK

\* A worker's local step, one that leaves the rows alone, keeps the types.
LEMMA LocalStepType ==
  ASSUME TypeInv, NEW w \in Workers, UNCHANGED storeVars,
         docs' \subseteq Jobs,
         \/ worker' = [worker EXCEPT ![w] = Idle]
         \/ worker' = [worker EXCEPT ![w] = Down]
         \/ /\ worker[w].pc \in Working
            /\ \E stage \in Working :
                 /\ stage = "expand" => job[ClaimedJob(w)].depth = 0
                 /\ Goto(w, stage)
  PROVE  TypeInv'
<1>1. StoreTypeOK'
  BY DEF TypeInv, TypeOK, StoreTypeOK, storeVars
<1> USE DEF Exists, storeVars
<1>2. CASE \/ worker' = [worker EXCEPT ![w] = Idle]
           \/ worker' = [worker EXCEPT ![w] = Down]
  <2>1. worker' \in [Workers -> WorkerState]
    BY <1>2 DEF TypeInv, TypeOK, WorkerState, Idle, Down
  <2>2. WorkerHoldsToken'
    BY <1>2 DEF TypeInv, TypeOK, WorkerHoldsToken, Idle, Down, Working,
                Claimed, ClaimedJob, storeVars
  <2>3. QED
    BY <1>1, <2>1, <2>2 DEF TypeInv, TypeOK
<1>3. ASSUME worker[w].pc \in Working, NEW stage \in Working,
             stage = "expand" => job[ClaimedJob(w)].depth = 0,
             Goto(w, stage)
      PROVE  TypeInv'
  <2>1. worker' \in [Workers -> WorkerState]
    BY <1>3 DEF TypeInv, TypeOK, WorkerState, Goto
  <2>2. /\ \A v \in Workers : worker'[v].token = worker[v].token
        /\ \A v \in Workers \ {w} : worker'[v].pc = worker[v].pc
        /\ worker'[w].pc = stage
    BY <1>3 DEF TypeInv, TypeOK, WorkerState, Goto
  <2>3. WorkerHoldsToken'
    BY <1>3, <2>2 DEF TypeInv, WorkerHoldsToken, Claimed, ClaimedJob, storeVars
  <2>4. QED
    BY <1>1, <2>1, <2>3 DEF TypeInv, TypeOK
<1>4. QED
  BY <1>2, <1>3

\* A finalization writes a row, a campaign status and policy rows of their
\* types and lets go of the token.
LEMMA FinalizeType ==
  ASSUME TypeInv, NEW w \in Workers, NEW j \in Jobs, NEW s \in JobStatus,
         NEW v \in RunStatus, NEW d \in Domains, NEW t, NEW n \in 0..CrawlDelay,
         policy' = FreedFor(d, t, n),
         job' = [job EXCEPT ![j] = Released(j, s)],
         run' = [run EXCEPT ![RunOf[j]] = v],
         worker' = [worker EXCEPT ![w] = Idle],
         docs' = docs
  PROVE  TypeInv'
<1> USE StoreAssumption
<1>1. StoreTypeOK'
  <2>1. Released(j, s) \in JobRow
    BY ReleasedType DEF TypeInv, TypeOK
  <2>2. policy' \in [Domains -> PolicyRow]
    BY ReleaseType DEF TypeInv, TypeOK
  <2>3. QED
    BY <2>1, <2>2 DEF TypeInv, TypeOK, StoreTypeOK
<1>2. worker' \in [Workers -> WorkerState]
  BY DEF TypeInv, TypeOK, WorkerState, Idle
<1>3. RowsKept
  BY DEF TypeInv, TypeOK, StoreTypeOK, Released, Unleased, RowsKept, Exists,
         JobStatus, OpenJobStatuses, TerminalJobStatuses
<1>4. WorkerHoldsToken'
  BY <1>3 DEF TypeInv, TypeOK, WorkerHoldsToken, Idle, Working, Claimed,
              ClaimedJob, Tokens, RowsKept
<1>5. QED
  BY <1>1, <1>2, <1>4 DEF TypeInv, TypeOK

\* The control plane's steps and the clock keep the frontier, the workers and
\* the documents, so only the rows' types matter.
LEMMA RowStepType ==
  ASSUME TypeInv, StoreTypeOK', UNCHANGED <<worker, docs>>, RowsKept
  PROVE  TypeInv'
<1>1. WorkerHoldsToken'
  BY DEF TypeInv, WorkerHoldsToken, Claimed, ClaimedJob, Tokens, RowsKept
<1>2. QED
  BY <1>1 DEF TypeInv, TypeOK

\* Whatever the rows, the status a transaction computes is a status.
LEMMA VerdictTypes ==
  /\ \A w \in Workers : ReportedStatus(w) \in JobStatus \ {"LEASED"}
  /\ \A r \in Runs : FailureVerdict(r) \in RunStatus
  /\ \A r \in Runs : ReconciledStatus(r) \in RunStatus
BY DEF ReportedStatus, FailureStatus, FailureVerdict, ReconciledStatus, JobStatus, RunStatus,
       OpenJobStatuses, TerminalJobStatuses

\* Every step keeps rows, processes and documents in their declared shapes.
LEMMA TypeUntimed == TypeInv /\ [UntimedNext]_vars => TypeInv'
<1> USE StoreAssumption
<1> SUFFICES ASSUME TypeInv, [UntimedNext]_vars PROVE TypeInv'
  OBVIOUS
<1>0. \A w \in Workers : worker[w].pc \in Working => ClaimedJob(w) \in Jobs
  BY DEF TypeInv, WorkerHoldsToken, ClaimedJob, Tokens
<1>1. ASSUME NEW w \in Workers, NEW j \in Jobs, NEW left \in 0..LeaseSeconds,
             Leases(w, j, left)
      PROVE  TypeInv'
  BY <1>1, ClaimType
<1>2. ASSUME NEW w \in Workers, FetchPage(w) PROVE TypeInv'
  <2>1. /\ UNCHANGED storeVars
        /\ docs' \subseteq Jobs
        /\ worker[w].pc \in Working
        /\ \E stage \in Working : stage # "expand" /\ Goto(w, stage)
    BY <1>2 DEF FetchPage, Working, TypeInv, TypeOK
  <2>2. QED
    BY <2>1, LocalStepType
<1>3. ASSUME NEW w \in Workers, PersistDocument(w) PROVE TypeInv'
  <2>1. worker[w].pc \in Working
    BY <1>3 DEF PersistDocument, Working
  <2>2. docs' \subseteq Jobs
    BY <1>0, <1>3, <2>1 DEF PersistDocument, AfterPersist, TypeInv, TypeOK
  <2>3. \E stage \in Working :
          /\ stage = "expand" => job[ClaimedJob(w)].depth = 0
          /\ Goto(w, stage)
    BY <1>3 DEF PersistDocument, Working
  <2>4. UNCHANGED storeVars
    BY <1>3 DEF PersistDocument
  <2>5. QED
    BY <2>1, <2>2, <2>3, <2>4, LocalStepType
<1>4. ASSUME NEW w \in Workers, ExpandFrontier(w) PROVE TypeInv'
  <2> DEFINE parent == ClaimedJob(w)
  <2>1. parent \in Jobs /\ job[parent].depth = 0
    BY <1>0, <1>4 DEF ExpandFrontier, TypeInv, WorkerHoldsToken, Working
  <2>2. PICK S \in Selections(parent) : EnqueueDiscoveredLinks(parent, S)
    BY <1>4 DEF ExpandFrontier
  <2>3. NewJob(job[parent].depth + 1) \in JobRow
    BY <2>1 DEF NewJob, Unleased, JobRow, JobStatus, OpenJobStatuses, Expired
  <2>4. StoreTypeOK'
    BY <2>2, <2>3 DEF EnqueueDiscoveredLinks, TypeInv, TypeOK, StoreTypeOK
  <2>5. worker' = [worker EXCEPT ![w].pc = "complete"] /\ docs' = docs
    BY <1>4 DEF ExpandFrontier, Goto
  <2>6. worker' \in [Workers -> WorkerState]
    BY <2>5 DEF TypeInv, TypeOK, WorkerState, Working
  <2>7. RowsKept
    BY <2>2 DEF EnqueueDiscoveredLinks, NewChildren, FirstByRank, RowsKept,
                Exists
  <2>8. WorkerHoldsToken'
    BY <2>5, <2>7, <1>4 DEF TypeInv, TypeOK, WorkerState, WorkerHoldsToken,
       Claimed, ClaimedJob, Tokens, Working, RowsKept, ExpandFrontier
  <2>9. QED
    BY <2>4, <2>5, <2>6, <2>8 DEF TypeInv, TypeOK
<1>5. ASSUME NEW w \in Workers, ExpansionFails(w) PROVE TypeInv'
  <2>1. /\ UNCHANGED storeVars
        /\ docs' \subseteq Jobs
        /\ worker[w].pc \in Working
        /\ Goto(w, "fail") /\ "fail" \in Working
    BY <1>5 DEF ExpansionFails, Working, TypeInv, TypeOK
  <2>2. QED
    BY <2>1, LocalStepType
<1>6. ASSUME NEW w \in Workers, NEW n \in 0..CrawlDelay, Settles(w, n)
      PROVE  TypeInv'
  <2> DEFINE j == ClaimedJob(w)
  <2>1. j \in Jobs /\ RunOf[j] \in Runs /\ DomainOf[j] \in Domains
    BY <1>0, <1>6 DEF Settles, Working
  <2>2. ReportedVerdict(w) \in RunStatus
    BY <2>1, VerdictTypes DEF ReportedVerdict, RunStatus, TypeInv, TypeOK, StoreTypeOK
  <2>3. /\ policy' = FreedFor(DomainOf[j], Claimed(w), n)
        /\ job' = [job EXCEPT ![j] = Released(j, ReportedStatus(w))]
        /\ run' = [run EXCEPT ![RunOf[j]] = ReportedVerdict(w)]
        /\ worker' = [worker EXCEPT ![w] = Idle] /\ docs' = docs
    BY <1>6 DEF Settles
  <2>4. ReportedStatus(w) \in JobStatus
    BY VerdictTypes
  <2> HIDE DEF j
  <2>5. QED
    BY <2>1, <2>2, <2>3, <2>4, FinalizeType
<1>8. ASSUME NEW w \in Workers, Stops(w) \/ Restart(w)
      PROVE  TypeInv'
  <2>1. /\ UNCHANGED storeVars
        /\ docs' \subseteq Jobs
        /\ \/ worker' = [worker EXCEPT ![w] = Idle]
           \/ worker' = [worker EXCEPT ![w] = Down]
    BY <1>8 DEF Stops, Restart, TypeInv, TypeOK
  <2>2. QED
    BY <2>1, LocalStepType
<1>9. ASSUME NEW r \in Runs, Control(r), UNCHANGED <<worker, docs>>
      PROVE  TypeInv'
  <2>1. run' \in [Runs -> RunStatus]
    BY <1>9, VerdictTypes DEF Control, StartCrawlRun, PauseCrawlRun,
       ResumeCrawlRun, CancelCrawlRun, RunStatus, TypeInv, TypeOK, StoreTypeOK
  <2>2. job' \in [Jobs -> JobRow] /\ RowsKept
    <3>1. CASE job' = job
      BY <3>1 DEF TypeInv, TypeOK, StoreTypeOK, RowsKept, Exists
    <3>2. CASE CancelCrawlRun(r)
      <4>1. \A k \in Jobs : Released(k, "CANCELLED") \in JobRow
        BY ReleasedType DEF TypeInv, TypeOK, JobStatus, TerminalJobStatuses
      <4>2. QED
        BY <3>2, <4>1 DEF CancelCrawlRun, TypeInv, TypeOK, StoreTypeOK,
                          Released, Unleased, RowsKept, Exists
    <3>3. QED
      BY <1>9, <3>1, <3>2 DEF Control, StartCrawlRun, PauseCrawlRun,
                              ResumeCrawlRun
  <2>3. policy' = policy
    BY <1>9 DEF Control, StartCrawlRun, PauseCrawlRun, ResumeCrawlRun,
                CancelCrawlRun
  <2>4. StoreTypeOK'
    BY <2>1, <2>2, <2>3 DEF TypeInv, TypeOK, StoreTypeOK
  <2>5. QED
    BY <1>9, <2>2, <2>4, RowStepType
<1>10. ASSUME NEW p \in [Domains -> Expired..CrawlDelay], TimePasses(p)
       PROVE  TypeInv'
  <2>1. ASSUME NEW k \in Jobs
        PROVE  /\ [job[k] EXCEPT !.left = Sooner(@)] \in JobRow
               /\ [job[k] EXCEPT !.left = Sooner(@)].depth = job[k].depth
               /\ [job[k] EXCEPT !.left = Sooner(@)].status = job[k].status
    <3>1. job[k] \in JobRow
      BY DEF TypeInv, TypeOK, StoreTypeOK
    <3>2. Sooner(job[k].left) \in Expired..LeaseSeconds
      BY <3>1 DEF JobRow, Sooner, Expired
    <3>3. QED
      BY <3>1, <3>2 DEF JobRow
  <2>2. \A d \in Domains :
          [token |-> policy[d].token,
           left  |-> Sooner(policy[d].left),
           pause |-> p[d]] \in PolicyRow
    BY DEF TypeInv, TypeOK, StoreTypeOK, PolicyRow, Sooner, Expired
  <2>3. StoreTypeOK'
    BY <1>10, <2>1, <2>2 DEF TimePasses, TypeInv, TypeOK, StoreTypeOK
  <2>4. RowsKept
    BY <1>10, <2>1 DEF TimePasses, RowsKept, Exists
  <2>5. QED
    BY <1>10, <2>3, <2>4, RowStepType DEF TimePasses
<1>11. CASE UNCHANGED vars
  BY <1>11 DEF vars, TypeInv, TypeOK, StoreTypeOK, WorkerHoldsToken, Claimed,
               ClaimedJob, Exists
<1>12. QED
  BY <1>1, <1>2, <1>3, <1>4, <1>5, <1>6, <1>8, <1>9, <1>10, <1>11 DEF UntimedNext

\* In particular, the steps of the crawl do.
LEMMA TypeStep == TypeInv /\ [Next]_vars => TypeInv'
BY NextIsUntimed, TypeUntimed

\* Every reachable state has its declared shape.
THEOREM TypeCorrect == Spec => []TypeOK
<1>1. TypeInv => TypeOK
  BY DEF TypeInv
<1>2. QED
  BY TypeInit, TypeStep, <1>1, PTL DEF Spec

-----------------------------------------------------------------------------
(* The page budget *)

\* LIMIT n returns at most n rows: the rows are told apart by how many come
\* before them, which is one of 0 .. n-1.
LEMMA FirstByRankSize ==
  ASSUME NEW S \in SUBSET Jobs, IsFiniteSet(Jobs), NEW n \in Int
  PROVE  /\ IsFiniteSet(FirstByRank(S, n))
         /\ Cardinality(FirstByRank(S, n)) <= n \/ FirstByRank(S, n) = {}
<1> USE StoreAssumption
<1> DEFINE T == FirstByRank(S, n)
           Before(c) == {d \in S : Rank[d] < Rank[c]}
           f == [c \in T |-> Cardinality(Before(c))]
<1>1. IsFiniteSet(S) /\ T \subseteq S /\ IsFiniteSet(T)
  <2>1. IsFiniteSet(S)
    BY FS_Subset
  <2>2. T \subseteq S
    BY DEF FirstByRank
  <2>3. QED
    BY <2>1, <2>2, FS_Subset
<1>2. \A c \in S : IsFiniteSet(Before(c)) /\ Cardinality(Before(c)) \in Nat
  <2>1. \A c \in S : Before(c) \in SUBSET S
    OBVIOUS
  <2>2. QED
    BY <1>1, <2>1, FS_Subset, FS_CardinalityType
<1>3. \A c \in T : Cardinality(Before(c)) < n
  BY DEF FirstByRank
<1>4. f \in [T -> 0..(n - 1)]
  <2> HIDE DEF Before, T
  <2>1. \A c \in T : Cardinality(Before(c)) \in 0..(n - 1)
    BY <1>1, <1>2, <1>3
  <2>2. QED
    BY <2>1
<1>5. ASSUME NEW a \in T, NEW b \in T, Rank[a] < Rank[b]
      PROVE  Cardinality(Before(a)) # Cardinality(Before(b))
  <2>1. Before(a) \in SUBSET Before(b)
    BY <1>1, <1>5
  <2>2. a \in Before(b) /\ a \notin Before(a)
    BY <1>1, <1>5
  <2>3. IsFiniteSet(Before(b))
    BY <1>1, <1>2
  <2> HIDE DEF Before
  <2>4. QED
    BY <2>1, <2>2, <2>3, FS_Subset
<1>6. \A a, b \in T : f[a] = f[b] => a = b
  <2> SUFFICES ASSUME NEW a \in T, NEW b \in T, a # b
               PROVE  f[a] # f[b]
    OBVIOUS
  <2>1. Rank[a] < Rank[b] \/ Rank[b] < Rank[a]
    BY <1>1
  <2>2. QED
    BY <1>5, <2>1
<1>7. f \in Injection(T, 0..(n - 1))
  <2> HIDE DEF T, f
  <2>1. QED
    BY <1>4, <1>6 DEF Injection, IsInjective
<1> HIDE DEF T, f
<1>8. IsFiniteSet(0..(n - 1)) /\ Cardinality(0..(n - 1)) = IF 0 > n - 1 THEN 0 ELSE n
  <2>1. n - 1 \in Int
    OBVIOUS
  <2>2. /\ IsFiniteSet(0..(n - 1))
        /\ Cardinality(0..(n - 1)) = IF 0 > n - 1 THEN 0 ELSE (n - 1) - 0 + 1
    BY <2>1, FS_Interval
  <2>3. QED
    BY <2>2
<1>9. Cardinality(T) <= Cardinality(0..(n - 1))
  BY <1>7, <1>8, FS_Injection
<1>10. T = {} \/ n >= 1
  BY <1>4
<1>11. QED
  BY <1>1, <1>8, <1>9, <1>10 DEF T

-----------------------------------------------------------------------------

\* The budget is about which rows exist.
LEMMA BudgetKept ==
  ASSUME WithinPageBudget, \A k \in Jobs : Exists(k)' <=> Exists(k)
  PROVE  WithinPageBudget'
<1>1. \A r \in Runs : JobsOf(r)' = JobsOf(r)
  BY DEF JobsOf
<1>2. QED
  BY <1>1 DEF WithinPageBudget

\* A campaign begins with its seeds.
LEMMA BudgetInit == Init => WithinPageBudget
<1> SUFFICES ASSUME Init PROVE WithinPageBudget
  OBVIOUS
<1>1. \A k \in Jobs : Exists(k) <=> k \in Seeds
  BY DEF Init, StoreInit, Exists, NewJob, NoJob, Unleased
<1>2. QED
  BY <1>1, StoreAssumption DEF WithinPageBudget, JobsOf

\* An expansion counts the campaign's rows and adds no more than are left.
LEMMA BudgetEnqueue ==
  ASSUME TypeInv, WithinPageBudget, NEW parent \in Jobs, NEW S \in SUBSET Jobs,
         \A k \in S : RunOf[k] = RunOf[parent],
         EnqueueDiscoveredLinks(parent, S)
  PROVE  WithinPageBudget'
<1> USE StoreAssumption, FrontierAssumption
<1> DEFINE N == NewChildren(parent, S)
           r == RunOf[parent]
           J == JobsOf(r)
<1>1. IsFiniteSet(J) /\ Cardinality(J) \in Nat
  <2>1. J \in SUBSET Jobs
    BY DEF JobsOf
  <2>2. QED
    BY <2>1, FS_Subset, FS_CardinalityType
<1>2. /\ N \subseteq S /\ \A k \in N : ~Exists(k)
      /\ IsFiniteSet(N)
      /\ N = {} \/ Cardinality(N) <= MaxPages - Cardinality(J)
  <2> DEFINE C == {c \in S : ~Exists(c)}
  <2>1. C \in SUBSET Jobs /\ RemainingCapacity(r) \in Int
    BY <1>1 DEF RemainingCapacity
  <2>2. CASE Expandable(parent)
    <3>1. N = FirstByRank(C, RemainingCapacity(r))
      BY <2>2 DEF NewChildren
    <3>2. N \subseteq C
      BY <3>1 DEF FirstByRank
    <3> HIDE DEF N, C
    <3>3. /\ IsFiniteSet(N)
          /\ Cardinality(N) <= RemainingCapacity(r) \/ N = {}
      BY <2>1, <3>1, FirstByRankSize
    <3>4. QED
      BY <3>2, <3>3 DEF RemainingCapacity, C
  <2>3. CASE ~Expandable(parent)
    BY <2>3, FS_EmptySet DEF NewChildren
  <2>4. QED
    BY <2>2, <2>3
<1>3. \A k \in Jobs : Exists(k)' <=> Exists(k) \/ k \in N
  BY DEF EnqueueDiscoveredLinks, Exists, NewJob, Unleased
<1> HIDE DEF N
<1>4. CASE N = {}
  BY <1>3, <1>4, BudgetKept
<1>5. CASE N # {}
  <2>1. \A q \in Runs \ {r} : JobsOf(q)' = JobsOf(q)
    BY <1>2, <1>3 DEF JobsOf
  <2>2. J' = J \cup N
    BY <1>2, <1>3 DEF JobsOf
  <2>3. Cardinality(J \cup N) <= MaxPages
    <3>1. J \cap N = {}
      BY <1>2 DEF JobsOf
    <3> HIDE DEF J
    <3>2. Cardinality(J \cup N) =
            Cardinality(J) + Cardinality(N) - Cardinality(J \cap N)
      BY <1>1, <1>2, FS_Union
    <3>3. Cardinality(J \cap N) = 0
      BY <3>1, FS_EmptySet
    <3>4. Cardinality(N) \in Nat
      BY <1>2, FS_CardinalityType
    <3>5. QED
      BY <1>1, <1>2, <1>5, <3>2, <3>3, <3>4
  <2>4. QED
    BY <2>1, <2>2, <2>3 DEF WithinPageBudget
<1>6. QED
  BY <1>4, <1>5

\* A report or a cancellation gives a row of the frontier another status.
LEMMA ReleasedExists ==
  ASSUME NEW j, NEW s, s # "ABSENT"
  PROVE  Released(j, s).status # "ABSENT"
BY DEF Released, Unleased

\* Only an expansion adds rows.
LEMMA BudgetUntimed ==
  TypeInv /\ WithinPageBudget /\ [UntimedNext]_vars => WithinPageBudget'
<1> SUFFICES ASSUME TypeInv, WithinPageBudget, [UntimedNext]_vars
             PROVE  WithinPageBudget'
  OBVIOUS
<1> USE StoreAssumption
<1>0. /\ \A w \in Workers : worker[w].pc \in Working => ClaimedJob(w) \in Jobs
      /\ job \in [Jobs -> JobRow]
  BY DEF TypeInv, TypeOK, StoreTypeOK, WorkerHoldsToken, Tokens, ClaimedJob
<1>1. ASSUME NEW w \in Workers, NEW j \in Jobs, NEW left, Leases(w, j, left)
      PROVE  WithinPageBudget'
  <2>1. Exists(j)
    BY <1>1 DEF Leases, Open, OpenJobStatuses, Exists
  <2>2. \A k \in Jobs : Exists(k)' <=> Exists(k)
    BY <1>0, <1>1, <2>1 DEF Leases, ClaimRow, Exists
  <2>3. QED
    BY <2>2, BudgetKept
<1>2. ASSUME NEW w \in Workers, NEW n, Settles(w, n) PROVE WithinPageBudget'
  <2> DEFINE j == ClaimedJob(w)
  <2>1. j \in Jobs /\ job[j].status = "LEASED"
    BY <1>0, <1>2 DEF Settles, Working
  <2>2. /\ ReportedStatus(w) # "ABSENT"
        /\ job' = [job EXCEPT ![j] = Released(j, ReportedStatus(w))]
    BY <1>2 DEF Settles, ReportedStatus, FailureStatus
  <2> HIDE DEF j
  <2>3. \A k \in Jobs : Exists(k)' <=> Exists(k)
    BY <1>0, <2>1, <2>2, ReleasedExists DEF Exists
  <2>4. QED
    BY <2>3, BudgetKept
<1>3. ASSUME NEW w \in Workers, ExpandFrontier(w) PROVE WithinPageBudget'
  <2>1. PICK S \in Selections(ClaimedJob(w)) :
          EnqueueDiscoveredLinks(ClaimedJob(w), S)
    BY <1>3 DEF ExpandFrontier
  <2>2. ClaimedJob(w) \in Jobs
    BY <1>0, <1>3 DEF ExpandFrontier, Working
  <2>3. S \in SUBSET Jobs /\ \A k \in S : RunOf[k] = RunOf[ClaimedJob(w)]
    BY DEF Selections
  <2>4. QED
    BY <2>1, <2>2, <2>3, BudgetEnqueue
<1>4. ASSUME NEW r \in Runs, Control(r) PROVE WithinPageBudget'
  <2>1. CASE CancelCrawlRun(r)
    <3>1. \A k \in Jobs : \/ job'[k] = job[k]
                          \/ CancelledJob(k) /\ job'[k] = Released(k, "CANCELLED")
      BY <2>1 DEF CancelCrawlRun
    <3>2. \A k \in Jobs : Exists(k)' <=> Exists(k)
      BY <3>1, ReleasedExists DEF Exists, CancelledJob
    <3>3. QED
      BY <3>2, BudgetKept
  <2>2. CASE StartCrawlRun(r) \/ PauseCrawlRun(r) \/ ResumeCrawlRun(r)
    <3>1. job' = job
      BY <2>2 DEF StartCrawlRun, PauseCrawlRun, ResumeCrawlRun
    <3>2. QED
      BY <3>1, BudgetKept DEF Exists
  <2>3. QED
    BY <1>4, <2>1, <2>2 DEF Control
<1>5. ASSUME NEW p, TimePasses(p) PROVE WithinPageBudget'
  <2>1. \A k \in Jobs : job'[k].status = job[k].status
    BY <1>0, <1>5 DEF TimePasses, JobRow
  <2>2. QED
    BY <2>1, BudgetKept DEF Exists
<1>6. ASSUME NEW w \in Workers,
             \/ FetchPage(w) \/ PersistDocument(w) \/ ExpansionFails(w)
             \/ Stops(w) \/ Restart(w)
      PROVE  WithinPageBudget'
  <2>1. job' = job
    BY <1>6 DEF FetchPage, PersistDocument, ExpansionFails, Stops, Restart, storeVars
  <2>2. QED
    BY <2>1, BudgetKept DEF Exists
<1>7. CASE UNCHANGED vars
  <2>1. job' = job
    BY <1>7 DEF vars, storeVars
  <2>2. QED
    BY <2>1, BudgetKept DEF Exists
<1>8. QED
  BY <1>1, <1>2, <1>3, <1>4, <1>5, <1>6, <1>7 DEF UntimedNext

\* In particular, no step of the crawl does.
LEMMA BudgetStep == TypeInv /\ WithinPageBudget /\ [Next]_vars => WithinPageBudget'
BY NextIsUntimed, BudgetUntimed

\* However many workers expand pages of a campaign at once, its frontier never
\* outgrows its page budget, unless its seeds alone did.
THEOREM BudgetKeptAlways == Spec => []WithinPageBudget
<1>1. Init => TypeInv /\ WithinPageBudget
  BY TypeInit, BudgetInit
<1>2. TypeInv /\ WithinPageBudget /\ [Next]_vars => (TypeInv /\ WithinPageBudget)'
  BY TypeStep, BudgetStep
<1>3. QED
  BY <1>1, <1>2, PTL DEF Spec

-----------------------------------------------------------------------------
(* Campaign verdicts: a verdict is given when and only when nothing is open,
   it is justified by the jobs, and a cancelled campaign keeps nothing
   claimable.                                                               *)

VerdictInv ==
  /\ FrontierShape
  /\ VerdictIsQuiescent
  /\ RunningHasOpenWork
  /\ VerdictJustified
  /\ CancelledIsDrained

\* The invariant is about statuses only.
LEMMA VerdictStutter ==
  ASSUME VerdictInv, run' = run,
         \A k \in Jobs : job'[k].status = job[k].status
  PROVE  VerdictInv'
BY StoreAssumption DEF VerdictInv, FrontierShape, VerdictIsQuiescent,
   RunningHasOpenWork, VerdictJustified, CancelledIsDrained, SomeSucceeded,
   SomeFailed, JobsOf, Exists, Open

\* A new campaign is undecided and owes its seeds.
LEMMA VerdictInit == Init => VerdictInv
<1> SUFFICES ASSUME Init PROVE VerdictInv
  OBVIOUS
<1> USE StoreAssumption DEF Init, StoreInit
<1>1. \A k \in Jobs : job[k].status = IF k \in Seeds THEN "PENDING" ELSE "ABSENT"
  BY DEF NewJob, NoJob, Unleased
<1>2. \A r \in Runs : run[r] = "PENDING"
  OBVIOUS
<1>3. FrontierShape
  BY <1>1, <1>2, SeedAssumption
     DEF FrontierShape, JobsOf, Exists, Open, OpenJobStatuses
<1>4. QED
  BY <1>1, <1>2, <1>3 DEF VerdictInv, VerdictIsQuiescent, RunningHasOpenWork,
                          VerdictJustified, CancelledIsDrained, CompletedRun

\* Leasing an open job decides nothing; its campaign has no verdict.
LEMMA VerdictClaim ==
  ASSUME TypeInv, VerdictInv, NEW w \in Workers, NEW j \in Jobs, NEW left,
         Leases(w, j, left)
  PROVE  VerdictInv'
<1> USE StoreAssumption
<1>1. /\ run[RunOf[j]] # "PENDING" /\ run' = run /\ Open(j)
      /\ job'[j].status = "LEASED"
      /\ \A k \in Jobs \ {j} : job'[k].status = job[k].status
  BY DEF Leases, ClaimRow, TypeInv, TypeOK, StoreTypeOK
<1>2. \A k \in Jobs : Exists(k)' <=> Exists(k)
  BY <1>1 DEF Exists, Open, OpenJobStatuses
<1>3. \A k \in Jobs : Open(k)' <=> Open(k)
  BY <1>1 DEF Open, OpenJobStatuses
<1>4. \A r \in Runs : JobsOf(r)' = JobsOf(r)
  BY <1>2 DEF JobsOf
<1>5. FrontierShape'
  <2>1. \A q \in Runs : run'[q] = "PENDING" => \E k \in JobsOf(q)' : Open(k)'
    BY <1>1, <1>3, <1>4 DEF VerdictInv, FrontierShape, JobsOf
  <2>2. \A k \in Jobs : job'[k].status = "LEASED" => run'[RunOf[k]] # "PENDING"
    BY <1>1 DEF VerdictInv, FrontierShape
  <2>3. QED
    BY <1>1, <1>2, <2>1, <2>2 DEF VerdictInv, FrontierShape
<1>6. (VerdictIsQuiescent /\ RunningHasOpenWork)'
  BY <1>1, <1>3, <1>4 DEF VerdictInv, VerdictIsQuiescent, RunningHasOpenWork, JobsOf
<1>7. VerdictJustified'
  BY <1>1, <1>4 DEF VerdictInv, VerdictJustified, SomeSucceeded, SomeFailed,
                    JobsOf, Open, OpenJobStatuses
<1>8. CancelledIsDrained'
  BY <1>1, <1>3, <1>4 DEF VerdictInv, CancelledIsDrained, JobsOf
<1>9. QED
  BY <1>5, <1>6, <1>7, <1>8 DEF VerdictInv

\* Job j settles with status s; its campaign's status v follows the rules of
\* complete_job and fail_job.
LEMMA VerdictSettle ==
  ASSUME TypeInv, VerdictInv, NEW j \in Jobs, job[j].status = "LEASED",
         NEW s \in {"SUCCEEDED", "FAILED", "CANCELLED", "RETRY_PENDING"},
         NEW v,
         s = "CANCELLED" <=> run[RunOf[j]] = "CANCELLED" /\ s # "SUCCEEDED",
         job' = [job EXCEPT ![j] = Released(j, s)],
         run' = [run EXCEPT ![RunOf[j]] = v],
         IF s \in {"SUCCEEDED", "FAILED"} /\ LastOpenJob(j)
                                          /\ run[RunOf[j]] = "RUNNING"
         THEN v = IF s = "SUCCEEDED" THEN "SUCCEEDED" ELSE FailureVerdict(RunOf[j])
         ELSE v = run[RunOf[j]]
  PROVE  VerdictInv'
<1> USE StoreAssumption
<1> DEFINE r == RunOf[j]
<1>1. /\ r \in Runs /\ run'[r] = v
      /\ \A q \in Runs \ {r} : run'[q] = run[q]
      /\ run[r] \in RunStatus
  BY DEF TypeInv, TypeOK, StoreTypeOK
<1>2. /\ job'[j].status = s
      /\ \A k \in Jobs \ {j} : job'[k].status = job[k].status
  BY DEF TypeInv, TypeOK, StoreTypeOK, Released, Unleased
<1>3. \A k \in Jobs : Exists(k)' <=> Exists(k)
  BY <1>2 DEF Exists
<1>4. \A q \in Runs : JobsOf(q)' = JobsOf(q)
  BY <1>3 DEF JobsOf
<1>5. j \in JobsOf(r) /\ Open(j) /\ run[r] # "PENDING"
  BY DEF JobsOf, Exists, Open, OpenJobStatuses, VerdictInv, FrontierShape
<1>6. run[r] \notin CompletedRun
  BY <1>1, <1>5 DEF VerdictInv, VerdictIsQuiescent
<1>7. \A k \in JobsOf(r) : k \in Jobs /\ job[k].status \in JobStatus
  BY DEF JobsOf, Exists, TypeInv, TypeOK, StoreTypeOK, JobRow
<1>8. LastOpenJob(j) <=> \A k \in JobsOf(r) \ {j} : ~Open(k)
  BY <1>7 DEF LastOpenJob, Open, JobStatus, OpenJobStatuses,
              TerminalJobStatuses
<1>9. FrontierShape'
  <2>1. \A k \in Jobs : job'[k].status = "LEASED" => run'[RunOf[k]] # "PENDING"
    BY <1>1, <1>2, <1>5 DEF VerdictInv, FrontierShape, FailureVerdict
  <2>2. \A k \in Jobs : job'[k].status = "CANCELLED" => run'[RunOf[k]] = "CANCELLED"
    BY <1>1, <1>2, <1>5 DEF VerdictInv, FrontierShape
  <2>3. \A q \in Runs : run'[q] = "PENDING" => \E k \in JobsOf(q)' : Open(k)'
    <3>1. run'[r] # "PENDING"
      BY <1>1, <1>5 DEF FailureVerdict
    <3>2. \A q \in Runs \ {r} : \A k \in JobsOf(q) : Open(k)' <=> Open(k)
      BY <1>2 DEF Open, JobsOf
    <3>3. QED
      BY <1>1, <1>4, <3>1, <3>2 DEF VerdictInv, FrontierShape
  <2>4. QED
    BY <1>2, <1>3, <2>1, <2>2, <2>3 DEF VerdictInv, FrontierShape
<1>10. ASSUME NEW q \in Runs \ {r}
       PROVE  /\ \A k \in JobsOf(q) : job'[k].status = job[k].status
              /\ run'[q] = run[q] /\ JobsOf(q)' = JobsOf(q)
  BY <1>1, <1>2, <1>4 DEF JobsOf
<1>11. \A k \in JobsOf(r) \ {j} : job'[k].status = job[k].status
  BY <1>2, <1>7
<1>12. VerdictIsQuiescent'
  <2>1. ASSUME NEW q \in Runs \ {r}, run'[q] \in CompletedRun,
               NEW k \in JobsOf(q)
        PROVE  ~Open(k)'
    BY <1>10, <2>1 DEF VerdictInv, VerdictIsQuiescent, Open
  <2>2. ASSUME run'[r] \in CompletedRun, NEW k \in JobsOf(r)
        PROVE  ~Open(k)'
    BY <1>1, <1>2, <1>6, <1>8, <1>11, <2>2 DEF Open, OpenJobStatuses
  <2>3. QED
    BY <1>4, <2>1, <2>2 DEF VerdictIsQuiescent
<1>13. RunningHasOpenWork'
  <2>1. ASSUME NEW q \in Runs \ {r}, run'[q] = "RUNNING"
        PROVE  \E k \in JobsOf(q) : Open(k)'
    BY <1>10, <2>1 DEF VerdictInv, RunningHasOpenWork, Open
  <2>2. ASSUME run'[r] = "RUNNING"
        PROVE  \E k \in JobsOf(r) : Open(k)'
    <3>1. CASE s = "RETRY_PENDING"
      BY <1>2, <1>5, <3>1 DEF Open, OpenJobStatuses
    <3>2. CASE s # "RETRY_PENDING"
      <4>1. run[r] = "RUNNING" /\ ~LastOpenJob(j)
        BY <1>1, <2>2, <3>2 DEF FailureVerdict
      <4>2. PICK k \in JobsOf(r) \ {j} : Open(k)
        BY <1>8, <4>1
      <4>3. QED
        BY <1>11, <4>2 DEF Open
    <3>3. QED
      BY <3>1, <3>2
  <2>3. QED
    BY <1>4, <2>1, <2>2 DEF RunningHasOpenWork
<1>14. VerdictJustified'
  <2>1. ASSUME NEW q \in Runs \ {r}
        PROVE  /\ run'[q] = run[q]
               /\ SomeSucceeded(q)' <=> SomeSucceeded(q)
               /\ SomeFailed(q)' <=> SomeFailed(q)
    BY <1>10 DEF SomeSucceeded, SomeFailed
  <2>2. /\ s = "SUCCEEDED" => SomeSucceeded(r)'
        /\ s = "FAILED" => SomeFailed(r)'
        /\ s = "FAILED" => (SomeSucceeded(r)' <=> SomeSucceeded(r))
    BY <1>2, <1>4, <1>5, <1>11 DEF SomeSucceeded, SomeFailed
  <2>3. /\ run'[r] = "SUCCEEDED" => SomeSucceeded(r)'
        /\ run'[r] = "FAILED" => SomeFailed(r)' /\ ~SomeSucceeded(r)'
        /\ run'[r] = "PARTIALLY_SUCCEEDED" => SomeFailed(r)' /\ SomeSucceeded(r)'
    BY <1>1, <1>6, <2>2 DEF FailureVerdict, CompletedRun
  <2>4. QED
    BY <2>1, <2>3 DEF VerdictInv, VerdictJustified
<1>15. CancelledIsDrained'
  <2>1. ASSUME NEW q \in Runs \ {r}, run'[q] = "CANCELLED",
               NEW k \in JobsOf(q), Open(k)'
        PROVE  job'[k].status = "LEASED"
    BY <1>10, <2>1 DEF VerdictInv, CancelledIsDrained, Open
  <2>2. ASSUME run'[r] = "CANCELLED", NEW k \in JobsOf(r), Open(k)'
        PROVE  job'[k].status = "LEASED"
    <3>1. run[r] = "CANCELLED"
      BY <1>1, <2>2 DEF FailureVerdict
    <3>2. k # j
      BY <1>2, <2>2, <3>1 DEF Open, OpenJobStatuses
    <3>3. QED
      BY <1>1, <1>11, <2>2, <3>1, <3>2 DEF VerdictInv, CancelledIsDrained, Open
  <2>3. QED
    BY <1>4, <2>1, <2>2 DEF CancelledIsDrained
<1>16. QED
  BY <1>9, <1>12, <1>13, <1>14, <1>15 DEF VerdictInv

\* Children join a campaign under way, which therefore has no verdict.
LEMMA VerdictEnqueue ==
  ASSUME TypeInv, VerdictInv, NEW parent \in Jobs, NEW S \in SUBSET Jobs,
         \A k \in S : RunOf[k] = RunOf[parent],
         EnqueueDiscoveredLinks(parent, S)
  PROVE  VerdictInv'
<1> USE StoreAssumption
<1> DEFINE N == NewChildren(parent, S)
           r == RunOf[parent]
<1>1. /\ N \subseteq S /\ \A k \in N : job[k].status = "ABSENT"
      /\ N # {} => run[r] \in {"RUNNING", "PAUSED"}
  BY DEF NewChildren, FirstByRank, Exists, Expandable
<1>2. /\ run' = run
      /\ \A k \in N : job'[k].status = "PENDING"
      /\ \A k \in Jobs \ N : job'[k].status = job[k].status
  BY <1>1 DEF EnqueueDiscoveredLinks, NewJob, Unleased
<1> HIDE DEF N
<1>3. CASE N = {}
  BY <1>2, <1>3, VerdictStutter
<1>4. CASE N # {}
  <2>1. run[r] \in {"RUNNING", "PAUSED"}
    BY <1>1, <1>4
  <2>2. \A q \in Runs : JobsOf(q) \subseteq JobsOf(q)'
    BY <1>1, <1>2 DEF JobsOf, Exists
  <2>3. \A q \in Runs \ {r} : JobsOf(q)' = JobsOf(q)
    BY <1>1, <1>2 DEF JobsOf, Exists
  <2>4. \A q \in Runs : \A k \in JobsOf(q) : job'[k].status = job[k].status
    BY <1>1, <1>2 DEF JobsOf, Exists
  <2>5. \A q \in Runs : (\E k \in JobsOf(q) : Open(k)) => \E k \in JobsOf(q)' : Open(k)'
    BY <2>2, <2>4 DEF Open
  <2>6. FrontierShape'
    <3>1. \A k \in Seeds : Exists(k)'
      BY <1>1, <1>2 DEF VerdictInv, FrontierShape, Exists
    <3>2. \A k \in Jobs : /\ job'[k].status # "SKIPPED"
                          /\ job'[k].status = "LEASED" => run'[RunOf[k]] # "PENDING"
                          /\ job'[k].status = "CANCELLED" => run'[RunOf[k]] = "CANCELLED"
      BY <1>1, <1>2 DEF VerdictInv, FrontierShape
    <3>3. \A q \in Runs : run'[q] = "PENDING" => \E k \in JobsOf(q)' : Open(k)'
      BY <1>2, <2>5 DEF VerdictInv, FrontierShape
    <3>4. QED
      BY <3>1, <3>2, <3>3 DEF FrontierShape
  <2>7. RunningHasOpenWork'
    BY <1>2, <2>5 DEF VerdictInv, RunningHasOpenWork
  <2>8. \A q \in Runs : run[q] \in CompletedRun \cup {"CANCELLED"} => q # r
    BY <2>1 DEF CompletedRun
  <2>9. VerdictIsQuiescent' /\ CancelledIsDrained'
    BY <1>2, <2>3, <2>4, <2>8
       DEF VerdictInv, VerdictIsQuiescent, CancelledIsDrained, Open
  <2>10. VerdictJustified'
    BY <1>2, <2>3, <2>4, <2>8
       DEF VerdictInv, VerdictJustified, SomeSucceeded, SomeFailed, CompletedRun
  <2>11. QED
    BY <2>6, <2>7, <2>9, <2>10 DEF VerdictInv
<1>5. QED
  BY <1>3, <1>4

\* Resuming a paused campaign gives the verdict its jobs justify.
LEMMA VerdictControl ==
  ASSUME TypeInv, VerdictInv, NEW r \in Runs, Control(r)
  PROVE  VerdictInv'
<1> USE StoreAssumption
<1>1. /\ run \in [Runs -> RunStatus] /\ job \in [Jobs -> JobRow]
      /\ \A k \in Jobs : Exists(k) => job[k].status \in JobStatus
  BY DEF TypeInv, TypeOK, StoreTypeOK, JobRow, Exists
<1>2. \A k \in Jobs : Exists(k) => (~Open(k) <=> job[k].status \in TerminalJobStatuses)
  BY <1>1 DEF Open, JobStatus, OpenJobStatuses, TerminalJobStatuses
<1>3. CASE StartCrawlRun(r) \/ PauseCrawlRun(r)
  <2>1. /\ job' = job /\ \A q \in Runs \ {r} : run'[q] = run[q]
        /\ \/ run[r] = "PENDING" /\ run'[r] = "RUNNING"
           \/ run[r] = "RUNNING" /\ run'[r] = "PAUSED"
    BY <1>1, <1>3 DEF StartCrawlRun, PauseCrawlRun
  <2>2. \A q \in Runs : JobsOf(q)' = JobsOf(q)
    BY <2>1 DEF JobsOf, Exists
  <2>3. FrontierShape'
    BY <2>1, <2>2 DEF VerdictInv, FrontierShape, Exists, Open, JobsOf
  <2>4. RunningHasOpenWork'
    BY <2>1, <2>2 DEF VerdictInv, FrontierShape, RunningHasOpenWork, Open
  <2>5. VerdictIsQuiescent' /\ CancelledIsDrained' /\ VerdictJustified'
    BY <2>1, <2>2 DEF VerdictInv, VerdictIsQuiescent, CancelledIsDrained,
       VerdictJustified, CompletedRun, SomeSucceeded, SomeFailed, Open
  <2>6. QED
    BY <2>3, <2>4, <2>5 DEF VerdictInv
<1>4. CASE ResumeCrawlRun(r)
  <2>1. /\ job' = job /\ \A q \in Runs \ {r} : run'[q] = run[q]
        /\ run[r] = "PAUSED" /\ run'[r] = ReconciledStatus(r)
    BY <1>1, <1>4 DEF ResumeCrawlRun
  <2>2. \A q \in Runs : JobsOf(q)' = JobsOf(q)
    BY <2>1 DEF JobsOf, Exists
  <2>3. JobsOf(r) # {}
    BY SeedAssumption DEF VerdictInv, FrontierShape, JobsOf
  <2>4. AllTerminal(r) <=> \A k \in JobsOf(r) : ~Open(k)
    BY <1>2, <2>3 DEF AllTerminal, JobsOf
  <2>5. AllTerminal(r) => \A k \in JobsOf(r) : job[k].status \in {"SUCCEEDED", "FAILED"}
    BY <2>1 DEF AllTerminal, TerminalJobStatuses, JobsOf, VerdictInv, FrontierShape
  <2>6. AllTerminal(r) => SomeSucceeded(r) \/ SomeFailed(r)
    BY <2>3, <2>5 DEF SomeSucceeded, SomeFailed
  <2>7. /\ SomeSucceeded(r) <=> HasStatus(r, "SUCCEEDED")
        /\ SomeFailed(r) <=> HasStatus(r, "FAILED")
    BY DEF SomeSucceeded, SomeFailed, HasStatus
  <2>8. FrontierShape'
    <3>1. run'[r] \notin {"PENDING", "CANCELLED"}
      BY <2>1 DEF ReconciledStatus
    <3>2. QED
      BY <2>1, <2>2, <3>1 DEF VerdictInv, FrontierShape, Exists, Open, JobsOf
  <2>9. RunningHasOpenWork'
    <3>1. run'[r] = "RUNNING" => ~AllTerminal(r)
      BY <2>1 DEF ReconciledStatus
    <3>2. QED
      BY <2>1, <2>2, <2>4, <3>1 DEF VerdictInv, RunningHasOpenWork, Open
  <2>10. VerdictIsQuiescent'
    <3>1. run'[r] \in CompletedRun => AllTerminal(r)
      BY <2>1 DEF ReconciledStatus, CompletedRun
    <3>2. QED
      BY <2>1, <2>2, <2>4, <3>1 DEF VerdictInv, VerdictIsQuiescent, Open
  <2>11. VerdictJustified'
    <3>1. /\ run'[r] = "SUCCEEDED" => SomeSucceeded(r)
          /\ run'[r] = "FAILED" => SomeFailed(r) /\ ~SomeSucceeded(r)
          /\ run'[r] = "PARTIALLY_SUCCEEDED" => SomeFailed(r) /\ SomeSucceeded(r)
      BY <2>1, <2>6, <2>7 DEF ReconciledStatus
    <3>2. QED
      BY <2>1, <2>2, <3>1 DEF VerdictInv, VerdictJustified, SomeSucceeded, SomeFailed
  <2>12. CancelledIsDrained'
    BY <2>1, <2>2 DEF VerdictInv, CancelledIsDrained, ReconciledStatus, Open
  <2>13. QED
    BY <2>8, <2>9, <2>10, <2>11, <2>12 DEF VerdictInv
<1>5. CASE CancelCrawlRun(r)
  <2>1. /\ run'[r] = "CANCELLED" /\ \A q \in Runs \ {r} : run'[q] = run[q]
        /\ run[r] \in {"PENDING", "RUNNING", "PAUSED"}
    BY <1>1, <1>5 DEF CancelCrawlRun, Cancellable
  <2>2. \A k \in Jobs : job'[k].status =
          IF RunOf[k] = r /\ job[k].status \in {"PENDING", "RETRY_PENDING"}
          THEN "CANCELLED" ELSE job[k].status
    BY <1>5 DEF CancelCrawlRun, CancelledJob, Released, Unleased
  <2>3. \A k \in Jobs : Exists(k)' <=> Exists(k)
    BY <2>2 DEF Exists
  <2>4. \A q \in Runs : JobsOf(q)' = JobsOf(q)
    BY <2>3 DEF JobsOf
  <2>5. \A q \in Runs \ {r} : \A k \in JobsOf(q) : job'[k].status = job[k].status
    BY <2>2 DEF JobsOf
  <2>6. FrontierShape'
    <3>1. \A k \in Jobs : /\ job'[k].status # "SKIPPED"
                          /\ job'[k].status = "LEASED" => run'[RunOf[k]] # "PENDING"
                          /\ job'[k].status = "CANCELLED" => run'[RunOf[k]] = "CANCELLED"
      BY <2>1, <2>2 DEF VerdictInv, FrontierShape
    <3>2. \A q \in Runs : run'[q] = "PENDING" => \E k \in JobsOf(q)' : Open(k)'
      BY <2>1, <2>4, <2>5 DEF VerdictInv, FrontierShape, Open
    <3>3. QED
      BY <2>3, <3>1, <3>2 DEF VerdictInv, FrontierShape
  <2>7. RunningHasOpenWork'
    BY <2>1, <2>4, <2>5 DEF VerdictInv, RunningHasOpenWork, Open
  <2>8. VerdictIsQuiescent'
    BY <2>1, <2>4, <2>5 DEF VerdictInv, VerdictIsQuiescent, CompletedRun, Open
  <2>9. VerdictJustified'
    BY <2>1, <2>4, <2>5 DEF VerdictInv, VerdictJustified, SomeSucceeded, SomeFailed
  <2>10. CancelledIsDrained'
    <3>1. \A k \in JobsOf(r) : Open(k)' => job'[k].status = "LEASED"
      BY <2>2 DEF Open, OpenJobStatuses, JobsOf
    <3>2. QED
      BY <2>1, <2>4, <2>5, <3>1 DEF VerdictInv, CancelledIsDrained, Open
  <2>11. QED
    BY <2>6, <2>7, <2>8, <2>9, <2>10 DEF VerdictInv
<1>6. QED
  BY <1>3, <1>4, <1>5 DEF Control

\* Every step of the crawl preserves the verdicts.
LEMMA VerdictUntimed == TypeInv /\ VerdictInv /\ [UntimedNext]_vars => VerdictInv'
<1> SUFFICES ASSUME TypeInv, VerdictInv, [UntimedNext]_vars
             PROVE  VerdictInv'
  OBVIOUS
<1> USE StoreAssumption
<1>0. \A w \in Workers : worker[w].pc \in Working => ClaimedJob(w) \in Jobs
  BY DEF TypeInv, WorkerHoldsToken, Tokens, ClaimedJob
<1>1. ASSUME NEW w \in Workers, NEW j \in Jobs, NEW left, Leases(w, j, left)
      PROVE  VerdictInv'
  BY <1>1, VerdictClaim
<1>2. ASSUME NEW w \in Workers, NEW n, Settles(w, n) PROVE VerdictInv'
  <2> DEFINE j == ClaimedJob(w)
             s == ReportedStatus(w)
             v == ReportedVerdict(w)
  <2>1. /\ j \in Jobs
        /\ job[j].status = "LEASED"
        /\ job' = [job EXCEPT ![j] = Released(j, s)]
        /\ run' = [run EXCEPT ![RunOf[j]] = v]
    BY <1>0, <1>2 DEF Settles, Working
  <2>2. /\ s \in {"SUCCEEDED", "FAILED", "CANCELLED", "RETRY_PENDING"}
        /\ s = "CANCELLED" <=> run[RunOf[j]] = "CANCELLED" /\ s # "SUCCEEDED"
        /\ s = "SUCCEEDED" <=> worker[w].pc = "complete"
    BY DEF ReportedStatus, FailureStatus
  <2>3. IF s \in {"SUCCEEDED", "FAILED"} /\ LastOpenJob(j) /\ run[RunOf[j]] = "RUNNING"
        THEN v = IF s = "SUCCEEDED" THEN "SUCCEEDED" ELSE FailureVerdict(RunOf[j])
        ELSE v = run[RunOf[j]]
    BY <2>2 DEF ReportedVerdict
  <2> HIDE DEF j, s, v
  <2>4. QED
    BY <2>1, <2>2, <2>3, VerdictSettle
<1>4. ASSUME NEW w \in Workers, ExpandFrontier(w) PROVE VerdictInv'
  <2>1. ClaimedJob(w) \in Jobs
    BY <1>0, <1>4 DEF ExpandFrontier, Working
  <2>2. PICK S \in Selections(ClaimedJob(w)) :
          EnqueueDiscoveredLinks(ClaimedJob(w), S)
    BY <1>4 DEF ExpandFrontier
  <2>3. S \in SUBSET Jobs /\ \A k \in S : RunOf[k] = RunOf[ClaimedJob(w)]
    BY DEF Selections
  <2>4. QED
    BY <2>1, <2>2, <2>3, VerdictEnqueue
<1>5. ASSUME NEW r \in Runs, Control(r) PROVE VerdictInv'
  BY <1>5, VerdictControl
<1>6. ASSUME NEW p, TimePasses(p) PROVE VerdictInv'
  <2>1. ASSUME NEW k \in Jobs PROVE job'[k].status = job[k].status
    <3>1. job[k] \in JobRow
      BY DEF TypeInv, TypeOK, StoreTypeOK
    <3>2. QED
      BY <1>6, <3>1 DEF TimePasses, JobRow, Expired
  <2>2. QED
    BY <1>6, <2>1, VerdictStutter DEF TimePasses
<1>7. CASE UNCHANGED <<run, job>>
  BY <1>7, VerdictStutter
<1>8. QED
  BY <1>1, <1>2, <1>4, <1>5, <1>6, <1>7
     DEF UntimedNext, FetchPage, PersistDocument, ExpansionFails, Stops, Restart,
         storeVars, vars

\* In particular, the steps of the crawl do.
LEMMA VerdictStep == TypeInv /\ VerdictInv /\ [Next]_vars => VerdictInv'
BY NextIsUntimed, VerdictUntimed

\* The verdict of a campaign, and its cancellation, stand for what its jobs
\* did, in every reachable state.
THEOREM VerdictInvariance == Spec => []VerdictInv
<1>1. Init => TypeInv /\ VerdictInv
  BY TypeInit, VerdictInit
<1>2. TypeInv /\ VerdictInv /\ [Next]_vars => (TypeInv /\ VerdictInv)'
  BY TypeStep, VerdictStep
<1>3. QED
  BY <1>1, <1>2, PTL DEF Spec

\* A campaign that got its verdict keeps no open job, and no late worker gives
\* it one.
THEOREM DecidedIsQuiescent == Spec => []VerdictIsQuiescent
<1>1. VerdictInv => VerdictIsQuiescent
  BY DEF VerdictInv
<1>2. QED
  BY <1>1, VerdictInvariance, PTL

\* A verdict is given as soon as nothing is open: no order of reports, pauses
\* and resumes leaves a campaign RUNNING without work.
THEOREM RunningOwesWork == Spec => []RunningHasOpenWork
<1>1. VerdictInv => RunningHasOpenWork
  BY DEF VerdictInv
<1>2. QED
  BY <1>1, VerdictInvariance, PTL

\* The verdict given, by a report or on resuming, is the one the jobs justify.
THEOREM VerdictsSound == Spec => []VerdictJustified
<1>1. VerdictInv => VerdictJustified
  BY DEF VerdictInv
<1>2. QED
  BY <1>1, VerdictInvariance, PTL

\* A cancelled campaign keeps no job that a worker could still claim, and a
\* report of one that was leased puts none back.
THEOREM CancelledDrains == Spec => []CancelledIsDrained
<1>1. VerdictInv => CancelledIsDrained
  BY DEF VerdictInv
<1>2. QED
  BY <1>1, VerdictInvariance, PTL

=============================================================================
