--------------------------- MODULE JobFinalization ---------------------------
(***************************************************************************)
(* crawler/job_finalization.py and crawler/job_failure.py: the two          *)
(* transactions by which the worker that still owns a live lease reports    *)
(* its attempt, and by which the last open job decides its campaign.        *)
(***************************************************************************)
EXTENDS JobLeasing

\* Mutated form of OwnsLiveLease: the row is not read at all.
OwnsUnchecked(w, t) == TRUE

\* The lease check both transactions start with; t is the claimed token.
OwnsLiveLease(w, t) ==
  LET row == job[t[1]]
  IN  /\ row.status = "LEASED"
      /\ row.owner = w
      /\ row.token = t
      /\ row.left > 0

\* Mutated form of LastOpenJob: never recognised.
NeverLastJob(j) == FALSE

\* The count of non-terminal jobs is zero once j itself is terminal.
LastOpenJob(j) ==
  \A k \in JobsOf(RunOf[j]) \ {j} : job[k].status \in TerminalJobStatuses

SomeSucceeded(r) == \E k \in JobsOf(r) : job[k].status = "SUCCEEDED"
SomeFailed(r) == \E k \in JobsOf(r) : job[k].status = "FAILED"

\* job_finalization.complete_job.  The failures of sibling jobs are not read.
CompleteJob(w, t) ==
  LET j == t[1]
      r == RunOf[j]
  IN  /\ OwnsLiveLease(w, t)
      /\ policy' = ReleaseDomainLease(DomainOf[j], t)
      /\ job' = [job EXCEPT ![j] = Released(j, "SUCCEEDED")]
      /\ run' = [run EXCEPT ![r] =
                   IF LastOpenJob(j) /\ @ = "RUNNING" THEN "SUCCEEDED" ELSE @]

\* Mutated form of FailureStatus: a cancelled campaign's job is retried.
FailureStatusRetried(j) ==
  IF job[j].attempts < MaxAttempts THEN "RETRY_PENDING" ELSE "FAILED"

\* What a failed attempt of job j leaves behind.
FailureStatus(j) ==
  CASE run[RunOf[j]] = "CANCELLED" -> "CANCELLED"
    [] run[RunOf[j]] # "CANCELLED" /\ job[j].attempts < MaxAttempts
         -> "RETRY_PENDING"
    [] OTHER -> "FAILED"

\* Mutated form of FailureVerdict: siblings are not consulted.
FailureVerdictBlind(r) == "FAILED"

\* The verdict on a campaign whose last open job has just failed for good.
FailureVerdict(r) ==
  IF SomeSucceeded(r) THEN "PARTIALLY_SUCCEEDED" ELSE "FAILED"

\* job_failure.fail_job.
FailJob(w, t) ==
  LET j == t[1]
      r == RunOf[j]
  IN  /\ OwnsLiveLease(w, t)
      /\ policy' = ReleaseDomainLease(DomainOf[j], t)
      /\ job' = [job EXCEPT ![j] = Released(j, FailureStatus(j))]
      /\ run' = [run EXCEPT ![r] =
                   IF /\ FailureStatus(j) = "FAILED"
                      /\ LastOpenJob(j)
                      /\ @ = "RUNNING"
                   THEN FailureVerdict(r)
                   ELSE @]

=============================================================================
