-------------------------- MODULE CampaignControl --------------------------
(***************************************************************************)
(* api/routers/crawl_runs.py: the control plane's lifecycle transactions.   *)
(* Each locks the campaign row and either moves it or answers 409; repeats  *)
(* that only publish another wake-up leave the rows as they are.            *)
(***************************************************************************)
EXTENDS CampaignStore

StartCrawlRun(r) ==
  /\ run[r] = "PENDING"
  /\ run' = [run EXCEPT ![r] = "RUNNING"]
  /\ UNCHANGED <<job, policy>>

PauseCrawlRun(r) ==
  /\ run[r] = "RUNNING"
  /\ run' = [run EXCEPT ![r] = "PAUSED"]
  /\ UNCHANGED <<job, policy>>

AllTerminal(r) ==
  /\ JobsOf(r) # {}
  /\ \A j \in JobsOf(r) : job[j].status \in TerminalJobStatuses

HasStatus(r, s) == \E j \in JobsOf(r) : job[j].status = s

\* Mutated form of ReconciledStatus: resume always returns to RUNNING.
ReconciledAsRunning(r) == "RUNNING"

\* reconcile_paused_campaign_on_resume: the status a paused campaign resumes to.
ReconciledStatus(r) ==
  CASE ~AllTerminal(r) -> "RUNNING"
    [] AllTerminal(r) /\ ~HasStatus(r, "FAILED") -> "SUCCEEDED"
    [] AllTerminal(r) /\ HasStatus(r, "FAILED") /\ HasStatus(r, "SUCCEEDED")
         -> "PARTIALLY_SUCCEEDED"
    [] OTHER -> "FAILED"

ResumeCrawlRun(r) ==
  /\ run[r] = "PAUSED"
  /\ run' = [run EXCEPT ![r] = ReconciledStatus(r)]
  /\ UNCHANGED <<job, policy>>

\* Mutated form of CancelledJob: retries in waiting stay.
CancelledPendingJob(j) == job[j].status = "PENDING"

\* The jobs a cancellation takes back; a leased job is left to its worker.
CancelledJob(j) == job[j].status \in {"PENDING", "RETRY_PENDING"}

Cancellable(r) == run[r] \in {"PENDING", "RUNNING", "PAUSED"}

CancelCrawlRun(r) ==
  /\ Cancellable(r)
  /\ run' = [run EXCEPT ![r] = "CANCELLED"]
  /\ job' = [j \in Jobs |-> IF RunOf[j] = r /\ CancelledJob(j)
                            THEN Released(j, "CANCELLED")
                            ELSE job[j]]
  /\ UNCHANGED policy

=============================================================================
