---------------------------- MODULE CrawlSystem ----------------------------
(***************************************************************************)
(* The crawl as a whole: workers running crawler/worker_runtime.py's        *)
(* process_next_job against the shared rows while the control plane starts, *)
(* pauses, resumes and cancels campaigns, the clock runs, and processes     *)
(* die.  Every database transaction is one step; between the steps of one   *)
(* worker anything else may happen, so a worker acts on the job id and the  *)
(* lease token it remembers from its claim.                                 *)
(***************************************************************************)
EXTENDS JobFinalization, FrontierPersistence, CampaignControl

CONSTANTS
  MaxSelected,  \* MAX_FRONTIER_SELECTED_URLS, 12 in the code
  Timely,       \* TRUE: no lease runs out under a worker that is still working
  MayCrash      \* TRUE: worker processes may die in the middle of a job

ASSUME SystemAssumption ==
  MaxSelected \in Nat /\ Timely \in BOOLEAN /\ MayCrash \in BOOLEAN

VARIABLES
  worker,   \* worker[w]: where the process is, and the token it claimed
  docs      \* the jobs that have a crawled_document row

vars == <<run, job, policy, worker, docs>>

\* The stages of process_next_job; a "down" process has ended.
Working == {"fetch", "persist", "expand", "complete", "fail"}

WorkerState == [pc : Working \cup {"idle", "down"}, token : Tokens \cup {Null}]

Idle == [pc |-> "idle", token |-> Null]
Down == [pc |-> "down", token |-> Null]

Init ==
  /\ StoreInit
  /\ worker = [w \in Workers |-> Idle]
  /\ docs = {}

Claimed(w) == worker[w].token
ClaimedJob(w) == Claimed(w)[1]

Goto(w, stage) == worker' = [worker EXCEPT ![w].pc = stage]

-----------------------------------------------------------------------------
(* The worker's steps *)

\* Lease a job; the network work starts after this transaction commits.
Claim(w, j) ==
  /\ worker[w].pc = "idle"
  /\ ClaimNextJob(w, j)
  /\ worker' = [worker EXCEPT ![w] = [pc |-> "fetch", token |-> FreshToken(j)]]
  /\ UNCHANGED docs

\* The fetch succeeds, or raises and is reported by fail_job.
FetchPage(w) ==
  /\ worker[w].pc = "fetch"
  /\ \E stage \in {"persist", "fail"} : Goto(w, stage)
  /\ UNCHANGED <<storeVars, docs>>

\* Mutated form of AfterPersist: the write is skipped, the job goes on.
AfterPersistUnsaved(w) == docs

\* The document rows once the page of w's job is saved (a job has one row).
AfterPersist(w) == docs \cup {ClaimedJob(w)}

PersistDocument(w) ==
  /\ worker[w].pc = "persist"
  /\ \/ /\ docs' = AfterPersist(w)
        /\ Goto(w, IF job[ClaimedJob(w)].depth = 0 THEN "expand" ELSE "complete")
     \/ docs' = docs /\ Goto(w, "fail")
  /\ UNCHANGED storeVars

\* Links of a root page: any other URLs of the campaign, at most as many as
\* the selector may return.
Selections(j) ==
  {S \in SUBSET {k \in Jobs \ {j} : RunOf[k] = RunOf[j]} :
     Cardinality(S) <= MaxSelected /\ Cardinality(S) <= MaxPages - 1}

\* Discovery and enqueue.  The empty selection is a page that is not HTML, a
\* campaign without a research intent, a page without links, and a selector
\* that raised: nothing is enqueued and the job completes.
ExpandFrontier(w) ==
  /\ worker[w].pc = "expand"
  /\ \E S \in Selections(ClaimedJob(w)) :
       EnqueueDiscoveredLinks(ClaimedJob(w), S)
  /\ Goto(w, "complete")
  /\ UNCHANGED docs

\* Discovery or the enqueue transaction raised.
ExpansionFails(w) ==
  /\ worker[w].pc = "expand"
  /\ Goto(w, "fail")
  /\ UNCHANGED <<storeVars, docs>>

Complete(w) ==
  /\ worker[w].pc = "complete"
  /\ CompleteJob(w, Claimed(w))
  /\ worker' = [worker EXCEPT ![w] = Idle]
  /\ UNCHANGED docs

Fail(w) ==
  /\ worker[w].pc = "fail"
  /\ FailJob(w, Claimed(w))
  /\ worker' = [worker EXCEPT ![w] = Idle]
  /\ UNCHANGED docs

\* LeaseLostError is caught nowhere: it ends the worker's loop and process.
LoseLease(w) ==
  /\ worker[w].pc \in {"complete", "fail"}
  /\ ~OwnsLiveLease(w, Claimed(w))
  /\ worker' = [worker EXCEPT ![w] = Down]
  /\ UNCHANGED <<storeVars, docs>>

\* The process dies, or any call it makes raises outside the handlers.
Crash(w) ==
  /\ MayCrash
  /\ worker[w].pc \in Working
  /\ worker' = [worker EXCEPT ![w] = Down]
  /\ UNCHANGED <<storeVars, docs>>

\* A new process takes over the worker id; it remembers nothing.
Restart(w) ==
  /\ worker[w].pc = "down"
  /\ worker' = [worker EXCEPT ![w] = Idle]
  /\ UNCHANGED <<storeVars, docs>>

-----------------------------------------------------------------------------
(* The clock *)

Sooner(t) == IF t > Expired THEN t - 1 ELSE t

\* Time passes for every stored timestamp.
Tick ==
  /\ \/ \E j \in Jobs : job[j].left > Expired
     \/ \E d \in Domains : policy[d].left > Expired \/ policy[d].pause > 0
  /\ Timely => \A w \in Workers :
                 worker[w].pc \in Working => job[ClaimedJob(w)].left > 1
  /\ job' = [j \in Jobs |-> [job[j] EXCEPT !.left = Sooner(@)]]
  /\ policy' = [d \in Domains |->
                  [token |-> policy[d].token,
                   left  |-> Sooner(policy[d].left),
                   pause |-> IF policy[d].pause > 0 THEN policy[d].pause - 1
                                                    ELSE 0]]
  /\ UNCHANGED <<run, worker, docs>>

-----------------------------------------------------------------------------

WorkerStep(w) ==
  \/ FetchPage(w)
  \/ PersistDocument(w)
  \/ ExpandFrontier(w)
  \/ ExpansionFails(w)
  \/ Complete(w)
  \/ Fail(w)
  \/ LoseLease(w)

Control(r) ==
  \/ StartCrawlRun(r)
  \/ PauseCrawlRun(r)
  \/ ResumeCrawlRun(r)
  \/ CancelCrawlRun(r)

Next ==
  \/ \E w \in Workers : \/ \E j \in Jobs : Claim(w, j)
                        \/ WorkerStep(w)
                        \/ Crash(w)
                        \/ Restart(w)
  \/ \E r \in Runs : Control(r) /\ UNCHANGED <<worker, docs>>
  \/ Tick

Spec == Init /\ [][Next]_vars

\* Workers poll, their processes keep running and are replaced when they end,
\* and time passes.  Nobody is obliged to start, pause, resume or cancel.
Fairness ==
  /\ WF_vars(Tick)
  /\ \A w \in Workers : /\ WF_vars(\E j \in Jobs : Claim(w, j))
                        /\ WF_vars(WorkerStep(w))
                        /\ WF_vars(Restart(w))

FairSpec == Spec /\ Fairness

=============================================================================
