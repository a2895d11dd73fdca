-------------------------- MODULE WorkerHeartbeats --------------------------
(***************************************************************************)
(* The life of worker processes and the heartbeat rows they leave behind    *)
(* (crawler/worker_loop.py, worker_service.py, worker_heartbeats.py).  A    *)
(* generated id belongs to one process; an explicit WORKER_ID to one process*)
(* after another, each starting when the last has ended.  No decision reads *)
(* these rows: what a claim leases is CrawlSystem's matter.                 *)
(***************************************************************************)
EXTENDS Naturals

CONSTANTS
  Processes,    \* process lifetimes
  WorkerIds,    \* worker_id of the heartbeat rows
  IdOf,         \* the id a process is given or generates
  Leasable,     \* jobs it may lease
  NoJob         \* no current job

ASSUME HeartbeatAssumption ==
  /\ IdOf \in [Processes -> WorkerIds]
  /\ NoJob \notin Leasable

VARIABLES
  process,      \* process[p]: where it is, its job, whether an error ends it,
                \* and (history) whether it has written its row since it began
  heartbeat     \* heartbeat[i]: the row of worker i

heartbeatVars == <<process, heartbeat>>

HeartbeatInit ==
  /\ process = [p \in Processes |-> [at |-> "new", job |-> NoJob,
                                     failed |-> FALSE, reported |-> FALSE]]
  /\ heartbeat = [i \in WorkerIds |-> [status |-> "ABSENT", job |-> NoJob]]

Running == {"poll", "claimed", "working", "leaving", "stopping"}

\* Process p goes on at another point, its job and its error kept.
Moves(p, at) == process' = [process EXCEPT ![p].at = at]

-----------------------------------------------------------------------------
(* The three writes *)

\* Mutated form of Registered: a row that is there is only refreshed.
RegisteredOnce(row) ==
  IF row.status = "ABSENT" THEN [status |-> "STARTING", job |-> NoJob] ELSE row

\* register_worker: a new row, a new lifetime after a clean stop, or a refresh
\* that keeps whatever the row says.
Registered(row) ==
  IF row.status \in {"ABSENT", "STOPPED"}
  THEN [status |-> "STARTING", job |-> NoJob]
  ELSE row

\* record_heartbeat: PROCESSING with a job, or IDLE without one.
RecordHeartbeat(p, status, j) ==
  heartbeat' = [heartbeat EXCEPT ![IdOf[p]] = [status |-> status, job |-> j]]

StopWorker(p) == RecordHeartbeat(p, "STOPPED", NoJob)

-----------------------------------------------------------------------------
(* A process *)

\* The loop begins; an error in registering ends it with nothing written.
Begins(p) ==
  /\ process[p].at = "new"
  /\ \A q \in Processes : IdOf[q] = IdOf[p] => process[q].at \notin Running
  /\ \/ /\ heartbeat' = [heartbeat EXCEPT ![IdOf[p]] = Registered(@)]
        /\ Moves(p, "poll")
     \/ UNCHANGED heartbeat /\ Moves(p, "gone")

\* process_next_job leases a job, or finds none: an idle cycle.
LeasesJob(p) ==
  /\ process[p].at = "poll"
  /\ \E j \in Leasable : process' = [process EXCEPT ![p].at = "claimed", ![p].job = j]
  /\ UNCHANGED heartbeat

FindsNothing(p) ==
  /\ process[p].at = "poll"
  /\ Moves(p, "leaving")
  /\ UNCHANGED heartbeat

\* on_job_claimed; an error in it ends the cycle with the job still leased.
ReportsProcessing(p) ==
  /\ process[p].at = "claimed"
  /\ \/ /\ RecordHeartbeat(p, "PROCESSING", process[p].job)
        /\ process' = [process EXCEPT ![p].at = "working", ![p].reported = TRUE]
     \/ /\ process' = [process EXCEPT ![p].at = "leaving", ![p].failed = TRUE]
        /\ UNCHANGED heartbeat

\* The cycle is over; a lost lease is one of the errors nobody catches.
EndsCycle(p) ==
  /\ process[p].at = "working"
  /\ \E error \in BOOLEAN :
       process' = [process EXCEPT ![p].at = "leaving", ![p].failed = error]
  /\ UNCHANGED heartbeat

\* The finally of the cycle, whatever its outcome.
ReportsIdle(p) ==
  /\ process[p].at = "leaving"
  /\ \/ /\ RecordHeartbeat(p, "IDLE", NoJob)
        /\ process' = [process EXCEPT ![p] =
                         [at |-> IF @.failed THEN "stopping" ELSE "poll",
                          job |-> NoJob, failed |-> @.failed, reported |-> TRUE]]
     \/ /\ process' = [process EXCEPT ![p].at = "stopping", ![p].failed = TRUE]
        /\ UNCHANGED heartbeat

\* A signal or enough idle polls end the loop.
LeavesLoop(p) ==
  /\ process[p].at = "poll"
  /\ Moves(p, "stopping")
  /\ UNCHANGED heartbeat

\* The finally of the loop.
Stops(p) ==
  /\ process[p].at = "stopping"
  /\ \/ /\ StopWorker(p)
        /\ process' = [process EXCEPT ![p].at = "gone", ![p].job = NoJob]
     \/ UNCHANGED heartbeat /\ Moves(p, "gone")

\* The process is killed, its task is taken away.
Dies(p) ==
  /\ process[p].at \in Running
  /\ Moves(p, "gone")
  /\ UNCHANGED heartbeat

HeartbeatNext ==
  \E p \in Processes :
    \/ Begins(p) \/ LeasesJob(p) \/ FindsNothing(p) \/ ReportsProcessing(p)
    \/ EndsCycle(p) \/ ReportsIdle(p) \/ LeavesLoop(p) \/ Stops(p) \/ Dies(p)

HeartbeatSpec == HeartbeatInit /\ [][HeartbeatNext]_heartbeatVars

-----------------------------------------------------------------------------
(* Property *)

LivesUnder(i) == {p \in Processes : IdOf[p] = i /\ process[p].at \in Running}

\* A reader of the rows is never misled about a process that reports: while
\* it fetches, its row names its job; a STOPPED worker has no process; a
\* PROCESSING row names the job its last reporting process had, which a polling
\* process can inherit from one that died, but keeps only until its own
\* first report.
RowsTellTheTruth ==
  \A i \in WorkerIds :
    /\ heartbeat[i].status = "STOPPED" => LivesUnder(i) = {}
    /\ \A p \in LivesUnder(i) :
         /\ process[p].at = "working" =>
              heartbeat[i] = [status |-> "PROCESSING", job |-> process[p].job]
         /\ process[p].at \in {"poll", "claimed"} /\ process[p].reported =>
              heartbeat[i].job = NoJob
    /\ heartbeat[i].status = "PROCESSING" =>
         \E p \in Processes : /\ IdOf[p] = i /\ process[p].job = heartbeat[i].job
                              /\ process[p].at \in {"working", "leaving", "stopping", "gone"}

=============================================================================
