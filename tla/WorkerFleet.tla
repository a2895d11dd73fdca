---------------------------- MODULE WorkerFleet ----------------------------
(***************************************************************************)
(* The crawl with finite workers, as deployed in the cloud: a worker task   *)
(* is launched by a queued wake-up message and leaves after some polls in a *)
(* row that find nothing to claim (crawler/worker_loop.py); the control     *)
(* plane publishes a message after a start or a resume committed            *)
(* (api/routers/crawl_runs.py, crawler/crawl_run_events.py).                *)
(*                                                                          *)
(* The rows and the steps on them are CrawlSystem's.  A process that left   *)
(* by itself stays "idle" there and is missing from alive.  One clock tick  *)
(* is the pause between two idle polls.                                     *)
(***************************************************************************)
EXTENDS CrawlProperties

CONSTANTS
  IdlePolls,       \* WORKER_IDLE_POLLS_BEFORE_EXIT, 2 in the code
  MaxMessages,     \* bound on the messages queued at a time
  MayFailPublish   \* TRUE: publishing may fail, or its process die first

ASSUME FleetAssumption ==
  /\ IdlePolls \in Nat \ {0}
  /\ MaxMessages \in Nat \ {0}
  /\ MayFailPublish \in BOOLEAN

VARIABLES
  alive,    \* the workers that have a running process
  idle,     \* idle[w]: consecutive_idle_cycles of w's process
  asleep,   \* the workers that sleep between two polls
  queue,    \* number of wake-up messages in the queue
  unsent    \* campaigns committed as RUNNING whose message is not sent yet

fleetVars == <<alive, idle, asleep, queue, unsent>>

FleetInit ==
  /\ Init
  /\ alive = {}
  /\ idle = [w \in Workers |-> 0]
  /\ asleep = {}
  /\ queue = 0
  /\ unsent = {}

-----------------------------------------------------------------------------
(* The worker's loop *)

\* A message starts a task.  Delivery is at least once: the message may stay.
\* A process that ended in the middle of a job is replaced with no memory.
Launch(w) ==
  /\ queue > 0 /\ w \notin alive
  /\ queue' \in {queue, queue - 1}
  /\ alive' = alive \cup {w}
  /\ idle' = [idle EXCEPT ![w] = 0]
  /\ IF worker[w].pc = "down" THEN Restart(w) ELSE UNCHANGED vars
  /\ UNCHANGED <<asleep, unsent>>

\* The poll leases a job; its cycle counts as busy.
BusyPoll(w) ==
  /\ w \in alive \ asleep
  /\ \E j \in Jobs : Claim(w, j)
  /\ idle' = [idle EXCEPT ![w] = 0]
  /\ UNCHANGED <<alive, asleep, queue, unsent>>

NothingToClaim == \A j \in Candidates : ~DomainReady(DomainOf[j])

\* Mutated form of Drained: one idle poll too few.
DrainedEarly(n) == n >= IdlePolls - 1

\* The n-th idle poll in a row ends the loop.
Drained(n) == n >= IdlePolls

IdlePoll(w) ==
  /\ w \in alive \ asleep
  /\ worker[w].pc = "idle"
  /\ NothingToClaim
  /\ IF Drained(idle[w] + 1)
     THEN /\ alive' = alive \ {w}
          /\ UNCHANGED <<idle, asleep>>
     ELSE /\ idle' = [idle EXCEPT ![w] = @ + 1]
          /\ asleep' = asleep \cup {w}
          /\ UNCHANGED alive
  /\ UNCHANGED <<vars, queue, unsent>>

\* A step of the job in hand; an error nobody handles ends the process.
Work(w) ==
  /\ WorkerStep(w) \/ Crash(w)
  /\ alive' = IF worker'[w].pc = "down" THEN alive \ {w} ELSE alive
  /\ UNCHANGED <<idle, asleep, queue, unsent>>

FleetTick ==
  /\ Tick
  /\ asleep' = {}
  /\ UNCHANGED <<alive, idle, queue, unsent>>

\* A sleep ends although no stored timestamp is left to pass.
WakeUp ==
  /\ asleep # {}
  /\ asleep' = {}
  /\ \A j \in Jobs : job[j].left = Expired
  /\ \A d \in Domains : policy[d].left = Expired /\ policy[d].pause = 0
  /\ UNCHANGED <<vars, alive, idle, queue, unsent>>

-----------------------------------------------------------------------------
(* The control plane's messages *)

\* publish_wakeup_if_running, after the transaction committed.
Announced(r) == run'[r] = "RUNNING"

FleetControl(r) ==
  /\ Control(r) /\ UNCHANGED <<worker, docs>>
  /\ unsent' = IF Announced(r) THEN unsent \cup {r} ELSE unsent
  /\ UNCHANGED <<alive, idle, asleep, queue>>

\* Mutated form of Repeatable: a repeated request is answered 409.
NotRepeatable(r) == FALSE

\* A start or resume request for a RUNNING campaign only publishes again.
Repeatable(r) == run[r] = "RUNNING"

Repeat(r) ==
  /\ Repeatable(r) /\ r \notin unsent
  /\ unsent' = unsent \cup {r}
  /\ UNCHANGED <<vars, alive, idle, asleep, queue>>

Publish(r) ==
  /\ r \in unsent /\ queue < MaxMessages
  /\ queue' = queue + 1
  /\ unsent' = unsent \ {r}
  /\ UNCHANGED <<vars, alive, idle, asleep>>

\* The send raises and the client is answered 503, or the API process ends.
PublishFails(r) ==
  /\ MayFailPublish
  /\ r \in unsent
  /\ unsent' = unsent \ {r}
  /\ UNCHANGED <<vars, alive, idle, asleep, queue>>

-----------------------------------------------------------------------------

FleetNext ==
  \/ \E w \in Workers : Launch(w) \/ BusyPoll(w) \/ IdlePoll(w) \/ Work(w)
  \/ \E r \in Runs : \/ FleetControl(r)
                     \/ Repeat(r)
                     \/ Publish(r)
                     \/ PublishFails(r)
  \/ FleetTick
  \/ WakeUp

FleetSpec == FleetInit /\ [][FleetNext]_<<vars, fleetVars>>

\* Messages are delivered, launched processes run and time passes.  A process
\* that works may die at any step, or live; one that polls lives.
FleetFairness ==
  /\ WF_<<vars, fleetVars>>(FleetTick)
  /\ WF_<<vars, fleetVars>>(WakeUp)
  /\ \A w \in Workers : /\ WF_<<vars, fleetVars>>(Launch(w))
                        /\ WF_<<vars, fleetVars>>(BusyPoll(w))
                        /\ WF_<<vars, fleetVars>>(IdlePoll(w))
                        /\ WF_<<vars, fleetVars>>(Work(w))

\* The queue accepts every message in the end.
FairFleetSpec ==
  FleetSpec /\ FleetFairness /\ \A r \in Runs : SF_<<vars, fleetVars>>(Publish(r))

\* A client that repeats start or resume as long as the campaign is RUNNING,
\* as the 503 answer asks it to, and a queue that does not refuse for ever.
InsistentClient ==
  \A r \in Runs : /\ WF_<<vars, fleetVars>>(Repeat(r))
                  /\ SF_<<vars, fleetVars>>(Publish(r))

InsistentSpec == FleetSpec /\ FleetFairness /\ InsistentClient

-----------------------------------------------------------------------------
(* Properties *)

\* As long as a campaign is RUNNING there is a worker, a message that starts
\* one, or a message still to be sent: the idle polls outlast the cooldown
\* the last page left behind, and every start and resume is announced.
NobodyLeavesWork ==
  (\E r \in Runs : run[r] = "RUNNING") => alive # {} \/ queue > 0 \/ unsent # {}

\* docs/ARCHITECTURE.md, "a worker ... exits after work is drained": the last
\* worker leaves by itself only if no campaign is RUNNING or another worker
\* is on its way.
LastOneDrains ==
  [][(\E w \in Workers : alive = {w} /\ IdlePoll(w) /\ alive' = {})
       => (\A r \in Runs : run[r] # "RUNNING") \/ queue > 0 \/ unsent # {}
    ]_<<vars, fleetVars>>

=============================================================================
