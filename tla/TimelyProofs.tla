---------------------------- MODULE TimelyProofs ----------------------------
(***************************************************************************)
(* What holds of every instance whose leases outlast the work done under    *)
(* them: hosts are spared, stored rows describe their objects, and a fleet  *)
(* of finite workers leaves no campaign behind.                             *)
(***************************************************************************)
EXTENDS LeaseProofs, PageStorage, WorkerFleet, NaturalsInduction, WellFoundedInduction

\* A process at work holds the live lease of its job.
HoldsLease ==
  \A w \in Workers : worker[w].pc \in Working =>
    /\ job[ClaimedJob(w)].status = "LEASED"
    /\ job[ClaimedJob(w)].token = Claimed(w)
    /\ job[ClaimedJob(w)].left >= 1

\* A step that moves no process into a lease and touches no leased row.
LEMMA HoldsKept ==
  ASSUME HoldsLease,
         \A w \in Workers : worker'[w].pc \in Working =>
           /\ worker[w].pc \in Working /\ worker'[w].token = worker[w].token
           /\ job'[ClaimedJob(w)] = job[ClaimedJob(w)]
  PROVE  HoldsLease'
BY DEF HoldsLease, ClaimedJob, Claimed

\* Two processes at work have different jobs.
LEMMA HoldersApart ==
  ASSUME TokenInv, HoldsLease, NEW v \in Workers, NEW w \in Workers \ {v},
         worker[v].pc \in Working, worker[w].pc \in Working
  PROVE  ClaimedJob(v) # ClaimedJob(w)
BY DEF TokenInv, SingleFinalizer, HoldsLease

\* No claim takes a live lease, and the clock waits for the holders.
LEMMA HoldsStep ==
  ASSUME Timely
  PROVE  TypeInv /\ TokenInv /\ HoldsLease /\ [Next]_vars => HoldsLease'
<1> SUFFICES ASSUME TypeInv, TokenInv, HoldsLease, [Next]_vars
             PROVE  HoldsLease'
  OBVIOUS
<1> USE StoreAssumption
<1>0. /\ \A w \in Workers : worker[w].pc \in Working => ClaimedJob(w) \in Jobs
      /\ job \in [Jobs -> JobRow] /\ worker \in [Workers -> WorkerState]
      /\ \A j \in Jobs : job[j].left \in Int
  BY DEF TypeInv, TypeOK, StoreTypeOK, JobRow, WorkerHoldsToken, Tokens, ClaimedJob,
     Expired
<1>1. ASSUME NEW w \in Workers, NEW j \in Jobs, Claim(w, j) PROVE HoldsLease'
  <2> DEFINE token == FreshToken(j)
  <2>1. /\ job'[j] = ClaimRow(w, j, token)
        /\ \A k \in Jobs \ {j} : job'[k] = job[k]
    BY <1>0, <1>1 DEF Claim, ClaimNextJob, ClaimRow
  <2>2. /\ worker'[w].token = token
        /\ \A v \in Workers \ {w} : worker'[v] = worker[v]
    BY <1>0, <1>1 DEF Claim
  <2>3. Claimed(w)' = token /\ ClaimedJob(w)' = j
    BY <2>2 DEF Claimed, ClaimedJob, FreshToken
  <2> HIDE DEF token
  <2>4. job'[j].status = "LEASED" /\ job'[j].token = token /\ job'[j].left >= 1
    BY <2>1 DEF ClaimRow
  <2>5. ~(job[j].status = "LEASED" /\ job[j].left >= 1)
    BY <1>0, <1>1 DEF Claim, ClaimNextJob, Candidates, FirstByRank, Runnable
  <2>6. ASSUME NEW v \in Workers \ {w}, worker'[v].pc \in Working
        PROVE  /\ job'[ClaimedJob(v)'].status = "LEASED"
               /\ job'[ClaimedJob(v)'].token = Claimed(v)'
               /\ job'[ClaimedJob(v)'].left >= 1
    <3>1. worker[v].pc \in Working /\ Claimed(v)' = Claimed(v)
          /\ ClaimedJob(v)' = ClaimedJob(v)
      BY <2>2, <2>6 DEF Claimed, ClaimedJob
    <3>2. ClaimedJob(v) \in Jobs \ {j}
      BY <1>0, <2>5, <3>1 DEF HoldsLease
    <3>3. QED
      BY <2>1, <3>1, <3>2 DEF HoldsLease
  <2>7. QED
    BY <2>3, <2>4, <2>6 DEF HoldsLease, Claimed, ClaimedJob
<1>2. ASSUME NEW w \in Workers, Complete(w) \/ Fail(w) PROVE HoldsLease'
  <2>1. /\ worker[w].pc \in Working
        /\ \E s : job' = [job EXCEPT ![ClaimedJob(w)] = Released(ClaimedJob(w), s)]
        /\ worker' = [worker EXCEPT ![w] = Idle]
    BY <1>2 DEF Complete, Fail, CompleteJob, FailJob, Working, ClaimedJob
  <2>2. \A v \in Workers : worker'[v].pc \in Working => v # w /\ worker'[v] = worker[v]
    BY <1>0, <2>1 DEF Idle, Working
  <2>3. ASSUME NEW v \in Workers, worker'[v].pc \in Working
        PROVE  job'[ClaimedJob(v)] = job[ClaimedJob(v)]
    <3>1. ClaimedJob(v) # ClaimedJob(w) /\ ClaimedJob(v) \in Jobs
      BY <1>0, <2>1, <2>2, <2>3, HoldersApart
    <3>2. QED
      BY <1>0, <2>1, <3>1
  <2>4. QED
    BY <2>2, <2>3, HoldsKept
<1>3. ASSUME NEW w \in Workers, ExpandFrontier(w) PROVE HoldsLease'
  <2>1. PICK S \in Selections(ClaimedJob(w)) :
          EnqueueDiscoveredLinks(ClaimedJob(w), S)
    BY <1>3 DEF ExpandFrontier
  <2>2. \A k \in Jobs : job[k].status = "LEASED" => job'[k] = job[k]
    BY <2>1 DEF EnqueueDiscoveredLinks, NewChildren, FirstByRank, Exists
  <2>3. \A v \in Workers : worker'[v].pc \in Working =>
          worker[v].pc \in Working /\ worker'[v].token = worker[v].token
    BY <1>0, <1>3 DEF ExpandFrontier, Goto, WorkerState, Working
  <2>4. QED
    BY <1>0, <2>2, <2>3, HoldsKept DEF HoldsLease
<1>4. ASSUME NEW r \in Runs, Control(r), UNCHANGED <<worker, docs>>
      PROVE  HoldsLease'
  <2>1. \A k \in Jobs : job[k].status = "LEASED" => job'[k] = job[k]
    BY <1>4 DEF Control, StartCrawlRun, PauseCrawlRun, ResumeCrawlRun,
       CancelCrawlRun, CancelledJob
  <2>2. QED
    BY <1>0, <1>4, <2>1, HoldsKept DEF HoldsLease
<1>5. CASE Tick
  <2>1. \A v \in Workers : worker[v].pc \in Working => job[ClaimedJob(v)].left > 1
    BY <1>5 DEF Tick
  <2>2. \A k \in Jobs : /\ job'[k].status = job[k].status
                        /\ job'[k].token = job[k].token
                        /\ job[k].left > 1 => job'[k].left >= 1
    BY <1>0, <1>5 DEF Tick, JobRow, Sooner, Expired
  <2>3. worker' = worker
    BY <1>5 DEF Tick
  <2>4. QED
    BY <1>0, <2>1, <2>2, <2>3 DEF HoldsLease, ClaimedJob, Claimed
<1>6. ASSUME NEW w \in Workers,
             \/ FetchPage(w) \/ PersistDocument(w) \/ ExpansionFails(w)
             \/ LoseLease(w) \/ Crash(w) \/ Restart(w)
      PROVE  HoldsLease'
  <2>1. job' = job
    BY <1>6 DEF FetchPage, PersistDocument, ExpansionFails, LoseLease, Crash,
                Restart, storeVars
  <2>2. \A v \in Workers : worker'[v].pc \in Working =>
          worker[v].pc \in Working /\ worker'[v].token = worker[v].token
    <3>1. CASE \E stage : Goto(w, stage) /\ worker[w].pc \in Working
      BY <1>0, <3>1 DEF Goto
    <3>2. CASE worker' = [worker EXCEPT ![w] = Down]
      BY <1>0, <3>2 DEF Down, Working
    <3>3. CASE worker' = [worker EXCEPT ![w] = Idle]
      BY <1>0, <3>3 DEF Idle, Working
    <3>4. QED
      BY <1>6, <3>1, <3>2, <3>3 DEF FetchPage, PersistDocument,
         ExpansionFails, LoseLease, Crash, Restart, Working
  <2>3. QED
    BY <2>1, <2>2, HoldsKept
<1>7. CASE UNCHANGED vars
  BY <1>7, HoldsKept DEF vars, storeVars
<1>8. QED
  BY <1>1, <1>2, <1>3, <1>4, <1>5, <1>6, <1>7 DEF Next, WorkerStep

\* If leases outlast the work done under them, a host is sent one request at a
\* time, whatever campaigns share it: both requests would hold a live lease.
THEOREM HostsAreSpared ==
  ASSUME Timely
  PROVE  Spec => []OneRequestPerHost
<1> DEFINE HostInv == TypeInv /\ LeaseInv /\ TokenInv /\ HoldsLease
<1>1. Init => HostInv
  BY TypeInit, LeaseInit, TokenInit DEF HoldsLease, Init, Idle, Working
<1>2. HostInv /\ [Next]_vars => HostInv'
  BY TypeStep, LeaseStep, TokenStep, HoldsStep
<1>3. HostInv => OneRequestPerHost
  <2> SUFFICES ASSUME HostInv, NEW v \in Workers, NEW w \in Workers \ {v},
                      worker[v].pc = "fetch", worker[w].pc = "fetch"
               PROVE  DomainOf[ClaimedJob(v)] # DomainOf[ClaimedJob(w)]
    BY DEF OneRequestPerHost
  <2>1. /\ worker[v].pc \in Working /\ worker[w].pc \in Working
        /\ ClaimedJob(v) \in Jobs /\ ClaimedJob(w) \in Jobs
    BY DEF Working, TypeInv, WorkerHoldsToken, Tokens, ClaimedJob
  <2>2. LiveLease(ClaimedJob(v)) /\ LiveLease(ClaimedJob(w))
    <3>1. \A j \in Jobs : job[j].left \in Int
      BY StoreAssumption DEF TypeInv, TypeOK, StoreTypeOK, JobRow, Expired
    <3>2. QED
      BY <2>1, <3>1 DEF HoldsLease, LiveLease
  <2>3. ClaimedJob(v) # ClaimedJob(w)
    BY <2>1, HoldersApart
  <2>4. DomainExclusive
    BY LeaseInvSuffices
  <2>5. QED
    BY <2>1, <2>2, <2>3, <2>4 DEF DomainExclusive
<1>4. QED
  BY <1>1, <1>2, <1>3, PTL DEF Spec

-----------------------------------------------------------------------------
(* Page storage *)

\* How far a save has come, and what it has found and put.
SaveInv ==
  /\ saving \in [Workers -> {"look", "put", "insert"}]
  /\ DOMAIN object = Jobs /\ DOMAIN hash = Jobs
  /\ \A w \in Workers :
       /\ saving[w] # "look" => worker[w].pc = "persist" /\ hash[ClaimedJob(w)] = Null
       /\ saving[w] = "insert" => object[ClaimedJob(w)] = Claimed(w)
  /\ RowDescribesObject

\* Every step of the crawl with the object store is one of the crawl or none.
LEMMA StorageMoves == [StorageNext]_<<vars, storageVars>> => [Next]_vars
<1> SUFFICES ASSUME [StorageNext]_<<vars, storageVars>> PROVE [Next]_vars
  OBVIOUS
<1>1. ASSUME NEW w \in Workers, SaveEnds(w) PROVE Next
  BY <1>1 DEF SaveEnds, Next, WorkerStep
<1>2. ASSUME NEW w \in Workers, Look(w) \/ Put(w) \/ Insert(w) \/ SaveFails(w)
      PROVE  [Next]_vars
  BY <1>1, <1>2 DEF Look, Put, Insert, SaveFails
<1>3. QED
  BY <1>2 DEF StorageNext, Elsewhere

\* A process that stays in its save stays in its lease.
LEMMA SaveKeepsToken ==
  ASSUME TypeInv, [Next]_vars, NEW w \in Workers,
         worker[w].pc = "persist", worker'[w].pc = "persist"
  PROVE  worker'[w] = worker[w]
<1>1. worker \in [Workers -> WorkerState]
  BY DEF TypeInv, TypeOK
<1>2. ASSUME NEW v \in Workers, NEW x,
             \/ worker' = [worker EXCEPT ![v] = x] /\ x.pc # "persist"
             \/ worker' = [worker EXCEPT ![v].pc = x] /\ worker[v].pc # "persist"
             \/ worker' = [worker EXCEPT ![v].pc = x] /\ x # "persist"
      PROVE  worker'[w] = worker[w]
  BY <1>1, <1>2 DEF WorkerState
<1>3. \/ worker' = worker
      \/ \E v \in Workers : \E x :
           \/ worker' = [worker EXCEPT ![v] = x] /\ x.pc # "persist"
           \/ worker' = [worker EXCEPT ![v].pc = x] /\ worker[v].pc # "persist"
           \/ worker' = [worker EXCEPT ![v].pc = x] /\ x # "persist"
  <2>1. ASSUME NEW v \in Workers, NEW j \in Jobs, Claim(v, j)
        PROVE  \E x : worker' = [worker EXCEPT ![v] = x] /\ x.pc # "persist"
    <3>1. [pc |-> "fetch", token |-> FreshToken(j)].pc # "persist"
      OBVIOUS
    <3>2. QED
      BY <2>1, <3>1 DEF Claim
  <2>2. ASSUME NEW v \in Workers, WorkerStep(v) \/ Crash(v) \/ Restart(v)
        PROVE  \E x : \/ worker' = [worker EXCEPT ![v] = x] /\ x.pc # "persist"
                      \/ worker' = [worker EXCEPT ![v].pc = x] /\ worker[v].pc # "persist"
                      \/ worker' = [worker EXCEPT ![v].pc = x] /\ x # "persist"
    <3>1. Idle.pc # "persist" /\ Down.pc # "persist"
      BY DEF Idle, Down
    <3>2. CASE worker' = [worker EXCEPT ![v] = Idle] \/ worker' = [worker EXCEPT ![v] = Down]
      BY <3>1, <3>2
    <3>3. CASE FetchPage(v) \/ ExpandFrontier(v) \/ ExpansionFails(v)
      BY <3>3 DEF FetchPage, ExpandFrontier, ExpansionFails, Goto
    <3>4. CASE PersistDocument(v)
      <4>1. \E x \in {"expand", "complete", "fail"} : worker' = [worker EXCEPT ![v].pc = x]
        BY <3>4 DEF PersistDocument, Goto
      <4>2. QED
        BY <4>1
    <3>5. QED
      BY <2>2, <3>2, <3>3, <3>4 DEF WorkerStep, Complete, Fail, LoseLease, Crash, Restart
  <2>3. QED
    BY <2>1, <2>2 DEF Next, Tick, vars
<1>4. QED
  BY <1>2, <1>3

\* A save meets no other save of its job on the way.
LEMMA SaveStep ==
  ASSUME TypeInv, TokenInv, HoldsLease, SaveInv,
         [StorageNext]_<<vars, storageVars>>
  PROVE  SaveInv'
<1> USE StoreAssumption
<1>0. /\ \A w \in Workers : worker[w].pc = "persist" =>
           ClaimedJob(w) \in Jobs /\ Claimed(w) # Null
      /\ [Next]_vars
  BY StorageMoves, NullAssumption
     DEF TypeInv, WorkerHoldsToken, Working, Tokens, ClaimedJob
<1>1. ASSUME NEW w \in Workers, worker[w].pc = "persist", worker'[w].pc = "persist"
      PROVE  Claimed(w)' = Claimed(w) /\ ClaimedJob(w)' = ClaimedJob(w)
  BY <1>0, <1>1, SaveKeepsToken DEF Claimed, ClaimedJob
\* Two saves are of different jobs.
<1>2. ASSUME NEW v \in Workers, NEW w \in Workers \ {v},
             worker[v].pc = "persist", worker[w].pc = "persist"
      PROVE  ClaimedJob(v) # ClaimedJob(w)
  BY <1>2, HoldersApart DEF Working
\* The saves of the other processes do not move.
<1>3. ASSUME NEW w \in Workers, SaveEnds(w) /\ worker'[w].pc # "persist"
      PROVE  /\ saving' = [saving EXCEPT ![w] = "look"]
             /\ \A v \in Workers \ {w} : worker'[v] = worker[v]
  BY <1>3 DEF SaveEnds, NextSave, PersistDocument, Goto, TypeInv, TypeOK
<1>4. ASSUME NEW w \in Workers, SaveEnds(w) PROVE worker'[w].pc # "persist"
  <2>1. \E x \in {"expand", "complete", "fail"} : worker' = [worker EXCEPT ![w].pc = x]
    BY <1>4 DEF SaveEnds, PersistDocument, Goto
  <2>2. QED
    BY <2>1 DEF TypeInv, TypeOK, WorkerState
<1>5. ASSUME NEW w \in Workers, Look(w) PROVE SaveInv'
  <2>1. CASE SaveEnds(w) /\ UNCHANGED <<object, hash>>
    BY <1>3, <1>4, <2>1 DEF SaveInv, RowDescribesObject, Claimed, ClaimedJob
  <2>2. CASE hash[ClaimedJob(w)] = Null /\ NextSave(w, "put")
             /\ UNCHANGED <<vars, object, hash>>
    BY <1>5, <2>2 DEF Look, Saves, NextSave, SaveInv, RowDescribesObject,
       Claimed, ClaimedJob, vars
  <2>3. QED
    BY <1>5, <2>1, <2>2 DEF Look, AlreadySaved
<1>6. ASSUME NEW w \in Workers, Put(w) PROVE SaveInv'
  <2> DEFINE j == ClaimedJob(w)
  <2>1. /\ worker[w].pc = "persist" /\ j \in Jobs /\ hash[j] = Null
        /\ object' = [object EXCEPT ![j] = Claimed(w)]
        /\ saving' = [saving EXCEPT ![w] = "insert"]
        /\ worker' = worker /\ hash' = hash
    BY <1>0, <1>6 DEF Put, Saves, NextSave, SaveInv, vars
  <2>2. \A v \in Workers : Claimed(v)' = Claimed(v) /\ ClaimedJob(v)' = ClaimedJob(v)
    BY <2>1 DEF Claimed, ClaimedJob
  <2>3. ASSUME NEW v \in Workers
        PROVE  /\ saving'[v] # "look" => worker[v].pc = "persist" /\ hash[ClaimedJob(v)] = Null
               /\ saving'[v] = "insert" => object'[ClaimedJob(v)] = Claimed(v)
    <3>1. CASE v = w
      BY <2>1, <3>1 DEF SaveInv
    <3>2. CASE v # w
      <4>1. saving'[v] = saving[v]
        BY <2>1, <3>2 DEF SaveInv
      <4>2. worker[v].pc = "persist" => ClaimedJob(v) # j
        BY <1>2, <2>1, <3>2
      <4> HIDE DEF j
      <4>3. QED
        BY <2>1, <4>1, <4>2 DEF SaveInv
    <3>3. QED
      BY <3>1, <3>2
  <2> HIDE DEF j
  <2>4. RowDescribesObject'
    BY <2>1 DEF SaveInv, RowDescribesObject
  <2>5. QED
    BY <2>1, <2>2, <2>3, <2>4 DEF SaveInv
<1>7. ASSUME NEW w \in Workers, Insert(w) PROVE SaveInv'
  <2> DEFINE j == ClaimedJob(w)
  <2>1. /\ worker[w].pc = "persist" /\ j \in Jobs
        /\ object[j] = Claimed(w) /\ object' = object
        /\ hash' = [hash EXCEPT ![j] = Claimed(w)]
        /\ saving' = [saving EXCEPT ![w] = "look"]
        /\ \A v \in Workers \ {w} : worker'[v] = worker[v]
    BY <1>0, <1>3, <1>4, <1>7 DEF Insert, Saves, SaveInv
  <2>2. ASSUME NEW v \in Workers
        PROVE  /\ saving'[v] # "look" =>
                    worker'[v].pc = "persist" /\ hash'[ClaimedJob(v)'] = Null
               /\ saving'[v] = "insert" => object'[ClaimedJob(v)'] = Claimed(v)'
    <3>1. CASE v = w
      BY <2>1, <3>1 DEF SaveInv
    <3>2. CASE v # w
      <4>1. /\ saving'[v] = saving[v] /\ worker'[v] = worker[v]
            /\ Claimed(v)' = Claimed(v) /\ ClaimedJob(v)' = ClaimedJob(v)
        BY <2>1, <3>2 DEF SaveInv, Claimed, ClaimedJob
      <4>2. worker[v].pc = "persist" => ClaimedJob(v) # j
        BY <1>2, <2>1, <3>2
      <4> HIDE DEF j
      <4>3. QED
        BY <2>1, <4>1, <4>2 DEF SaveInv
    <3>3. QED
      BY <3>1, <3>2
  <2> HIDE DEF j
  <2>3. RowDescribesObject'
    BY <2>1 DEF SaveInv, RowDescribesObject
  <2>4. QED
    BY <2>1, <2>2, <2>3 DEF SaveInv
<1>8. ASSUME NEW w \in Workers, SaveFails(w) PROVE SaveInv'
  BY <1>3, <1>4, <1>8 DEF SaveFails, SaveInv, RowDescribesObject, Claimed, ClaimedJob
<1>9. CASE Elsewhere
  <2>1. /\ saving' = [w \in Workers |-> IF worker'[w].pc = "persist" THEN saving[w]
                                                                   ELSE "look"]
        /\ UNCHANGED <<object, hash>>
    BY <1>9 DEF Elsewhere
  <2>2. ASSUME NEW w \in Workers, saving'[w] # "look"
        PROVE  /\ saving'[w] = saving[w] /\ saving[w] # "look"
               /\ worker'[w].pc = "persist" /\ worker[w].pc = "persist"
    BY <2>1, <2>2 DEF SaveInv
  <2>3. QED
    BY <1>1, <2>1, <2>2 DEF SaveInv, RowDescribesObject
<1>10. CASE UNCHANGED <<vars, storageVars>>
  BY <1>10 DEF vars, storageVars, SaveInv, RowDescribesObject, Claimed, ClaimedJob
<1>11. QED
  BY <1>5, <1>6, <1>7, <1>8, <1>9, <1>10 DEF StorageNext

\* If leases outlast the work done under them, every stored row describes its
\* object, whatever processes die in the middle of a save: two saves of one job
\* would both hold its live lease.
THEOREM RowsDescribeObjects ==
  ASSUME Timely
  PROVE  StorageSpec => []RowDescribesObject
<1> DEFINE StorageInv == TypeInv /\ TokenInv /\ HoldsLease /\ SaveInv
<1>1. StorageInit => StorageInv
  <2> SUFFICES ASSUME StorageInit PROVE StorageInv
    OBVIOUS
  <2>1. TypeInv /\ TokenInv /\ HoldsLease
    BY TypeInit, TokenInit DEF StorageInit, HoldsLease, Init, Idle, Working
  <2>2. SaveInv
    BY DEF StorageInit, SaveInv, RowDescribesObject
  <2>3. QED
    BY <2>1, <2>2
<1>2. StorageInv /\ [StorageNext]_<<vars, storageVars>> => StorageInv'
  BY StorageMoves, TypeStep, TokenStep, HoldsStep, SaveStep
<1>3. StorageInv => RowDescribesObject
  BY DEF SaveInv
<1>4. QED
  BY <1>1, <1>2, <1>3, PTL DEF StorageSpec

-----------------------------------------------------------------------------
(* The fleet *)

\* Every step of the fleet is a step of the crawl or none.
LEMMA FleetStep == [FleetNext]_<<vars, fleetVars>> => [Next]_vars
<1> SUFFICES ASSUME [FleetNext]_<<vars, fleetVars>> PROVE [Next]_vars
  OBVIOUS
<1>1. ASSUME NEW w \in Workers, Launch(w) PROVE [Next]_vars
  BY <1>1 DEF Launch, Next
<1>2. ASSUME NEW w \in Workers, BusyPoll(w) PROVE [Next]_vars
  BY <1>2 DEF BusyPoll, Next
<1>3. ASSUME NEW w \in Workers, IdlePoll(w) PROVE [Next]_vars
  BY <1>3 DEF IdlePoll
<1>4. ASSUME NEW w \in Workers, Work(w) PROVE [Next]_vars
  BY <1>4 DEF Work, Next
<1>5. ASSUME NEW r \in Runs, FleetControl(r) PROVE [Next]_vars
  BY <1>5 DEF FleetControl, Next
<1>6. ASSUME NEW r \in Runs, Repeat(r) \/ Publish(r) \/ PublishFails(r)
      PROVE  UNCHANGED vars
  BY <1>6 DEF Repeat, Publish, PublishFails
<1>7. CASE FleetTick
  BY <1>7 DEF FleetTick, Next
<1>8. CASE WakeUp
  BY <1>8 DEF WakeUp
<1>9. CASE UNCHANGED <<vars, fleetVars>>
  BY <1>9
<1>10. QED
  BY <1>1, <1>2, <1>3, <1>4, <1>5, <1>6, <1>7, <1>8, <1>9 DEF FleetNext

Busy(w) == worker[w].pc \in Working

\* No lease and no reservation is left to a process that is gone, and every
\* job in waiting has an attempt left: what is open is claimable or at work.
WorkIsHeld ==
  /\ \A w \in Workers : worker[w].pc # "down"
  /\ \A j \in Jobs : job[j].status = "LEASED" =>
       \E w \in Workers : Busy(w) /\ Claimed(w) = job[j].token
  /\ \A d \in Domains : policy[d].left > 0 =>
       \E w \in Workers : /\ Busy(w) /\ Claimed(w) = policy[d].token
                          /\ DomainOf[ClaimedJob(w)] = d
  /\ \A j \in Jobs : job[j].status \in {"PENDING", "RETRY_PENDING"} =>
       job[j].attempts < MaxAttempts

\* Worker w does not leave before every host has cooled down: the polls it has
\* slept after are taken off the cooldown already.
Outlasts(w) ==
  \A d \in Domains :
    policy[d].pause > 0 =>
      policy[d].pause + idle[w] - (IF w \in asleep THEN 1 ELSE 0) <= CrawlDelay

\* Strengthened: a RUNNING campaign has a message, a process at work, or one
\* that waits long enough.
FleetInv ==
  /\ idle \in [Workers -> Nat]
  /\ alive \subseteq Workers /\ asleep \subseteq alive
  /\ queue \in Nat
  /\ \A w \in Workers : Busy(w) => w \in alive \ asleep /\ idle[w] = 0
  /\ (\E r \in Runs : run[r] = "RUNNING") =>
       \/ queue > 0 \/ unsent # {}
       \/ \E w \in Workers : Busy(w)
       \/ \E w \in alive : Outlasts(w)

\* What a process at work has in hand, and what TypeInv says of the rows.
LEMMA BusyFacts ==
  ASSUME TypeInv
  PROVE  /\ job \in [Jobs -> JobRow] /\ worker \in [Workers -> WorkerState]
         /\ policy \in [Domains -> PolicyRow] /\ run \in [Runs -> RunStatus]
         /\ \A w \in Workers : Busy(w) =>
              ClaimedJob(w) \in Jobs /\ DomainOf[ClaimedJob(w)] \in Domains
         /\ \A d \in Domains : policy[d].left \in Int /\ policy[d].pause \in Int
         /\ \A d \in Domains : policy[d].pause <= CrawlDelay
         /\ \A j \in Jobs : job[j].left \in Int /\ job[j].attempts \in Nat
         /\ \A j \in Jobs : DomainOf[j] \in Domains
BY StoreAssumption DEF TypeInv, TypeOK, StoreTypeOK, JobRow, PolicyRow, WorkerHoldsToken,
   Tokens, ClaimedJob, Busy, Expired

\* What is at hand of a process at work stays so if it goes on with its token.
LEMMA HeldKept ==
  ASSUME WorkIsHeld,
         \A w \in Workers : /\ worker'[w].pc # "down"
                            /\ Busy(w) => Busy(w)' /\ worker'[w].token = worker[w].token,
         \A j \in Jobs : job'[j].status = "LEASED" =>
                           job[j].status = "LEASED" /\ job'[j].token = job[j].token,
         \A d \in Domains : policy'[d].left > 0 =>
                              policy[d].left > 0 /\ policy'[d].token = policy[d].token,
         \A j \in Jobs : job'[j].status \in {"PENDING", "RETRY_PENDING"} =>
                           job'[j].attempts < MaxAttempts
  PROVE  WorkIsHeld'
<1>1. \A w \in Workers : worker'[w].pc # "down"
  OBVIOUS
<1>2. \A w \in Workers : Busy(w) =>
        Busy(w)' /\ Claimed(w)' = Claimed(w) /\ ClaimedJob(w)' = ClaimedJob(w)
  BY DEF Claimed, ClaimedJob
<1>3. ASSUME NEW j \in Jobs, job'[j].status = "LEASED"
      PROVE  \E w \in Workers : Busy(w)' /\ Claimed(w)' = job'[j].token
  <2>1. PICK w \in Workers : Busy(w) /\ Claimed(w) = job[j].token
    BY <1>3 DEF WorkIsHeld
  <2>2. Busy(w)' /\ Claimed(w)' = job'[j].token
    BY <1>2, <1>3, <2>1
  <2> QED
    BY <2>2
<1>4. ASSUME NEW d \in Domains, policy'[d].left > 0
      PROVE  \E w \in Workers : /\ Busy(w)' /\ Claimed(w)' = policy'[d].token
                                /\ DomainOf[ClaimedJob(w)'] = d
  <2>1. PICK w \in Workers : /\ Busy(w) /\ Claimed(w) = policy[d].token
                             /\ DomainOf[ClaimedJob(w)] = d
    BY <1>4 DEF WorkIsHeld
  <2>2. /\ Busy(w)' /\ Claimed(w)' = policy'[d].token
        /\ DomainOf[ClaimedJob(w)'] = d
    BY <1>2, <1>4, <2>1
  <2> QED
    BY <2>2
<1> QED
  BY <1>1, <1>3, <1>4 DEF WorkIsHeld

\* A claim takes its job and its host in hand.
LEMMA HeldClaim ==
  ASSUME TypeInv, LeaseInv, WorkIsHeld, NEW w \in Workers, NEW j \in Jobs, Claim(w, j)
  PROVE  WorkIsHeld'
<1> USE StoreAssumption
<1>0. /\ job \in [Jobs -> JobRow] /\ worker \in [Workers -> WorkerState]
      /\ policy \in [Domains -> PolicyRow] /\ DomainOf[j] \in Domains
  BY BusyFacts
<1> DEFINE token == FreshToken(j)
<1>1. /\ job'[j].token = token /\ job'[j].status = "LEASED"
      /\ \A k \in Jobs \ {j} : job'[k] = job[k]
  BY <1>0 DEF Claim, ClaimNextJob, ClaimRow
<1>2. /\ policy'[DomainOf[j]].token = token
      /\ \A d \in Domains \ {DomainOf[j]} : policy'[d] = policy[d]
  BY <1>0 DEF Claim, ClaimNextJob
<1>3. /\ worker'[w].pc = "fetch" /\ worker'[w].token = token
      /\ \A v \in Workers \ {w} : worker'[v] = worker[v]
      /\ worker[w].pc = "idle"
  BY <1>0 DEF Claim
<1>4. Busy(w)' /\ Claimed(w)' = token /\ ClaimedJob(w)' = j
  BY <1>3 DEF Busy, Working, Claimed, ClaimedJob, FreshToken
<1>5. \A v \in Workers : Busy(v) =>
        Busy(v)' /\ Claimed(v)' = Claimed(v) /\ ClaimedJob(v)' = ClaimedJob(v)
  BY <1>3 DEF Busy, Working, Claimed, ClaimedJob
<1> HIDE DEF token
<1>6. \A v \in Workers : worker'[v].pc # "down"
  BY <1>3 DEF WorkIsHeld
<1>7. ASSUME NEW k \in Jobs, job'[k].status = "LEASED"
      PROVE  \E v \in Workers : Busy(v)' /\ Claimed(v)' = job'[k].token
  <2>1. CASE k = j
    BY <1>1, <1>4, <2>1
  <2>2. CASE k # j
    <3>1. job'[k] = job[k]
      BY <1>1, <2>2
    <3>2. PICK v \in Workers : Busy(v) /\ Claimed(v) = job[k].token
      BY <1>7, <3>1 DEF WorkIsHeld
    <3> QED
      BY <1>5, <3>1, <3>2
  <2> QED
    BY <2>1, <2>2
<1>8. ASSUME NEW d \in Domains, policy'[d].left > 0
      PROVE  \E v \in Workers : /\ Busy(v)' /\ Claimed(v)' = policy'[d].token
                                /\ DomainOf[ClaimedJob(v)'] = d
  <2>1. CASE d = DomainOf[j]
    BY <1>2, <1>4, <2>1
  <2>2. CASE d # DomainOf[j]
    <3>1. policy'[d] = policy[d]
      BY <1>2, <2>2
    <3>2. PICK v \in Workers : /\ Busy(v) /\ Claimed(v) = policy[d].token
                               /\ DomainOf[ClaimedJob(v)] = d
      BY <1>8, <3>1 DEF WorkIsHeld
    <3> QED
      BY <1>5, <3>1, <3>2
  <2> QED
    BY <2>1, <2>2
<1>9. \A k \in Jobs : job'[k].status \in {"PENDING", "RETRY_PENDING"} =>
                        job'[k].attempts < MaxAttempts
  BY <1>1 DEF WorkIsHeld
<1> QED
  BY <1>6, <1>7, <1>8, <1>9 DEF WorkIsHeld

\* A report lets go of its job and of its host, and of nothing else.
LEMMA HeldReport ==
  ASSUME TypeInv, LeaseInv, WorkIsHeld, NEW w \in Workers, Complete(w) \/ Fail(w)
  PROVE  WorkIsHeld'
<1> USE StoreAssumption
<1> DEFINE j == ClaimedJob(w)
           d0 == DomainOf[j]
<1>0. /\ job \in [Jobs -> JobRow] /\ worker \in [Workers -> WorkerState]
      /\ policy \in [Domains -> PolicyRow] /\ j \in Jobs /\ d0 \in Domains
      /\ Busy(w)
  BY BusyFacts DEF Busy, Working, Complete, Fail
<1>1. /\ job[j].status = "LEASED" /\ job[j].token = Claimed(w)
      /\ job' = [job EXCEPT ![j] = Released(j, ReportedStatus(w))]
      /\ policy' = FreedFor(d0, Claimed(w), CrawlDelay)
      /\ worker' = [worker EXCEPT ![w] = Idle]
  BY ReportSettles DEF Settles
<1>2. ReportedStatus(w) # "LEASED" /\ ReportedStatus(w) # "PENDING"
      /\ (ReportedStatus(w) = "RETRY_PENDING" => job[j].attempts < MaxAttempts)
  BY DEF ReportedStatus, FailureStatus
<1>3. /\ job'[j].status = ReportedStatus(w) /\ job'[j].attempts = job[j].attempts
      /\ \A k \in Jobs \ {j} : job'[k] = job[k]
  BY <1>0, <1>1 DEF Released, Unleased
<1>4. \A v \in Workers : Busy(v) /\ v # w =>
        Busy(v)' /\ Claimed(v)' = Claimed(v) /\ ClaimedJob(v)' = ClaimedJob(v)
  BY <1>0, <1>1 DEF Busy, Claimed, ClaimedJob
<1>5. \A d \in Domains : policy'[d].left > 0 =>
        policy'[d] = policy[d] /\ (d # d0 \/ policy[d].token # Claimed(w))
  BY <1>0, <1>1 DEF FreedFor, Expired
<1>6. \A v \in Workers : worker'[v].pc # "down"
  BY <1>0, <1>1 DEF Idle, WorkIsHeld
<1> HIDE DEF d0
<1>7. ASSUME NEW k \in Jobs, job'[k].status = "LEASED"
      PROVE  \E v \in Workers : Busy(v)' /\ Claimed(v)' = job'[k].token
  <2>1. k # j /\ job'[k] = job[k]
    BY <1>2, <1>3, <1>7
  <2>2. PICK v \in Workers : Busy(v) /\ Claimed(v) = job[k].token
    BY <1>7, <2>1 DEF WorkIsHeld
  <2>3. job[k].token # job[j].token
    BY <1>0, <1>1, <1>7, <2>1 DEF LeaseInv, LeaseShape
  <2>4. v # w
    BY <1>1, <2>2, <2>3
  <2> QED
    BY <1>4, <2>1, <2>2, <2>4
<1>8. ASSUME NEW d \in Domains, policy'[d].left > 0
      PROVE  \E v \in Workers : /\ Busy(v)' /\ Claimed(v)' = policy'[d].token
                                /\ DomainOf[ClaimedJob(v)'] = d
  <2>1. policy'[d] = policy[d] /\ (d # d0 \/ policy[d].token # Claimed(w))
    BY <1>5, <1>8
  <2>2. PICK v \in Workers : /\ Busy(v) /\ Claimed(v) = policy[d].token
                             /\ DomainOf[ClaimedJob(v)] = d
    BY <1>8, <2>1 DEF WorkIsHeld
  <2>3. v # w
    BY <2>1, <2>2 DEF d0
  <2> QED
    BY <1>4, <2>1, <2>2, <2>3
<1>9. \A k \in Jobs : job'[k].status \in {"PENDING", "RETRY_PENDING"} =>
                        job'[k].attempts < MaxAttempts
  BY <1>2, <1>3 DEF WorkIsHeld
<1> QED
  BY <1>6, <1>7, <1>8, <1>9 DEF WorkIsHeld

\* If leases outlast the work and no process dies, what is open is claimable
\* or at work: nobody loses a lease.
LEMMA HeldStep ==
  ASSUME Timely, ~MayCrash
  PROVE  TypeInv /\ LeaseInv /\ TokenInv /\ HoldsLease /\ WorkIsHeld /\ [Next]_vars
           => WorkIsHeld'
<1> SUFFICES ASSUME TypeInv, LeaseInv, TokenInv, HoldsLease, WorkIsHeld, [Next]_vars
             PROVE  WorkIsHeld'
  OBVIOUS
<1> USE StoreAssumption
<1>0. /\ job \in [Jobs -> JobRow] /\ worker \in [Workers -> WorkerState]
      /\ policy \in [Domains -> PolicyRow]
      /\ \A d \in Domains : policy[d].left \in Int
      /\ \A j \in Jobs : job[j].left \in Int
      /\ \A w \in Workers : Busy(w) => ClaimedJob(w) \in Jobs
  BY BusyFacts
<1>w. \A j \in Jobs : job[j].status \in {"PENDING", "RETRY_PENDING"} =>
                        job[j].attempts < MaxAttempts
  BY DEF WorkIsHeld
<1>1. ASSUME NEW w \in Workers, NEW j \in Jobs, Claim(w, j) PROVE WorkIsHeld'
  BY <1>1, HeldClaim
<1>2. ASSUME NEW w \in Workers, Complete(w) \/ Fail(w) PROVE WorkIsHeld'
  BY <1>2, HeldReport
<1>3. ASSUME NEW w \in Workers, LoseLease(w) PROVE WorkIsHeld'
  <2>1. worker[w].pc \in Working /\ Busy(w) /\ ClaimedJob(w) \in Jobs
    BY <1>0, <1>3 DEF LoseLease, Busy, Working
  <2>2. /\ job[ClaimedJob(w)].status = "LEASED"
        /\ job[ClaimedJob(w)].token = Claimed(w)
        /\ job[ClaimedJob(w)].left > 0
    BY <1>0, <2>1 DEF HoldsLease
  <2>3. job[ClaimedJob(w)].owner = w
    BY <2>1, <2>2 DEF TokenInv, SingleFinalizer
  <2>4. OwnsLiveLease(w, Claimed(w))
    BY <2>2, <2>3 DEF OwnsLiveLease, ClaimedJob
  <2> QED
    BY <1>3, <2>4 DEF LoseLease
<1>4. ASSUME NEW w \in Workers,
             FetchPage(w) \/ PersistDocument(w) \/ ExpandFrontier(w) \/ ExpansionFails(w)
      PROVE  WorkIsHeld'
  <2>1. \E x \in Working : Goto(w, x) /\ worker[w].pc \in Working
    BY <1>4 DEF FetchPage, PersistDocument, ExpandFrontier, ExpansionFails, Goto, Working
  <2>2. \A v \in Workers : /\ worker'[v].pc # "down"
                           /\ Busy(v) => Busy(v)' /\ worker'[v].token = worker[v].token
    <3>1. PICK x \in Working : worker' = [worker EXCEPT ![w].pc = x]
      BY <2>1 DEF Goto
    <3>2. x # "down"
      BY DEF Working
    <3> QED
      BY <1>0, <3>1, <3>2 DEF Busy, WorkIsHeld, WorkerState
  <2>3. policy' = policy
    BY <1>4 DEF FetchPage, PersistDocument, ExpandFrontier, ExpansionFails, storeVars,
       EnqueueDiscoveredLinks
  <2>4. \A j \in Jobs : \/ job'[j] = job[j]
                        \/ job'[j].status = "PENDING" /\ job'[j].attempts = 0
    <3>1. CASE ExpandFrontier(w)
      <4>1. PICK S : EnqueueDiscoveredLinks(ClaimedJob(w), S)
        BY <3>1 DEF ExpandFrontier
      <4>2. \A x : NewJob(x).status = "PENDING" /\ NewJob(x).attempts = 0
        BY DEF NewJob, Unleased
      <4>3. \A j \in Jobs : job'[j] = job[j] \/ \E x : job'[j] = NewJob(x)
        BY <4>1 DEF EnqueueDiscoveredLinks
      <4> QED
        BY <4>2, <4>3
    <3>2. CASE job' = job
      BY <3>2
    <3> QED
      BY <1>4, <3>1, <3>2 DEF FetchPage, PersistDocument, ExpansionFails, storeVars
  <2> QED
    BY <1>0, <1>w, <2>2, <2>3, <2>4, HeldKept
<1>5. ASSUME NEW w \in Workers, Crash(w) \/ Restart(w) PROVE WorkIsHeld'
  BY <1>5 DEF Crash, Restart, WorkIsHeld
<1>6. ASSUME NEW r \in Runs, Control(r), UNCHANGED <<worker, docs>> PROVE WorkIsHeld'
  <2>1. \A v \in Workers : /\ worker'[v].pc # "down"
                           /\ Busy(v) => Busy(v)' /\ worker'[v].token = worker[v].token
    BY <1>6 DEF Busy, WorkIsHeld
  <2>2. policy' = policy
    BY <1>6 DEF Control, StartCrawlRun, PauseCrawlRun, ResumeCrawlRun, CancelCrawlRun
  <2>3. \A j \in Jobs : job'[j] = job[j] \/ job'[j].status = "CANCELLED"
    BY <1>6 DEF Control, StartCrawlRun, PauseCrawlRun, ResumeCrawlRun, CancelCrawlRun,
       Released, Unleased
  <2> QED
    BY <1>w, <2>1, <2>2, <2>3, HeldKept
<1>7. CASE Tick
  <2>1. \A v \in Workers : /\ worker'[v].pc # "down"
                           /\ Busy(v) => Busy(v)' /\ worker'[v].token = worker[v].token
    BY <1>7 DEF Tick, Busy, WorkIsHeld
  <2>2. \A j \in Jobs : /\ job'[j].status = job[j].status
                        /\ job'[j].token = job[j].token
                        /\ job'[j].attempts = job[j].attempts
    BY <1>0, <1>7 DEF Tick, JobRow
  <2>3. \A d \in Domains : policy'[d].left > 0 =>
                             policy[d].left > 0 /\ policy'[d].token = policy[d].token
    BY <1>0, <1>7 DEF Tick, Sooner, Expired
  <2> QED
    BY <1>w, <2>1, <2>2, <2>3, HeldKept
<1>8. CASE UNCHANGED vars
  <2>1. UNCHANGED <<run, job, policy, worker>>
    BY <1>8 DEF vars
  <2> QED
    BY <1>w, <2>1, HeldKept DEF Busy, WorkIsHeld
<1> QED
  BY <1>1, <1>2, <1>3, <1>4, <1>5, <1>6, <1>7, <1>8 DEF Next, WorkerStep

\* Among some jobs there is a first one in frontier order.
LEMMA FirstExists ==
  ASSUME NEW S \in SUBSET Jobs, S # {}
  PROVE  \E c \in S : \A k \in S : Rank[c] <= Rank[k]
<1> USE StoreAssumption
<1> DEFINE R == {Rank[k] : k \in S}
<1>1. R \subseteq Nat /\ R # {}
  OBVIOUS
<1>2. IsWellFoundedOn(OpToRel(<, Nat), Nat)
  BY NatLessThanWellFounded, Zenon DEF OpToRel
<1>3. PICK n \in R : \A m \in R : ~ (<<m, n>> \in OpToRel(<, Nat))
  BY <1>1, <1>2, WFMin
<1>4. PICK c \in S : Rank[c] = n
  OBVIOUS
<1>5. ASSUME NEW k \in S PROVE Rank[c] <= Rank[k]
  <2>1. Rank[k] \in R /\ Rank[k] \in Nat /\ n \in Nat
    BY <1>1
  <2>2. ~ (<<Rank[k], n>> \in OpToRel(<, Nat))
    BY <1>3, <2>1
  <2>3. ~ (Rank[k] < n)
    BY <2>1, <2>2 DEF OpToRel
  <2> QED
    BY <1>4, <2>1, <2>3
<1> QED
  BY <1>5

\* Some worker waits as long as hosts cool down.
Patient == \E w \in alive : Outlasts(w)

\* If no process is at work and every host has cooled down, an idle poll means
\* that no campaign is RUNNING: the first open job of one would be claimed.
LEMMA NothingIsLeft ==
  ASSUME TypeInv, RunningHasOpenWork, WorkIsHeld, NothingToClaim,
         \A w \in Workers : ~Busy(w), \A d \in Domains : ~(policy[d].pause > 0),
         NEW r \in Runs
  PROVE  run[r] # "RUNNING"
<1> SUFFICES ASSUME run[r] = "RUNNING" PROVE FALSE
  OBVIOUS
<1> USE StoreAssumption
<1> DEFINE S == {j \in Jobs : Runnable(j)}
<1>1. PICK j \in Jobs : RunOf[j] = r /\ Open(j)
  BY DEF RunningHasOpenWork, JobsOf
<1>2. Runnable(j)
  <2>1. job[j].status # "LEASED"
    BY DEF WorkIsHeld
  <2> QED
    BY <1>1, <2>1 DEF Runnable, Open, OpenJobStatuses, WorkIsHeld
<1>3. PICK c \in S : \A k \in S : Rank[c] <= Rank[k]
  <2>1. S \in SUBSET Jobs /\ S # {}
    BY <1>2
  <2> QED
    BY <2>1, FirstExists
<1>4. Cardinality({k \in S : Rank[k] < Rank[c]}) = 0
  <2>1. \A k \in Jobs : Rank[k] \in Int
    OBVIOUS
  <2>2. {k \in S : Rank[k] < Rank[c]} = {}
    BY <1>3, <2>1
  <2> QED
    BY <2>2, FS_EmptySet
<1>5. c \in Candidates
  BY <1>4, WindowAssumption DEF Candidates, FirstByRank
<1>6. ~DomainReady(DomainOf[c]) /\ DomainOf[c] \in Domains
  BY <1>5 DEF NothingToClaim
<1>7. policy[DomainOf[c]].left > 0
  BY <1>6, BusyFacts DEF DomainReady
<1> QED
  BY <1>6, <1>7 DEF WorkIsHeld

\* Who outlasts the cooldowns still does if no cooldown grows.
LEMMA OutlastsKept ==
  ASSUME TypeInv, FleetInv, NEW w \in alive, Outlasts(w), idle'[w] \in Nat,
         \A d \in Domains : policy'[d].pause \in Int,
         \A d \in Domains : policy'[d].pause > 0 =>
           policy'[d].pause + idle'[w] - (IF w \in asleep' THEN 1 ELSE 0)
             <= policy[d].pause + idle[w] - (IF w \in asleep THEN 1 ELSE 0)
             /\ policy[d].pause > 0
  PROVE  Outlasts(w)'
<1>1. /\ idle[w] \in Nat /\ CrawlDelay \in Nat
      /\ \A d \in Domains : policy[d].pause \in Int
  BY BusyFacts, StoreAssumption DEF FleetInv
<1> SUFFICES ASSUME NEW d \in Domains, policy'[d].pause > 0
             PROVE  policy'[d].pause + idle'[w] - (IF w \in asleep' THEN 1 ELSE 0) <= CrawlDelay
  BY DEF Outlasts
<1>2. policy[d].pause + idle[w] - (IF w \in asleep THEN 1 ELSE 0) <= CrawlDelay
  BY DEF Outlasts
<1> QED
  BY <1>1, <1>2

\* A process that has not polled in vain outlasts every cooldown.
LEMMA FreshOutlasts ==
  ASSUME TypeInv', NEW w \in Workers, idle'[w] = 0
  PROVE  Outlasts(w)'
<1>1. \A d \in Domains : policy'[d].pause \in Expired..CrawlDelay
  BY DEF TypeInv, TypeOK, StoreTypeOK, PolicyRow
<1> QED
  BY <1>1, StoreAssumption DEF Outlasts, Expired

\* A campaign RUNNING after a step of the fleet has somebody to work on it.
Attended ==
  (\E r \in Runs : run[r] = "RUNNING") =>
    queue > 0 \/ unsent # {} \/ (\E w \in Workers : Busy(w)) \/ Patient

\* The steps of the processes.
LEMMA FleetWorkers ==
  ASSUME ~MayCrash, IdlePolls > CrawlDelay,
         TypeInv, TypeInv', VerdictInv, WorkIsHeld, WorkIsHeld', FleetInv,
         NEW w \in Workers, Launch(w) \/ BusyPoll(w) \/ IdlePoll(w) \/ Work(w)
  PROVE  FleetInv'
<1> USE StoreAssumption, FleetAssumption
<1>0. /\ idle \in [Workers -> Nat] /\ alive \subseteq Workers /\ asleep \subseteq alive
      /\ queue \in Nat /\ Attended /\ worker \in [Workers -> WorkerState]
      /\ \A v \in Workers : Busy(v) => v \in alive \ asleep /\ idle[v] = 0
      /\ \A v \in Workers : worker[v].pc # "down" /\ worker'[v].pc # "down"
  BY BusyFacts DEF FleetInv, Attended, Patient, WorkIsHeld
<1>1. CASE Launch(w)
  <2>1. /\ UNCHANGED vars /\ w \notin alive /\ queue' \in Nat
        /\ alive' = alive \cup {w} /\ idle' = [idle EXCEPT ![w] = 0]
        /\ asleep' = asleep
    BY <1>0, <1>1 DEF Launch
  <2>2. \A v \in Workers : Busy(v)' <=> Busy(v)
    BY <2>1 DEF vars, Busy
  <2>3. Outlasts(w)'
    BY <1>0, <2>1, FreshOutlasts
  <2>4. \A v \in Workers : Busy(v)' => v \in alive' \ asleep' /\ idle'[v] = 0
    BY <1>0, <2>1, <2>2
  <2> QED
    BY <1>0, <2>1, <2>3, <2>4 DEF FleetInv
<1>2. CASE BusyPoll(w)
  <2>1. PICK j \in Jobs : Claim(w, j)
    BY <1>2 DEF BusyPoll
  <2>2. worker' = [worker EXCEPT ![w] = [pc |-> "fetch", token |-> FreshToken(j)]]
    BY <2>1 DEF Claim
  <2>3. Busy(w)' /\ \A v \in Workers \ {w} : Busy(v)' <=> Busy(v)
    BY <1>0, <2>2 DEF Busy, Working
  <2>4. /\ w \in alive \ asleep /\ idle' = [idle EXCEPT ![w] = 0]
        /\ UNCHANGED <<alive, asleep, queue>>
    BY <1>2 DEF BusyPoll
  <2>5. \A v \in Workers : Busy(v)' => v \in alive' \ asleep' /\ idle'[v] = 0
    BY <1>0, <2>3, <2>4
  <2> QED
    BY <1>0, <2>3, <2>4, <2>5 DEF FleetInv
<1>3. CASE IdlePoll(w)
  <2>1. /\ w \in alive \ asleep /\ worker[w].pc = "idle" /\ NothingToClaim
        /\ UNCHANGED <<run, job, policy, worker, queue, unsent>>
    BY <1>3 DEF IdlePoll, vars
  <2>2. ~Busy(w) /\ \A v \in Workers : Busy(v)' <=> Busy(v)
    BY <2>1 DEF Busy, Working
  <2>3. CASE Drained(idle[w] + 1)
    <3>1. alive' = alive \ {w} /\ UNCHANGED <<idle, asleep>>
      BY <1>3, <2>3 DEF IdlePoll
    <3>2. Attended'
      <4> SUFFICES ASSUME NEW r \in Runs, run'[r] = "RUNNING", queue' = 0, unsent' = {},
                          \A v \in Workers : ~Busy(v)'
                   PROVE  Patient'
        BY <1>0, <2>1 DEF Attended
      <4>1. PICK v \in alive : Outlasts(v)
        BY <1>0, <2>1, <2>2 DEF Attended, Patient
      <4>2. CASE v # w
        BY <2>1, <3>1, <4>1, <4>2 DEF Patient, Outlasts
      <4>3. CASE v = w
        <5>1. \A d \in Domains : ~(policy[d].pause > 0)
          <6> SUFFICES ASSUME NEW d \in Domains, policy[d].pause > 0 PROVE FALSE
            OBVIOUS
          <6>1. policy[d].pause + idle[w] <= CrawlDelay
            BY <1>0, <2>1, <4>1, <4>3, BusyFacts DEF Outlasts
          <6>2. idle[w] + 1 >= IdlePolls
            BY <2>3 DEF Drained
          <6> QED
            BY <1>0, <6>1, <6>2, BusyFacts
        <5>2. RunningHasOpenWork
          BY DEF VerdictInv
        <5> QED
          BY <2>1, <2>2, <5>1, <5>2, NothingIsLeft
      <4> QED
        BY <4>2, <4>3
    <3>3. \A v \in Workers : Busy(v)' => v \in alive' \ asleep' /\ idle'[v] = 0
      BY <1>0, <2>2, <3>1
    <3> QED
      BY <1>0, <2>1, <3>1, <3>2, <3>3 DEF FleetInv, Attended, Patient
  <2>4. CASE ~Drained(idle[w] + 1)
    <3>1. /\ idle' = [idle EXCEPT ![w] = @ + 1] /\ asleep' = asleep \cup {w}
          /\ alive' = alive
      BY <1>3, <2>4 DEF IdlePoll
    <3>2. ASSUME NEW v \in alive, Outlasts(v) PROVE Outlasts(v)'
      <4>1. /\ idle'[v] \in Nat /\ idle[v] \in Nat
            /\ idle'[v] - (IF v \in asleep' THEN 1 ELSE 0)
                 = idle[v] - (IF v \in asleep THEN 1 ELSE 0)
        BY <1>0, <2>1, <3>1
      <4>2. \A d \in Domains : policy'[d].pause \in Int /\ policy'[d] = policy[d]
        BY <2>1, BusyFacts
      <4> QED
        BY <3>2, <4>1, <4>2, OutlastsKept
    <3>3. Attended'
      BY <1>0, <2>1, <2>2, <3>1, <3>2 DEF Attended, Patient
    <3>4. \A v \in Workers : Busy(v)' => v \in alive' \ asleep' /\ idle'[v] = 0
      BY <1>0, <2>2, <3>1
    <3> QED
      BY <1>0, <2>1, <3>1, <3>3, <3>4 DEF FleetInv, Attended, Patient
  <2> QED
    BY <2>3, <2>4
<1>4. CASE Work(w)
  <2>1. /\ UNCHANGED <<idle, asleep, queue, unsent>> /\ alive' = alive
        /\ WorkerStep(w)
    BY <1>0, <1>4 DEF Work, Crash
  <2>2. Busy(w) /\ \E x : worker' = [worker EXCEPT ![w] = x]
    BY <2>1 DEF WorkerStep, FetchPage, PersistDocument, ExpandFrontier, ExpansionFails,
       Complete, Fail, LoseLease, Goto, Busy, Working
  <2>3. \A v \in Workers \ {w} : Busy(v)' <=> Busy(v)
    BY <1>0, <2>2 DEF Busy
  <2>4. w \in alive' /\ Outlasts(w)'
    BY <1>0, <2>1, <2>2, FreshOutlasts
  <2>5. \A v \in Workers : Busy(v)' => v \in alive' \ asleep' /\ idle'[v] = 0
    BY <1>0, <2>1, <2>2, <2>3
  <2> QED
    BY <1>0, <2>1, <2>4, <2>5 DEF FleetInv
<1> QED
  BY <1>1, <1>2, <1>3, <1>4

\* The steps of the control plane, its messages and the clock.
LEMMA FleetOthers ==
  ASSUME ~MayFailPublish, TypeInv, TypeInv', FleetInv,
         \/ FleetTick \/ WakeUp \/ UNCHANGED <<vars, fleetVars>>
         \/ \E r \in Runs : FleetControl(r) \/ Repeat(r) \/ Publish(r) \/ PublishFails(r)
  PROVE  FleetInv'
<1> USE StoreAssumption, FleetAssumption
<1>0. /\ idle \in [Workers -> Nat] /\ alive \subseteq Workers /\ asleep \subseteq alive
      /\ queue \in Nat /\ Attended
      /\ \A v \in Workers : Busy(v) => v \in alive \ asleep /\ idle[v] = 0
      /\ \A d \in Domains : policy[d].pause \in Int
  BY BusyFacts DEF FleetInv, Attended, Patient
<1>1. /\ worker' = worker /\ idle' = idle /\ alive' = alive
      /\ asleep' = asleep \/ asleep' = {}
  BY DEF FleetTick, WakeUp, FleetControl, Repeat, Publish, PublishFails, vars, fleetVars,
     Tick
<1>2. \A v \in Workers : Busy(v)' <=> Busy(v)
  BY <1>1 DEF Busy
<1>3. \A v \in Workers : Busy(v)' => v \in alive' \ asleep' /\ idle'[v] = 0
  BY <1>0, <1>1, <1>2
<1>4. queue' \in Nat /\ Attended'
  <2>1. CASE FleetTick
    <3>1. /\ UNCHANGED <<run, queue, unsent>> /\ asleep' = {}
          /\ \A d \in Domains : policy'[d].pause = IF policy[d].pause > 0
                                                   THEN policy[d].pause - 1 ELSE 0
      BY <2>1 DEF FleetTick, Tick
    <3>2. ASSUME NEW v \in alive, Outlasts(v) PROVE Outlasts(v)'
      <4>1. idle[v] \in Nat /\ idle'[v] = idle[v]
        BY <1>0, <1>1
      <4> QED
        BY <1>0, <3>1, <3>2, <4>1, OutlastsKept
    <3> QED
      BY <1>0, <1>1, <1>2, <3>1, <3>2 DEF Attended, Patient
  <2>2. CASE WakeUp
    <3>1. /\ UNCHANGED <<run, queue, unsent>> /\ asleep # {} /\ policy' = policy
          /\ \A d \in Domains : policy[d].pause = 0
      BY <2>2 DEF WakeUp, vars
    <3>2. \A v \in alive : Outlasts(v)'
      BY <3>1 DEF Outlasts
    <3> QED
      BY <1>0, <1>1, <1>2, <3>1, <3>2 DEF Attended, Patient
  <2>3. CASE UNCHANGED <<vars, fleetVars>>
    BY <1>0, <1>2, <2>3 DEF vars, fleetVars, Attended, Patient, Outlasts
  <2>4. ASSUME NEW r \in Runs, FleetControl(r) PROVE queue' \in Nat /\ Attended'
    <3>1. /\ UNCHANGED <<policy, idle, alive, asleep, queue>>
          /\ unsent' = IF Announced(r) THEN unsent \cup {r} ELSE unsent
          /\ \A q \in Runs \ {r} : run'[q] = run[q]
      BY <2>4 DEF FleetControl, Control, StartCrawlRun, PauseCrawlRun, ResumeCrawlRun,
         CancelCrawlRun, TypeInv, TypeOK, StoreTypeOK
    <3>2. CASE run'[r] = "RUNNING"
      BY <1>0, <3>1, <3>2 DEF Announced, Attended
    <3>3. CASE run'[r] # "RUNNING"
      BY <1>0, <1>2, <3>1, <3>3 DEF Announced, Attended, Patient, Outlasts
    <3> QED
      BY <3>2, <3>3
  <2>5. ASSUME NEW r \in Runs, Repeat(r) \/ Publish(r) PROVE queue' \in Nat /\ Attended'
    BY <1>0, <2>5 DEF Repeat, Publish, Attended
  <2> QED
    BY <2>1, <2>2, <2>3, <2>4, <2>5 DEF PublishFails
<1> QED
  BY <1>0, <1>1, <1>3, <1>4 DEF FleetInv, Attended, Patient

\* If leases outlast the work, no process dies, every message is sent, and a
\* worker polls more often in vain than a host needs ticks to cool down, then
\* a RUNNING campaign always has a worker or a message that starts one.
THEOREM WorkIsAttended ==
  ASSUME Timely, ~MayCrash, ~MayFailPublish, IdlePolls > CrawlDelay
  PROVE  FleetSpec => []NobodyLeavesWork
<1> DEFINE WaitInv == /\ TypeInv /\ LeaseInv /\ TokenInv /\ VerdictInv
                      /\ HoldsLease /\ WorkIsHeld /\ FleetInv
<1>1. FleetInit => WaitInv
  <2> SUFFICES ASSUME FleetInit PROVE WaitInv
    OBVIOUS
  <2>1. TypeInv /\ LeaseInv /\ TokenInv /\ VerdictInv
    BY TypeInit, LeaseInit, TokenInit, VerdictInit DEF FleetInit
  <2>2. /\ \A w \in Workers : worker[w].pc = "idle" /\ ~Busy(w)
        /\ \A j \in Jobs : job[j].status # "LEASED" /\ job[j].attempts = 0
        /\ \A d \in Domains : policy[d].left = Expired
        /\ \A r \in Runs : run[r] # "RUNNING"
    BY DEF FleetInit, Init, StoreInit, Idle, Busy, Working, NewJob, NoJob, Unleased,
       NewPolicy
  <2>3. HoldsLease /\ WorkIsHeld
    BY <2>2, StoreAssumption DEF HoldsLease, WorkIsHeld, Busy, Expired
  <2>4. FleetInv
    BY <2>2 DEF FleetInit, FleetInv
  <2> QED
    BY <2>1, <2>3, <2>4
<1>2. WaitInv /\ [FleetNext]_<<vars, fleetVars>> => WaitInv'
  <2> SUFFICES ASSUME WaitInv, [FleetNext]_<<vars, fleetVars>> PROVE WaitInv'
    OBVIOUS
  <2>1. [Next]_vars
    BY FleetStep
  <2>2. TypeInv' /\ LeaseInv' /\ TokenInv' /\ VerdictInv'
    BY <2>1, TypeStep, LeaseStep, TokenStep, VerdictStep
  <2>3. HoldsLease' /\ WorkIsHeld'
    BY <2>1, HoldsStep, HeldStep
  <2>4. FleetInv'
    BY <2>2, <2>3, FleetWorkers, FleetOthers DEF FleetNext
  <2> QED
    BY <2>2, <2>3, <2>4
<1>3. WaitInv => NobodyLeavesWork
  BY DEF FleetInv, NobodyLeavesWork, Busy
<1>4. QED
  BY <1>1, <1>2, <1>3, PTL DEF FleetSpec

=============================================================================
