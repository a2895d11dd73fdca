----------------------------- MODULE PartProofs -----------------------------
(***************************************************************************)
(* The parts that share no state with the crawl keep their invariants, for  *)
(* every value of their constants.                                          *)
(***************************************************************************)
EXTENDS PageFetching, WorkerHeartbeats, CampaignCreation, FrontierDiscovery,
        FiniteSetTheorems, TLAPS

(* One fetch: HttpxPageFetcher *)

\* Strengthened: the counters agree until a chunk is one too many.
FetchInv ==
  /\ fetching \in {"request", "body", "returned", "failed"}
  /\ {fetched, body, arrived} \subseteq Nat
  /\ body <= MaxResponseBytes
  /\ fetching # "failed" => body = arrived /\ fetched = arrived

\* Whatever the server declares and sends, a fetch holds no more than the
\* limit, and a page it returns is all that was handed over.
THEOREM PageSafe == FetchSpec => []PageIsWholeAndBounded
<1> USE FetchAssumption
<1>1. FetchInit => FetchInv
  BY DEF FetchInit, FetchInv
<1>2. FetchInv /\ [FetchNext]_fetchVars => FetchInv'
  <2> SUFFICES ASSUME FetchInv, [FetchNext]_fetchVars PROVE FetchInv'
    OBVIOUS
  <2> USE DEF FetchInv
  <2>1. CASE Headers
    BY <2>1 DEF Headers
  <2>2. ASSUME NEW n \in ChunkSizes, Chunk(n) PROVE FetchInv'
    BY <2>2 DEF Chunk, TooLarge
  <2>3. CASE RequestFails
    BY <2>3 DEF RequestFails
  <2>4. CASE BodyEnds
    BY <2>4 DEF BodyEnds
  <2>5. CASE UNCHANGED fetchVars
    BY <2>5 DEF fetchVars
  <2> QED
    BY <2>1, <2>2, <2>3, <2>4, <2>5 DEF FetchNext
<1>3. FetchInv => PageIsWholeAndBounded
  BY DEF FetchInv, PageIsWholeAndBounded
<1> QED
  BY <1>1, <1>2, <1>3, PTL DEF FetchSpec

-----------------------------------------------------------------------------
(* The rows of worker processes: WorkerHeartbeatRecorder and worker_loop.py *)

\* What a process and its row may look like.
ProcessRows == [at : Running \cup {"new", "gone"}, job : Leasable \cup {NoJob},
                failed : BOOLEAN, reported : BOOLEAN]

HeartbeatRows == [status : {"ABSENT", "STARTING", "PROCESSING", "IDLE", "STOPPED"},
                  job : Leasable \cup {NoJob}]

HeartbeatType ==
  /\ process \in [Processes -> ProcessRows]
  /\ heartbeat \in [WorkerIds -> HeartbeatRows]

\* One process at a time lives under an id, and has reported nothing at first.
OneLifeAtATime ==
  /\ \A p, q \in Processes :
       IdOf[p] = IdOf[q] /\ process[p].at \in Running /\ process[q].at \in Running => p = q
  /\ \A p \in Processes : process[p].at = "new" => ~process[p].reported

HeartbeatInv == HeartbeatType /\ OneLifeAtATime /\ RowsTellTheTruth

\* Nobody else lives under the id of p.
Alone(p) == \A q \in Processes \ {p} : IdOf[q] = IdOf[p] => process[q].at \notin Running

\* p goes on with record r, and leaves row behind under its id.
Leaves(p, r, row) ==
  /\ process' = [process EXCEPT ![p] = r]
  /\ heartbeat' = [heartbeat EXCEPT ![IdOf[p]] = row]

\* Where a process is that has reported its job, or may have.
Past == {"working", "leaving", "stopping", "gone"}

\* row is a true row for p at r, given what it said before.
TrueRow(p, r, row) ==
  /\ row.status = "STOPPED" => r.at \notin Running
  /\ r.at = "working" => row = [status |-> "PROCESSING", job |-> r.job]
  /\ r.at \in {"poll", "claimed"} /\ r.reported => row.job = NoJob
  /\ row.status = "PROCESSING" =>
       \/ r.at = "working"
       \/ /\ row = heartbeat[IdOf[p]]
          /\ process[p].at \in Past => r.at \in Past /\ r.job = process[p].job

\* A step of one process that leaves a true row behind keeps the invariant.
LEMMA HeartbeatStep ==
  ASSUME HeartbeatInv, NEW p \in Processes, NEW r \in ProcessRows, NEW row \in HeartbeatRows,
         Leaves(p, r, row), TrueRow(p, r, row), Alone(p), r.at # "new"
  PROVE  HeartbeatInv'
<1> USE HeartbeatAssumption DEF HeartbeatInv
<1> DEFINE i == IdOf[p]
<1>1. /\ HeartbeatType'
      /\ process'[p] = r /\ heartbeat'[i] = row /\ i \in WorkerIds
      /\ \A q \in Processes \ {p} : process'[q] = process[q]
      /\ \A k \in WorkerIds \ {i} : heartbeat'[k] = heartbeat[k]
  BY DEF HeartbeatType, Leaves
<1>2. OneLifeAtATime'
  BY <1>1 DEF OneLifeAtATime, Alone
<1>3. RowsTellTheTruth'
  <2> SUFFICES ASSUME NEW k \in WorkerIds
               PROVE  /\ heartbeat'[k].status = "STOPPED" =>
                           \A q \in Processes : IdOf[q] = k => process'[q].at \notin Running
                      /\ \A q \in Processes : IdOf[q] = k /\ process'[q].at \in Running =>
                           /\ process'[q].at = "working" =>
                                heartbeat'[k] = [status |-> "PROCESSING", job |-> process'[q].job]
                           /\ process'[q].at \in {"poll", "claimed"} /\ process'[q].reported =>
                                heartbeat'[k].job = NoJob
                      /\ heartbeat'[k].status = "PROCESSING" =>
                           \E q \in Processes :
                             /\ IdOf[q] = k /\ process'[q].job = heartbeat'[k].job
                             /\ process'[q].at \in Past
    BY DEF RowsTellTheTruth, LivesUnder, Past
  <2>1. CASE k # i
    BY <1>1, <2>1 DEF RowsTellTheTruth, LivesUnder, Past
  <2>2. CASE k = i
    <3>1. \A q \in Processes : IdOf[q] = k /\ process'[q].at \in Running => q = p
      BY <1>1, <2>2 DEF Alone
    <3>2. ASSUME row.status = "PROCESSING"
          PROVE  \E q \in Processes : /\ IdOf[q] = k /\ process'[q].job = row.job
                                      /\ process'[q].at \in Past
      <4>1. CASE r.at = "working"
        BY <1>1, <2>2, <4>1 DEF TrueRow, Past
      <4>2. CASE r.at # "working"
        <5>1. PICK q \in Processes : /\ IdOf[q] = k /\ process[q].job = row.job
                                     /\ process[q].at \in Past
          BY <2>2, <3>2, <4>2 DEF TrueRow, RowsTellTheTruth, Past
        <5> QED
          BY <1>1, <2>2, <3>2, <4>2, <5>1 DEF TrueRow
      <4> QED
        BY <4>1, <4>2
    <3> QED
      BY <1>1, <2>2, <3>1, <3>2 DEF TrueRow
  <2> QED
    BY <2>1, <2>2
<1> QED
  BY <1>1, <1>2, <1>3

\* A running process goes on, and leaves its row as it is.
LEMMA HeartbeatKept ==
  ASSUME HeartbeatInv, NEW p \in Processes, NEW r \in ProcessRows,
         process' = [process EXCEPT ![p] = r], UNCHANGED heartbeat,
         process[p].at \in Running, r.at \notin {"new", "working"},
         process[p].at \in Past => r.at \in Past /\ r.job = process[p].job,
         r.at \in {"poll", "claimed"} =>
           process[p].at \in {"poll", "claimed"} /\ r.reported = process[p].reported
  PROVE  HeartbeatInv'
<1> USE HeartbeatAssumption
<1> DEFINE row == heartbeat[IdOf[p]]
<1>1. row \in HeartbeatRows
  BY DEF HeartbeatInv, HeartbeatType
<1>2. Leaves(p, r, row)
  BY DEF Leaves, HeartbeatInv, HeartbeatType
<1>3. Alone(p)
  BY DEF Alone, HeartbeatInv, OneLifeAtATime
<1>4. TrueRow(p, r, row)
  BY DEF TrueRow, HeartbeatInv, RowsTellTheTruth, LivesUnder, Past
<1> HIDE DEF row
<1> QED
  BY <1>1, <1>2, <1>3, <1>4, HeartbeatStep

\* A running process goes on, and writes its row.
LEMMA HeartbeatWritten ==
  ASSUME HeartbeatInv, NEW p \in Processes, NEW r \in ProcessRows, NEW s, NEW j,
         process' = [process EXCEPT ![p] = r], RecordHeartbeat(p, s, j),
         process[p].at \in Running, r.at # "new",
         \/ s = "PROCESSING" /\ r.at = "working" /\ j = r.job
         \/ s = "IDLE" /\ j = NoJob /\ r.at # "working"
         \/ s = "STOPPED" /\ j = NoJob /\ r.at = "gone"
  PROVE  HeartbeatInv'
<1> USE HeartbeatAssumption
<1> DEFINE row == [status |-> s, job |-> j]
<1>1. row \in HeartbeatRows
  BY DEF HeartbeatRows, ProcessRows
<1>2. Leaves(p, r, row)
  BY DEF Leaves, RecordHeartbeat
<1>3. Alone(p)
  BY DEF Alone, HeartbeatInv, OneLifeAtATime
<1>4. TrueRow(p, r, row)
  BY DEF TrueRow, Running
<1> HIDE DEF row
<1> QED
  BY <1>1, <1>2, <1>3, <1>4, HeartbeatStep

\* The fields of a record that moves.
LEMMA Moved ==
  ASSUME HeartbeatType, NEW p \in Processes, NEW at \in Running \cup {"gone"}, Moves(p, at)
  PROVE  \E r \in ProcessRows :
           /\ process' = [process EXCEPT ![p] = r]
           /\ r.at = at /\ r.job = process[p].job /\ r.reported = process[p].reported
<1> DEFINE r == [process[p] EXCEPT !.at = at]
<1>1. process[p] \in ProcessRows
  BY DEF HeartbeatType
<1>2. r \in ProcessRows /\ r.at = at /\ r.job = process[p].job /\ r.reported = process[p].reported
  BY <1>1 DEF ProcessRows
<1>3. process' = [process EXCEPT ![p] = r]
  BY DEF Moves, HeartbeatType
<1> QED
  BY <1>2, <1>3

\* A process in a loop that fails or ends its cycle.
LEMMA Failed ==
  ASSUME HeartbeatType, NEW p \in Processes, NEW at \in Running, NEW e \in BOOLEAN,
         process' = [process EXCEPT ![p].at = at, ![p].failed = e]
  PROVE  \E r \in ProcessRows :
           /\ process' = [process EXCEPT ![p] = r]
           /\ r.at = at /\ r.job = process[p].job /\ r.reported = process[p].reported
<1> DEFINE r == [process[p] EXCEPT !.at = at, !.failed = e]
<1>1. process[p] \in ProcessRows
  BY DEF HeartbeatType
<1>2. r \in ProcessRows /\ r.at = at /\ r.job = process[p].job /\ r.reported = process[p].reported
  BY <1>1 DEF ProcessRows
<1>3. process' = [process EXCEPT ![p] = r]
  BY DEF HeartbeatType
<1> QED
  BY <1>2, <1>3

\* However processes under one id begin, fail, stop and die, their row misleads
\* no reader about a process that reports.
THEOREM RowsSafe == HeartbeatSpec => []RowsTellTheTruth
<1> USE HeartbeatAssumption
<1>1. HeartbeatInit => HeartbeatInv
  BY DEF HeartbeatInit, HeartbeatInv, HeartbeatType, ProcessRows, HeartbeatRows,
         OneLifeAtATime, RowsTellTheTruth, LivesUnder, Running
<1>2. HeartbeatInv /\ [HeartbeatNext]_heartbeatVars => HeartbeatInv'
  <2> SUFFICES ASSUME HeartbeatInv, [HeartbeatNext]_heartbeatVars PROVE HeartbeatInv'
    OBVIOUS
  <2>1. CASE UNCHANGED heartbeatVars
    BY <2>1 DEF heartbeatVars, HeartbeatInv, HeartbeatType, OneLifeAtATime, RowsTellTheTruth,
           LivesUnder
  <2> SUFFICES ASSUME NEW p \in Processes,
                      \/ Begins(p) \/ LeasesJob(p) \/ FindsNothing(p) \/ ReportsProcessing(p)
                      \/ EndsCycle(p) \/ ReportsIdle(p) \/ LeavesLoop(p) \/ Stops(p) \/ Dies(p)
               PROVE  HeartbeatInv'
    BY <2>1 DEF HeartbeatNext
  <2>2. process[p] \in ProcessRows /\ HeartbeatType
    BY DEF HeartbeatInv, HeartbeatType
  <2>3. CASE Begins(p)
    <3>1. Alone(p) /\ ~process[p].reported /\ process[p].at = "new"
      BY <2>3 DEF Begins, Alone, HeartbeatInv, OneLifeAtATime, Running
    <3>2. CASE heartbeat' = [heartbeat EXCEPT ![IdOf[p]] = Registered(@)] /\ Moves(p, "poll")
      <4> DEFINE row == Registered(heartbeat[IdOf[p]])
      <4>1. PICK r \in ProcessRows : /\ process' = [process EXCEPT ![p] = r]
                                     /\ r.at = "poll" /\ r.reported = process[p].reported
        BY <2>2, <3>2, Moved DEF Running
      <4>2. row \in HeartbeatRows /\ Leaves(p, r, row)
        BY <2>2, <3>2, <4>1 DEF HeartbeatType, HeartbeatRows, Registered, Leaves
      <4>3. TrueRow(p, r, row)
        BY <3>1, <4>1 DEF TrueRow, Registered, Past
      <4> HIDE DEF row
      <4> QED
        BY <3>1, <4>1, <4>2, <4>3, HeartbeatStep
    <3>3. CASE UNCHANGED heartbeat /\ Moves(p, "gone")
      <4> DEFINE row == heartbeat[IdOf[p]]
      <4>1. PICK r \in ProcessRows : process' = [process EXCEPT ![p] = r] /\ r.at = "gone"
        BY <2>2, <3>3, Moved
      <4>2. row \in HeartbeatRows /\ Leaves(p, r, row)
        BY <2>2, <3>3, <4>1 DEF HeartbeatType, Leaves
      <4>3. TrueRow(p, r, row)
        BY <3>1, <4>1 DEF TrueRow, Past, Running
      <4> HIDE DEF row
      <4> QED
        BY <3>1, <4>1, <4>2, <4>3, HeartbeatStep
    <3> QED
      BY <2>3, <3>2, <3>3 DEF Begins
  <2>4. CASE LeasesJob(p)
    <3>1. PICK j \in Leasable : process' = [process EXCEPT ![p].at = "claimed", ![p].job = j]
      BY <2>4 DEF LeasesJob
    <3> DEFINE r == [process[p] EXCEPT !.at = "claimed", !.job = j]
    <3>2. r \in ProcessRows /\ r.at = "claimed" /\ r.reported = process[p].reported
      BY <2>2 DEF ProcessRows, Running
    <3>3. process' = [process EXCEPT ![p] = r]
      BY <2>2, <3>1 DEF HeartbeatType
    <3>4. process[p].at = "poll" /\ UNCHANGED heartbeat
      BY <2>4 DEF LeasesJob
    <3> HIDE DEF r
    <3> QED
      BY <3>2, <3>3, <3>4, HeartbeatKept DEF Running, Past
  <2>5. CASE FindsNothing(p) \/ LeavesLoop(p) \/ Dies(p)
    <3>1. PICK at \in {"leaving", "stopping", "gone"} :
            Moves(p, at) /\ (at # "gone" => process[p].at = "poll")
      BY <2>5 DEF FindsNothing, LeavesLoop, Dies
    <3>2. process[p].at \in Running /\ UNCHANGED heartbeat
      BY <2>5 DEF FindsNothing, LeavesLoop, Dies, Running
    <3>3. PICK r \in ProcessRows : process' = [process EXCEPT ![p] = r] /\ r.at = at
                                   /\ r.job = process[p].job
      BY <2>2, <3>1, Moved DEF Running
    <3> QED
      BY <3>1, <3>2, <3>3, HeartbeatKept DEF Past
  <2>6. CASE ReportsProcessing(p)
    <3>1. process[p].at = "claimed"
      BY <2>6 DEF ReportsProcessing
    <3>2. CASE /\ RecordHeartbeat(p, "PROCESSING", process[p].job)
               /\ process' = [process EXCEPT ![p].at = "working", ![p].reported = TRUE]
      <4> DEFINE r == [process[p] EXCEPT !.at = "working", !.reported = TRUE]
      <4>1. r \in ProcessRows /\ r.at = "working" /\ r.job = process[p].job
        BY <2>2 DEF ProcessRows, Running
      <4>2. process' = [process EXCEPT ![p] = r]
        BY <2>2, <3>2 DEF HeartbeatType
      <4> HIDE DEF r
      <4> QED
        BY <3>1, <3>2, <4>1, <4>2, HeartbeatWritten DEF Running
    <3>3. CASE /\ process' = [process EXCEPT ![p].at = "leaving", ![p].failed = TRUE]
               /\ UNCHANGED heartbeat
      <4>1. PICK r \in ProcessRows : process' = [process EXCEPT ![p] = r] /\ r.at = "leaving"
        BY <2>2, <3>3, Failed DEF Running
      <4> QED
        BY <3>1, <3>3, <4>1, HeartbeatKept DEF Running, Past
    <3> QED
      BY <2>6, <3>2, <3>3 DEF ReportsProcessing
  <2>7. CASE EndsCycle(p)
    <3>1. PICK error \in BOOLEAN :
            process' = [process EXCEPT ![p].at = "leaving", ![p].failed = error]
      BY <2>7 DEF EndsCycle
    <3>2. process[p].at = "working" /\ UNCHANGED heartbeat
      BY <2>7 DEF EndsCycle
    <3>3. PICK r \in ProcessRows : process' = [process EXCEPT ![p] = r] /\ r.at = "leaving"
                                   /\ r.job = process[p].job
      BY <2>2, <3>1, Failed DEF Running
    <3> QED
      BY <3>2, <3>3, HeartbeatKept DEF Running, Past
  <2>8. CASE ReportsIdle(p)
    <3>1. process[p].at = "leaving"
      BY <2>8 DEF ReportsIdle
    <3> DEFINE r == [at |-> IF process[p].failed THEN "stopping" ELSE "poll",
                     job |-> NoJob, failed |-> process[p].failed, reported |-> TRUE]
    <3>2. CASE RecordHeartbeat(p, "IDLE", NoJob) /\ process' = [process EXCEPT ![p] = r]
      <4>1. r \in ProcessRows /\ r.at \in {"stopping", "poll"}
        BY <2>2 DEF ProcessRows, Running
      <4> HIDE DEF r
      <4> QED
        BY <3>1, <3>2, <4>1, HeartbeatWritten DEF Running
    <3>3. CASE /\ process' = [process EXCEPT ![p].at = "stopping", ![p].failed = TRUE]
               /\ UNCHANGED heartbeat
      <4>1. PICK q \in ProcessRows : process' = [process EXCEPT ![p] = q] /\ q.at = "stopping"
                                     /\ q.job = process[p].job
        BY <2>2, <3>3, Failed DEF Running
      <4> QED
        BY <3>1, <3>3, <4>1, HeartbeatKept DEF Running, Past
    <3> QED
      BY <2>8, <3>2, <3>3 DEF ReportsIdle
  <2>9. CASE Stops(p)
    <3>1. process[p].at = "stopping"
      BY <2>9 DEF Stops
    <3>2. CASE StopWorker(p) /\ process' = [process EXCEPT ![p].at = "gone", ![p].job = NoJob]
      <4> DEFINE r == [process[p] EXCEPT !.at = "gone", !.job = NoJob]
      <4>1. r \in ProcessRows /\ r.at = "gone"
        BY <2>2 DEF ProcessRows, Running
      <4>2. process' = [process EXCEPT ![p] = r]
        BY <2>2, <3>2 DEF HeartbeatType
      <4> HIDE DEF r
      <4> QED
        BY <3>1, <3>2, <4>1, <4>2, HeartbeatWritten DEF Running, StopWorker
    <3>3. CASE UNCHANGED heartbeat /\ Moves(p, "gone")
      <4>1. PICK r \in ProcessRows : process' = [process EXCEPT ![p] = r] /\ r.at = "gone"
                                     /\ r.job = process[p].job
        BY <2>2, <3>3, Moved
      <4> QED
        BY <3>1, <3>3, <4>1, HeartbeatKept DEF Running, Past
    <3> QED
      BY <2>9, <3>2, <3>3 DEF Stops
  <2> QED
    BY <2>3, <2>4, <2>5, <2>6, <2>7, <2>8, <2>9
<1>3. HeartbeatInv => RowsTellTheTruth
  BY DEF HeartbeatInv
<1> QED
  BY <1>1, <1>2, <1>3, PTL DEF HeartbeatSpec

-----------------------------------------------------------------------------
(* Creating campaigns: create_crawl_run *)

\* The payloads that are not answered 422, and what is made of them.
ValidPayloads == {p \in Payloads : ValidPayload(p)}

CampaignRows == [id : Clients \X Nat, key : Keys, payload : ValidPayloads]

Requests == [at : {"idle", "lookup", "flush", "commit", "reread"}, key : Keys \cup {NoRow},
             payload : ValidPayloads \cup {NoRow}, row : CampaignRows \cup {NoRow}, sent : Nat]

\* A request under way has its key and payload, and the row it inserted.
RequestsAreWhole ==
  /\ creation \in [Clients -> Requests]
  /\ \A c \in Clients :
       /\ creation[c].at # "idle" => /\ creation[c].key \in Keys
                                     /\ creation[c].payload \in ValidPayloads
       /\ creation[c].at = "commit" =>
            creation[c].row = [id |-> <<c, creation[c].sent>>, key |-> creation[c].key,
                               payload |-> creation[c].payload]

\* One campaign or pending insert per key, one campaign per id.
KeysAreUnique ==
  /\ \A a, b \in campaigns : a.key = b.key => a = b
  /\ \A c \in Clients : creation[c].at = "commit" =>
       /\ \A row \in campaigns : row.key # creation[c].key
       /\ \A d \in Clients : creation[d].at = "commit" /\ creation[d].key = creation[c].key
                               => c = d
  /\ \A c \in Clients : creation[c].at = "reread" =>
       \E row \in campaigns : row.key = creation[c].key

\* An id is that of a request which has ended.
IdsAreUnique ==
  /\ campaigns \subseteq CampaignRows
  /\ \A a, b \in campaigns : a.id = b.id => a = b
  /\ \A row \in campaigns : \A c \in Clients : row.id[1] = c =>
       /\ row.id[2] <= creation[c].sent
       /\ row.id[2] = creation[c].sent => creation[c].at = "idle"

\* The committed jobs are those of the committed campaigns.
JobsAreTheSeeds ==
  seedJobs = UNION {{<<row.id, url>> : url \in ToSet(SeedUrls(row.payload))} : row \in campaigns}

\* What was answered stays true: campaigns are never taken back.
AnswersAreTrue ==
  \A a \in answers :
    /\ a.result \in {"created", "found", "conflict"}
    /\ a.result # "conflict" =>
         a.row \in campaigns /\ a.row.key = a.key /\ SeedUrls(a.row.payload) = SeedUrls(a.payload)
    /\ a.result = "conflict" =>
         \E row \in campaigns :
           /\ row.key = a.key
           /\ \/ SeedUrls(row.payload) # SeedUrls(a.payload)
              \/ row.payload.settings # a.payload.settings

CreationInv ==
  /\ RequestsAreWhole /\ KeysAreUnique /\ IdsAreUnique /\ JobsAreTheSeeds /\ AnswersAreTrue

\* The two properties of creation follow from the invariant.
LEMMA CreationInvGivesProperties ==
  CreationInv => CreationIsIdempotent /\ RefusalsAreJustified
<1> SUFFICES ASSUME CreationInv PROVE CreationIsIdempotent /\ RefusalsAreJustified
  OBVIOUS
<1>1. RefusalsAreJustified
  BY DEF RefusalsAreJustified, CreationInv, AnswersAreTrue
<1>2. \A a, b \in {a \in answers : a.result \in {"created", "found"}} :
       a.key = b.key => a.row = b.row /\ SeedUrls(a.payload) = SeedUrls(b.payload)
  BY DEF CreationInv, AnswersAreTrue, KeysAreUnique
<1>3. ASSUME NEW row \in campaigns
      PROVE  {url \in UNION {ToSet(SeedUrls(p)) : p \in Payloads} : <<row.id, url>> \in seedJobs}
                = ToSet(SeedUrls(row.payload))
  <2>1. row.payload \in Payloads
    BY DEF CreationInv, IdsAreUnique, CampaignRows, ValidPayloads
  <2>2. \A url : <<row.id, url>> \in seedJobs => url \in ToSet(SeedUrls(row.payload))
    BY DEF CreationInv, JobsAreTheSeeds, IdsAreUnique
  <2>3. \A url \in ToSet(SeedUrls(row.payload)) : <<row.id, url>> \in seedJobs
    BY DEF CreationInv, JobsAreTheSeeds
  <2> QED
    BY <2>1, <2>2, <2>3
<1>4. \A j \in seedJobs : \E row \in campaigns : row.id = j[1]
  BY DEF CreationInv, JobsAreTheSeeds
<1> QED
  BY <1>1, <1>2, <1>3, <1>4 DEF CreationIsIdempotent

\* Request c may become r.
MayBecome(c, r) ==
  /\ r.sent >= creation[c].sent
  /\ r.sent = creation[c].sent => creation[c].at # "idle" \/ r.at = "idle"
  /\ r.at # "idle" => r.key \in Keys /\ r.payload \in ValidPayloads
  /\ r.at = "commit" =>
       /\ r.row = [id |-> <<c, r.sent>>, key |-> r.key, payload |-> r.payload]
       /\ \A row \in campaigns : row.key # r.key
       /\ \A d \in Clients \ {c} : creation[d].at = "commit" => creation[d].key # r.key
  /\ r.at = "reread" => \E row \in campaigns : row.key = r.key

\* A step of request c that commits nothing.
LEMMA CreationStep ==
  ASSUME CreationInv, NEW c \in Clients, NEW r \in Requests, MayBecome(c, r),
         creation' = [creation EXCEPT ![c] = r], UNCHANGED <<campaigns, seedJobs>>
  PROVE  RequestsAreWhole' /\ KeysAreUnique' /\ IdsAreUnique' /\ JobsAreTheSeeds'
<1> USE DEF CreationInv, MayBecome
<1>1. /\ creation' \in [Clients -> Requests] /\ creation'[c] = r
      /\ \A d \in Clients \ {c} : creation'[d] = creation[d]
  BY DEF RequestsAreWhole
<1>2. RequestsAreWhole'
  BY <1>1 DEF RequestsAreWhole
<1>3. KeysAreUnique'
  BY <1>1 DEF KeysAreUnique
<1>4. IdsAreUnique'
  BY <1>1 DEF IdsAreUnique, RequestsAreWhole, CampaignRows, Requests
<1>5. JobsAreTheSeeds'
  BY DEF JobsAreTheSeeds
<1> QED
  BY <1>2, <1>3, <1>4, <1>5

\* A client without a request.
LEMMA IdleIsRequest ==
  ASSUME NEW n \in Nat
  PROVE  Idle(n) \in Requests /\ Idle(n).at = "idle" /\ Idle(n).sent = n
BY DEF Idle, Requests

\* A request answered with a row of its key, or refused it.
LEMMA CreationAnswered ==
  ASSUME CreationInv, NEW c \in Clients, creation[c].at # "idle",
         NEW row \in Existing(creation[c].key), AnsweredWith(c, row),
         UNCHANGED <<campaigns, seedJobs>>
  PROVE  CreationInv'
<1> DEFINE n == creation[c].sent
           result == IF SameRequest(row, creation[c].payload) THEN "found" ELSE "conflict"
<1>1. n \in Nat
  BY DEF CreationInv, RequestsAreWhole, Requests
<1>2. creation' = [creation EXCEPT ![c] = Idle(n)]
  BY DEF AnsweredWith, Answered
<1>a. Idle(n) \in Requests /\ MayBecome(c, Idle(n))
  BY <1>1, IdleIsRequest DEF MayBecome
<1>3. RequestsAreWhole' /\ KeysAreUnique' /\ IdsAreUnique' /\ JobsAreTheSeeds'
  BY <1>2, <1>a, CreationStep DEF AnsweredWith, Answered
<1>4. \A a \in answers' : a \in answers \/
        a = [key |-> creation[c].key, payload |-> creation[c].payload,
             result |-> result, row |-> row]
  BY DEF AnsweredWith, Answered
<1>5. row \in campaigns /\ row.key = creation[c].key
  BY DEF Existing
<1>6. AnswersAreTrue'
  BY <1>4, <1>5 DEF CreationInv, AnswersAreTrue, SameRequest
<1> QED
  BY <1>3, <1>6 DEF CreationInv

\* No interleaving of requests breaks the invariant of the stored campaigns.
THEOREM CreationInvariance == CreationSpec => []CreationInv
<1>1. CreationInit => CreationInv
  <2> SUFFICES ASSUME CreationInit PROVE CreationInv
    OBVIOUS
  <2>1. RequestsAreWhole
    BY IdleIsRequest DEF CreationInit, RequestsAreWhole, Idle
  <2> QED
    BY <2>1 DEF CreationInit, CreationInv, KeysAreUnique, IdsAreUnique, JobsAreTheSeeds,
           AnswersAreTrue, Idle
<1>2. CreationInv /\ [CreationNext]_creationVars => CreationInv'
  <2> SUFFICES ASSUME CreationInv, [CreationNext]_creationVars PROVE CreationInv'
    OBVIOUS
  <2>1. CASE UNCHANGED creationVars
    BY <2>1 DEF creationVars, CreationInv, RequestsAreWhole, KeysAreUnique, IdsAreUnique,
           JobsAreTheSeeds, AnswersAreTrue
  <2> SUFFICES ASSUME NEW c \in Clients,
                      Post(c) \/ Lookup(c) \/ Flush(c) \/ Commit(c) \/ Reread(c) \/ Aborts(c)
               PROVE  CreationInv'
    BY <2>1 DEF CreationNext
  <2> DEFINE q == creation[c]
  <2>2. q \in Requests /\ q.sent \in Nat
    BY DEF CreationInv, RequestsAreWhole, Requests
  <2>3. CASE Post(c)
    <3>1. PICK key \in Keys, p \in ValidPayloads :
            creation' = [creation EXCEPT ![c] =
              [at |-> "lookup", key |-> key, payload |-> p, row |-> NoRow, sent |-> @.sent + 1]]
      BY <2>3 DEF Post, ValidPayloads
    <3> DEFINE r == [at |-> "lookup", key |-> key, payload |-> p, row |-> NoRow,
                     sent |-> q.sent + 1]
    <3>2. r \in Requests /\ creation' = [creation EXCEPT ![c] = r]
      BY <2>2, <3>1 DEF Requests
    <3>3. RequestsAreWhole' /\ KeysAreUnique' /\ IdsAreUnique' /\ JobsAreTheSeeds'
      <4>1. MayBecome(c, r)
        BY <2>2, <2>3, <3>1 DEF MayBecome
      <4> QED
        BY <2>3, <3>2, <4>1, CreationStep DEF Post
    <3> QED
      BY <2>3, <3>3 DEF Post, CreationInv, AnswersAreTrue
  <2>4. CASE Lookup(c)
    <3>1. CASE \E row \in Existing(q.key) : AnsweredWith(c, row)
      BY <2>4, <3>1, CreationAnswered DEF Lookup
    <3>2. CASE creation' = [creation EXCEPT ![c].at = "flush"] /\ UNCHANGED answers
      <4> DEFINE r == [q EXCEPT !.at = "flush"]
      <4>1. /\ r \in Requests /\ r.at = "flush" /\ r.sent = q.sent
            /\ r.key = q.key /\ r.payload = q.payload
        BY <2>2 DEF Requests
      <4>2. creation' = [creation EXCEPT ![c] = r]
        BY <3>2 DEF CreationInv, RequestsAreWhole
      <4>3. q.at = "lookup" /\ q.key \in Keys /\ q.payload \in ValidPayloads
        BY <2>4 DEF Lookup, CreationInv, RequestsAreWhole
      <4> HIDE DEF r
      <4>4. RequestsAreWhole' /\ KeysAreUnique' /\ IdsAreUnique' /\ JobsAreTheSeeds'
        <5>1. MayBecome(c, r)
          BY <2>2, <4>1, <4>3 DEF MayBecome
        <5> QED
          BY <2>4, <4>1, <4>2, <5>1, CreationStep DEF Lookup
      <4> QED
        BY <2>4, <3>2, <4>4 DEF Lookup, CreationInv, AnswersAreTrue
    <3> QED
      BY <2>4, <3>1, <3>2 DEF Lookup
  <2>5. CASE Flush(c)
    <3> DEFINE taken == KeyTaken(q.key)
               inserted == [id |-> <<c, q.sent>>, key |-> q.key, payload |-> q.payload]
               r == [q EXCEPT !.at = IF taken THEN "reread" ELSE "commit",
                              !.row = IF taken THEN NoRow ELSE inserted]
    <3>1. q.at = "flush" /\ q.key \in Keys /\ q.payload \in ValidPayloads
      BY <2>5 DEF Flush, CreationInv, RequestsAreWhole
    <3>2. inserted \in CampaignRows
      BY <2>2, <3>1 DEF CampaignRows
    <3>3. /\ r \in Requests /\ r.sent = q.sent /\ r.key = q.key /\ r.payload = q.payload
          /\ r.at = (IF taken THEN "reread" ELSE "commit")
          /\ r.row = (IF taken THEN NoRow ELSE inserted)
      BY <2>2, <3>2 DEF Requests
    <3>4. creation' = [creation EXCEPT ![c] = r]
      BY <2>5 DEF Flush, CreationInv, RequestsAreWhole
    <3>5. r.at = "reread" => \E row \in campaigns : row.key = r.key
      BY <3>3 DEF KeyTaken, Existing
    <3>6. r.at = "commit" => /\ r.row = inserted
                             /\ \A row \in campaigns : row.key # r.key
      BY <3>3 DEF KeyTaken, Existing
    <3>7. \A d \in Clients \ {c} : creation[d].at = "commit" => creation[d].key # r.key
      BY <2>5, <3>3 DEF Flush, Blocked
    <3> HIDE DEF r, taken
    <3>8. RequestsAreWhole' /\ KeysAreUnique' /\ IdsAreUnique' /\ JobsAreTheSeeds'
      <4>1. MayBecome(c, r)
        BY <2>2, <3>1, <3>3, <3>5, <3>6, <3>7 DEF MayBecome
      <4> QED
        BY <2>5, <3>3, <3>4, <4>1, CreationStep DEF Flush
    <3> QED
      BY <2>5, <3>8 DEF Flush, CreationInv, AnswersAreTrue
  <2>6. CASE Commit(c)
    <3> DEFINE row == q.row
    <3>1. /\ q.at = "commit" /\ q.key \in Keys /\ q.payload \in ValidPayloads
          /\ row = [id |-> <<c, q.sent>>, key |-> q.key, payload |-> q.payload]
      BY <2>6 DEF Commit, CreationInv, RequestsAreWhole
    <3>2. row \in CampaignRows
      BY <2>2, <3>1 DEF CampaignRows
    <3>3. /\ creation' \in [Clients -> Requests] /\ creation'[c] = Idle(q.sent)
          /\ \A d \in Clients \ {c} : creation'[d] = creation[d]
      BY <2>2, <2>6, IdleIsRequest DEF Commit, Answered, CreationInv, RequestsAreWhole
    <3>4. campaigns' = campaigns \cup {row}
      BY <2>6 DEF Commit
    <3>5. creation'[c].at = "idle" /\ creation'[c].sent = q.sent
      BY <2>2, <3>3, IdleIsRequest
    <3>6. \A other \in campaigns : other.key # row.key /\ other.id # row.id
      BY <3>1 DEF CreationInv, KeysAreUnique, IdsAreUnique
    <3>7. RequestsAreWhole'
      BY <3>3, <3>5 DEF CreationInv, RequestsAreWhole
    <3>8. KeysAreUnique'
      BY <3>1, <3>3, <3>4, <3>5, <3>6 DEF CreationInv, KeysAreUnique
    <3>9. IdsAreUnique'
      BY <2>2, <3>1, <3>2, <3>3, <3>4, <3>5, <3>6 DEF CreationInv, IdsAreUnique
    <3>10. JobsAreTheSeeds'
      BY <2>6 DEF Commit, CreationInv, JobsAreTheSeeds
    <3>11. AnswersAreTrue'
      <4>1. \A a \in answers' : a \in answers \/
              a = [key |-> q.key, payload |-> q.payload, result |-> "created", row |-> row]
        BY <2>6 DEF Commit, Answered
      <4> QED
        BY <3>1, <3>4, <4>1 DEF CreationInv, AnswersAreTrue
    <3> QED
      BY <3>7, <3>8, <3>9, <3>10, <3>11 DEF CreationInv
  <2>7. CASE Reread(c)
    <3>1. Existing(q.key) # {}
      BY <2>7 DEF Reread, CreationInv, KeysAreUnique, Existing
    <3> QED
      BY <2>7, <3>1, CreationAnswered DEF Reread
  <2>8. CASE Aborts(c)
    <3>1. creation' = [creation EXCEPT ![c] = Idle(q.sent)]
      BY <2>8 DEF Aborts
    <3>2. RequestsAreWhole' /\ KeysAreUnique' /\ IdsAreUnique' /\ JobsAreTheSeeds'
      <4>1. Idle(q.sent) \in Requests /\ MayBecome(c, Idle(q.sent))
        BY <2>2, <2>8, IdleIsRequest DEF MayBecome, Aborts
      <4> QED
        BY <2>8, <3>1, <4>1, CreationStep DEF Aborts
    <3> QED
      BY <2>8, <3>2 DEF Aborts, CreationInv, AnswersAreTrue
  <2> QED
    BY <2>3, <2>4, <2>5, <2>6, <2>7, <2>8
<1> QED
  BY <1>1, <1>2, PTL DEF CreationSpec

\* For any number of clients, keys and payloads: requests with one key are
\* answered with one campaign, which has exactly the seeds that were asked for.
THEOREM OneCampaignPerKey == CreationSpec => []CreationIsIdempotent
BY CreationInvariance, CreationInvGivesProperties, PTL

\* Whatever the others do between its steps, a request is resolved, and refused
\* only if another one made the campaign of its key.
THEOREM RefusedForAnother == CreationSpec => []RefusalsAreJustified
BY CreationInvariance, CreationInvGivesProperties, PTL

-----------------------------------------------------------------------------
(* The links of a seed page: frontier_discovery.py, frontier_selection.py *)

\* What KeptForItsPath says of the candidate c kept of the links S.
CandidateOf(c, S) ==
  /\ c = NoCandidate <=> S = {}
  /\ c # NoCandidate =>
       /\ c.query = 0 <=> \E l \in S : l.href.query = 0
       /\ c.query # 0 => \E l \in S : l.href.query = c.query /\ Score(l) = c.score
       /\ c.score \in {Score(l) : l \in S}
       /\ \A l \in S : l.href.query # 0 => Score(l) <= c.score

CandidateRecords == [query : Nat, score : Nat \cup {-1}]

\* Scores are numbers.
LEMMA ScoreType == ASSUME NEW l \in Links PROVE Score(l) \in Nat
<1>1. \A S \in SUBSET Intent : Cardinality(S) \in Nat
  BY DiscoveryAssumption, FS_Subset, FS_CardinalityType
<1>2. /\ Cardinality(l.anchor) \in Nat /\ Cardinality(l.url) \in Nat
      /\ Cardinality(l.anchor \cup l.url) \in Nat
  BY <1>1, DiscoveryAssumption
<1> QED
  BY <1>2 DEF Score

\* One more link, merged into the candidate of the links before it, gives the
\* candidate of them all, in whatever order links come.
LEMMA MergeKeeps ==
  ASSUME NEW S \in SUBSET Links, NEW l \in Links, NEW old \in CandidateRecords,
         CandidateOf(old, S)
  PROVE  Merge(old, l) \in CandidateRecords /\ CandidateOf(Merge(old, l), S \cup {l})
<1> DEFINE query == l.href.query
           new == Merge(old, l)
<1>1. Score(l) \in Nat /\ query \in Nat /\ Normalized(l.href).query = query
  BY ScoreType, DiscoveryAssumption DEF Normalized
<1>2. \A k \in S : Score(k) \in Nat
  BY ScoreType
<1>3. CASE old = NoCandidate
  <2>1. new = [query |-> query, score |-> Score(l)] /\ S = {}
    BY <1>1, <1>3 DEF Merge, CandidateOf
  <2> QED
    BY <1>1, <2>1 DEF CandidateOf, NoCandidate, CandidateRecords
<1>4. CASE old # NoCandidate /\ old.query # 0 /\ query = 0
  <2>1. new = [query |-> 0, score |-> old.score]
    BY <1>1, <1>4 DEF Merge, CandidateRecords
  <2>2. old.score \in Nat
    BY <1>2, <1>4 DEF CandidateOf
  <2> QED
    BY <1>1, <1>4, <2>1, <2>2 DEF CandidateOf, NoCandidate, CandidateRecords
<1>5. CASE /\ old # NoCandidate /\ ~(old.query # 0 /\ query = 0)
           /\ Score(l) > old.score \/ (Score(l) = old.score /\ query < old.query)
  <2>1. new = [query |-> IF old.query = 0 THEN 0 ELSE query, score |-> Score(l)]
    BY <1>1, <1>5 DEF Merge
  <2>2. old.score \in Nat /\ old.query \in Nat
    BY <1>2, <1>5 DEF CandidateOf, CandidateRecords
  <2> QED
    BY <1>1, <1>2, <1>5, <2>1, <2>2 DEF CandidateOf, NoCandidate, CandidateRecords
<1>6. CASE /\ old # NoCandidate /\ ~(old.query # 0 /\ query = 0)
           /\ ~(Score(l) > old.score \/ (Score(l) = old.score /\ query < old.query))
  <2>1. new = old
    BY <1>1, <1>6 DEF Merge
  <2>2. old.score \in Nat /\ old.query \in Nat
    BY <1>2, <1>6 DEF CandidateOf, CandidateRecords
  <2> QED
    BY <1>1, <1>2, <1>6, <2>1, <2>2 DEF CandidateOf
<1> QED
  BY <1>3, <1>4, <1>5, <1>6

\* The candidates kept of a page are those of the links read.
KeptInv ==
  /\ kept \in [Paths -> CandidateRecords] /\ read \subseteq Links
  /\ KeptForItsPath

\* Every step keeps them so.
LEMMA KeptStep == KeptInv /\ [DiscoveryNext]_discoveryVars => KeptInv'
<1> SUFFICES ASSUME KeptInv, [DiscoveryNext]_discoveryVars PROVE KeptInv'
  OBVIOUS
<1>1. CASE UNCHANGED <<kept, read>>
  BY <1>1 DEF KeptInv, KeptForItsPath, Seen
<1>2. ASSUME NEW l \in Links, ReadLink(l) PROVE KeptInv'
  <2> DEFINE path == l.href.path
  <2>1. path \in Paths /\ read' = read \cup {l} /\ read' \subseteq Links
    BY <1>2 DEF ReadLink, Paths, KeptInv
  <2>2. \A p \in Paths : CandidateOf(kept[p], Seen(p)) /\ kept[p] \in CandidateRecords
    BY DEF KeptInv, KeptForItsPath, CandidateOf
  <2>3. \A p \in Paths \ {path} : Seen(p)' = Seen(p)
    BY <2>1 DEF Seen
  <2>4. CASE Admitted(l)
    <3>1. InScope(l.href) /\ ~l.chrome /\ Normalized(l.href) # PageUrl
      BY <2>4 DEF Admitted
    <3>2. <<path, l.href.query>> # <<PageUrl.path, PageUrl.query>>
      BY <3>1, DiscoveryAssumption DEF Normalized
    <3>3. Seen(path)' = Seen(path) \cup {l}
      BY <2>1, <3>1, <3>2 DEF Seen
    <3>4. Seen(path) \in SUBSET Links
      BY DEF Seen, KeptInv
    <3>5. kept' = [kept EXCEPT ![path] = Merge(kept[path], l)]
      BY <1>2, <2>4 DEF ReadLink
    <3>6. /\ Merge(kept[path], l) \in CandidateRecords
          /\ CandidateOf(Merge(kept[path], l), Seen(path)')
      BY <2>1, <2>2, <3>3, <3>4, MergeKeeps
    <3>7. \A p \in Paths : CandidateOf(kept'[p], Seen(p)') /\ kept'[p] \in CandidateRecords
      BY <2>1, <2>2, <2>3, <3>5, <3>6 DEF KeptInv
    <3>8. kept' \in [Paths -> CandidateRecords]
      BY <2>1, <3>5, <3>6 DEF KeptInv
    <3> QED
      BY <2>1, <3>7, <3>8 DEF KeptInv, KeptForItsPath, CandidateOf
  <2>5. CASE ~Admitted(l)
    <3>1. UNCHANGED kept
      BY <1>2, <2>5 DEF ReadLink
    <3>2. ~(/\ InScope(l.href) /\ ~l.chrome
            /\ <<path, l.href.query>> # <<PageUrl.path, PageUrl.query>>)
      BY <2>5, DiscoveryAssumption DEF Admitted, Normalized
    <3>3. Seen(path)' = Seen(path)
      BY <2>1, <3>2 DEF Seen
    <3>4. \A p \in Paths : CandidateOf(kept'[p], Seen(p)')
      BY <2>2, <2>3, <3>1, <3>3
    <3> QED
      BY <2>1, <3>1, <3>4 DEF KeptInv, KeptForItsPath, CandidateOf
  <2> QED
    BY <2>4, <2>5
<1> QED
  BY <1>1, <1>2 DEF DiscoveryNext, Offer, Select, discoveryVars

\* The smallest of two limits.
LEMMA SmallestOfTwo ==
  ASSUME NEW a \in Nat, NEW b \in Nat
  PROVE  Smallest({a, b}) \in Nat /\ Smallest({a, b}) <= a /\ Smallest({a, b}) <= b
<1>1. \E n \in {a, b} : \A k \in {a, b} : n <= k
  OBVIOUS
<1>2. /\ Smallest({a, b}) \in {a, b}
      /\ \A k \in {a, b} : Smallest({a, b}) <= k
  BY <1>1, Zenon DEF Smallest
<1> QED
  BY <1>2

\* The smallest of three limits.
LEMMA SmallestOfThree ==
  ASSUME NEW a \in Nat, NEW b \in Nat, NEW c \in Nat
  PROVE  /\ Smallest({a, b, c}) \in Nat /\ Smallest({a, b, c}) <= a
         /\ Smallest({a, b, c}) <= b /\ Smallest({a, b, c}) <= c
<1>1. \E n \in {a, b, c} : \A k \in {a, b, c} : n <= k
  OBVIOUS
<1>2. /\ Smallest({a, b, c}) \in {a, b, c}
      /\ \A k \in {a, b, c} : Smallest({a, b, c}) <= k
  BY <1>1, Zenon DEF Smallest
<1> QED
  BY <1>2

\* The limits are numbers.
LEMMA LimitTypes ==
  MaxDiscovered \in Nat /\ PageBudget - 1 \in Nat /\ PageBudget \in Nat /\ MaxSelectedUrls \in Nat
BY DiscoveryAssumption

\* The candidates offered before p.
CandidatesBefore(p) == {q \in Candidates : Before(q, p)}

\* The candidates are ranked: every rank is that of one of them.
LEMMA RanksAreTaken ==
  ASSUME KeptInv
  PROVE  /\ IsFiniteSet(Candidates) /\ Cardinality(Candidates) \in Nat
         /\ \A n \in 1..Cardinality(Candidates) :
              Ranked(n) \in Candidates /\ Cardinality(CandidatesBefore(Ranked(n))) = n - 1
<1> DEFINE N == Cardinality(Candidates)
           rank == [p \in Candidates |-> Cardinality(CandidatesBefore(p))]
<1>1. Candidates \subseteq Paths /\ Paths \subseteq Nat /\ IsFiniteSet(Paths)
  <2>1. IsFiniteSet(Paths)
    <3> DEFINE pathOf == [l \in Links |-> l.href.path]
    <3>1. pathOf \in Surjection(Links, Paths)
      BY DEF Surjection, Paths
    <3> QED
      BY <3>1, DiscoveryAssumption, FS_Surjection
  <2> QED
    BY <2>1, DiscoveryAssumption DEF Candidates, Paths
<1>2. IsFiniteSet(Candidates) /\ N \in Nat
  BY <1>1, FS_Subset, FS_CardinalityType
<1>3. \A p \in Candidates : kept[p].score \in Nat
  <2> SUFFICES ASSUME NEW p \in Candidates PROVE kept[p].score \in Nat
    OBVIOUS
  <2>1. kept[p].score \in {Score(l) : l \in Seen(p)} /\ Seen(p) \subseteq Links
    BY <1>1 DEF KeptInv, KeptForItsPath, Candidates, Seen
  <2> QED
    BY <2>1, ScoreType
<1>4. \A p \in Candidates : /\ IsFiniteSet(CandidatesBefore(p))
                            /\ CandidatesBefore(p) \subseteq Candidates \ {p}
                            /\ rank[p] \in Nat
  <2> SUFFICES ASSUME NEW p \in Candidates
               PROVE  /\ IsFiniteSet(CandidatesBefore(p))
                      /\ CandidatesBefore(p) \subseteq Candidates \ {p}
                      /\ rank[p] \in Nat
    OBVIOUS
  <2>1. CandidatesBefore(p) \subseteq Candidates \ {p}
    BY <1>1, <1>3 DEF CandidatesBefore, Before
  <2>2. IsFiniteSet(CandidatesBefore(p))
    BY <1>2, <2>1, FS_Subset
  <2> QED
    BY <2>1, <2>2, FS_CardinalityType
<1>5. \A p \in Candidates : rank[p] \in 0..(N - 1)
  <2> SUFFICES ASSUME NEW p \in Candidates PROVE rank[p] \in 0..(N - 1)
    OBVIOUS
  <2>1. IsFiniteSet(Candidates \ {p}) /\ Cardinality(Candidates \ {p}) = N - 1
    BY <1>2, FS_RemoveElement
  <2>2. rank[p] <= N - 1
    BY <1>4, <2>1, FS_Subset
  <2> QED
    BY <1>2, <1>4, <2>2
<1>6. \A p, q \in Candidates : Before(q, p) => rank[q] < rank[p]
  <2> SUFFICES ASSUME NEW p \in Candidates, NEW q \in Candidates, Before(q, p)
               PROVE  rank[q] < rank[p]
    OBVIOUS
  <2>1. CandidatesBefore(q) \subseteq CandidatesBefore(p) \ {q} /\ q \in CandidatesBefore(p)
    <3>1. ASSUME NEW r \in Candidates, Before(r, q) PROVE Before(r, p) /\ r # q
      <4>1. /\ {p, q, r} \subseteq Nat
            /\ {kept[p].score, kept[q].score, kept[r].score} \subseteq Nat
        BY <1>1, <1>3
      <4> QED
        BY <3>1, <4>1 DEF Before
    <3> QED
      BY <3>1 DEF CandidatesBefore
  <2>2. /\ IsFiniteSet(CandidatesBefore(p) \ {q})
        /\ Cardinality(CandidatesBefore(p) \ {q}) = rank[p] - 1
    BY <1>4, <2>1, FS_RemoveElement
  <2>3. rank[q] <= rank[p] - 1
    BY <2>1, <2>2, FS_Subset
  <2> QED
    BY <1>4, <2>3
<1>7. rank \in Injection(Candidates, 0..(N - 1))
  <2>1. \A p, q \in Candidates : p = q \/ Before(p, q) \/ Before(q, p)
    BY <1>1, <1>3 DEF Before
  <2>2. \A p, q \in Candidates : rank[p] = rank[q] => p = q
    BY <1>4, <1>6, <2>1
  <2> QED
    BY <1>5, <2>2 DEF Injection, IsInjective
<1>8. IsFiniteSet(0..(N - 1)) /\ Cardinality(0..(N - 1)) = N
  BY <1>2, FS_Interval
<1>9. rank \in Surjection(Candidates, 0..(N - 1))
  BY <1>2, <1>7, <1>8, FS_Injection
<1>10. ASSUME NEW n \in 1..N
       PROVE  Ranked(n) \in Candidates /\ Cardinality(CandidatesBefore(Ranked(n))) = n - 1
  <2>1. n - 1 \in 0..(N - 1)
    BY <1>2
  <2>2. \E p \in Candidates : rank[p] = n - 1
    BY <1>9, <2>1 DEF Surjection
  <2>3. \E p \in Candidates : Cardinality({q \in Candidates : Before(q, p)}) = n - 1
    BY <2>2 DEF CandidatesBefore
  <2> QED
    BY <2>3, Zenon DEF Ranked, CandidatesBefore
<1> QED
  BY <1>2, <1>10

\* What the model is offered: every link of a candidate, and no path twice.
OfferInv ==
  /\ Len(offered) \in Nat /\ DOMAIN offered = 1..Len(offered)
  /\ \A k \in DOMAIN offered : \E p \in Candidates :
       offered[k] = [path |-> p, query |-> kept[p].query]
  /\ \A i, k \in DOMAIN offered : offered[i].path = offered[k].path => i = k

\* The inductive invariant of the discovery.
DiscoveryInv ==
  /\ KeptInv /\ OfferInv /\ SelectionIsSafe
  /\ discovery = "reading" => offered = <<>>
  /\ discovery # "selected" => selected = <<>>

\* A link of a candidate is a link of the page, and not the page itself.
LEMMA CandidateIsLinked ==
  ASSUME KeptInv, NEW p \in Candidates
  PROVE  /\ [path |-> p, query |-> kept[p].query] # PageUrl
         /\ \E l \in read : /\ InScope(l.href) /\ ~l.chrome
                            /\ [path |-> p, query |-> kept[p].query]
                                 = [path |-> l.href.path, query |-> l.href.query]
<1>1. PICK l \in Seen(p) : l.href.query = kept[p].query
  BY DEF KeptInv, KeptForItsPath, Candidates
<1>2. <<p, kept[p].query>> # <<PageUrl.path, PageUrl.query>>
  BY <1>1 DEF Seen
<1> QED
  BY <1>1, <1>2 DEF Seen

\* Offering candidates offers no path twice.
LEMMA OfferStep == ASSUME DiscoveryInv, Offer PROVE DiscoveryInv'
<1> DEFINE N == Cardinality(Candidates)
           m == Smallest({N, MaxDiscovered})
<1>1. KeptInv' /\ Candidates' = Candidates /\ UNCHANGED <<kept, selected, read>>
  BY KeptStep DEF DiscoveryInv, DiscoveryNext, Candidates, Offer
<1>2. N \in Nat /\ m \in Nat /\ m <= N
  BY RanksAreTaken, SmallestOfTwo, LimitTypes DEF DiscoveryInv
<1>3. offered' = [n \in 1..m |-> [path |-> Ranked(n), query |-> kept[Ranked(n)].query]]
  BY DEF Offer
<1> HIDE DEF m
<1>4. \A n \in 1..m : Ranked(n) \in Candidates /\ Cardinality(CandidatesBefore(Ranked(n))) = n - 1
  BY <1>2, RanksAreTaken DEF DiscoveryInv
<1>5. OfferInv'
  BY <1>1, <1>2, <1>3, <1>4 DEF OfferInv
<1>6. selected' = <<>> /\ discovery' # "reading"
  BY DEF Offer, DiscoveryInv
<1>7. SelectionIsSafe'
  BY <1>1, <1>6 DEF DiscoveryInv, SelectionIsSafe, Offer
<1> QED
  BY <1>1, <1>5, <1>6, <1>7 DEF DiscoveryInv

\* Whatever the model selects is safe to enqueue.
LEMMA SelectStep == ASSUME DiscoveryInv, Select PROVE DiscoveryInv'
<1>1. KeptInv' /\ Candidates' = Candidates /\ UNCHANGED <<kept, offered, read>>
  BY KeptStep DEF DiscoveryInv, DiscoveryNext, Candidates, Select
<1>2. OfferInv'
  BY <1>1 DEF DiscoveryInv, OfferInv
<1>3. discovery' = "selected"
  BY DEF Select
<1>4. /\ SelectionLimit \in Nat /\ SelectionLimit <= PageBudget - 1
      /\ SelectionLimit <= MaxSelectedUrls
  BY SmallestOfThree, LimitTypes DEF SelectionLimit, DiscoveryInv, OfferInv
<1>5. SelectionIsSafe'
  <2>1. CASE selected' = <<>>
    BY <2>1, DiscoveryAssumption DEF SelectionIsSafe
  <2>3. BestScore \in Nat
    BY SMT DEF BestScore
  <2>2. CASE selected' # <<>>
    <3>1. PICK ids \in BoundedSeq(1..(Len(offered) + 1), SelectionLimit + 1) :
            /\ ValidSelection(ids)
            /\ selected' = [k \in DOMAIN ids |->
                             [link |-> offered[ids[k]], score |-> BestScore - (k - 1)]]
      BY <2>2 DEF Select
    <3>2. PICK m \in Nat : ids \in [1..m -> 1..(Len(offered) + 1)]
      BY <3>1 DEF BoundedSeq, SeqOf
    <3>3. Len(ids) = m /\ Len(selected') = m /\ DOMAIN ids = 1..m /\ DOMAIN selected' = 1..m
      BY <3>1, <3>2
    <3>4. m <= SelectionLimit
      BY <3>1, <3>3 DEF ValidSelection
    <3>5. \A k \in 1..m : ids[k] \in DOMAIN offered /\ selected'[k].link = offered[ids[k]]
                          /\ selected'[k].score = BestScore - (k - 1)
      BY <3>1, <3>3 DEF ValidSelection, ToSet
    <3>6. \A i, k \in 1..m : ids[i] = ids[k] => i = k
      BY <3>1, <3>3 DEF ValidSelection, IsInjective
    <3>7. Len(selected') <= MaxSelectedUrls /\ Len(selected') < PageBudget
      BY <1>4, <3>3, <3>4, LimitTypes
    <3>8. ASSUME NEW k \in 1..m
          PROVE  /\ selected'[k].link # PageUrl
                 /\ \E l \in read :
                      /\ InScope(l.href) /\ ~l.chrome
                      /\ selected'[k].link = [path |-> l.href.path, query |-> l.href.query]
      <4>1. PICK p \in Candidates : offered[ids[k]] = [path |-> p, query |-> kept[p].query]
        BY <3>5 DEF DiscoveryInv, OfferInv
      <4>2. selected'[k].link = [path |-> p, query |-> kept[p].query]
        BY <3>5, <4>1
      <4> QED
        BY <4>2, CandidateIsLinked DEF DiscoveryInv
    <3>9. ASSUME NEW i \in 1..m, NEW k \in 1..m, i < k
          PROVE  /\ selected'[i].link.path # selected'[k].link.path
                 /\ selected'[i].score > selected'[k].score
      <4>1. ids[i] # ids[k] /\ {i, k} \subseteq Nat
        BY <3>6, <3>9
      <4>2. selected'[i].score > selected'[k].score
        BY <2>3, <3>5, <3>9, <4>1
      <4>3. offered[ids[i]].path # offered[ids[k]].path
        BY <3>5, <4>1 DEF DiscoveryInv, OfferInv
      <4> QED
        BY <3>5, <4>2, <4>3
    <3> QED
      BY <1>1, <3>3, <3>7, <3>8, <3>9 DEF SelectionIsSafe
  <2> QED
    BY <2>1, <2>2
<1> QED
  BY <1>1, <1>2, <1>3, <1>5 DEF DiscoveryInv

\* The invariant of a page's candidates holds for any links in any order, and
\* any answer of the model.
THEOREM DiscoveryInvariance == DiscoverySpec => []DiscoveryInv
<1>1. DiscoveryInit => DiscoveryInv
  <2> SUFFICES ASSUME DiscoveryInit PROVE DiscoveryInv
    OBVIOUS
  <2>1. KeptInv
    BY DEF DiscoveryInit, KeptInv, KeptForItsPath, Seen, CandidateRecords, NoCandidate
  <2>2. OfferInv /\ SelectionIsSafe
    BY DiscoveryAssumption DEF DiscoveryInit, OfferInv, SelectionIsSafe
  <2> QED
    BY <2>1, <2>2 DEF DiscoveryInit, DiscoveryInv
<1>2. DiscoveryInv /\ [DiscoveryNext]_discoveryVars => DiscoveryInv'
  <2> SUFFICES ASSUME DiscoveryInv, [DiscoveryNext]_discoveryVars PROVE DiscoveryInv'
    OBVIOUS
  <2>1. KeptInv'
    BY KeptStep DEF DiscoveryInv
  <2>2. CASE UNCHANGED discoveryVars
    BY <2>1, <2>2 DEF discoveryVars, DiscoveryInv, OfferInv, SelectionIsSafe, Candidates
  <2>3. ASSUME NEW l \in Links, ReadLink(l) PROVE DiscoveryInv'
    BY <2>1, <2>3 DEF ReadLink, DiscoveryInv, OfferInv, SelectionIsSafe
  <2> QED
    BY <2>2, <2>3, OfferStep, SelectStep DEF DiscoveryNext
<1> QED
  BY <1>1, <1>2, PTL DEF DiscoverySpec

\* The candidate of a path is the one its variants call for, in whatever order
\* the page links them.
THEOREM BestVariantKept == DiscoverySpec => []KeptForItsPath
<1>1. DiscoveryInv => KeptForItsPath
  BY DEF DiscoveryInv, KeptInv
<1> QED
  BY <1>1, DiscoveryInvariance, PTL

\* Whatever the model answers, the selection is safe to enqueue.
THEOREM SelectionSafe == DiscoverySpec => []SelectionIsSafe
<1>1. DiscoveryInv => SelectionIsSafe
  BY DEF DiscoveryInv
<1> QED
  BY <1>1, DiscoveryInvariance, PTL

=============================================================================
