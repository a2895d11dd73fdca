--------------------------- MODULE CampaignBriefs ---------------------------
(***************************************************************************)
(* Briefs of finished campaigns (api/routers/crawl_runs.py's brief request, *)
(* briefing/campaign_brief_service.py), next to the crawl they report on.   *)
(*                                                                          *)
(* A brief is cached under the fingerprint of its campaign's evidence.  A   *)
(* fingerprint is modelled by what it is computed from, the documents of    *)
(* the campaign: a worker that lost its lease can still add a document      *)
(* after the verdict, and the campaign then has another fingerprint.        *)
(***************************************************************************)
EXTENDS CrawlProperties

CONSTANTS
  Requests,     \* brief requests the API serves at a time
  Usable,       \* jobs whose page yields text to brief
  MayDie        \* TRUE: a request may end at any point

ASSUME BriefAssumption == Usable \subseteq Jobs /\ MayDie \in BOOLEAN

VARIABLES
  brief,    \* brief[S]: status of the campaign_brief row of fingerprint S
  cited,    \* cited[S]: the documents the stored brief is made of
  request,  \* request[q]: the stage of q, and the evidence it loaded
  lost      \* history: the fingerprints whose generating request ended early

briefVars == <<brief, cited, request, lost>>

\* Evidence without any usable document is answered 422.
Corpora == {S \in SUBSET Jobs : S \cap Usable # {}}

BriefStatus == {"NONE", "GENERATING", "READY", "FAILED"}

NoRequest == [pc |-> "none", corpus |-> {}]

BriefTypeOK ==
  /\ brief \in [Corpora -> BriefStatus]
  /\ cited \in [Corpora -> SUBSET Usable]
  /\ request \in [Requests ->
       [pc : {"reserve", "read", "retry", "generate"}, corpus : Corpora]
         \cup {NoRequest}]
  /\ lost \subseteq Corpora

BriefInit ==
  /\ Init
  /\ brief = [S \in Corpora |-> "NONE"]
  /\ cited = [S \in Corpora |-> {}]
  /\ request = [q \in Requests |-> NoRequest]
  /\ lost = {}

CorpusOf(r) == {j \in docs : RunOf[j] = r}

At(q, stage) == request[q].pc = stage

Continue(q, stage) == request' = [request EXCEPT ![q].pc = stage]

Answer(q) == request' = [request EXCEPT ![q] = NoRequest]

-----------------------------------------------------------------------------
(* The steps of a request; it holds no lock between them *)

\* Mutated form of Briefable: a campaign at rest is enough.
BriefableAtRest(r) == run[r] \in {"SUCCEEDED", "PARTIALLY_SUCCEEDED", "PAUSED"}

Briefable(r) == run[r] \in {"SUCCEEDED", "PARTIALLY_SUCCEEDED"}

HasEvidence(S) == S \in Corpora

\* The campaign is looked up and its evidence planned.
Submit(q, r) ==
  /\ At(q, "none")
  /\ Briefable(r) /\ HasEvidence(CorpusOf(r))
  /\ request' = [request EXCEPT ![q] =
                   [pc |-> "reserve", corpus |-> CorpusOf(r)]]
  /\ UNCHANGED <<brief, cited, lost>>

\* Mutated form of Reservable: the insert overwrites a settled row.
Overwritable(S) == brief[S] # "GENERATING"

\* INSERT ... ON CONFLICT DO NOTHING inserts.
Reservable(S) == brief[S] = "NONE"

Reserve(q) ==
  LET S == request[q].corpus IN
  /\ At(q, "reserve")
  /\ IF Reservable(S)
     THEN brief' = [brief EXCEPT ![S] = "GENERATING"] /\ Continue(q, "generate")
     ELSE brief' = brief /\ Continue(q, "read")
  /\ UNCHANGED cited

\* The row that was there before is answered as it is, unless it failed.
ReadExisting(q) ==
  /\ At(q, "read")
  /\ IF brief[request[q].corpus] = "FAILED" THEN Continue(q, "retry")
                                            ELSE Answer(q)
  /\ UNCHANGED <<brief, cited>>

\* Mutated form of Retryable: the update trusts the status read before.
RetryableAsRead(S) == TRUE

\* UPDATE ... WHERE status = 'FAILED': one of several retries wins.
Retryable(S) == brief[S] = "FAILED"

Retry(q) ==
  LET S == request[q].corpus IN
  /\ At(q, "retry")
  /\ IF Retryable(S)
     THEN /\ brief' = [brief EXCEPT ![S] = "GENERATING"]
          /\ cited' = [cited EXCEPT ![S] = {}]
          /\ Continue(q, "generate")
     ELSE UNCHANGED <<brief, cited>> /\ Answer(q)

\* Mutated form of Evidence: the documents are loaded again for the prompt.
EvidenceNow(q) ==
  {j \in docs \cap Usable : \E k \in request[q].corpus : RunOf[k] = RunOf[j]}

\* The plan made before the reservation is what the model gets to see.
Evidence(q) == request[q].corpus \cap Usable

\* The model answered and the brief is stored.  The guard on GENERATING reads
\* the session's copy of the row, which says GENERATING for every generator.
Generated(q) ==
  LET S == request[q].corpus IN
  /\ At(q, "generate")
  /\ brief' = [brief EXCEPT ![S] = "READY"]
  /\ cited' = [cited EXCEPT ![S] = Evidence(q)]
  /\ Answer(q)

\* Mutated form of FailureRecorded: the exception is answered, not recorded.
FailureUnrecorded(S) == brief

FailureRecorded(S) == [brief EXCEPT ![S] = "FAILED"]

GenerationFails(q) ==
  /\ At(q, "generate")
  /\ brief' = FailureRecorded(request[q].corpus)
  /\ Answer(q)
  /\ UNCHANGED cited

\* The API process ends, or a database call of the request raises.
Dies(q) ==
  /\ MayDie
  /\ ~At(q, "none")
  /\ Answer(q)
  /\ lost' = IF At(q, "generate") THEN lost \cup {request[q].corpus} ELSE lost
  /\ UNCHANGED <<brief, cited>>

BriefStep(q) ==
  /\ \/ Reserve(q)
     \/ ReadExisting(q)
     \/ Retry(q)
     \/ Generated(q)
     \/ GenerationFails(q)
  /\ UNCHANGED lost

BriefNext ==
  \/ /\ \E q \in Requests : \/ \E r \in Runs : Submit(q, r)
                            \/ BriefStep(q)
                            \/ Dies(q)
     /\ UNCHANGED vars
  \/ Next /\ UNCHANGED briefVars

BriefSpec == BriefInit /\ [][BriefNext]_<<vars, briefVars>>

\* The API serves its requests, and clients ask for briefs again and again.
BriefFairness ==
  \A q \in Requests :
    /\ WF_<<vars, briefVars>>(BriefStep(q) /\ UNCHANGED vars)
    /\ \A r \in Runs : WF_<<vars, briefVars>>(Submit(q, r) /\ UNCHANGED vars)

FairBriefSpec == BriefSpec /\ BriefFairness

-----------------------------------------------------------------------------
(* Properties *)

Generators(S) == {q \in Requests : At(q, "generate") /\ request[q].corpus = S}

\* At most one request at a time has the model write the brief of a corpus,
\* and its row waits for it: neither two first requests nor two retries of a
\* failed brief both win.
OneGenerator ==
  \A S \in Corpora :
    /\ \A p, q \in Generators(S) : p = q
    /\ Generators(S) # {} => brief[S] = "GENERATING"

\* A stored brief cites the evidence of the fingerprint it is cached under, in
\* full, although documents may arrive while the model writes.
BriefCitesItsEvidence ==
  \A S \in Corpora : cited[S] = IF brief[S] = "READY" THEN S \cap Usable ELSE {}

\* No brief misses a crawled page: what a campaign crawled with success is in
\* every corpus that was briefed.
BriefMissesNoPage ==
  \A S \in Corpora : brief[S] # "NONE" =>
    \E r \in Runs : /\ \A j \in S : RunOf[j] = r
                    /\ {j \in Jobs : RunOf[j] = r /\ job[j].status = "SUCCEEDED"}
                         \subseteq S

\* A stored brief stays as it is; only failed ones are generated again.
ReadyIsFinal ==
  [][\A S \in Corpora : brief[S] = "READY" =>
       brief'[S] = "READY" /\ cited'[S] = cited[S]]_briefVars

\* A row that says GENERATING and that nobody generates.
Orphaned(S) == brief[S] = "GENERATING" /\ Generators(S) = {}

\* Whatever the model and the other requests do, a row waits for nobody only
\* if the request that generated it ended without recording an outcome.
OrphanedByDeath == {S \in Corpora : Orphaned(S)} = lost

\* docs/REQUIREMENTS.md, FR-13, and docs/OPERATIONS.md, "Campaign brief fails":
\* a generation that failed is recorded, and another request retries it.  A
\* row left GENERATING by a process that ended is never retried.
BriefsSettle ==
  \A S \in Corpora : brief[S] = "GENERATING" ~> brief[S] # "GENERATING"

=============================================================================
