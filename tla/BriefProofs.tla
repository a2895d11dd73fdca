---------------------------- MODULE BriefProofs ----------------------------
(***************************************************************************)
(* The life of a brief, for any number of concurrent requests.              *)
(*                                                                          *)
(* That one request generates and that a lost generation leaves its row     *)
(* behind are inductive together with the types: a row is GENERATING while  *)
(* somebody generates it or after whoever did was lost, never both.  What   *)
(* is cited, and that a stored brief stays, follow from there.  These ask   *)
(* nothing of the crawl.  That no brief misses a page does: of a campaign   *)
(* with a verdict nothing is open, every success is stored, and neither     *)
(* changes while a request is on its way.                                   *)
(***************************************************************************)
EXTENDS CampaignBriefs, LeaseProofs

BriefInvariant ==
  BriefTypeOK /\ OneGenerator /\ OrphanedByDeath /\ BriefCitesItsEvidence

\* Some request moves; every other step leaves the briefs alone.
BriefMove ==
  \E q \in Requests : \/ \E r \in Runs : Submit(q, r)
                      \/ BriefStep(q)
                      \/ Dies(q)

\* Some request moves, or the briefs stay as they are.
LEMMA BriefMoves ==
  [BriefNext]_<<vars, briefVars>> => BriefMove \/ UNCHANGED briefVars
BY DEF BriefNext, BriefMove

\* No brief has been asked for yet.
LEMMA BriefInitInvariant == BriefInit => BriefInvariant
BY DEF BriefInit, BriefInvariant, BriefTypeOK, OneGenerator, OrphanedByDeath,
       BriefCitesItsEvidence, Generators, Orphaned, At, NoRequest, BriefStatus

\* A reservation and a retry start from a row nobody generates; the outcome of
\* a generation is stored by its only generator.
LEMMA BriefStepInvariant ==
  ASSUME BriefInvariant, NEW q \in Requests, BriefStep(q)
  PROVE  BriefInvariant'
<1> DEFINE S == request[q].corpus
<1> USE DEF BriefInvariant, BriefTypeOK, BriefStatus, At, Continue, Answer, NoRequest
<1>1. request[q] # NoRequest => S \in Corpora
  OBVIOUS
<1>2. CASE Reserve(q)
  BY <1>1, <1>2 DEF BriefStep, Reserve, Reservable, OneGenerator, Generators,
     OrphanedByDeath, Orphaned, BriefCitesItsEvidence
<1>3. CASE ReadExisting(q)
  BY <1>1, <1>3 DEF BriefStep, ReadExisting, OneGenerator, Generators,
     OrphanedByDeath, Orphaned, BriefCitesItsEvidence
<1>4. CASE Retry(q)
  <2> S \in Corpora
    BY <1>1, <1>4 DEF Retry
  <2> USE DEF BriefStep, Retry, Retryable
  <2>1. BriefTypeOK'
    BY <1>4
  <2>2. OneGenerator'
    BY <1>4 DEF OneGenerator, Generators
  <2>3. OrphanedByDeath'
    BY <1>4 DEF OneGenerator, Generators, OrphanedByDeath, Orphaned
  <2>4. BriefCitesItsEvidence'
    BY <1>4 DEF BriefCitesItsEvidence
  <2>5. QED
    BY <2>1, <2>2, <2>3, <2>4
<1>5. CASE Generated(q)
  <2> S \in Corpora
    BY <1>1, <1>5 DEF Generated
  <2> USE DEF BriefStep, Generated, Evidence
  <2>1. BriefTypeOK'
    BY <1>5
  <2>2. OneGenerator'
    BY <1>5 DEF OneGenerator, Generators
  <2>3. OrphanedByDeath'
    BY <1>5 DEF OneGenerator, Generators, OrphanedByDeath, Orphaned
  <2>4. BriefCitesItsEvidence'
    BY <1>5 DEF BriefCitesItsEvidence
  <2>5. QED
    BY <2>1, <2>2, <2>3, <2>4
<1>6. CASE GenerationFails(q)
  BY <1>1, <1>6 DEF BriefStep, GenerationFails, FailureRecorded, OneGenerator,
     Generators, OrphanedByDeath, Orphaned, BriefCitesItsEvidence
<1>7. QED
  BY <1>2, <1>3, <1>4, <1>5, <1>6 DEF BriefStep

\* No step of a request or of the crawl breaks the invariant.
LEMMA BriefMoveInvariant ==
  BriefInvariant /\ [BriefNext]_<<vars, briefVars>> => BriefInvariant'
<1> SUFFICES ASSUME BriefInvariant, [BriefNext]_<<vars, briefVars>>
             PROVE  BriefInvariant'
  OBVIOUS
<1>1. ASSUME NEW q \in Requests, NEW r \in Runs, Submit(q, r)
      PROVE  BriefInvariant'
  BY <1>1 DEF BriefInvariant, BriefTypeOK, OneGenerator, Generators, Orphaned,
     OrphanedByDeath, BriefCitesItsEvidence, At, Submit, HasEvidence, NoRequest
<1>2. ASSUME NEW q \in Requests, Dies(q)
      PROVE  BriefInvariant'
  BY <1>2 DEF BriefInvariant, BriefTypeOK, OneGenerator, Generators, Orphaned,
     OrphanedByDeath, BriefCitesItsEvidence, At, Dies, Answer, NoRequest
<1>3. CASE UNCHANGED briefVars
  BY <1>3 DEF briefVars, BriefInvariant, BriefTypeOK, OneGenerator, Generators,
     Orphaned, OrphanedByDeath, BriefCitesItsEvidence, At
<1>4. QED
  BY <1>1, <1>2, <1>3, BriefStepInvariant, BriefMoves DEF BriefMove

-----------------------------------------------------------------------------

\* Briefs only read the campaigns: the crawl behaves as it does without them.
THEOREM BriefsImplementCrawl == BriefSpec => Spec
<1>1. BriefInit => Init
  BY DEF BriefInit
<1>2. [BriefNext]_<<vars, briefVars>> => [Next]_vars
  BY DEF BriefNext
<1>3. QED
  BY <1>1, <1>2, PTL DEF BriefSpec, Spec

\* The invariant holds whatever the crawl and the other requests do.
THEOREM BriefInvariance == BriefSpec => []BriefInvariant
BY BriefInitInvariant, BriefMoveInvariant, PTL DEF BriefSpec

\* However many requests ask for the brief of a corpus, first or after a
\* failure, at most one has the model write it, and its row waits for it.
THEOREM OneGeneratorAlways == BriefSpec => []OneGenerator
<1>1. BriefInvariant => OneGenerator
  BY DEF BriefInvariant
<1>2. QED
  BY <1>1, BriefInvariance, PTL

\* Rows that nobody generates are exactly those of generations that ended
\* without an outcome: no interleaving of requests strands a brief.
THEOREM OrphansAreOfTheLost == BriefSpec => []OrphanedByDeath
<1>1. BriefInvariant => OrphanedByDeath
  BY DEF BriefInvariant
<1>2. QED
  BY <1>1, BriefInvariance, PTL

\* The stored brief of a fingerprint cites the evidence of that fingerprint,
\* whatever was crawled while the model wrote it.
THEOREM CitationsMatchFingerprint == BriefSpec => []BriefCitesItsEvidence
<1>1. BriefInvariant => BriefCitesItsEvidence
  BY DEF BriefInvariant
<1>2. QED
  BY <1>1, BriefInvariance, PTL

\* A step changes a stored brief in no way: each write starts from a row of
\* another status.
LEMMA ReadyStays ==
  ASSUME BriefInvariant, [BriefNext]_<<vars, briefVars>>,
         NEW S \in Corpora, brief[S] = "READY"
  PROVE  brief'[S] = "READY" /\ cited'[S] = cited[S]
<1>1. ASSUME NEW q \in Requests, BriefStep(q)
      PROVE  brief'[S] = "READY" /\ cited'[S] = cited[S]
  <2> USE DEF BriefInvariant, BriefTypeOK, BriefStatus
  <2>1. CASE Reserve(q)
    BY <1>1, <2>1 DEF BriefStep, Reserve, Reservable
  <2>2. CASE ReadExisting(q)
    BY <2>2 DEF ReadExisting
  <2>3. CASE Retry(q)
    BY <2>3 DEF Retry, Retryable
  <2>4. CASE Generated(q) \/ GenerationFails(q)
    BY <2>4 DEF OneGenerator, Generators, At, Generated, GenerationFails,
       FailureRecorded
  <2>5. QED
    BY <1>1, <2>1, <2>2, <2>3, <2>4 DEF BriefStep
<1>2. ASSUME NEW q \in Requests, Dies(q) \/ \E r \in Runs : Submit(q, r)
      PROVE  brief'[S] = "READY" /\ cited'[S] = cited[S]
  BY <1>2 DEF Dies, Submit
<1>3. CASE UNCHANGED briefVars
  BY <1>3 DEF briefVars
<1>4. QED
  BY <1>1, <1>2, <1>3, BriefMoves DEF BriefMove

\* A brief that was stored is never written again, by a retry that lost the
\* race for a failed row neither.
THEOREM ReadyIsFinalAlways == BriefSpec => ReadyIsFinal
<1>1. BriefInvariant /\ [BriefNext]_<<vars, briefVars>>
        => [\A S \in Corpora : brief[S] = "READY" =>
              brief'[S] = "READY" /\ cited'[S] = cited[S]]_briefVars
  BY ReadyStays
<1>2. QED
  BY <1>1, BriefInvariance, PTL DEF BriefSpec, ReadyIsFinal

-----------------------------------------------------------------------------
(* No brief misses a crawled page *)

Succeeded(r) == {j \in Jobs : RunOf[j] = r /\ job[j].status = "SUCCEEDED"}

\* S is the evidence of a campaign with a verdict, all its successes included.
Covered(S) ==
  \E r \in Runs : /\ Briefable(r)
                  /\ \A j \in S : RunOf[j] = r
                  /\ Succeeded(r) \subseteq S

\* What a request has loaded is covered, and so is what was ever briefed.
CoverInv ==
  /\ \A q \in Requests : request[q] # NoRequest => Covered(request[q].corpus)
  /\ \A S \in Corpora : brief[S] # "NONE" => Covered(S)

\* What the crawl keeps of itself.
CrawlInv == TypeInv /\ LeaseInv /\ StoredInv /\ VerdictInv

\* The crawl establishes and keeps its invariants.
LEMMA CrawlInvInductive ==
  /\ Init => CrawlInv
  /\ CrawlInv /\ [Next]_vars => CrawlInv'
BY TypeInit, LeaseInit, StoredInit, VerdictInit, TypeStep, LeaseStep, StoredStep, VerdictStep
   DEF CrawlInv

\* Only a leased job comes to be a success.
LEMMA SuccessesWereLeased ==
  ASSUME TypeInv, [UntimedNext]_vars, NEW k \in Jobs, job'[k].status = "SUCCEEDED"
  PROVE  job[k].status \in {"SUCCEEDED", "LEASED"}
<1> USE StoreAssumption
<1>0. /\ \A w \in Workers : worker[w].pc \in Working => ClaimedJob(w) \in Jobs
      /\ job \in [Jobs -> JobRow]
  BY DEF TypeInv, TypeOK, StoreTypeOK, WorkerHoldsToken, Tokens, ClaimedJob
<1>1. ASSUME NEW w \in Workers, NEW j \in Jobs, NEW left, Leases(w, j, left)
      PROVE  job[k].status = "SUCCEEDED"
  BY <1>0, <1>1 DEF Leases, ClaimRow
<1>2. ASSUME NEW w \in Workers, NEW n, Settles(w, n)
      PROVE  job[k].status \in {"SUCCEEDED", "LEASED"}
  <2>1. PICK j \in Jobs : j = ClaimedJob(w)
    BY <1>0, <1>2 DEF Settles, Working
  <2>2. job[j].status = "LEASED" /\ (k # j => job'[k] = job[k])
    BY <1>0, <1>2, <2>1 DEF Settles
  <2>3. QED
    BY <2>2
<1>3. ASSUME NEW w \in Workers, ExpandFrontier(w) PROVE job[k].status = "SUCCEEDED"
  <2>1. PICK S \in Selections(ClaimedJob(w)) :
          EnqueueDiscoveredLinks(ClaimedJob(w), S)
    BY <1>3 DEF ExpandFrontier
  <2>2. QED
    BY <2>1 DEF EnqueueDiscoveredLinks, NewJob, Unleased
<1>4. ASSUME NEW r \in Runs, Control(r) PROVE job[k].status = "SUCCEEDED"
  BY <1>0, <1>4 DEF Control, StartCrawlRun, PauseCrawlRun, ResumeCrawlRun, CancelCrawlRun,
     Released, Unleased
<1>5. ASSUME NEW p, TimePasses(p) PROVE job[k].status = "SUCCEEDED"
  <2>1. job[k] \in JobRow /\ job'[k] = [job[k] EXCEPT !.left = Sooner(@)]
    BY <1>0, <1>5 DEF TimePasses
  <2>2. QED
    BY <2>1 DEF JobRow
<1>6. CASE UNCHANGED job
  BY <1>6
<1>7. QED
  BY <1>1, <1>2, <1>3, <1>4, <1>5, <1>6
     DEF UntimedNext, FetchPage, PersistDocument, ExpansionFails, Stops, Restart,
         storeVars, vars

\* A campaign with a verdict has no job left that could come to be a success.
LEMMA CoveredStays ==
  ASSUME CrawlInv, [Next]_vars, NEW S, Covered(S)
  PROVE  Covered(S)'
<1>1. TypeInv /\ LeaseInv /\ VerdictInv /\ [UntimedNext]_vars
  BY NextIsUntimed DEF CrawlInv
<1>2. PICK r \in Runs : /\ Briefable(r)
                        /\ \A j \in S : RunOf[j] = r
                        /\ Succeeded(r) \subseteq S
  BY DEF Covered
<1>3. run[r] \in CompletedRun /\ Briefable(r)'
  BY <1>1, <1>2, FinalUntimed DEF Final, Briefable, CompletedRun
<1>4. ASSUME NEW k \in Jobs, RunOf[k] = r, job'[k].status = "SUCCEEDED"
      PROVE  job[k].status = "SUCCEEDED"
  <2>1. job[k].status # "LEASED"
    BY <1>1, <1>3, <1>4 DEF VerdictInv, VerdictIsQuiescent, JobsOf, Exists, Open,
       OpenJobStatuses
  <2>2. QED
    BY <1>1, <1>4, <2>1, SuccessesWereLeased
<1>5. Succeeded(r)' \subseteq S
  BY <1>2, <1>4 DEF Succeeded
<1>6. QED
  BY <1>2, <1>3, <1>5, Zenon DEF Covered

\* A request loads what is stored of its campaign, every success included.
LEMMA CoveredWhenLoaded ==
  ASSUME CrawlInv, NEW r \in Runs, Briefable(r)
  PROVE  Covered(CorpusOf(r))
BY DEF CrawlInv, StoredInv, SuccessIsStored, Covered, Succeeded, CorpusOf

\* Briefs are made of what was loaded, whatever the requests do.
LEMMA CoverKept ==
  ASSUME CrawlInv, BriefInvariant, CoverInv, [BriefNext]_<<vars, briefVars>>
  PROVE  CoverInv'
<1> USE DEF CoverInv
<1>1. [Next]_vars
  BY DEF BriefNext
<1>2. ASSUME NEW S, Covered(S) PROVE Covered(S)'
  BY <1>1, <1>2, CoveredStays
<1>3. /\ \A q \in Requests : request[q] # NoRequest => request[q].corpus \in Corpora
      /\ \A q \in Requests : ~At(q, "none") => request[q] # NoRequest
  BY DEF BriefInvariant, BriefTypeOK, At, NoRequest
<1>4. ASSUME NEW q \in Requests, NEW r \in Runs, Submit(q, r), UNCHANGED vars
      PROVE  CoverInv'
  <2>1. PICK S : S = CorpusOf(r) /\ Covered(S)
    BY <1>4, CoveredWhenLoaded DEF Submit
  <2>2. Covered(S)'
    BY <1>2, <2>1
  <2>3. /\ \A p \in Requests : p # q => request'[p] = request[p]
        /\ request'[q].corpus = S /\ brief' = brief
    BY <1>4, <2>1 DEF Submit, BriefInvariant, BriefTypeOK
  <2>4. QED
    BY <1>2, <2>2, <2>3
<1>5. ASSUME NEW q \in Requests, BriefStep(q)
      PROVE  CoverInv'
  <2>1. request[q] # NoRequest
    BY <1>3, <1>5 DEF BriefStep, Reserve, ReadExisting, Retry, Generated, GenerationFails, At
  <2>2. PICK S \in Corpora : S = request[q].corpus
    BY <1>3, <2>1
  <2>3. /\ \A T \in Corpora : T # S => brief'[T] = brief[T]
        /\ \A p \in Requests : p # q => request'[p] = request[p]
        /\ request'[q] = NoRequest \/ request'[q].corpus = S
    BY <1>5, <2>2 DEF BriefStep, Reserve, ReadExisting, Retry, Generated, GenerationFails,
       FailureRecorded, Answer, Continue, BriefInvariant, BriefTypeOK, NoRequest
  <2>4. Covered(S)'
    <3>1. Covered(S)
      BY <2>1, <2>2
    <3>2. QED
      BY <1>2, <3>1
  <2>5. QED
    BY <1>2, <2>3, <2>4
<1>6. ASSUME NEW q \in Requests, Dies(q)
      PROVE  CoverInv'
  BY <1>2, <1>6 DEF Dies, Answer, BriefInvariant, BriefTypeOK
<1>7. CASE UNCHANGED briefVars
  BY <1>2, <1>7 DEF briefVars
<1>8. QED
  BY <1>4, <1>5, <1>6, <1>7 DEF BriefNext, briefVars

\* Whatever the workers report and the requests do, a page that its campaign
\* counts as crawled is in the evidence of every brief made of the campaign.
THEOREM NoPageIsMissed == BriefSpec => []BriefMissesNoPage
<1> DEFINE Inv == CrawlInv /\ BriefInvariant /\ CoverInv
<1>1. BriefInit => Inv
  BY CrawlInvInductive, BriefInitInvariant DEF BriefInit, CoverInv
<1>2. Inv /\ [BriefNext]_<<vars, briefVars>> => Inv'
  <2>1. [BriefNext]_<<vars, briefVars>> => [Next]_vars
    BY DEF BriefNext
  <2>2. QED
    BY <2>1, CrawlInvInductive, BriefMoveInvariant, CoverKept
<1>3. Inv => BriefMissesNoPage
  BY DEF CoverInv, Covered, Succeeded, BriefMissesNoPage
<1>4. QED
  BY <1>1, <1>2, <1>3, PTL DEF BriefSpec

=============================================================================
