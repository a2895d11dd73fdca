-------------------------- MODULE CampaignCreation --------------------------
(***************************************************************************)
(* create_crawl_run of api/routers/crawl_runs.py: clients create campaigns  *)
(* in one collection, each under an idempotency key, and repeat a request   *)
(* they heard nothing of.  A request reads, then inserts the campaign (the  *)
(* flush), then commits it with its jobs; other requests run in between.    *)
(* A campaign stays PENDING here: the crawl begins where this ends.         *)
(***************************************************************************)
EXTENDS Integers, SequencesExt

CONSTANTS
  Clients,          \* concurrent requests
  Keys,             \* idempotency keys
  Payloads,         \* [seeds |-> sequence of [page, host, text], settings |-> ...]
  AllowedHosts,     \* allowed_domains of the payloads
  MaxSubmissions,   \* requests of one client
  NoRow             \* no campaign

ASSUME CreationAssumption ==
  /\ MaxSubmissions \in Nat
  /\ \A p \in Payloads : p.seeds # <<>>

VARIABLES
  creation,    \* creation[c]: the request of client c
  campaigns,   \* the committed crawl_run rows
  seedJobs,    \* the committed crawl_job rows: campaign, normalized URL
  answers      \* history: what requests were answered

creationVars == <<creation, campaigns, seedJobs, answers>>

Idle(n) == [at |-> "idle", key |-> NoRow, payload |-> NoRow, row |-> NoRow, sent |-> n]

CreationInit ==
  /\ creation = [c \in Clients |-> Idle(0)]
  /\ campaigns = {} /\ seedJobs = {} /\ answers = {}

\* The normalized URLs of the seeds, in the order of the request.
SeedUrls(p) == [k \in DOMAIN p.seeds |-> p.seeds[k].page]

\* Every seed is in scope, and none is named twice in whatever spelling.
ValidPayload(p) ==
  /\ \A k \in DOMAIN p.seeds : p.seeds[k].host \in AllowedHosts
  /\ IsInjective(SeedUrls(p))

\* Mutated form of SameRequest: the seeds are compared as they were spelled.
SameText(row, p) == row.payload = p

SameRequest(row, p) ==
  SeedUrls(row.payload) = SeedUrls(p) /\ row.payload.settings = p.settings

\* Rows with this key that a transaction of another request can see.
Existing(key) == {row \in campaigns : row.key = key}

Answered(c, result, row) ==
  /\ answers' = answers \cup
       {[key |-> creation[c].key, payload |-> creation[c].payload,
         result |-> result, row |-> row]}
  /\ creation' = [creation EXCEPT ![c] = Idle(@.sent)]

\* A known key is answered with its campaign, or refused for another request.
AnsweredWith(c, row) ==
  Answered(c, IF SameRequest(row, creation[c].payload) THEN "found" ELSE "conflict", row)

-----------------------------------------------------------------------------

\* Requests that are not valid are answered 422 and leave nothing behind.
Post(c) ==
  /\ creation[c].at = "idle" /\ creation[c].sent < MaxSubmissions
  /\ \E key \in Keys, p \in {p \in Payloads : ValidPayload(p)} :
       creation' = [creation EXCEPT ![c] =
         [at |-> "lookup", key |-> key, payload |-> p, row |-> NoRow, sent |-> @.sent + 1]]
  /\ UNCHANGED <<campaigns, seedJobs, answers>>

Lookup(c) ==
  /\ creation[c].at = "lookup"
  /\ \/ \E row \in Existing(creation[c].key) : AnsweredWith(c, row)
     \/ /\ Existing(creation[c].key) = {}
        /\ creation' = [creation EXCEPT ![c].at = "flush"]
        /\ UNCHANGED answers
  /\ UNCHANGED <<campaigns, seedJobs>>

\* A row with the same key that is not committed yet blocks the insert.
Blocked(c) ==
  \E d \in Clients \ {c} : creation[d].at = "commit" /\ creation[d].key = creation[c].key

\* Mutated form of KeyTaken: no unique constraint.
KeyNeverTaken(key) == FALSE

\* UNIQUE (collection_id, idempotency_key)
KeyTaken(key) == Existing(key) # {}

Flush(c) ==
  /\ creation[c].at = "flush" /\ ~Blocked(c)
  /\ creation' = [creation EXCEPT
       ![c].at = IF KeyTaken(creation[c].key) THEN "reread" ELSE "commit",
       ![c].row = IF KeyTaken(creation[c].key) THEN NoRow
                  ELSE [id |-> <<c, creation[c].sent>>, key |-> creation[c].key,
                        payload |-> creation[c].payload]]
  /\ UNCHANGED <<campaigns, seedJobs, answers>>

Commit(c) ==
  LET row == creation[c].row
  IN  /\ creation[c].at = "commit"
      /\ campaigns' = campaigns \cup {row}
      /\ seedJobs' = seedJobs \cup {<<row.id, url>> : url \in ToSet(SeedUrls(row.payload))}
      /\ Answered(c, "created", row)

\* After the rollback that follows an IntegrityError.
Reread(c) ==
  /\ creation[c].at = "reread"
  /\ \/ \E row \in Existing(creation[c].key) : AnsweredWith(c, row)
     \/ Existing(creation[c].key) = {} /\ Answered(c, "unable", NoRow)
  /\ UNCHANGED <<campaigns, seedJobs>>

\* The request ends anywhere: what it did not commit is undone.
Aborts(c) ==
  /\ creation[c].at # "idle"
  /\ creation' = [creation EXCEPT ![c] = Idle(@.sent)]
  /\ UNCHANGED <<campaigns, seedJobs, answers>>

CreationNext ==
  \E c \in Clients :
    Post(c) \/ Lookup(c) \/ Flush(c) \/ Commit(c) \/ Reread(c) \/ Aborts(c)

CreationSpec == CreationInit /\ [][CreationNext]_creationVars

-----------------------------------------------------------------------------
(* Properties *)

\* docs/ARCHITECTURE.md, "Campaign idempotency": however requests with one key
\* race, end and are repeated, they are answered with one campaign, which is
\* what each of them asked for and has exactly the jobs of its seeds.
CreationIsIdempotent ==
  /\ \A a, b \in {a \in answers : a.result \in {"created", "found"}} :
       a.key = b.key => a.row = b.row /\ SeedUrls(a.payload) = SeedUrls(b.payload)
  /\ \A row \in campaigns :
       {url \in UNION {ToSet(SeedUrls(p)) : p \in Payloads} : <<row.id, url>> \in seedJobs}
         = ToSet(SeedUrls(row.payload))
  /\ \A job \in seedJobs : \E row \in campaigns : row.id = job[1]

\* A request is refused only if its key names a campaign with other seeds or
\* settings; the loser of a race always finds the winner's row.
RefusalsAreJustified ==
  \A a \in answers :
    /\ a.result # "unable"
    /\ a.result = "conflict" =>
         \E row \in campaigns :
           /\ row.key = a.key
           /\ \/ SeedUrls(row.payload) # SeedUrls(a.payload)
              \/ row.payload.settings # a.payload.settings

=============================================================================
