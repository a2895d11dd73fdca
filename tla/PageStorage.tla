---------------------------- MODULE PageStorage ----------------------------
(***************************************************************************)
(* The crawl with the object store.  Saving a page is three steps that no   *)
(* transaction holds together (crawler/worker_main.py's persist_document,   *)
(* crawler/document_persistence.py): look for a saved row, put the page     *)
(* under the object key of its job, insert the row that gives its hash.     *)
(*                                                                          *)
(* Two attempts at a job may fetch different bytes, so a page is named by   *)
(* the token of the attempt that fetched it.                                *)
(***************************************************************************)
EXTENDS CrawlProperties

VARIABLES
  saving,   \* saving[w]: "look", "put" or "insert": the next step of w's save
  object,   \* object[j]: the page stored under j's object key
  hash      \* hash[j]: the page whose SHA-256 is in j's crawled_document row

storageVars == <<saving, object, hash>>

StorageInit ==
  /\ Init
  /\ saving = [w \in Workers |-> "look"]
  /\ object = [j \in Jobs |-> Null]
  /\ hash = [j \in Jobs |-> Null]

Saves(w, step) == worker[w].pc = "persist" /\ saving[w] = step

NextSave(w, step) == saving' = [saving EXCEPT ![w] = step]

\* The save ends, well or with an exception: a step of the crawl.
SaveEnds(w) == PersistDocument(w) /\ NextSave(w, "look")

\* Mutated form of AlreadySaved: the row is not looked for.
NeverSaved(j) == FALSE

\* A row from an earlier attempt makes this one return at once.
AlreadySaved(j) == hash[j] # Null

Look(w) ==
  /\ Saves(w, "look")
  /\ IF AlreadySaved(ClaimedJob(w))
     THEN SaveEnds(w) /\ worker'[w].pc # "fail"
     ELSE NextSave(w, "put") /\ UNCHANGED vars
  /\ UNCHANGED <<object, hash>>

\* The key is the job's: a later attempt overwrites what an earlier one put.
Put(w) ==
  /\ Saves(w, "put")
  /\ object' = [object EXCEPT ![ClaimedJob(w)] = Claimed(w)]
  /\ NextSave(w, "insert")
  /\ UNCHANGED <<vars, hash>>

\* A job has one row: a second insert violates the unique constraint.
Insert(w) ==
  /\ Saves(w, "insert")
  /\ hash[ClaimedJob(w)] = Null
  /\ hash' = [hash EXCEPT ![ClaimedJob(w)] = Claimed(w)]
  /\ SaveEnds(w) /\ worker'[w].pc # "fail"
  /\ UNCHANGED object

\* A call of the save raises; process_next_job will fail the job.
SaveFails(w) ==
  /\ SaveEnds(w) /\ worker'[w].pc = "fail"
  /\ UNCHANGED <<object, hash>>

\* A step of the crawl that saves nothing; a process that ends forgets its save.
Elsewhere ==
  /\ Next
  /\ \A w \in Workers :
       worker[w].pc = "persist" => worker'[w].pc \in {"persist", "down"}
  /\ saving' = [w \in Workers |-> IF worker'[w].pc = "persist" THEN saving[w]
                                                               ELSE "look"]
  /\ UNCHANGED <<object, hash>>

StorageNext ==
  \/ \E w \in Workers : Look(w) \/ Put(w) \/ Insert(w) \/ SaveFails(w)
  \/ Elsewhere

StorageSpec == StorageInit /\ [][StorageNext]_<<vars, storageVars>>

-----------------------------------------------------------------------------
(* Properties *)

\* docs/REQUIREMENTS.md, NFR-7: a document row has its object, and its hash is
\* that of the object.  True as long as no two attempts at a job overlap,
\* although processes die between put and insert and jobs are retried after
\* their page was saved.
RowDescribesObject ==
  \A j \in Jobs : hash[j] # Null => object[j] = hash[j]

=============================================================================
