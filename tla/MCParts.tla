------------------------------- MODULE MCParts -------------------------------
(***************************************************************************)
(* Parts that share no state with the crawl, or with each other: creating a *)
(* campaign, the links of one of its seed pages, the documents it ends up   *)
(* with, one fetch, the text of one page, the rows worker processes leave.  *)
(* One run explores them one at a time.                                     *)
(***************************************************************************)
EXTENDS BriefGeneration, FrontierDiscovery, CampaignCreation,
        PageFetching, ContentExtraction, WorkerHeartbeats

partsVars == <<genVars, discoveryVars, creationVars,
               fetchVars, extractionVars, heartbeatVars>>

PartsInit == /\ GenInit /\ DiscoveryInit /\ CreationInit
             /\ FetchInit /\ ExtractionInit /\ HeartbeatInit

NoBrief == GenInit /\ UNCHANGED genVars
NoDiscovery == DiscoveryInit /\ UNCHANGED discoveryVars
NoCreation == CreationInit /\ UNCHANGED creationVars
NoFetch == FetchInit /\ UNCHANGED fetchVars
NoExtraction == ExtractionInit /\ UNCHANGED extractionVars
NoWorker == HeartbeatInit /\ UNCHANGED heartbeatVars

\* The parts of a page, and the others.
NoPage == NoFetch /\ NoExtraction /\ NoDiscovery
NoOther == NoBrief /\ NoCreation /\ NoWorker

PartsNext ==
  \/ NoFetch /\ NoExtraction /\ NoOther /\ DiscoveryNext
  \/ NoDiscovery /\ NoExtraction /\ NoOther /\ FetchNext
  \/ NoFetch /\ NoDiscovery /\ NoOther /\ ExtractionNext
  \/ NoPage /\ NoCreation /\ NoWorker /\ GenNext
  \/ NoPage /\ NoBrief /\ NoWorker /\ CreationNext
  \/ NoPage /\ NoBrief /\ NoCreation /\ HeartbeatNext

PartsSpec == PartsInit /\ [][PartsNext]_partsVars

-----------------------------------------------------------------------------
(* Creating a campaign from one or two pages *)

Seed(page, text) == [page |-> page, host |-> "x", text |-> text]
Foreign == [page |-> 3, host |-> "y", text |-> "plain"]

ClientPayloads ==
  {[seeds |-> s, settings |-> n] :
     s \in {<<Seed(1, "plain")>>, <<Seed(1, "spelled")>>, <<Seed(1, "plain"), Seed(2, "plain")>>,
            <<Seed(1, "plain"), Seed(1, "spelled")>>, <<Foreign>>}, n \in {1}}
  \cup {[seeds |-> <<Seed(1, "plain")>>, settings |-> 2]}

-----------------------------------------------------------------------------
(* A seed page, path 0, with links to variants of three paths *)

Link(path, query, anchor, url) ==
  [href |-> [web |-> TRUE, host |-> <<"docs", "x">>, readable |-> TRUE,
             path |-> path, query |-> query, tracked |-> FALSE],
   anchor |-> anchor, url |-> url, chrome |-> FALSE]

SeedPage == [path |-> 0, query |-> 0]
CampaignDomains == {<<"x">>}

PageLinks ==
  {[Link(0, 0, {1}, {}) EXCEPT !.href.tracked = TRUE], Link(0, 1, {2}, {}),
   Link(1, 0, {}, {1}), [Link(1, 0, {1, 2}, {1}) EXCEPT !.href.tracked = TRUE],
   Link(1, 1, {2}, {1}), Link(1, 2, {}, {1}), Link(1, 2, {2}, {1}),
   Link(2, 0, {}, {}), Link(2, 2, {1}, {}),
   [Link(3, 0, {1, 2}, {1, 2}) EXCEPT !.href.host = <<"docs", "y">>],
   [Link(2, 0, {1, 2}, {}) EXCEPT !.chrome = TRUE]}

-----------------------------------------------------------------------------
(* Campaigns with pages of one or two kinds, up to 14 and two more *)

\* Kinds of pages, by the size of their text and of their heading.
Long == [text |-> 9000, relevant |-> 0, heading |-> 180]
OnTopic == [text |-> 9000, relevant |-> 700, heading |-> 218]
Medium == [text |-> 2500, relevant |-> 0, heading |-> 120]
Short == [text |-> 60, relevant |-> 0, heading |-> 90]
LongTitled == [text |-> 3000, relevant |-> 0, heading |-> 11900]

Kinds == {Long, OnTopic, Medium, Short, LongTitled}

\* The first page is the seed, the others were selected on it in this order;
\* their titles name fewer and fewer words of an intent of that many words.
Page(kind, id, words) ==
  [id |-> id, content |-> id, depth |-> IF id = 1 THEN 0 ELSE 1, selected |-> id # 1,
   priority |-> IF id = 1 THEN 1000001 ELSE 1000002 - id,
   title |-> Max({0, words - id}), url |-> 0, body |-> words,
   text |-> kind.text, relevant |-> kind.relevant, heading |-> kind.heading]

\* m pages of one kind ahead of n of another.
PagesOf(a, m, b, n, words) ==
  [i \in 1..(m + n) |-> Page(IF i <= m THEN a ELSE b, i, words)]

\* A page once more at another URL, and one without text.
Copied(ds) ==
  ds \o <<[ds[1] EXCEPT !.id = @ + 100],
           [ds[1] EXCEPT !.id = @ + 200, !.content = 0, !.text = 0]>>

CodeCorpora ==
  {Copied(PagesOf(a, m, b, n, words)) :
     a \in Kinds, b \in Kinds, m \in {1, 5}, n \in {0, 1, 3, 9}, words \in {0, 9}}

-----------------------------------------------------------------------------
(* Pages of up to five tokens, and processes under one explicit worker id *)

Element(name) == [name |-> name, main |-> FALSE, chrome |-> FALSE]

Elements ==
  {Element("nav"), Element("article"), Element("title"), Element("div"), Element("br"),
   [Element("div") EXCEPT !.main = TRUE], [Element("br") EXCEPT !.chrome = TRUE]}

OneId == [p \in Processes |-> "w"]

=============================================================================
