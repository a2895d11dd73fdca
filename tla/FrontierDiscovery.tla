------------------------- MODULE FrontierDiscovery -------------------------
(***************************************************************************)
(* crawler/frontier_discovery.py and frontier_selection.py, as the worker   *)
(* runs them on a seed page: its links are read in page order, one          *)
(* candidate is kept per path, the best are offered to the model, and what  *)
(* the model selects goes to EnqueueDiscoveredLinks.  A link is a record:   *)
(*   href          what it points to, resolved against the page's URL:      *)
(*     web           http or https, without credentials or bad characters   *)
(*     host          the labels of its host name                            *)
(*     readable      its path does not end like a file that is not a page   *)
(*     path, query   path and query without tracking parameters, in the     *)
(*                   order of normalized URLs (query 0: none)               *)
(*     tracked       it has tracking parameters                             *)
(*   anchor, url   the concepts of the intent its text and path name        *)
(*   chrome        its text or path is navigation                           *)
(* Fragments, default ports and the case of a host are left out: the        *)
(* normalized URL does not have them.                                       *)
(***************************************************************************)
EXTENDS Integers, FiniteSets, SequencesExt

CONSTANTS
  Links,            \* what a page may link to
  PageUrl,          \* the normalized URL of the page itself
  AllowedDomains,   \* allowed_domains of the campaign, as labels
  Intent,           \* concepts of the research intent, 1 the first one named
  MaxDiscovered,    \* candidates offered to the model
  MaxSelectedUrls,  \* links one page may select
  PageBudget        \* max_pages of the campaign

Paths == {l.href.path : l \in Links}

NoCandidate == [query |-> 0, score |-> -1]

ASSUME DiscoveryAssumption ==
  /\ IsFiniteSet(Links) /\ IsFiniteSet(Intent)
  /\ \A l \in Links : l.anchor \subseteq Intent /\ l.url \subseteq Intent
  /\ \A l \in Links : l.href.path \in Nat /\ l.href.query \in Nat
  /\ PageUrl \in [path : Nat, query : Nat]
  /\ {MaxDiscovered, PageBudget} \subseteq Nat \ {0} /\ MaxSelectedUrls \in Nat

VARIABLES
  discovery,  \* the stage of the page: reading, selecting or selected
  kept,       \* kept[p]: the candidate kept for path p
  offered,    \* the candidates the model was offered, in order
  selected,   \* the links to enqueue, in order
  read        \* history: the links of the page so far

discoveryVars == <<discovery, kept, offered, selected, read>>

DiscoveryInit ==
  /\ discovery = "reading"
  /\ kept = [p \in Paths |-> NoCandidate]
  /\ offered = <<>> /\ selected = <<>> /\ read = {}

-----------------------------------------------------------------------------
(* Reading the page *)

Core(l) == /\ Intent # {} /\ l.anchor \cup l.url = Intent
           /\ l.anchor # {} /\ l.url # {}

\* CORE covers the intent in text and path, RELATED a part of it, LOW nothing.
Score(l) ==
  LET matches == l.anchor \cup l.url
      details == 10 * Cardinality(l.anchor) + 5 * Cardinality(l.url)
  IN  IF Core(l) THEN 200 + 25 * Cardinality(matches) + details
      ELSE IF matches = {} THEN 0
      ELSE 50 + 20 * Cardinality(matches) + details + IF 1 \in l.url THEN 25 ELSE 0

DomainIsAllowed(host) == \E domain \in AllowedDomains : IsSuffix(domain, host)

InScope(href) == href.web /\ DomainIsAllowed(href.host) /\ href.readable

\* Mutated form of Normalized: tracking parameters stay in the query.
NormalizedWithTracking(href) ==
  [path |-> href.path, query |-> IF href.tracked THEN href.query + 1 ELSE href.query]

Normalized(href) == [path |-> href.path, query |-> href.query]

Admitted(l) == InScope(l.href) /\ Normalized(l.href) # PageUrl /\ ~l.chrome

\* Mutated form of Merge: the better link brings its own URL.
MergeByScore(old, l) ==
  LET query == Normalized(l.href).query
  IN  IF old = NoCandidate \/ Score(l) > old.score
         \/ (Score(l) = old.score /\ query < old.query)
      THEN [query |-> query, score |-> Score(l)] ELSE old

\* One candidate per path.  A URL without query replaces one with, and keeps
\* the text and score of the link before it; otherwise the better link wins.
Merge(old, l) ==
  LET query == Normalized(l.href).query
  IN  IF old = NoCandidate
      THEN [query |-> query, score |-> Score(l)]
      ELSE IF old.query # 0 /\ query = 0
      THEN [old EXCEPT !.query = 0]
      ELSE IF Score(l) > old.score \/ (Score(l) = old.score /\ query < old.query)
      THEN [query |-> IF old.query = 0 THEN 0 ELSE query, score |-> Score(l)]
      ELSE old

ReadLink(l) ==
  /\ discovery = "reading"
  /\ kept' = IF Admitted(l) THEN [kept EXCEPT ![l.href.path] = Merge(@, l)]
             ELSE kept
  /\ read' = read \cup {l}
  /\ UNCHANGED <<discovery, offered, selected>>

-----------------------------------------------------------------------------
(* Offering candidates to the model *)

Before(p, q) ==
  \/ kept[p].score > kept[q].score
  \/ kept[p].score = kept[q].score /\ p < q

Candidates == {p \in Paths : kept[p] # NoCandidate}

\* The candidate of rank n, counting from 1.
Ranked(n) == CHOOSE p \in Candidates :
               Cardinality({q \in Candidates : Before(q, p)}) = n - 1

Smallest(S) == CHOOSE n \in S : \A k \in S : n <= k

Offer ==
  /\ discovery = "reading"
  /\ offered' = [n \in 1..Smallest({Cardinality(Candidates), MaxDiscovered}) |->
                   [path |-> Ranked(n), query |-> kept[Ranked(n)].query]]
  /\ discovery' = IF offered' = <<>> THEN "selected" ELSE "selecting"
  /\ UNCHANGED <<kept, selected, read>>

SelectionLimit == Smallest({Len(offered), PageBudget - 1, MaxSelectedUrls})

ValidSelection(ids) ==
  /\ Len(ids) <= SelectionLimit
  /\ IsInjective(ids)
  /\ ToSet(ids) \subseteq DOMAIN offered

\* The score of the link the model names first.
BestScore == 1000000

\* The model returns any ids, invented ones too.  A selection that is not valid
\* selects nothing; with no page left to select the model is not asked.
Select ==
  /\ discovery = "selecting"
  /\ discovery' = "selected"
  /\ \E ids \in BoundedSeq(1..(Len(offered) + 1), SelectionLimit + 1) :
       selected' = IF SelectionLimit > 0 /\ ValidSelection(ids)
                   THEN [k \in DOMAIN ids |->
                          [link |-> offered[ids[k]], score |-> BestScore - (k - 1)]]
                   ELSE <<>>
  /\ UNCHANGED <<kept, offered, read>>

DiscoveryNext ==
  \/ \E l \in Links : ReadLink(l)
  \/ Offer
  \/ Select

DiscoverySpec == DiscoveryInit /\ [][DiscoveryNext]_discoveryVars

-----------------------------------------------------------------------------
(* Properties *)

\* The links of a page that lead to path p, and the queries they ask for.
Seen(p) == {l \in read : InScope(l.href) /\ ~l.chrome /\ l.href.path = p
                         /\ <<p, l.href.query>> # <<PageUrl.path, PageUrl.query>>}

\* In whatever order a page names the variants of a path, the candidate is the
\* URL without query if there was one, and else the best link's; its score is
\* that of a variant, and no variant with a query scores higher.
KeptForItsPath ==
  \A p \in Paths :
    /\ kept[p] = NoCandidate <=> Seen(p) = {}
    /\ kept[p] # NoCandidate =>
         /\ kept[p].query = 0 <=> \E l \in Seen(p) : l.href.query = 0
         /\ kept[p].query # 0 =>
              \E l \in Seen(p) : l.href.query = kept[p].query /\ Score(l) = kept[p].score
         /\ kept[p].score \in {Score(l) : l \in Seen(p)}
         /\ \A l \in Seen(p) : l.href.query # 0 => Score(l) <= kept[p].score

\* Whatever the model answers, only links of the page are enqueued: each
\* once, never the page itself in another spelling, within the page's and the campaign's limits,
\* and with scores that keep the model's order.
SelectionIsSafe ==
  /\ Len(selected) <= MaxSelectedUrls /\ Len(selected) < PageBudget
  /\ \A k \in DOMAIN selected :
       /\ selected[k].link # PageUrl
       /\ \E l \in read :
            /\ InScope(l.href) /\ ~l.chrome
            /\ selected[k].link = [path |-> l.href.path, query |-> l.href.query]
  /\ \A i, k \in DOMAIN selected : i < k =>
       /\ selected[i].link.path # selected[k].link.path
       /\ selected[i].score > selected[k].score

=============================================================================
