-------------------------- MODULE EvidencePacking --------------------------
(***************************************************************************)
(* briefing/evidence_packing.py: which documents of a campaign the model    *)
(* gets to see, and how much of each.  A document is a record of what the   *)
(* packing looks at:                                                        *)
(*   id        also its place in the order of source URLs                   *)
(*   content   its content hash                                             *)
(*   depth     0 for a seed page                                            *)
(*   selected  its priority band is SELECTED                                *)
(*   priority  its priority score                                           *)
(*   title, url, body   words of the intent that each of them contains      *)
(*   text      the characters of its normalized text                        *)
(*   relevant  the characters of its sentences on the intent                *)
(*   heading   the characters of its card before the excerpt                *)
(* Nothing here calls the model or the database.                            *)
(***************************************************************************)
EXTENDS Integers, SequencesExt

CONSTANTS
  MaxDocuments,      \* sources one plan keeps
  MaxPerDocument,    \* characters of one excerpt, at most
  MinPerDocument,    \* characters of one excerpt before the rest is shared out
  DirectLimit,       \* characters of the evidence of a single call
  GroupLimit,        \* characters of the evidence of a map call
  MaxGroups,         \* map calls of one brief
  Header,            \* characters of a bundle before its first card
  HeaderEstimate,    \* what the limits reserve for that header
  HeadingEstimate    \* what they reserve for the heading of a card

ASSUME PackingAssumption ==
  /\ {MaxDocuments, MaxPerDocument, MinPerDocument, DirectLimit, GroupLimit,
      MaxGroups, Header, HeaderEstimate, HeadingEstimate} \subseteq Nat \ {0}
  /\ MaxPerDocument <= GroupLimit

Separator == 2

Least(a, b) == IF a < b THEN a ELSE b

\* Characters of a bundle's header that the limits do not reserve.
Unreserved == IF Header > HeaderEstimate THEN Header - HeaderEstimate ELSE 0

\* There is more to share out among n cards than such a header takes of each.
RoomFor(n, limit) == HeaderEstimate + n * (HeadingEstimate + Unreserved + 1) <= limit

\* So it is in a single call, and in a group that leaves other documents out.
ASSUME RoomAssumption ==
  /\ Unreserved < Least(MinPerDocument, MaxPerDocument)
  /\ RoomFor(MaxDocuments, DirectLimit)
  /\ \A n \in 1..MaxDocuments :
       (MaxDocuments - n) * MaxPerDocument > DirectLimit - GroupLimit => RoomFor(n, GroupLimit)

AtMost(s, n) == SubSeq(s, 1, Least(n, Len(s)))

Sum(s) ==
  LET total[n \in 0..Len(s)] == IF n = 0 THEN 0 ELSE total[n - 1] + s[n]
  IN  total[Len(s)]

Documents ==
  [id : Nat, content : Nat, depth : Nat, selected : BOOLEAN, priority : Int,
   title : Nat, url : Nat, body : Nat, text : Nat, relevant : Nat, heading : Nat]

-----------------------------------------------------------------------------
(* Ranking and the total budget *)

\* Provenance first, then the words of the intent, then substance.
Relevance(d) ==
  (IF d.depth = 0 THEN 120 ELSE 0) + (IF d.selected THEN 65 ELSE 0)
  + Least(Max({d.priority, 0}), 1000) \div 40
  + 20 * d.title + 9 * d.url + 5 * d.body + Least(d.text \div 1500, 12)

Outranks(d, e) ==
  \/ Relevance(d) > Relevance(e)
  \/ Relevance(d) = Relevance(e) /\ d.id < e.id

\* The documents of a set, best first.
InOrder(D) ==
  LET places == {<<Cardinality({e \in D : Outranks(e, d)}) + 1, d>> : d \in D}
  IN  [k \in 1..Cardinality(D) |-> (CHOOSE p \in places : p[1] = k)[2]]

HasText(d) == d.text > 0

\* The best document of every content.
Distinct(D) == {d \in D : \A e \in D : e.content = d.content => ~Outranks(e, d)}

RankDocuments(ds) ==
  AtMost(InOrder(Distinct({d \in ToSet(ds) : HasText(d)})), MaxDocuments)

EstimatedCharacters(d) == Least(d.text, MaxPerDocument)

Estimate(ds) == Sum([k \in DOMAIN ds |-> EstimatedCharacters(ds[k])])

\* The best documents, as long as their estimates fit all map groups together.
WithinTotalBudget(ranked) ==
  LET Fits(k) == k <= 1 \/ Estimate(AtMost(ranked, k)) <= MaxGroups * GroupLimit
  IN  AtMost(ranked, Max({k \in 0..Len(ranked) : Fits(k)}))

\* Mutated form of NextGroups: the document that closes a group is lost.
NextGroupsWithoutCarry(groups, d) ==
  IF groups = <<>> THEN <<<<d>>>>
  ELSE IF Last(groups) = <<>> \/
          Estimate(Last(groups)) + EstimatedCharacters(d) <= GroupLimit
  THEN Append(Front(groups), Append(Last(groups), d))
  ELSE Append(groups, <<>>)

\* A document joins the last group if it fits, and opens a group otherwise.
NextGroups(groups, d) ==
  IF groups # <<>> /\ Estimate(Last(groups)) + EstimatedCharacters(d) <= GroupLimit
  THEN Append(Front(groups), Append(Last(groups), d))
  ELSE Append(groups, <<d>>)

Groups(ds) ==
  LET groups[n \in 0..Len(ds)] == IF n = 0 THEN <<>> ELSE NextGroups(groups[n - 1], ds[n])
  IN  groups[Len(ds)]

\* Mutated form of PartitionMapGroups: as many groups as the documents need.
PartitionUnlimited(ds) == Groups(ds)

PartitionMapGroups(ds) == AtMost(Groups(ds), MaxGroups)

-----------------------------------------------------------------------------
(* One bundle of cards *)

\* Mutated form of CharacterLimits: an excerpt may be as long as the packing
\* estimates it.
LongestLimits(ds, limit) == [k \in DOMAIN ds |-> MaxPerDocument]

\* Every document gets a small excerpt; what the headings are expected to
\* leave is shared out in proportion to the scores.
CharacterLimits(ds, limit) ==
  LET n == Len(ds)
      budget == Max({0, limit - (HeaderEstimate + n * HeadingEstimate)})
      baseline == Least(MinPerDocument, budget \div n)
      shared == Max({0, budget - baseline * n})
      Weight(d) == Max({Relevance(d), 1})
      total == Sum([k \in DOMAIN ds |-> Weight(ds[k])])
  IN  [k \in DOMAIN ds |->
        Least(MaxPerDocument, baseline + (shared * Weight(ds[k])) \div total)]

\* The whole text, or the sentences on the intent, or else how it begins.
Excerpt(d, limit) ==
  IF d.text <= limit THEN d.text
  ELSE IF d.relevant = 0 THEN limit ELSE Least(d.relevant, limit)

\* Mutated form of Room: the heading is not counted.
RoomForExcerpt(bundle, d, limit) == limit - bundle.characters - Separator

Room(bundle, d, limit) == limit - bundle.characters - Separator - d.heading

NoCards == [documents |-> <<>>, characters |-> Header, full |-> FALSE]

\* A card of d, no longer than its own limit; a heading without room ends the
\* bundle.
AddCard(bundle, d, ownLimit, limit) ==
  LET room == Room(bundle, d, limit)
      excerpt == Excerpt(d, Least(ownLimit, room))
  IN  IF bundle.full \/ room <= 0 THEN [bundle EXCEPT !.full = TRUE]
      ELSE IF excerpt = 0 THEN bundle
      ELSE [bundle EXCEPT !.documents = Append(@, d),
                          !.characters = @ + Separator + d.heading + excerpt]

\* Cards are added best first.
BuildBundle(ds, limit) ==
  LET ranked == RankDocuments(ds)
      limits == CharacterLimits(ranked, limit)
      bundle[k \in 0..Len(ranked)] ==
        IF k = 0 THEN NoCards ELSE AddCard(bundle[k - 1], ranked[k], limits[k], limit)
  IN  bundle[Len(ranked)]

-----------------------------------------------------------------------------
(* The plan of a brief *)

\* One bundle for a single call, or one for each map call.
EvidencePlan(ds) ==
  LET planned == WithinTotalBudget(RankDocuments(ds))
      groups == PartitionMapGroups(planned)
  IN  IF Estimate(planned) <= DirectLimit
      THEN [direct |-> TRUE, bundles |-> <<BuildBundle(planned, DirectLimit)>>]
      ELSE [direct |-> FALSE,
            bundles |-> [k \in DOMAIN groups |-> BuildBundle(groups[k], GroupLimit)]]

\* The documents of a plan, in the order of its calls.
Carried(plan) ==
  FlattenSeq([k \in DOMAIN plan.bundles |-> plan.bundles[k].documents])

=============================================================================
