-------------------------- MODULE BriefGeneration --------------------------
(***************************************************************************)
(* briefing/bedrock_brief_generator.py on the plan of EvidencePacking: one  *)
(* direct call, or a map call per group and a reducer call over what they   *)
(* found.  The model may answer anything; an answer is modelled by the      *)
(* references it cites and the characters its findings take.  A failure of  *)
(* any kind ends the generation, and a later request starts it over.        *)
(***************************************************************************)
EXTENDS EvidencePacking

CONSTANTS
  Corpora,             \* sequences of documents campaigns may end up with
  PartialLengths,      \* characters a validated partial brief may take
  Preamble,            \* characters of the reducer prompt before the partials
  MaxReducerInput      \* characters of the reducer prompt

ASSUME GenerationAssumption ==
  /\ Corpora \subseteq Seq(Documents)
  /\ \A ds \in Corpora : \A i, k \in DOMAIN ds : ds[i].id = ds[k].id => i = k
  /\ PartialLengths \subseteq Nat
  /\ {Preamble, MaxReducerInput} \subseteq Nat \ {0}

VARIABLES
  stage,      \* what the generator does next
  corpus,     \* the documents of the campaign
  plan,       \* their evidence plan
  partials,   \* the validated partial briefs so far
  calls,      \* calls of the model so far
  brief       \* the documents the finished brief cites

genVars == <<stage, corpus, plan, partials, calls, brief>>

NoPlan == [direct |-> TRUE, bundles |-> <<>>]

GenInit ==
  /\ stage = "none" /\ corpus = <<>> /\ plan = NoPlan
  /\ partials = <<>> /\ calls = 0 /\ brief = {}

\* An answer cites the first or the last of n cards, or one that is not there.
Answers(n) == {{1}, {n}, {n + 1}}

\* Citations are validated against the references the prompt supplied.
Accepted(refs, sources) == refs # {} /\ refs \subseteq DOMAIN sources

Cited(refs, sources) == {sources[k] : k \in refs}

Start(direct) ==
  /\ stage' = IF direct THEN "direct" ELSE "map"
  /\ partials' = <<>> /\ calls' = 0
  /\ UNCHANGED brief

\* The evidence is planned; a plan without a document is answered 422.
Prepare ==
  /\ stage = "none"
  /\ corpus' \in Corpora
  /\ plan' = EvidencePlan(corpus')
  /\ Carried(plan') # <<>>
  /\ Start(plan'.direct)

\* Another request after a failure: the same evidence has the same plan.
Retry ==
  /\ stage = "failed"
  /\ Start(plan.direct)
  /\ UNCHANGED <<corpus, plan>>

\* A direct call, or the reducer's: its answer is the brief.
FinalCall(sources) ==
  /\ calls' = calls + 1
  /\ \E refs \in Answers(Len(sources)) :
       IF Accepted(refs, sources)
       THEN stage' = "done" /\ brief' = Cited(refs, sources)
       ELSE stage' = "failed" /\ UNCHANGED brief
  /\ UNCHANGED <<corpus, plan, partials>>

Direct == stage = "direct" /\ FinalCall(plan.bundles[1].documents)

GenerationError ==
  stage' = "failed" /\ UNCHANGED <<corpus, plan, partials, calls, brief>>

\* Mutated form of GroupSources: the reference table of the first group.
FirstGroupSources(k) == plan.bundles[1].documents

GroupSources(k) == plan.bundles[k].documents

\* The next group is sent.  A group without a card is refused before the call.
MapGroup ==
  LET k == Len(partials) + 1
      sources == GroupSources(k)
  IN  /\ stage = "map" /\ k <= Len(plan.bundles)
      /\ IF plan.bundles[k].documents = <<>> THEN GenerationError
         ELSE /\ calls' = calls + 1
              /\ \E refs \in Answers(Len(sources)), n \in PartialLengths :
                   IF Accepted(refs, sources)
                   THEN /\ partials' = Append(partials,
                             [cited |-> Cited(refs, sources), characters |-> n])
                        /\ UNCHANGED stage
                   ELSE stage' = "failed" /\ UNCHANGED partials
              /\ UNCHANGED <<corpus, plan, brief>>

\* What the partial briefs cite, group by group.
ReducerSources == FlattenSeq([k \in DOMAIN partials |-> SetToSeq(partials[k].cited)])

\* What the code counts: the paragraphs of the preamble a line break apart.
ReducerEstimate ==
  Preamble + Sum([k \in DOMAIN partials |-> Separator + partials[k].characters])

ReducerFits == ReducerEstimate <= MaxReducerInput

Reduce ==
  /\ stage = "map" /\ Len(partials) = Len(plan.bundles)
  /\ IF ReducerFits THEN FinalCall(ReducerSources) ELSE GenerationError

GenNext ==
  \/ Prepare
  \/ Retry
  \/ Direct
  \/ MapGroup
  \/ Reduce

GenSpec == GenInit /\ [][GenNext]_genVars

-----------------------------------------------------------------------------
(* Properties *)

\* Evidence is character-capped (docs/REQUIREMENTS.md, NFR-9): whatever the
\* limits expect of headings, no bundle of cards exceeds its limit.
BundlesFit ==
  \A k \in DOMAIN plan.bundles :
    LET bundle == plan.bundles[k]
    IN  bundle.documents # <<>> =>
          bundle.characters <= IF plan.direct THEN DirectLimit ELSE GroupLimit

\* A brief costs one call or at most five (NFR-9, FR-14), and no content is
\* sent to two map calls.
CallsAreBounded ==
  /\ calls <= IF plan.direct THEN 1 ELSE MaxGroups + 1
  /\ stage = "done" /\ ~plan.direct => calls = Len(plan.bundles) + 1
  /\ LET sent == Carried(plan)
     IN  \A i, k \in DOMAIN sent : sent[i].content = sent[k].content => i = k

\* FR-12: every citation of a finished brief is a document that the model saw;
\* what the reducer cites was cited, out of its own group, by a map call.
CitationsAreGrounded ==
  /\ brief \subseteq ToSet(Carried(plan))
  /\ \A k \in DOMAIN partials :
       partials[k].cited \subseteq ToSet(plan.bundles[k].documents)
  /\ stage = "done" /\ ~plan.direct =>
       brief \subseteq UNION {partials[k].cited : k \in DOMAIN partials}

\* A document whose heading is no longer than the limits expect.
Ordinary(d) == d.heading + Separator <= HeadingEstimate

\* The model sees the best evidence: where headings are ordinary, the cards
\* are the top of the ranking, it is cut only when every group is full up to a
\* document, and no group is left without a card, which would fail this
\* generation and every retry.
BestEvidenceIsCarried ==
  (stage # "none" /\ \A d \in ToSet(corpus) : Ordinary(d)) =>
    LET ranked == RankDocuments(corpus)
        carried == Carried(plan)
    IN  /\ IsPrefix(carried, ranked)
        /\ carried # ranked =>
             Estimate(carried) > MaxGroups * (GroupLimit - MaxPerDocument)
        /\ \A k \in DOMAIN plan.bundles : plan.bundles[k].documents # <<>>

\* The documents each call should show the model.
PlannedCalls(ds) ==
  LET planned == WithinTotalBudget(RankDocuments(ds))
  IN  IF plan.direct THEN <<planned>> ELSE PartitionMapGroups(planned)

\* A heading longer than the limits expect costs the model only the document it
\* belongs to and those its own call ranks below: every document whose heading
\* is ordinary, with only ordinary ones ahead of it in its call, is shown.
LongHeadingsHideOnlyLater ==
  stage # "none" =>
    LET planned == PlannedCalls(corpus)
    IN  \A k \in DOMAIN planned : \A n \in DOMAIN planned[k] :
          (\A i \in 1..n : Ordinary(planned[k][i]))
            => planned[k][n] \in ToSet(plan.bundles[k].documents)

=============================================================================
