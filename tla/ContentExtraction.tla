------------------------- MODULE ContentExtraction -------------------------
(***************************************************************************)
(* _HTMLContentExtractor of crawler/document_persistence.py: tags arrive    *)
(* one at a time, in any order a page may have them, closed or not.  A piece  *)
(* of text is named by its position in the page.                            *)
(***************************************************************************)
EXTENDS Integers, SequencesExt

CONSTANTS
  PageTags,    \* start tags of a page: [name, main, chrome]
  MaxTokens    \* bound on the length of a page

ASSUME ExtractionAssumption == MaxTokens \in Nat

VARIABLES
  tokens,    \* history: the tokens read
  stack,   \* _tag_stack
  depth,   \* the four depth counters
  parts    \* the four lists of text, as sets of positions

extractionVars == <<tokens, stack, depth, parts>>

IgnoredTags == {"aside", "footer", "form", "header", "nav", "noscript",
                "script", "style", "template"}

VoidTags == {"area", "base", "br", "col", "embed", "hr", "img", "input",
             "link", "meta", "param", "source", "track", "wbr"}

\* What a stack entry counts for.
Roles == {"ignored", "main", "article", "title"}

ExtractionInit ==
  /\ tokens = <<>> /\ stack = <<>>
  /\ depth = [r \in Roles |-> 0]
  /\ parts = [title |-> {}, fallback |-> {}, main |-> {}, article |-> {}]

Reads(token) == Len(tokens) < MaxTokens /\ tokens' = Append(tokens, token)

-----------------------------------------------------------------------------

\* What an element is ignored for: its name, or a class or id of page chrome.
Ignorable(t) == t.name \in IgnoredTags \/ t.chrome

\* The roles a start tag takes where it stands.
RolesOf(t) ==
  IF depth["ignored"] > 0 \/ Ignorable(t) THEN {"ignored"}
  ELSE {r \in {"main", "article", "title"} : t.name = r \/ (r = "main" /\ t.main)}

Opens(t) == t.name \notin VoidTags

StartTag(t) ==
  /\ Reads([kind |-> "start", tag |-> t])
  /\ IF Opens(t)
     THEN /\ stack' = Append(stack, [name |-> t.name, roles |-> RolesOf(t)])
          /\ depth' = [r \in Roles |-> depth[r] + (IF r \in RolesOf(t) THEN 1 ELSE 0)]
     ELSE UNCHANGED <<stack, depth>>
  /\ UNCHANGED parts

\* Mutated form of ClosedFrom: only the matching element stops counting.
ClosedAlone(i) == {i}

\* The entries an end tag removes from entry i on stop counting.
ClosedFrom(i) == i..Len(stack)

\* An end tag closes its element with everything still open inside; one that
\* matches nothing is skipped.
EndTag(name) ==
  LET matching == {i \in DOMAIN stack : stack[i].name = name}
      last == Max(matching)
      ending(r) == Cardinality({i \in ClosedFrom(last) : r \in stack[i].roles})
  IN  /\ Reads([kind |-> "end", tag |-> [name |-> name]])
      /\ IF matching = {} THEN UNCHANGED <<stack, depth>>
         ELSE /\ stack' = SubSeq(stack, 1, last - 1)
              /\ depth' = [r \in Roles |-> Max({0, depth[r] - ending(r)})]
      /\ UNCHANGED parts

\* Text goes to the title, or to the page and the parts it stands in.
Data ==
  LET here == {Len(tokens) + 1}
      into(r) == IF depth[r] > 0 THEN here ELSE {}
  IN  /\ Reads([kind |-> "data"])
      /\ parts' =
           CASE depth["ignored"] > 0 -> parts
             [] depth["ignored"] = 0 /\ depth["title"] > 0 ->
                  [parts EXCEPT !.title = @ \cup here]
             [] OTHER ->
                  [parts EXCEPT !.fallback = @ \cup here,
                                !.main = @ \cup into("main"),
                                !.article = @ \cup into("article")]
      /\ UNCHANGED <<stack, depth>>

ExtractionNext ==
  \/ \E t \in PageTags : StartTag(t)
  \/ \E name \in {t.name : t \in PageTags} : EndTag(name)
  \/ Data

ExtractionSpec == ExtractionInit /\ [][ExtractionNext]_extractionVars

\* The articles' text, else the main part's, else all of the page's.
ExtractedText ==
  IF parts.article # {} THEN parts.article
  ELSE IF parts.main # {} THEN parts.main
  ELSE parts.fallback

-----------------------------------------------------------------------------
(* Property *)

\* The reference: the start tags of a page that are open after n of its tokens.
OpenAfter(page) ==
  LET open[n \in Nat] ==
        IF n = 0 THEN {}
        ELSE LET token == page[n]
                 before == open[n - 1]
                 closable == {k \in before : page[k].tag.name = token.tag.name}
             IN  CASE token.kind = "start" /\ token.tag.name \notin VoidTags ->
                        before \cup {n}
                   [] token.kind = "end" /\ closable # {} ->
                        {k \in before : k < Max(closable)}
                   [] OTHER -> before
  IN  open

\* However a page nests, crosses or forgets its tags, the text kept of it is
\* exactly the text outside ignored elements, filed under the title, main
\* part or article it stands in, and a page that shows text is not empty.
TextIsVisible ==
  LET open == OpenAfter(tokens)
      shows == {n \in DOMAIN tokens : /\ tokens[n].kind = "data"
                                    /\ \A k \in open[n] : ~Ignorable(tokens[k].tag)}
      named(role) == {n \in shows : \E k \in open[n] : tokens[k].tag.name = role}
      inMain == {n \in shows : \E k \in open[n] : tokens[k].tag.main}
      body == shows \ named("title")
  IN  /\ parts = [title |-> named("title"), fallback |-> body,
                  main |-> body \cap (named("main") \cup inMain),
                  article |-> body \cap named("article")]
      /\ body # {} => ExtractedText # {}

=============================================================================
