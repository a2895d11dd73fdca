---------------------------- MODULE ContentProofs ---------------------------
(***************************************************************************)
(* What becomes of the content of pages: the text kept of one page, and the *)
(* brief made of the documents of a campaign, for every value of the        *)
(* constants and every answer of the model.                                 *)
(***************************************************************************)
EXTENDS BriefGeneration, ContentExtraction, FiniteSetTheorems, NaturalsInduction,
        WellFoundedInduction, TLAPS

(* Recursive functions on Nat *)

\* A nonempty set of numbers has a least one.
LEMMA LeastExists ==
  ASSUME NEW S \in SUBSET Nat, S # {}
  PROVE  \E n \in S : \A k \in S : n <= k
<1>1. IsWellFoundedOn(OpToRel(<, Nat), Nat)
  BY NatLessThanWellFounded, Zenon DEF OpToRel
<1>2. PICK n \in S : \A k \in S : ~ (<<k, n>> \in OpToRel(<, Nat))
  BY <1>1, WFMin
<1>3. \A k \in S : ~ (k < n)
  BY <1>2 DEF OpToRel
<1> QED
  BY <1>3

\* What holds of 0 and of the successor of each number it holds of.
LEMMA Induction ==
  ASSUME NEW P \in SUBSET Nat, 0 \in P, \A n \in P : n + 1 \in P
  PROVE  P = Nat
<1> SUFFICES ASSUME P # Nat PROVE FALSE
  OBVIOUS
<1>1. PICK n \in Nat \ P : \A k \in Nat \ P : n <= k
  <2> Nat \ P \in SUBSET Nat /\ Nat \ P # {}
    OBVIOUS
  <2> QED
    BY LeastExists
<1>2. n # 0 /\ n - 1 \in Nat
  BY <1>1
<1>3. n - 1 \in P
  BY <1>1, <1>2
<1> QED
  BY <1>1, <1>2, <1>3

\* Finitely many numbers have a greatest one.
LEMMA Greatest ==
  ASSUME NEW n \in Nat, NEW S \in SUBSET (0..n), S # {}
  PROVE  Max(S) \in S /\ \A k \in S : k <= Max(S)
<1>1. PICK m \in {n - k : k \in S} : \A k \in {n - k : k \in S} : m <= k
  <2>1. {n - k : k \in S} \in SUBSET Nat
    OBVIOUS
  <2>2. PICK k \in S : n - k \in {n - i : i \in S}
    OBVIOUS
  <2> QED
    BY <2>1, <2>2, LeastExists
<1>2. PICK k \in S : \A i \in S : k >= i
  BY <1>1
<1> QED
  BY <1>2 DEF Max

\* The function f on Nat starts with a and goes on with the steps G.
Iterates(f, U, a, G) ==
  f \in [Nat -> U] /\ f[0] = a /\ \A n \in Nat : f[n + 1] = G[n][f[n]]

\* A function on Nat may be defined by its first value and by its steps.
LEMMA Iteration ==
  ASSUME NEW U, NEW A \in U, NEW G \in [Nat -> [U -> U]]
  PROVE  \E f : Iterates(f, U, A, G)
<1> DEFINE Upto(n) == {h \in [0..n -> U] :
                         h[0] = A /\ \A i \in Nat : i < n => h[i + 1] = G[i][h[i]]}
<1>1. \A n \in Nat : Upto(n) # {}
  <2> DEFINE P == {n \in Nat : Upto(n) # {}}
  <2>1. 0 \in P
    <3> [i \in 0..0 |-> A] \in Upto(0)
      OBVIOUS
    <3> QED
      OBVIOUS
  <2>2. ASSUME NEW n \in P PROVE n + 1 \in P
    <3>1. PICK h \in Upto(n) : TRUE
      OBVIOUS
    <3> DEFINE g == [i \in 0..(n + 1) |-> IF i = n + 1 THEN G[n][h[n]] ELSE h[i]]
    <3>2. h[n] \in U /\ G[n][h[n]] \in U
      OBVIOUS
    <3>3. g \in [0..(n + 1) -> U]
      BY <3>2
    <3>4. g[0] = A
      OBVIOUS
    <3>5. ASSUME NEW i \in Nat, i < n + 1 PROVE g[i + 1] = G[i][g[i]]
      BY <3>5
    <3> HIDE DEF g
    <3>6. g \in Upto(n + 1)
      BY <3>3, <3>4, <3>5
    <3> HIDE DEF Upto
    <3> QED
      BY <3>6
  <2>3. P = Nat
    <3> HIDE DEF Upto
    <3> QED
      BY <2>1, <2>2, Induction
  <2> QED
    BY <2>3
<1>2. ASSUME NEW n \in Nat, NEW m \in Nat, NEW g \in Upto(n), NEW h \in Upto(m), NEW i \in Nat,
             i <= n, i <= m
      PROVE  g[i] = h[i]
  <2> DEFINE P == {k \in Nat : k <= n /\ k <= m => g[k] = h[k]}
  <2>1. 0 \in P
    OBVIOUS
  <2>2. ASSUME NEW k \in P PROVE k + 1 \in P
    OBVIOUS
  <2>3. P = Nat
    <3> HIDE DEF Upto
    <3> QED
      BY <2>1, <2>2, Induction
  <2> QED
    BY <1>2, <2>3
<1> DEFINE r == [n \in Nat |-> CHOOSE h : h \in Upto(n)]
           f == [n \in Nat |-> r[n][n]]
<1>3. \A n \in Nat : r[n] \in Upto(n)
  <2> HIDE DEF Upto
  <2> QED
    BY <1>1
<1> HIDE DEF r
<1>4. f \in [Nat -> U]
  BY <1>3
<1>5. f[0] = A
  BY <1>3
<1>6. ASSUME NEW n \in Nat PROVE f[n + 1] = G[n][f[n]]
  <2>1. r[n + 1][n] = r[n][n]
    <3> HIDE DEF Upto
    <3> QED
      BY <1>2, <1>3, n <= n + 1, n <= n
  <2>2. r[n + 1][n + 1] = G[n][r[n + 1][n]]
    BY <1>3
  <2> QED
    BY <2>1, <2>2
<1> HIDE DEF f
<1>7. Iterates(f, U, A, G)
  BY <1>4, <1>5, <1>6 DEF Iterates
<1> QED
  BY <1>7

\* f starts with A and goes on with the steps G, m times.
Recurses(f, m, U, A, G) ==
  /\ f \in [0..m -> U]
  /\ f = [n \in 0..m |-> IF n = 0 THEN A ELSE G[n][f[n - 1]]]

\* A function on an interval may be defined the same way.
LEMMA Recursion ==
  ASSUME NEW m \in Nat, NEW U, NEW A \in U, NEW G \in [1..m -> [U -> U]]
  PROVE  \E f : Recurses(f, m, U, A, G)
<1> DEFINE H == [n \in Nat |-> IF n < m THEN G[n + 1] ELSE [x \in U |-> x]]
<1>1. H \in [Nat -> [U -> U]]
  OBVIOUS
<1>2. \A n \in Nat : n < m => H[n] = G[n + 1]
  OBVIOUS
<1> HIDE DEF H
<1>3. PICK g : Iterates(g, U, A, H)
  BY <1>1, Iteration
<1>4. g \in [Nat -> U] /\ g[0] = A /\ \A n \in Nat : g[n + 1] = H[n][g[n]]
  BY <1>3 DEF Iterates
<1> DEFINE f == [n \in 0..m |-> g[n]]
<1>5. f \in [0..m -> U]
  BY <1>4
<1>6. ASSUME NEW n \in 0..m, n # 0 PROVE f[n] = G[n][f[n - 1]]
  <2>1. n - 1 \in Nat /\ n - 1 < m /\ (n - 1) + 1 = n /\ n \in Nat
    BY <1>6
  <2>2. g[(n - 1) + 1] = H[n - 1][g[n - 1]]
    BY <1>4, <2>1
  <2>3. H[n - 1] = G[n]
    BY <1>2, <2>1
  <2>4. f[n] = g[n] /\ f[n - 1] = g[n - 1]
    BY <2>1
  <2> QED
    BY <2>1, <2>2, <2>3, <2>4
<1>7. f[0] = A
  BY <1>4
<1>8. f = [n \in 0..m |-> IF n = 0 THEN A ELSE G[n][f[n - 1]]]
  <2> DEFINE R == [n \in 0..m |-> IF n = 0 THEN A ELSE G[n][f[n - 1]]]
  <2> HIDE DEF f
  <2>1. \A n \in 0..m : f[n] = R[n]
    BY <1>6, <1>7
  <2>2. f = [n \in 0..m |-> f[n]]
    BY <1>5
  <2> QED
    BY <2>1, <2>2
<1> HIDE DEF f
<1> QED
  BY <1>5, <1>8 DEF Recurses

\* Induction on an interval.
LEMMA IntervalInduction ==
  ASSUME NEW m \in Nat, NEW P, 0 \in P, \A n \in 0..m : n \in P /\ n < m => n + 1 \in P
  PROVE  0..m \subseteq P
<1> DEFINE Q == {n \in Nat : n <= m => n \in P}
<1>1. 0 \in Q /\ \A n \in Q : n + 1 \in Q
  OBVIOUS
<1>2. Q = Nat
  BY <1>1, Induction
<1> QED
  BY <1>2

-----------------------------------------------------------------------------
(* The text of one page: _HTMLContentExtractor *)

\* The start tags open after token n of a page, S being open before it.
OpenStep(page, S, n) ==
  LET closable == {k \in S : page[k].tag.name = page[n].tag.name}
  IN  CASE page[n].kind = "start" /\ page[n].tag.name \notin VoidTags -> S \cup {n}
        [] page[n].kind = "end" /\ closable # {} -> {k \in S : k < Max(closable)}
        [] OTHER -> S

\* The reference is well defined: it has the recurrence it is written as.
LEMMA OpenRecurs ==
  ASSUME NEW page
  PROVE  /\ OpenAfter(page)[0] = {}
         /\ \A n \in Nat : OpenAfter(page)[n + 1] = OpenStep(page, OpenAfter(page)[n], n + 1)
<1> DEFINE G == [n \in Nat |-> [S \in SUBSET Nat |-> OpenStep(page, S, n + 1)]]
           Eqn(f) == f = [n \in Nat |-> IF n = 0 THEN {} ELSE OpenStep(page, f[n - 1], n)]
<1>1. ASSUME NEW n \in Nat, NEW S \in SUBSET Nat PROVE OpenStep(page, S, n + 1) \in SUBSET Nat
  <2> DEFINE closable == {k \in S : page[k].tag.name = page[n + 1].tag.name}
             max == Max(closable)
  <2> HIDE DEF max
  <2> QED
    BY DEF OpenStep, max
<1>2. G \in [Nat -> [SUBSET Nat -> SUBSET Nat]]
  BY <1>1
<1> HIDE DEF G
<1>3. PICK f \in [Nat -> SUBSET Nat] :
        f[0] = {} /\ \A n \in Nat : f[n + 1] = G[n][f[n]]
  <2>1. {} \in SUBSET Nat
    OBVIOUS
  <2>2. \E f : Iterates(f, SUBSET Nat, {}, G)
    BY <1>2, <2>1, Iteration
  <2> QED
    BY <2>2 DEF Iterates
<1> USE DEF G
<1>4. ASSUME NEW n \in Nat, n # 0 PROVE f[n] = OpenStep(page, f[n - 1], n)
  <2>1. n - 1 \in Nat /\ (n - 1) + 1 = n
    BY <1>4
  <2>2. f[(n - 1) + 1] = G[n - 1][f[n - 1]]
    BY <1>3, <2>1
  <2> QED
    BY <2>1, <2>2
<1>5. Eqn(f)
  BY <1>3, <1>4
<1>6. OpenAfter(page) = CHOOSE g : Eqn(g)
  BY DEF OpenAfter, OpenStep
<1> HIDE DEF Eqn
<1>7. Eqn(OpenAfter(page))
  BY <1>5, <1>6
<1> USE DEF Eqn
<1>8. PICK g : g = OpenAfter(page)
  OBVIOUS
<1>9. g = [n \in Nat |-> IF n = 0 THEN {} ELSE OpenStep(page, g[n - 1], n)]
  BY <1>7, <1>8
<1>10. g[0] = {}
  BY <1>9
<1>11. ASSUME NEW n \in Nat
       PROVE  g[n + 1] = OpenStep(page, g[n], n + 1)
  <2>1. n + 1 \in Nat /\ n + 1 # 0 /\ (n + 1) - 1 = n
    OBVIOUS
  <2>2. g[n + 1] = OpenStep(page, g[(n + 1) - 1], n + 1)
    BY <1>9, <2>1, Zenon
  <2> QED
    BY <2>1, <2>2
<1> QED
  BY <1>8, <1>10, <1>11

\* The tokens of a page.
Tokens ==
  {[kind |-> "start", tag |-> t] : t \in PageTags}
  \cup {[kind |-> "end", tag |-> [name |-> t.name]] : t \in PageTags}
  \cup {[kind |-> "data"]}

\* Open after n tokens are some of them.
LEMMA OpenBounds ==
  ASSUME NEW page, NEW n \in Nat
  PROVE  OpenAfter(page)[n] \in SUBSET (1..n)
<1> DEFINE P == {k \in Nat : OpenAfter(page)[k] \in SUBSET (1..k)}
<1>1. 0 \in P
  BY OpenRecurs
<1>2. ASSUME NEW k \in P PROVE k + 1 \in P
  <2>1. PICK S \in SUBSET (1..k) : S = OpenAfter(page)[k]
    OBVIOUS
  <2>2. OpenAfter(page)[k + 1] = OpenStep(page, S, k + 1)
    BY <2>1, OpenRecurs
  <2> DEFINE max == Max({i \in S : page[i].tag.name = page[k + 1].tag.name})
  <2> HIDE DEF max
  <2>3. OpenStep(page, S, k + 1) \in SUBSET (1..(k + 1))
    BY DEF OpenStep, max
  <2> QED
    BY <2>2, <2>3
<1>3. P = Nat
  BY <1>1, <1>2, Induction
<1> QED
  BY <1>3

\* A token that is read changes nothing of what was open before it.
LEMMA OpenOfPrefix ==
  ASSUME NEW page \in Seq(Tokens), NEW token \in Tokens, NEW n \in Nat, n <= Len(page)
  PROVE  OpenAfter(Append(page, token))[n] = OpenAfter(page)[n]
<1> DEFINE longer == Append(page, token)
           P == {k \in Nat : k <= Len(page) =>
                               OpenAfter(longer)[k] = OpenAfter(page)[k]}
<1>1. \A k \in 1..Len(page) : longer[k] = page[k]
  OBVIOUS
<1> HIDE DEF longer
<1>2. 0 \in P
  BY OpenRecurs
<1>3. ASSUME NEW k \in P, k + 1 <= Len(page) PROVE k + 1 \in P
  <2>1. PICK S \in SUBSET (1..k) : S = OpenAfter(page)[k]
    BY OpenBounds
  <2>2. OpenAfter(longer)[k] = S
    BY <1>3, <2>1
  <2>3. /\ OpenAfter(page)[k + 1] = OpenStep(page, S, k + 1)
        /\ OpenAfter(longer)[k + 1] = OpenStep(longer, S, k + 1)
    BY <2>1, <2>2, OpenRecurs
  <2>a. /\ longer[k + 1] = page[k + 1]
        /\ \A i \in S : longer[i] = page[i]
    BY <1>1, <1>3
  <2>4. {i \in S : page[i].tag.name = page[k + 1].tag.name} =
          {i \in S : longer[i].tag.name = longer[k + 1].tag.name}
    BY <2>a
  <2>5. OpenStep(page, S, k + 1) = OpenStep(longer, S, k + 1)
    BY <2>a, <2>4 DEF OpenStep
  <2> QED
    BY <2>3, <2>5
<1>4. P = Nat
  <2> \A k \in P : k + 1 \in P
    BY <1>3
  <2> QED
    BY <1>2, Induction
<1> QED
  BY <1>4 DEF longer

\* What its counted roles say of an element inside others: outer are the tags
\* of the elements it stands in, its own included.
RolesIn(t, outer) ==
  IF \E o \in outer : Ignorable(o) THEN {"ignored"}
  ELSE {r \in {"main", "article", "title"} : t.name = r \/ (r = "main" /\ t.main)}

\* The stack st consists of the open elements of a page: at says where.
Stacks(page, st, at) ==
  /\ at \in [1..Len(st) -> 1..Len(page)]
  /\ \A i, k \in 1..Len(st) : i < k => at[i] < at[k]
  /\ OpenAfter(page)[Len(page)] = {at[i] : i \in 1..Len(st)}
  /\ \A i \in 1..Len(st) :
       /\ page[at[i]].tag \in PageTags
       /\ st[i].name = page[at[i]].tag.name
       /\ st[i].roles = RolesIn(page[at[i]].tag, {page[at[k]].tag : k \in 1..i})

\* The counters count the entries of the stack.
Counts(st, d) ==
  d = [r \in Roles |-> Cardinality({i \in 1..Len(st) : r \in st[i].roles})]

\* A counter is positive while an entry has its role.
LEMMA CountIsPositive ==
  ASSUME NEW n \in Nat, NEW P \in SUBSET (1..n)
  PROVE  /\ IsFiniteSet(P) /\ Cardinality(P) \in Nat
         /\ Cardinality(P) > 0 <=> P # {}
<1>1. IsFiniteSet(1..n)
  BY FS_Interval
<1>2. IsFiniteSet(P)
  BY <1>1, FS_Subset
<1>3. Cardinality(P) \in Nat /\ (Cardinality(P) = 0 <=> P = {})
  BY <1>2, FS_CardinalityType, FS_EmptySet
<1>4. Cardinality(P) > 0 <=> Cardinality(P) # 0
  BY <1>3
<1> QED
  BY <1>2, <1>3, <1>4

\* The entries of a stack.
Entries == [name : {t.name : t \in PageTags}, roles : SUBSET Roles]

\* The start tags that are open at the end of a page.
OpenNow(page) == OpenAfter(page)[Len(page)]

\* The counters tell which elements are open.
LEMMA CountersTell ==
  ASSUME NEW page \in Seq(Tokens), NEW st \in Seq(Entries), NEW at, Stacks(page, st, at),
         NEW d, Counts(st, d)
  PROVE  /\ d \in [Roles -> Nat]
         /\ d["ignored"] > 0 <=> \E k \in OpenNow(page) : Ignorable(page[k].tag)
         /\ d["ignored"] = 0 =>
              /\ d["title"] > 0 <=> \E k \in OpenNow(page) : page[k].tag.name = "title"
              /\ d["article"] > 0 <=> \E k \in OpenNow(page) : page[k].tag.name = "article"
              /\ d["main"] > 0 <=>
                   \E k \in OpenNow(page) : page[k].tag.name = "main" \/ page[k].tag.main
<1> DEFINE P(r) == {i \in 1..Len(st) : r \in st[i].roles}
           outer(i) == {page[at[k]].tag : k \in 1..i}
<1>1. ASSUME NEW r \in Roles
      PROVE  d[r] = Cardinality(P(r)) /\ d[r] \in Nat /\ (d[r] > 0 <=> P(r) # {})
  <2>1. d[r] = Cardinality(P(r))
    BY DEF Counts
  <2>2. P(r) \in SUBSET (1..Len(st)) /\ Len(st) \in Nat
    OBVIOUS
  <2> HIDE DEF P
  <2> QED
    BY <2>1, <2>2, CountIsPositive
<1>2. d \in [Roles -> Nat]
  BY <1>1 DEF Counts
<1>3. \A i \in 1..Len(st) : st[i].roles = RolesIn(page[at[i]].tag, outer(i))
  BY DEF Stacks
<1>4. ASSUME NEW i \in 1..Len(st)
      PROVE  "ignored" \in st[i].roles <=> \E o \in outer(i) : Ignorable(o)
  <2>1. PICK S : S = outer(i)
    OBVIOUS
  <2>2. st[i].roles = RolesIn(page[at[i]].tag, S)
    BY <1>3, <2>1
  <2> HIDE DEF outer
  <2> QED
    BY <2>1, <2>2 DEF RolesIn
<1>5. OpenNow(page) = {at[i] : i \in 1..Len(st)}
  BY DEF Stacks, OpenNow
<1>6. P("ignored") # {} <=> \E k \in OpenNow(page) : Ignorable(page[k].tag)
  <2>1. ASSUME NEW i \in P("ignored")
        PROVE  \E k \in OpenNow(page) : Ignorable(page[k].tag)
    BY <1>4, <1>5
  <2>2. ASSUME NEW i \in 1..Len(st), Ignorable(page[at[i]].tag)
        PROVE  P("ignored") # {}
    <3>1. page[at[i]].tag \in outer(i)
      OBVIOUS
    <3> QED
      BY <1>4, <2>2, <3>1
  <2> QED
    BY <1>5, <2>1, <2>2
<1>7. ASSUME d["ignored"] = 0, NEW i \in 1..Len(st)
      PROVE  st[i].roles = {r \in {"main", "article", "title"} :
               page[at[i]].tag.name = r \/ (r = "main" /\ page[at[i]].tag.main)}
  <2>1. "ignored" \notin st[i].roles
    BY <1>1, <1>7 DEF Roles
  <2> QED
    BY <1>3, <1>4, <2>1 DEF RolesIn
<1>8. ASSUME d["ignored"] = 0, NEW r \in {"main", "article", "title"}
      PROVE  d[r] > 0 <=> \E k \in OpenNow(page) :
                            page[k].tag.name = r \/ (r = "main" /\ page[k].tag.main)
  <2>1. d[r] > 0 <=> P(r) # {}
    BY <1>1 DEF Roles
  <2>2. \A i \in 1..Len(st) : r \in st[i].roles <=>
          (page[at[i]].tag.name = r \/ (r = "main" /\ page[at[i]].tag.main))
    BY <1>7, <1>8
  <2> QED
    BY <1>5, <2>1, <2>2
<1>9. d["ignored"] > 0 <=> \E k \in OpenNow(page) : Ignorable(page[k].tag)
  BY <1>1, <1>6 DEF Roles
<1> QED
  BY <1>2, <1>8, <1>9

\* What is open after one more token.
LEMMA OpenOfLonger ==
  ASSUME NEW page \in Seq(Tokens), NEW token \in Tokens,
         NEW longer, longer = Append(page, token)
  PROVE  /\ longer[Len(page) + 1] = token
         /\ OpenNow(longer) = OpenStep(longer, OpenNow(page), Len(page) + 1)
<1> DEFINE n == Len(page)
<1>1. /\ n \in Nat /\ n <= n /\ Len(longer) = n + 1 /\ longer[n + 1] = token
  OBVIOUS
<1>2. OpenAfter(longer)[n] = OpenNow(page)
  BY <1>1, OpenOfPrefix DEF OpenNow
<1>3. OpenAfter(longer)[n + 1] = OpenStep(longer, OpenAfter(longer)[n], n + 1)
  BY <1>1, OpenRecurs
<1>4. OpenNow(longer) = OpenAfter(longer)[n + 1]
  BY <1>1 DEF OpenNow
<1> QED
  BY <1>1, <1>2, <1>3, <1>4

\* A token that opens and closes nothing leaves the stack right as it is.
LEMMA StacksKept ==
  ASSUME NEW page \in Seq(Tokens), NEW token \in Tokens,
         NEW longer, longer = Append(page, token), OpenNow(longer) = OpenNow(page),
         NEW st \in Seq(Entries), NEW at, Stacks(page, st, at)
  PROVE  Stacks(longer, st, at)
<1>1. Len(longer) = Len(page) + 1 /\ \A k \in 1..Len(page) : longer[k] = page[k]
  OBVIOUS
<1>2. Len(page) \in Nat /\ Len(st) \in Nat
  OBVIOUS
<1>3. at \in [1..Len(st) -> 1..Len(page)]
  BY DEF Stacks
<1>4. \A i \in 1..Len(st) : at[i] \in 1..Len(page) /\ longer[at[i]] = page[at[i]]
  BY <1>1, <1>3
<1>5. at \in [1..Len(st) -> 1..Len(longer)]
  BY <1>1, <1>2, <1>3
<1>6. ASSUME NEW i \in 1..Len(st)
      PROVE  {longer[at[k]].tag : k \in 1..i} = {page[at[k]].tag : k \in 1..i}
  <2>1. \A k \in 1..i : longer[at[k]] = page[at[k]]
    BY <1>2, <1>4
  <2> QED
    BY <2>1
<1>7. /\ \A i, k \in 1..Len(st) : i < k => at[i] < at[k]
      /\ OpenAfter(longer)[Len(longer)] = {at[i] : i \in 1..Len(st)}
  BY DEF Stacks, OpenNow
<1>8. ASSUME NEW i \in 1..Len(st)
      PROVE  /\ longer[at[i]].tag \in PageTags
             /\ st[i].name = longer[at[i]].tag.name
             /\ st[i].roles = RolesIn(longer[at[i]].tag, {longer[at[k]].tag : k \in 1..i})
  BY <1>4, <1>6 DEF Stacks
<1> QED
  BY <1>5, <1>7, <1>8 DEF Stacks

\* A start tag of a page that is counted opens its element inside the others.
LEMMA StartStacks ==
  ASSUME NEW page \in Seq(Tokens), NEW st \in Seq(Entries), NEW at, Stacks(page, st, at),
         NEW t \in PageTags, t.name \notin VoidTags, NEW e, e.name = t.name,
         e.roles = RolesIn(t, {page[k].tag : k \in OpenNow(page)} \cup {t})
  PROVE  \E later : Stacks(Append(page, [kind |-> "start", tag |-> t]), Append(st, e), later)
<1> DEFINE n == Len(page)
           m == Len(st)
           token == [kind |-> "start", tag |-> t]
           longer == Append(page, token)
           more == Append(st, e)
           later == [i \in 1..(m + 1) |-> IF i = m + 1 THEN n + 1 ELSE at[i]]
<1>0. n \in Nat /\ m \in Nat /\ token \in Tokens
  BY DEF Tokens
<1>1. /\ Len(longer) = n + 1 /\ longer[n + 1] = token
      /\ \A k \in 1..n : longer[k] = page[k]
  OBVIOUS
<1>2. /\ Len(more) = m + 1 /\ more[m + 1] = e
      /\ \A i \in 1..m : more[i] = st[i]
  OBVIOUS
<1>3. OpenAfter(longer)[n + 1] = OpenNow(page) \cup {n + 1}
  <2>1. OpenAfter(longer)[n] = OpenNow(page)
    BY <1>0, OpenOfPrefix DEF OpenNow
  <2>2. OpenAfter(longer)[n + 1] = OpenStep(longer, OpenNow(page), n + 1)
    BY <1>0, <2>1, OpenRecurs
  <2>3. longer[n + 1].kind = "start" /\ longer[n + 1].tag.name \notin VoidTags
    BY <1>1
  <2> HIDE DEF longer
  <2> QED
    BY <2>2, <2>3 DEF OpenStep
<1> HIDE DEF n, m, longer, more
<1>4. /\ at \in [1..m -> 1..n] /\ \A i, k \in 1..m : i < k => at[i] < at[k]
      /\ OpenNow(page) = {at[i] : i \in 1..m}
      /\ \A i \in 1..m :
           /\ page[at[i]].tag \in PageTags
           /\ st[i].name = page[at[i]].tag.name
           /\ st[i].roles = RolesIn(page[at[i]].tag, {page[at[k]].tag : k \in 1..i})
  BY DEF Stacks, OpenNow, n, m
<1>5. /\ later \in [1..(m + 1) -> 1..(n + 1)] /\ later[m + 1] = n + 1
      /\ \A i \in 1..m : later[i] = at[i] /\ later[i] \in 1..n
  BY <1>0, <1>4
<1> HIDE DEF later
<1>6. ASSUME NEW i \in 1..(m + 1), NEW k \in 1..(m + 1), i < k PROVE later[i] < later[k]
  <2>1. i \in 1..m /\ later[i] = at[i] /\ later[i] \in 1..n
    BY <1>0, <1>5, <1>6
  <2>2. CASE k \in 1..m
    BY <1>4, <1>5, <1>6, <2>1, <2>2
  <2>3. CASE k = m + 1
    BY <1>0, <1>5, <2>1, <2>3
  <2> QED
    BY <1>0, <2>2, <2>3
<1>7. OpenAfter(longer)[n + 1] = {later[i] : i \in 1..(m + 1)}
  <2>1. {later[i] : i \in 1..(m + 1)} = {at[i] : i \in 1..m} \cup {n + 1}
    <3>1. \A i \in 1..(m + 1) : i \in 1..m \/ i = m + 1
      BY <1>0
    <3>2. \A i \in 1..m : i \in 1..(m + 1)
      BY <1>0
    <3>3. m + 1 \in 1..(m + 1)
      BY <1>0
    <3> QED
      BY <1>5, <3>1, <3>2, <3>3
  <2> QED
    BY <1>3, <1>4, <2>1
<1>8. ASSUME NEW i \in 1..(m + 1)
      PROVE  /\ longer[later[i]].tag \in PageTags
             /\ more[i].name = longer[later[i]].tag.name
             /\ more[i].roles = RolesIn(longer[later[i]].tag,
                                        {longer[later[k]].tag : k \in 1..i})
  <2>1. CASE i \in 1..m
    <3>1. \A k \in 1..i : longer[later[k]] = page[at[k]]
      BY <1>0, <1>1, <1>5, <2>1
    <3>2. {longer[later[k]].tag : k \in 1..i} = {page[at[k]].tag : k \in 1..i}
      BY <3>1
    <3>3. longer[later[i]] = page[at[i]] /\ more[i] = st[i]
      BY <1>2, <2>1, <3>1
    <3> QED
      BY <1>4, <2>1, <3>2, <3>3
  <2>2. CASE i = m + 1
    <3>1. \A k \in 1..m : longer[later[k]] = page[at[k]]
      BY <1>0, <1>1, <1>5
    <3>2. longer[later[m + 1]].tag = t
      BY <1>1, <1>5
    <3>3. {longer[later[k]].tag : k \in 1..(m + 1)} = {page[at[k]].tag : k \in 1..m} \cup {t}
      BY <1>0, <3>1, <3>2
    <3>4. {page[k].tag : k \in OpenNow(page)} = {page[at[k]].tag : k \in 1..m}
      BY <1>4
    <3> QED
      BY <1>2, <2>2, <3>2, <3>3, <3>4
  <2> QED
    BY <1>0, <2>1, <2>2
<1>9. Stacks(longer, more, later)
  BY <1>1, <1>2, <1>5, <1>6, <1>7, <1>8 DEF Stacks
<1> QED
  BY <1>9 DEF longer, more

\* An end tag that matches closes what was opened from its element on.
LEMMA EndStacks ==
  ASSUME NEW page \in Seq(Tokens), NEW st \in Seq(Entries), NEW at, Stacks(page, st, at),
         NEW name \in {t.name : t \in PageTags},
         NEW matching, matching = {i \in 1..Len(st) : st[i].name = name}
  PROVE  LET longer == Append(page, [kind |-> "end", tag |-> [name |-> name]])
         IN  IF matching = {} THEN OpenNow(longer) = OpenNow(page)
             ELSE /\ Max(matching) \in 1..Len(st)
                  /\ \E later : Stacks(longer, SubSeq(st, 1, Max(matching) - 1), later)
<1> DEFINE n == Len(page)
           m == Len(st)
           token == [kind |-> "end", tag |-> [name |-> name]]
           longer == Append(page, token)
           closable == {k \in OpenNow(page) : longer[k].tag.name = longer[n + 1].tag.name}
<1>0. n \in Nat /\ m \in Nat /\ token \in Tokens
  BY DEF Tokens
<1>1. /\ Len(longer) = n + 1 /\ longer[n + 1] = token
      /\ \A k \in 1..n : longer[k] = page[k]
  OBVIOUS
<1>2. OpenAfter(longer)[n + 1] = OpenStep(longer, OpenNow(page), n + 1)
  <2>1. OpenAfter(longer)[n] = OpenNow(page)
    BY <1>0, OpenOfPrefix DEF OpenNow
  <2> QED
    BY <1>0, <2>1, OpenRecurs
<1>3. OpenNow(longer) = IF closable = {} THEN OpenNow(page)
                        ELSE {k \in OpenNow(page) : k < Max(closable)}
  <2>1. longer[n + 1].kind = "end"
    BY <1>1
  <2>2. OpenNow(longer) = OpenAfter(longer)[n + 1]
    BY <1>1 DEF OpenNow
  <2> DEFINE max == Max(closable)
  <2> HIDE DEF longer, max
  <2> QED
    BY <1>2, <2>1, <2>2 DEF OpenStep, max
<1> HIDE DEF n, m, longer
<1>4. /\ at \in [1..m -> 1..n] /\ \A i, k \in 1..m : i < k => at[i] < at[k]
      /\ OpenNow(page) = {at[i] : i \in 1..m}
      /\ \A i \in 1..m :
           /\ page[at[i]].tag \in PageTags
           /\ st[i].name = page[at[i]].tag.name
           /\ st[i].roles = RolesIn(page[at[i]].tag, {page[at[k]].tag : k \in 1..i})
  BY DEF Stacks, OpenNow, n, m
<1>5. \A i \in 1..m : longer[at[i]] = page[at[i]] /\ at[i] \in 1..n
  BY <1>1, <1>4
<1>6. closable = {at[i] : i \in matching}
  <2>1. longer[n + 1].tag.name = name
    BY <1>1
  <2>2. \A i \in 1..m : longer[at[i]].tag.name = name <=> i \in matching
    BY <1>4, <1>5 DEF m
  <2>3. matching \subseteq 1..m
    BY DEF m
  <2> QED
    BY <1>4, <2>1, <2>2, <2>3
<1>7. CASE matching = {}
  BY <1>3, <1>6, <1>7 DEF longer
<1>8. CASE matching # {}
  <2> DEFINE last == Max(matching)
             fewer == SubSeq(st, 1, last - 1)
             later == [i \in 1..(last - 1) |-> at[i]]
  <2>1. last \in matching /\ last \in 1..m /\ \A i \in matching : i <= last
    <3> matching \in SUBSET (0..m)
      BY <1>0 DEF m
    <3> QED
      BY <1>0, <1>8, Greatest DEF m
  <2>2. Max(closable) = at[last]
    <3>1. closable \in SUBSET (0..n) /\ closable # {}
      <4>1. \A i \in matching : at[i] \in 0..n
        BY <1>0, <1>5 DEF m
      <4> HIDE DEF closable
      <4> QED
        BY <1>6, <1>8, <4>1
    <3>2. Max(closable) \in closable /\ \A k \in closable : k <= Max(closable)
      BY <1>0, <3>1, Greatest
    <3>3. PICK i \in matching : Max(closable) = at[i]
      BY <1>6, <3>2
    <3>4. at[last] <= at[i] /\ i <= last /\ i \in 1..m
      BY <1>6, <2>1, <3>2, <3>3 DEF m
    <3>5. ~ (i < last)
      BY <1>4, <2>1, <3>4
    <3> QED
      BY <2>1, <3>3, <3>4, <3>5
  <2> HIDE DEF last
  <2>3. /\ Len(fewer) = last - 1 /\ last - 1 \in Nat
        /\ \A i \in 1..(last - 1) : fewer[i] = st[i] /\ i \in 1..m
    BY <1>0, <2>1 DEF m
  <2> HIDE DEF fewer
  <2>4. /\ later \in [1..(last - 1) -> 1..(n + 1)]
        /\ \A i \in 1..(last - 1) : later[i] = at[i]
    BY <1>0, <1>4, <2>1
  <2> HIDE DEF later
  <2>5. \A i, k \in 1..(last - 1) : i < k => later[i] < later[k]
    BY <1>4, <2>3, <2>4
  <2>6. OpenNow(longer) = {later[i] : i \in 1..(last - 1)}
    <3>1. closable # {}
      BY <1>6, <1>8
    <3>2. OpenNow(longer) = {k \in OpenNow(page) : k < at[last]}
      BY <1>3, <2>2, <3>1
    <3>3. \A i \in 1..m : at[i] < at[last] <=> i < last
      BY <1>0, <1>4, <2>1
    <3> QED
      BY SMTT(30), <1>0, <1>4, <2>1, <2>4, <3>2, <3>3
  <2>7. ASSUME NEW i \in 1..(last - 1)
        PROVE  /\ longer[later[i]].tag \in PageTags
               /\ fewer[i].name = longer[later[i]].tag.name
               /\ fewer[i].roles = RolesIn(longer[later[i]].tag,
                                           {longer[later[k]].tag : k \in 1..i})
    <3>1. \A k \in 1..i : longer[later[k]] = page[at[k]]
      BY <1>5, <2>3, <2>4
    <3>2. {longer[later[k]].tag : k \in 1..i} = {page[at[k]].tag : k \in 1..i}
      BY <3>1
    <3>3. longer[later[i]] = page[at[i]] /\ fewer[i] = st[i] /\ i \in 1..m
      BY <2>3, <3>1
    <3> QED
      BY <1>4, <3>2, <3>3
  <2>8. Stacks(longer, fewer, later)
    BY <1>1, <2>3, <2>4, <2>5, <2>6, <2>7 DEF Stacks, OpenNow
  <2> QED
    BY <1>8, <2>1, <2>8 DEF longer, fewer, last, m
<1> QED
  BY <1>7, <1>8

\* A new entry counts for its roles.
LEMMA StartCounts ==
  ASSUME NEW st \in Seq(Entries), NEW d, Counts(st, d), NEW e \in Entries
  PROVE  Counts(Append(st, e), [r \in Roles |-> d[r] + (IF r \in e.roles THEN 1 ELSE 0)])
<1> DEFINE m == Len(st)
           more == Append(st, e)
           P(r) == {i \in 1..m : r \in st[i].roles}
           Q(r) == {i \in 1..(m + 1) : r \in more[i].roles}
<1>1. /\ m \in Nat /\ Len(more) = m + 1 /\ more[m + 1] = e
      /\ \A i \in 1..m : more[i] = st[i]
  OBVIOUS
<1>2. ASSUME NEW r \in Roles
      PROVE  Cardinality(Q(r)) = d[r] + (IF r \in e.roles THEN 1 ELSE 0)
  <2> HIDE DEF m, more
  <2>1. d[r] = Cardinality(P(r)) /\ Cardinality(P(r)) \in Nat /\ IsFiniteSet(P(r))
    <3>1. P(r) \in SUBSET (1..m)
      OBVIOUS
    <3>2. d[r] = Cardinality(P(r))
      BY DEF Counts, m
    <3> HIDE DEF P
    <3> QED
      BY <1>1, <3>1, <3>2, CountIsPositive
  <2>2. Q(r) = IF r \in e.roles THEN P(r) \cup {m + 1} ELSE P(r)
    <3>1. \A i \in 1..(m + 1) : i \in 1..m \/ i = m + 1
      BY <1>1
    <3>2. 1..m \subseteq 1..(m + 1) /\ m + 1 \in 1..(m + 1)
      BY <1>1
    <3> QED
      BY <1>1, <3>1, <3>2
  <2>3. m + 1 \notin P(r)
    BY <1>1
  <2> HIDE DEF P, Q
  <2>4. Cardinality(P(r) \cup {m + 1}) = Cardinality(P(r)) + 1
    BY <2>1, <2>3, FS_AddElement
  <2> QED
    BY <2>1, <2>2, <2>4
<1> QED
  BY <1>1, <1>2 DEF Counts

\* The entries that go were counted.
LEMMA EndCounts ==
  ASSUME NEW st \in Seq(Entries), NEW d, Counts(st, d), NEW last \in 1..Len(st)
  PROVE  Counts(SubSeq(st, 1, last - 1),
                [r \in Roles |->
                   Max({0, d[r] - Cardinality({i \in last..Len(st) : r \in st[i].roles})})])
<1> DEFINE m == Len(st)
           fewer == SubSeq(st, 1, last - 1)
           All(r) == {i \in 1..m : r \in st[i].roles}
           Gone(r) == {i \in last..m : r \in st[i].roles}
           Left(r) == {i \in 1..(last - 1) : r \in fewer[i].roles}
<1>1. /\ m \in Nat /\ last \in 1..m /\ last - 1 \in Nat /\ Len(fewer) = last - 1
      /\ \A i \in 1..(last - 1) : fewer[i] = st[i]
  OBVIOUS
<1> HIDE DEF m, fewer
<1>2. ASSUME NEW r \in Roles
      PROVE  Cardinality(Left(r)) = Max({0, d[r] - Cardinality(Gone(r))})
  <2>1. d[r] = Cardinality(All(r))
    BY DEF Counts, m
  <2>2. IsFiniteSet(All(r)) /\ All(r) \in SUBSET (1..m)
    <3>1. All(r) \in SUBSET (1..m)
      OBVIOUS
    <3> HIDE DEF All
    <3> QED
      BY <1>1, <3>1, CountIsPositive
  <2>3. Left(r) = All(r) \ Gone(r) /\ All(r) \cap Gone(r) = Gone(r)
    <3>1. \A i \in 1..m : i \in 1..(last - 1) <=> i \notin last..m
      BY <1>1
    <3>2. 1..(last - 1) \subseteq 1..m /\ last..m \subseteq 1..m
      BY <1>1
    <3>3. \A i \in 1..(last - 1) : fewer[i].roles = st[i].roles
      BY <1>1
    <3>4. Left(r) = {i \in 1..(last - 1) : r \in st[i].roles}
      BY <3>3
    <3> QED
      BY <3>1, <3>2, <3>4
  <2> HIDE DEF All, Gone, Left
  <2>4. /\ IsFiniteSet(Left(r))
        /\ Cardinality(Left(r)) = Cardinality(All(r)) - Cardinality(Gone(r))
    BY <2>2, <2>3, FS_Difference
  <2>5. Cardinality(Left(r)) \in Nat
    BY <2>4, FS_CardinalityType
  <2>6. \A c \in Nat : Max({0, c}) = c
    BY DEF Max
  <2> QED
    BY <2>1, <2>4, <2>5, <2>6
<1>3. [r \in Roles |-> Max({0, d[r] - Cardinality(Gone(r))})]
        = [r \in Roles |-> Cardinality(Left(r))]
  <2> HIDE DEF Gone, Left
  <2> QED
    BY <1>2
<1>4. Counts(fewer, [r \in Roles |-> Cardinality(Left(r))])
  BY <1>1 DEF Counts
<1> QED
  BY <1>3, <1>4 DEF m, fewer

-----------------------------------------------------------------------------

\* The visible text of a page, and the visible text inside elements of a name
\* or with the role of the main part.
Shows(page) == {n \in DOMAIN page : /\ page[n].kind = "data"
                                    /\ \A k \in OpenAfter(page)[n] : ~Ignorable(page[k].tag)}

Inside(page, name) ==
  {n \in Shows(page) : \E k \in OpenAfter(page)[n] : page[k].tag.name = name}

InMain(page) == {n \in Shows(page) : \E k \in OpenAfter(page)[n] : page[k].tag.main}

\* The parts p file the visible text of the page.
Files(page, p) ==
  LET visible == Shows(page) \ Inside(page, "title")
  IN  p = [title |-> Inside(page, "title"), fallback |-> visible,
           main |-> visible \cap (Inside(page, "main") \cup InMain(page)),
           article |-> visible \cap Inside(page, "article")]

\* Filed so, a page that shows text is not empty.
LEMMA FilesSuffices == Files(tokens, parts) => TextIsVisible
<1> SUFFICES ASSUME Files(tokens, parts) PROVE TextIsVisible
  OBVIOUS
<1> DEFINE visible == Shows(tokens) \ Inside(tokens, "title")
<1>1. parts = [title |-> Inside(tokens, "title"), fallback |-> visible,
               main |-> visible \cap (Inside(tokens, "main") \cup InMain(tokens)),
               article |-> visible \cap Inside(tokens, "article")]
  BY DEF Files
<1>2. parts.fallback = visible
  BY <1>1, Zenon
<1>3. visible # {} => ExtractedText # {}
  BY <1>2 DEF ExtractedText
<1> QED
  BY <1>1, <1>3 DEF TextIsVisible, Shows, Inside, InMain

\* A longer page shows its last token too if that is text nothing open hides,
\* among the text of each part it stands in.
AddsShown(page, token, longer) ==
  LET n == Len(page) + 1
      shown == token.kind = "data" /\ \A k \in OpenNow(page) : ~Ignorable(page[k].tag)
  IN  /\ Shows(longer) = IF shown THEN Shows(page) \cup {n} ELSE Shows(page)
      /\ \A name : Inside(longer, name) =
           IF shown /\ \E k \in OpenNow(page) : page[k].tag.name = name
           THEN Inside(page, name) \cup {n} ELSE Inside(page, name)
      /\ InMain(longer) = IF shown /\ \E k \in OpenNow(page) : page[k].tag.main
                         THEN InMain(page) \cup {n} ELSE InMain(page)
      /\ n \notin Shows(page)

\* A token shows what it stands for, and what was shown before stays.
LEMMA ShowsMore ==
  ASSUME NEW page \in Seq(Tokens), NEW token \in Tokens, NEW longer,
         longer = Append(page, token),
         token.kind = "data" => OpenNow(longer) = OpenNow(page)
  PROVE  AddsShown(page, token, longer)
<1> DEFINE n == Len(page) + 1
           shown == token.kind = "data" /\ \A k \in OpenNow(page) : ~Ignorable(page[k].tag)
<1>1. /\ Len(page) \in Nat /\ DOMAIN page = 1..Len(page) /\ DOMAIN longer = 1..n
      /\ longer[n] = token /\ \A k \in 1..Len(page) : longer[k] = page[k]
  OBVIOUS
<1>2. ASSUME NEW k \in 1..Len(page)
      PROVE  /\ OpenAfter(longer)[k] = OpenAfter(page)[k]
             /\ \A i \in OpenAfter(page)[k] : longer[i] = page[i]
  <2>1. OpenAfter(longer)[k] = OpenAfter(page)[k]
    BY <1>1, OpenOfPrefix
  <2>2. OpenAfter(page)[k] \in SUBSET (1..k)
    BY <1>1, OpenBounds
  <2> QED
    BY <1>1, <2>1, <2>2
<1>3. token.kind = "data" =>
        /\ OpenAfter(longer)[n] = OpenNow(page)
        /\ \A i \in OpenNow(page) : longer[i] = page[i]
  <2>1. OpenNow(page) \in SUBSET (1..Len(page))
    BY <1>1, OpenBounds DEF OpenNow
  <2>2. OpenNow(longer) = OpenAfter(longer)[n]
    BY DEF OpenNow
  <2> QED
    BY <1>1, <2>1, <2>2
<1>4. \A k \in 1..n : k \in 1..Len(page) \/ k = n
  BY <1>1
<1>5. 1..Len(page) \subseteq 1..n /\ n \in 1..n /\ n \notin 1..Len(page)
  BY <1>1
<1> HIDE DEF n
<1>6. /\ \A k \in 1..Len(page) : k \in Shows(longer) <=> k \in Shows(page)
      /\ n \in Shows(longer) <=> shown
      /\ Shows(longer) \subseteq 1..n /\ Shows(page) \subseteq 1..Len(page)
  BY <1>1, <1>2, <1>3, <1>5 DEF Shows
<1>7. n \notin Shows(page)
  BY <1>5, <1>6
<1>8. Shows(longer) = IF shown THEN Shows(page) \cup {n} ELSE Shows(page)
  <2>1. \A k \in Shows(longer) : k \in Shows(page) \/ (k = n /\ shown)
    BY <1>4, <1>6
  <2>2. \A k \in Shows(page) : k \in Shows(longer)
    BY <1>6
  <2> QED
    BY <1>6, <2>1, <2>2, Zenon
<1>9. \A k \in Shows(page) : k \in 1..Len(page) /\ k \in Shows(longer)
  BY <1>6
<1> HIDE DEF shown
<1>10. shown => token.kind = "data"
  BY DEF shown
<1>11. ASSUME NEW name
       PROVE  Inside(longer, name) =
                IF shown /\ \E k \in OpenNow(page) : page[k].tag.name = name
                THEN Inside(page, name) \cup {n} ELSE Inside(page, name)
  <2>1. \A k \in Shows(page) : k \in Inside(longer, name) <=> k \in Inside(page, name)
    BY <1>2, <1>9 DEF Inside
  <2>2. shown => (n \in Inside(longer, name) <=> \E k \in OpenNow(page) : page[k].tag.name = name)
    BY <1>3, <1>6, <1>10 DEF Inside
  <2>3. Inside(longer, name) \subseteq Shows(longer) /\ Inside(page, name) \subseteq Shows(page)
    BY DEF Inside
  <2>4. shown => \A k \in Shows(longer) : k \in Shows(page) \/ k = n
    BY <1>8
  <2>5. ~shown => Shows(longer) = Shows(page)
    BY <1>8
  <2> QED
    <3>1. CASE shown /\ \E k \in OpenNow(page) : page[k].tag.name = name
      BY <1>9, <2>1, <2>2, <2>3, <2>4, <3>1
    <3>2. CASE shown /\ ~(\E k \in OpenNow(page) : page[k].tag.name = name)
      <4>1. n \notin Inside(longer, name)
        BY <2>2, <3>2
      <4>2. \A k \in Inside(longer, name) : k \in Inside(page, name)
        BY <2>1, <2>3, <2>4, <3>2, <4>1
      <4>3. \A k \in Inside(page, name) : k \in Inside(longer, name)
        BY <2>1, <2>3
      <4> QED
        BY <3>2, <4>2, <4>3
    <3>3. CASE ~shown
      BY <2>1, <2>3, <2>5, <3>3
    <3> QED
      BY <3>1, <3>2, <3>3
<1>12. InMain(longer) = IF shown /\ \E k \in OpenNow(page) : page[k].tag.main
                        THEN InMain(page) \cup {n} ELSE InMain(page)
  <2>1. \A k \in Shows(page) : k \in InMain(longer) <=> k \in InMain(page)
    BY <1>2, <1>9 DEF InMain
  <2>2. shown => (n \in InMain(longer) <=> \E k \in OpenNow(page) : page[k].tag.main)
    BY <1>3, <1>6, <1>10 DEF InMain
  <2>3. InMain(longer) \subseteq Shows(longer) /\ InMain(page) \subseteq Shows(page)
    BY DEF InMain
  <2>4. shown => \A k \in Shows(longer) : k \in Shows(page) \/ k = n
    BY <1>8
  <2>5. ~shown => Shows(longer) = Shows(page)
    BY <1>8
  <2> QED
    <3>1. CASE shown /\ \E k \in OpenNow(page) : page[k].tag.main
      BY <1>9, <2>1, <2>2, <2>3, <2>4, <3>1
    <3>2. CASE shown /\ ~(\E k \in OpenNow(page) : page[k].tag.main)
      <4>1. n \notin InMain(longer)
        BY <2>2, <3>2
      <4>2. \A k \in InMain(longer) : k \in InMain(page)
        BY <2>1, <2>3, <2>4, <3>2, <4>1
      <4>3. \A k \in InMain(page) : k \in InMain(longer)
        BY <2>1, <2>3
      <4> QED
        BY <3>2, <4>2, <4>3
    <3>3. CASE ~shown
      BY <2>1, <2>3, <2>5, <3>3
    <3> QED
      BY <3>1, <3>2, <3>3
<1> QED
  BY <1>7, <1>8, <1>11, <1>12 DEF n, shown, AddsShown

-----------------------------------------------------------------------------

\* The stack consists of the open elements, the counters count its entries,
\* and the parts file the visible text.
ExtractionInv ==
  /\ tokens \in Seq(Tokens)
  /\ stack \in Seq(Entries)
  /\ \E at : Stacks(tokens, stack, at)
  /\ Counts(stack, depth)
  /\ Files(tokens, parts)

\* A page without tokens shows nothing.
LEMMA ExtractionStarts == ExtractionInit => ExtractionInv
<1> SUFFICES ASSUME ExtractionInit PROVE ExtractionInv
  OBVIOUS
<1>1. /\ tokens = <<>> /\ stack = <<>> /\ depth = [r \in Roles |-> 0]
      /\ parts = [title |-> {}, fallback |-> {}, main |-> {}, article |-> {}]
  BY DEF ExtractionInit
<1>2. tokens \in Seq(Tokens) /\ stack \in Seq(Entries) /\ Len(tokens) = 0 /\ Len(stack) = 0
  BY <1>1
<1>3. Stacks(tokens, stack, [i \in 1..0 |-> 1])
  BY <1>2, OpenRecurs DEF Stacks
<1>4. Counts(stack, depth)
  BY <1>1, <1>2, FS_EmptySet DEF Counts
<1>5. Shows(tokens) = {}
  BY <1>2 DEF Shows
<1>6. Files(tokens, parts)
  BY <1>1, <1>5 DEF Files, Inside, InMain
<1> QED
  BY <1>2, <1>3, <1>4, <1>6 DEF ExtractionInv

\* A tag adds no text.
LEMMA TagShowsNothing ==
  ASSUME NEW page \in Seq(Tokens), NEW token \in Tokens, token.kind # "data",
         NEW p, Files(page, p)
  PROVE  Files(Append(page, token), p)
<1>1. PICK longer : longer = Append(page, token)
  OBVIOUS
<1>2. /\ Shows(longer) = Shows(page) /\ InMain(longer) = InMain(page)
      /\ \A name : Inside(longer, name) = Inside(page, name)
  <2>1. AddsShown(page, token, longer)
    BY <1>1, ShowsMore
  <2> QED
    BY <2>1 DEF AddsShown
<1> QED
  BY <1>1, <1>2 DEF Files

\* A start tag opens its element unless it is void.
LEMMA StartKeeps ==
  ASSUME ExtractionInv, NEW t \in PageTags, StartTag(t)
  PROVE  ExtractionInv'
<1>1. PICK page \in Seq(Tokens) : page = tokens
  BY DEF ExtractionInv
<1>2. PICK st \in Seq(Entries) : st = stack
  BY DEF ExtractionInv
<1>3. PICK d : d = depth
  OBVIOUS
<1>4. PICK at : Stacks(page, st, at)
  BY <1>1, <1>2 DEF ExtractionInv
<1>5. Counts(st, d) /\ Files(page, parts)
  BY <1>1, <1>2, <1>3 DEF ExtractionInv
<1> DEFINE token == [kind |-> "start", tag |-> t]
<1>6. /\ token \in Tokens /\ token.kind # "data" /\ token.kind = "start" /\ token.tag = t
      /\ tokens' = Append(page, token) /\ parts' = parts
  BY <1>1 DEF Tokens, StartTag, Reads
<1> HIDE DEF token
<1>7. tokens' \in Seq(Tokens)
  BY <1>6
<1>8. Files(tokens', parts')
  BY <1>5, <1>6, TagShowsNothing
<1>9. CASE ~Opens(t)
  <2>1. stack' = st /\ depth' = d
    BY <1>2, <1>3, <1>9 DEF StartTag
  <2>2. OpenNow(tokens') = OpenNow(page)
    <3>1. /\ tokens'[Len(page) + 1] = token
          /\ OpenNow(tokens') = OpenStep(tokens', OpenNow(page), Len(page) + 1)
      BY <1>6, OpenOfLonger
    <3>3. token.tag.name \in VoidTags
      BY <1>6, <1>9 DEF Opens
    <3>4. tokens'[Len(page) + 1].kind = "start" /\ tokens'[Len(page) + 1].tag.name \in VoidTags
      BY <1>6, <3>1, <3>3
    <3> QED
      BY <3>1, <3>4 DEF OpenStep
  <2>3. Stacks(tokens', st, at)
    BY <1>4, <1>6, <2>2, StacksKept
  <2> QED
    BY <1>2, <1>5, <1>7, <1>8, <2>1, <2>3 DEF ExtractionInv
<1>10. CASE Opens(t)
  <2> DEFINE e == [name |-> t.name, roles |-> RolesOf(t)]
             outer == {page[k].tag : k \in OpenNow(page)}
  <2>1. stack' = Append(st, e) /\ t.name \notin VoidTags
    BY <1>2, <1>10 DEF StartTag, Opens
  <2>2. RolesOf(t) = RolesIn(t, outer \cup {t})
    <3>1. d["ignored"] > 0 <=> \E o \in outer : Ignorable(o)
      BY <1>4, <1>5, CountersTell
    <3> HIDE DEF outer
    <3> QED
      BY <1>3, <3>1 DEF RolesOf, RolesIn
  <2>3. e \in Entries /\ e.name = t.name /\ e.roles = RolesOf(t)
    <3>1. RolesOf(t) \in SUBSET Roles
      BY DEF RolesOf, Roles
    <3> QED
      BY <3>1 DEF Entries
  <2> HIDE DEF e, outer
  <2>4. stack' \in Seq(Entries)
    BY <2>1, <2>3
  <2>5. \E later : Stacks(tokens', stack', later)
    BY <1>4, <1>6, <2>1, <2>2, <2>3, StartStacks DEF outer, token
  <2>6. depth' = [r \in Roles |-> d[r] + (IF r \in e.roles THEN 1 ELSE 0)]
    BY <1>3, <1>10, <2>3 DEF StartTag
  <2>7. Counts(stack', depth')
    BY <1>5, <2>1, <2>3, <2>6, StartCounts
  <2> QED
    BY <1>7, <1>8, <2>4, <2>5, <2>7 DEF ExtractionInv
<1> QED
  BY <1>9, <1>10

\* An end tag closes the innermost element of its name and all inside it.
LEMMA EndKeeps ==
  ASSUME ExtractionInv, NEW name \in {t.name : t \in PageTags}, EndTag(name)
  PROVE  ExtractionInv'
<1>1. PICK page \in Seq(Tokens) : page = tokens
  BY DEF ExtractionInv
<1>2. PICK st \in Seq(Entries) : st = stack
  BY DEF ExtractionInv
<1>3. PICK d : d = depth
  OBVIOUS
<1>4. PICK at : Stacks(page, st, at)
  BY <1>1, <1>2 DEF ExtractionInv
<1>5. Counts(st, d) /\ Files(page, parts)
  BY <1>1, <1>2, <1>3 DEF ExtractionInv
<1> DEFINE token == [kind |-> "end", tag |-> [name |-> name]]
<1>6. /\ token \in Tokens /\ token.kind # "data"
      /\ tokens' = Append(page, token) /\ parts' = parts
  BY <1>1 DEF Tokens, EndTag, Reads
<1> HIDE DEF token
<1>7. tokens' \in Seq(Tokens)
  BY <1>6
<1>8. Files(tokens', parts')
  BY <1>5, <1>6, TagShowsNothing
<1>9. PICK matching : matching = {i \in 1..Len(st) : st[i].name = name}
  OBVIOUS
<1>10. IF matching = {} THEN OpenNow(tokens') = OpenNow(page)
       ELSE /\ Max(matching) \in 1..Len(st)
            /\ \E later : Stacks(tokens', SubSeq(st, 1, Max(matching) - 1), later)
  BY <1>4, <1>6, <1>9, EndStacks DEF token
<1>11. CASE matching = {}
  <2>1. stack' = st /\ depth' = d
    BY <1>2, <1>3, <1>9, <1>11 DEF EndTag
  <2>2. OpenNow(tokens') = OpenNow(page)
    BY <1>10, <1>11
  <2>3. Stacks(tokens', st, at)
    BY <1>4, <1>6, <2>2, StacksKept
  <2> QED
    BY <1>2, <1>5, <1>7, <1>8, <2>1, <2>3 DEF ExtractionInv
<1>12. CASE matching # {}
  <2>1. PICK last \in 1..Len(st) : last = Max(matching)
    BY <1>10, <1>12
  <2>2. /\ stack' = SubSeq(st, 1, last - 1)
        /\ depth' = [r \in Roles |-> Max({0, d[r] - Cardinality({i \in last..Len(st) :
                                                               r \in st[i].roles})})]
    <3>1. {i \in DOMAIN stack : stack[i].name = name} = matching
      BY <1>2, <1>9
    <3> QED
      BY <1>2, <1>3, <1>12, <2>1, <3>1 DEF EndTag, ClosedFrom
  <2>3. stack' \in Seq(Entries)
    BY <2>2
  <2>4. \E later : Stacks(tokens', stack', later)
    BY <1>10, <1>12, <2>1, <2>2
  <2>5. Counts(stack', depth')
    BY <1>5, <2>2, EndCounts
  <2> QED
    BY <1>7, <1>8, <2>3, <2>4, <2>5 DEF ExtractionInv
<1> QED
  BY <1>11, <1>12

\* Text is filed where the counters say it stands, and they tell the truth.
LEMMA DataKeeps ==
  ASSUME ExtractionInv, Data
  PROVE  ExtractionInv'
<1>1. PICK page \in Seq(Tokens) : page = tokens
  BY DEF ExtractionInv
<1>2. PICK st \in Seq(Entries) : st = stack
  BY DEF ExtractionInv
<1>3. PICK d : d = depth
  OBVIOUS
<1>4. PICK at : Stacks(page, st, at)
  BY <1>1, <1>2 DEF ExtractionInv
<1>5. PICK p : p = parts
  OBVIOUS
<1>6. Counts(st, d) /\ Files(page, p)
  BY <1>1, <1>2, <1>3, <1>5 DEF ExtractionInv
<1> DEFINE token == [kind |-> "data"]
           n == Len(page) + 1
<1>7. /\ token \in Tokens /\ token.kind = "data" /\ tokens' = Append(page, token)
      /\ stack' = st /\ depth' = d
  BY <1>1, <1>2, <1>3 DEF Tokens, Data, Reads
<1> HIDE DEF token
<1>8. tokens' \in Seq(Tokens)
  BY <1>7
<1>9. OpenNow(tokens') = OpenNow(page)
  <2>1. /\ tokens'[Len(page) + 1] = token
        /\ OpenNow(tokens') = OpenStep(tokens', OpenNow(page), Len(page) + 1)
    BY <1>7, OpenOfLonger
  <2>2. tokens'[Len(page) + 1].kind = "data"
    BY <1>7, <2>1
  <2> QED
    BY <2>1, <2>2 DEF OpenStep
<1>10. Stacks(tokens', st, at)
  BY <1>4, <1>7, <1>9, StacksKept
<1>11. Files(tokens', parts')
  <2> DEFINE longer == tokens'
             shown == \A k \in OpenNow(page) : ~Ignorable(page[k].tag)
             Holds(name) == \E k \in OpenNow(page) : page[k].tag.name = name
             main == \E k \in OpenNow(page) : page[k].tag.main
             visible == Shows(page) \ Inside(page, "title")
             Into(r, S) == IF d[r] > 0 THEN S \cup {n} ELSE S
  <2>1. /\ Shows(longer) = IF shown THEN Shows(page) \cup {n} ELSE Shows(page)
        /\ \A name : Inside(longer, name) =
             IF shown /\ Holds(name) THEN Inside(page, name) \cup {n} ELSE Inside(page, name)
        /\ InMain(longer) = IF shown /\ main THEN InMain(page) \cup {n} ELSE InMain(page)
        /\ n \notin Shows(page)
    <3>1. PICK more : more = tokens'
      OBVIOUS
    <3>2. /\ Shows(more) = IF shown THEN Shows(page) \cup {n} ELSE Shows(page)
          /\ \A name : Inside(more, name) =
               IF shown /\ Holds(name) THEN Inside(page, name) \cup {n} ELSE Inside(page, name)
          /\ InMain(more) = IF shown /\ main THEN InMain(page) \cup {n} ELSE InMain(page)
          /\ n \notin Shows(page)
      <4>1. AddsShown(page, token, more)
        BY <1>7, <1>9, <3>1, ShowsMore
      <4> QED
        BY <1>7, <4>1 DEF AddsShown
    <3> QED
      BY <3>1, <3>2
  <2>2. /\ d["ignored"] \in Nat /\ (d["ignored"] = 0 <=> shown)
        /\ shown => /\ d["title"] > 0 <=> Holds("title")
                    /\ d["article"] > 0 <=> Holds("article")
                    /\ d["main"] > 0 <=> Holds("main") \/ main
    <3>1. d \in [Roles -> Nat]
      BY <1>4, <1>6, CountersTell
    <3>2. d["ignored"] > 0 <=> ~shown
      BY <1>4, <1>6, CountersTell
    <3>3. d["ignored"] = 0 => /\ d["title"] > 0 <=> Holds("title")
                              /\ d["article"] > 0 <=> Holds("article")
                              /\ d["main"] > 0 <=> Holds("main") \/ main
      BY <1>4, <1>6, CountersTell
    <3>4. d["ignored"] \in Nat
      BY <3>1 DEF Roles
    <3> QED
      BY <3>2, <3>3, <3>4
  <2>3. p = [title |-> Inside(page, "title"), fallback |-> visible,
             main |-> visible \cap (Inside(page, "main") \cup InMain(page)),
             article |-> visible \cap Inside(page, "article")]
    BY <1>6 DEF Files
  <2>4. /\ Inside(page, "title") \subseteq Shows(page) /\ Inside(page, "main") \subseteq Shows(page)
        /\ Inside(page, "article") \subseteq Shows(page) /\ InMain(page) \subseteq Shows(page)
    BY DEF Inside, InMain
  <2> HIDE DEF longer, shown, Holds, main
  <2>5. CASE ~shown
    <3>1. parts' = p
      BY <1>1, <1>3, <1>5, <2>2, <2>5 DEF Data
    <3> QED
      BY <2>1, <2>3, <2>5, <3>1 DEF Files, longer
  <2>6. CASE shown /\ Holds("title")
    <3>1. parts' = [p EXCEPT !.title = @ \cup {n}]
      BY <1>1, <1>3, <1>5, <2>2, <2>6 DEF Data
    <3>2. parts' = [title |-> Inside(page, "title") \cup {n}, fallback |-> visible,
                    main |-> visible \cap (Inside(page, "main") \cup InMain(page)),
                    article |-> visible \cap Inside(page, "article")]
      BY <2>3, <3>1
    <3>3. Inside(longer, "title") = Inside(page, "title") \cup {n}
      BY <2>1, <2>6
    <3>4. Shows(longer) \ Inside(longer, "title") = visible
      BY <2>1, <2>6, <3>3
    <3>5. n \notin visible
      BY <2>1
    <3>6. /\ visible \cap (Inside(longer, "main") \cup InMain(longer))
               = visible \cap (Inside(page, "main") \cup InMain(page))
          /\ visible \cap Inside(longer, "article") = visible \cap Inside(page, "article")
      BY <2>1, <3>5
    <3> HIDE DEF visible
    <3> QED
      BY <3>2, <3>3, <3>4, <3>6 DEF Files, longer
  <2>7. CASE shown /\ ~Holds("title")
    <3>1. /\ d["ignored"] = 0 /\ ~ (d["title"] > 0)
          /\ d["article"] > 0 <=> Holds("article")
          /\ d["main"] > 0 <=> Holds("main") \/ main
      BY <2>2, <2>7
    <3>2. parts' = [p EXCEPT !.fallback = @ \cup {n},
                             !.main = @ \cup (IF d["main"] > 0 THEN {n} ELSE {}),
                             !.article = @ \cup (IF d["article"] > 0 THEN {n} ELSE {})]
      BY <1>1, <1>3, <1>5, <3>1 DEF Data
    <3> DEFINE M == visible \cap (Inside(page, "main") \cup InMain(page))
               A == visible \cap Inside(page, "article")
               m == IF d["main"] > 0 THEN {n} ELSE {}
               a == IF d["article"] > 0 THEN {n} ELSE {}
    <3> HIDE DEF m, a
    <3>3. parts' = [title |-> Inside(page, "title"), fallback |-> visible \cup {n},
                    main |-> M \cup m, article |-> A \cup a]
      <4> HIDE DEF visible, M, A
      <4> QED
        BY <2>3, <3>2 DEF m, a, M, A
    <3>4. Inside(longer, "title") = Inside(page, "title")
      BY <2>1, <2>7
    <3>5. Shows(longer) \ Inside(longer, "title") = visible \cup {n}
      BY <2>1, <2>4, <2>7, <3>4
    <3>6. (visible \cup {n}) \cap (Inside(longer, "main") \cup InMain(longer)) = M \cup m
      BY <2>1, <2>4, <2>7, <3>1 DEF m
    <3>7. (visible \cup {n}) \cap Inside(longer, "article") = A \cup a
      BY <2>1, <2>4, <2>7, <3>1 DEF a
    <3> HIDE DEF visible, M, A
    <3> QED
      BY <3>3, <3>4, <3>5, <3>6, <3>7 DEF Files, longer
  <2> QED
    BY <2>5, <2>6, <2>7
<1> QED
  BY <1>2, <1>6, <1>7, <1>8, <1>10, <1>11 DEF ExtractionInv

\* Whatever a page nests, crosses or forgets to close, and however long it is,
\* the text kept of it is the text outside ignored elements, filed where it stands.
THEOREM TextIsKept == ExtractionSpec => []TextIsVisible
<1>1. ExtractionInv /\ [ExtractionNext]_extractionVars => ExtractionInv'
  <2> SUFFICES ASSUME ExtractionInv, [ExtractionNext]_extractionVars PROVE ExtractionInv'
    OBVIOUS
  <2>1. CASE UNCHANGED extractionVars
    BY <2>1 DEF extractionVars, ExtractionInv
  <2> QED
    BY <2>1, StartKeeps, EndKeeps, DataKeeps DEF ExtractionNext
<1>2. ExtractionInv => TextIsVisible
  BY FilesSuffices DEF ExtractionInv
<1> QED
  BY <1>1, <1>2, ExtractionStarts, PTL DEF ExtractionSpec

-----------------------------------------------------------------------------
(* The ranking of documents: _rank_documents *)

\* No two documents of a sequence have the same content.
DistinctContents(s) == \A i, k \in DOMAIN s : s[i].content = s[k].content => i = k

\* What is kept of a sequence is a prefix of it.
LEMMA PrefixElements ==
  ASSUME NEW S, NEW s \in Seq(S), NEW n \in Nat
  PROVE  /\ AtMost(s, n) \in Seq(S)
         /\ Len(AtMost(s, n)) = Least(n, Len(s)) /\ Len(AtMost(s, n)) <= Len(s)
         /\ Len(AtMost(s, n)) <= n
         /\ \A k \in 1..Len(AtMost(s, n)) : AtMost(s, n)[k] = s[k] /\ k \in 1..Len(s)
<1>1. Least(n, Len(s)) \in 0..Len(s) /\ Least(n, Len(s)) <= n
  BY DEF Least
<1> DEFINE m == Least(n, Len(s))
<1> HIDE DEF m
<1>2. /\ SubSeq(s, 1, m) \in Seq(S) /\ Len(SubSeq(s, 1, m)) = m
      /\ \A k \in 1..m : SubSeq(s, 1, m)[k] = s[k] /\ k \in 1..Len(s)
  BY <1>1 DEF m
<1> QED
  BY <1>1, <1>2 DEF AtMost, m

\* A document scores a number of points, whatever its priority.
LEMMA RelevanceType ==
  ASSUME NEW d \in Documents
  PROVE  Relevance(d) \in Nat
<1>1. Max({d.priority, 0}) \in Nat
  BY DEF Max, Documents
<1>2. Least(Max({d.priority, 0}), 1000) \in Nat
  BY <1>1 DEF Least
<1>3. Least(Max({d.priority, 0}), 1000) \div 40 \in Nat
  BY <1>2
<1>4. d.text \div 1500 \in Nat
  BY DEF Documents
<1>5. Least(d.text \div 1500, 12) \in Nat
  BY <1>4 DEF Least
<1>6. {d.title, d.url, d.body} \subseteq Nat
  BY DEF Documents
<1> QED
  BY <1>3, <1>5, <1>6 DEF Relevance

\* Documents of different ids.
DistinctIds(D) == \A d, e \in D : d.id = e.id => d = e

\* Among documents of different ids, ranking is a strict total order.
LEMMA RankingIsAnOrder ==
  ASSUME NEW D \in SUBSET Documents, DistinctIds(D)
  PROVE  /\ \A d \in D : ~Outranks(d, d)
         /\ \A d, e \in D : d # e => Outranks(d, e) \/ Outranks(e, d)
         /\ \A d, e \in D : Outranks(d, e) => ~Outranks(e, d)
         /\ \A d, e, g \in D : Outranks(d, e) /\ Outranks(e, g) => Outranks(d, g)
<1>1. \A d \in D : Relevance(d) \in Nat /\ d.id \in Nat
  BY RelevanceType DEF Documents
<1> QED
  BY <1>1 DEF Outranks, DistinctIds

\* The documents of a set in order: each once, and each before those it outranks.
LEMMA InOrderIs ==
  ASSUME NEW D \in SUBSET Documents, DistinctIds(D), IsFiniteSet(D)
  PROVE  /\ InOrder(D) \in Seq(D) /\ Len(InOrder(D)) = Cardinality(D)
         /\ \A i, k \in DOMAIN InOrder(D) : i < k => Outranks(InOrder(D)[i], InOrder(D)[k])
         /\ \A d \in D : \E k \in DOMAIN InOrder(D) : InOrder(D)[k] = d
<1> DEFINE n == Cardinality(D)
           ahead(d) == {e \in D : Outranks(e, d)}
           place == [d \in D |-> Cardinality(ahead(d)) + 1]
           places == {<<Cardinality({e \in D : Outranks(e, d)}) + 1, d>> : d \in D}
           order == [k \in 1..n |-> (CHOOSE p \in places : p[1] = k)[2]]
<1>1. n \in Nat
  BY FS_CardinalityType
<1>2. ASSUME NEW d \in D
      PROVE  /\ IsFiniteSet(ahead(d)) /\ Cardinality(ahead(d)) \in 0..(n - 1)
  <2>1. IsFiniteSet(D \ {d}) /\ Cardinality(D \ {d}) = n - 1
    BY FS_RemoveElement
  <2>2. ahead(d) \in SUBSET (D \ {d})
    BY RankingIsAnOrder
  <2> HIDE DEF ahead
  <2>3. IsFiniteSet(ahead(d)) /\ Cardinality(ahead(d)) <= n - 1
    BY <2>1, <2>2, FS_Subset
  <2>4. Cardinality(ahead(d)) \in Nat
    BY <2>3, FS_CardinalityType
  <2> QED
    BY <1>1, <2>3, <2>4
<1>3. ASSUME NEW d \in D, NEW e \in D, Outranks(e, d)
      PROVE  Cardinality(ahead(e)) < Cardinality(ahead(d))
  <2>1. ahead(e) \in SUBSET ahead(d)
    BY <1>3, RankingIsAnOrder
  <2>2. e \in ahead(d) /\ e \notin ahead(e)
    BY <1>3, RankingIsAnOrder
  <2>3. /\ IsFiniteSet(ahead(d)) /\ Cardinality(ahead(d)) \in 0..(n - 1)
        /\ Cardinality(ahead(e)) \in 0..(n - 1)
    BY <1>2
  <2> HIDE DEF ahead
  <2>4. /\ Cardinality(ahead(e)) <= Cardinality(ahead(d))
        /\ Cardinality(ahead(d)) = Cardinality(ahead(e)) => ahead(d) = ahead(e)
    BY <2>1, <2>3, FS_Subset
  <2> QED
    BY <1>1, <2>2, <2>3, <2>4
<1>p. \A d \in D : place[d] = Cardinality(ahead(d)) + 1
  OBVIOUS
<1>4. \A d \in D : place[d] \in 1..n
  <2> HIDE DEF ahead, place
  <2> QED
    BY <1>1, <1>2, <1>p
<1>5. \A d, e \in D : Outranks(e, d) => place[e] < place[d]
  <2> HIDE DEF ahead, place, n
  <2> QED
    BY <1>1, <1>2, <1>3, <1>p
<1>6. places = {<<place[d], d>> : d \in D}
  OBVIOUS
<1>7. InOrder(D) = order
  BY DEF InOrder
<1> HIDE DEF place, places
<1>8. place \in Injection(D, 1..n)
  <2>1. place \in [D -> 1..n]
    BY <1>4 DEF place
  <2>2. ASSUME NEW d \in D, NEW e \in D, place[d] = place[e] PROVE d = e
    <3>1. ~Outranks(d, e) /\ ~Outranks(e, d)
      BY <1>1, <1>4, <1>5, <2>2
    <3> QED
      BY <3>1, RankingIsAnOrder
  <2>3. IsInjective(place)
    BY <2>1, <2>2 DEF IsInjective
  <2> QED
    BY <2>1, <2>3 DEF Injection
<1>9. \A k \in 1..n : \E d \in D : place[d] = k
  <2>1. IsFiniteSet(1..n) /\ Cardinality(1..n) = n
    BY <1>1, FS_Interval
  <2>2. place \in Surjection(D, 1..n)
    BY <1>8, <2>1, FS_Injection
  <2> QED
    BY <2>2 DEF Surjection
<1>10. ASSUME NEW k \in 1..n PROVE order[k] \in D /\ place[order[k]] = k
  <2>1. PICK d \in D : place[d] = k
    BY <1>9
  <2>2. <<place[d], d>> \in places /\ <<place[d], d>>[1] = k
    BY <1>6, <2>1
  <2>3. PICK p : p = CHOOSE q \in places : q[1] = k
    OBVIOUS
  <2>4. p \in places /\ p[1] = k
    BY <2>2, <2>3
  <2>5. PICK e \in D : p = <<place[e], e>>
    BY <1>6, <2>4
  <2>6. order[k] = p[2]
    BY <2>3
  <2>7. p[2] = e /\ place[e] = k
    BY <2>4, <2>5
  <2> QED
    BY <2>6, <2>7
<1>11. order \in [1..n -> D]
  BY <1>10
<1> HIDE DEF order
<1>12. order \in Seq(D) /\ Len(order) = n /\ DOMAIN order = 1..n
  BY <1>1, <1>11
<1>13. ASSUME NEW i \in 1..n, NEW k \in 1..n, i < k PROVE Outranks(order[i], order[k])
  <2>1. order[i] # order[k] /\ ~Outranks(order[k], order[i])
    BY <1>1, <1>5, <1>10, <1>13
  <2> QED
    BY <1>10, <2>1, RankingIsAnOrder
<1>14. ASSUME NEW d \in D PROVE \E k \in 1..n : order[k] = d
  <2>1. place[d] \in 1..n /\ place[order[place[d]]] = place[d] /\ order[place[d]] \in D
    BY <1>4, <1>10
  <2>2. order[place[d]] = d
    BY <1>8, <2>1 DEF Injection, IsInjective
  <2> QED
    BY <2>1, <2>2
<1> QED
  BY <1>7, <1>12, <1>13, <1>14

BestFirst(s) == \A i, k \in DOMAIN s : i < k => Outranks(s[i], s[k])

\* The ranking takes documents of a sequence that have text, best first and one
\* per content.
LEMMA RankingIs ==
  ASSUME NEW ds \in Seq(Documents), DistinctIds(ToSet(ds))
  PROVE  LET ranked == RankDocuments(ds)
         IN  /\ ranked \in Seq(Documents)
             /\ \A k \in DOMAIN ranked : ranked[k] \in ToSet(ds)
             /\ DistinctContents(ranked) /\ BestFirst(ranked)
             /\ \A k \in DOMAIN ranked : HasText(ranked[k])
             /\ Len(ranked) <= MaxDocuments
<1> DEFINE D == Distinct({d \in ToSet(ds) : HasText(d)})
           order == InOrder(D)
<1> USE PackingAssumption
<1>1. ToSet(ds) \in SUBSET Documents /\ IsFiniteSet(ToSet(ds))
  <2>1. DOMAIN ds = 1..Len(ds) /\ Len(ds) \in Nat
    OBVIOUS
  <2>2. IsFiniteSet(DOMAIN ds)
    BY <2>1, FS_Interval
  <2>3. [i \in DOMAIN ds |-> ds[i]] \in Surjection(DOMAIN ds, ToSet(ds))
    BY DEF Surjection, ToSet
  <2> QED
    BY <2>1, <2>2, <2>3, FS_Surjection DEF ToSet
<1>2. D \subseteq ToSet(ds)
  BY DEF Distinct
<1>3. IsFiniteSet(D) /\ DistinctIds(D) /\ D \in SUBSET Documents
  BY <1>1, <1>2, FS_Subset DEF DistinctIds
<1>4. \A d, e \in D : d.content = e.content => d = e
  <2>1. \A d, e \in D : d.content = e.content => ~Outranks(e, d)
    BY DEF Distinct
  <2> HIDE DEF D
  <2> QED
    BY <1>3, <2>1, RankingIsAnOrder
<1>t. \A d \in D : HasText(d)
  BY DEF Distinct
<1> HIDE DEF D
<1>5. /\ order \in Seq(D)
      /\ \A i, k \in DOMAIN order : i < k => Outranks(order[i], order[k])
  BY <1>3, InOrderIs
<1> HIDE DEF order
<1>6. order \in Seq(Documents) /\ DOMAIN order = 1..Len(order) /\ Len(order) \in Nat
  BY <1>3, <1>5
<1>7. \A i, k \in 1..Len(order) : order[i] = order[k] => i = k
  <2> SUFFICES ASSUME NEW i \in 1..Len(order), NEW k \in 1..Len(order), order[i] = order[k],
                      i < k
               PROVE  FALSE
    BY <1>6
  <2>0. order \in Seq(D)
    BY <1>5
  <2>1. PICK d \in D : d = order[i] /\ d = order[k]
    BY <2>0
  <2>2. Outranks(d, d)
    BY <1>5, <1>6, <2>1
  <2> QED
    BY <1>3, <2>2, RankingIsAnOrder
<1>8. RankDocuments(ds) = AtMost(order, MaxDocuments)
  BY DEF RankDocuments, D, order
<1>9. PICK ranked : ranked = RankDocuments(ds)
  OBVIOUS
<1>10. /\ ranked \in Seq(D) /\ ranked \in Seq(Documents) /\ Len(ranked) <= MaxDocuments
       /\ \A k \in 1..Len(ranked) : ranked[k] = order[k] /\ k \in 1..Len(order)
  BY <1>5, <1>6, <1>8, <1>9, PrefixElements
<1>11. DistinctContents(ranked)
  <2>1. \A k \in 1..Len(ranked) : ranked[k] \in D
    BY <1>10
  <2>2. DOMAIN ranked = 1..Len(ranked)
    BY <1>10
  <2>3. ASSUME NEW i \in 1..Len(ranked), NEW k \in 1..Len(ranked),
               ranked[i].content = ranked[k].content
        PROVE  i = k
    <3>1. ranked[i] = ranked[k]
      BY <1>4, <2>1, <2>3
    <3> QED
      BY <1>7, <1>10, <3>1
  <2> QED
    BY <2>2, <2>3 DEF DistinctContents
<1>12. DOMAIN ranked = 1..Len(ranked) /\ DOMAIN order = 1..Len(order)
  BY <1>6, <1>10
<1>13. BestFirst(ranked)
  BY <1>5, <1>10, <1>12 DEF BestFirst
<1>14. \A k \in DOMAIN ranked : ranked[k] \in D
  BY <1>10, <1>12
<1> QED
  BY <1>2, <1>t, <1>9, <1>10, <1>11, <1>13, <1>14

-----------------------------------------------------------------------------
(* One bundle of cards: build_evidence_bundle *)

\* The subtotals of a sequence.
SumsTo(total, s) ==
  /\ total \in [0..Len(s) -> Int] /\ total[0] = 0
  /\ \A n \in 1..Len(s) : total[n] = total[n - 1] + s[n]

\* The sum of a sequence is the last of its subtotals.
LEMMA SumIs ==
  ASSUME NEW s \in Seq(Int)
  PROVE  \E total : SumsTo(total, s) /\ Sum(s) = total[Len(s)]
<1> DEFINE m == Len(s)
           G == [n \in 1..m |-> [x \in Int |-> x + s[n]]]
           Eqn(g) == g = [n \in 0..m |-> IF n = 0 THEN 0 ELSE g[n - 1] + s[n]]
<1>1. m \in Nat /\ \A n \in 1..m : s[n] \in Int
  OBVIOUS
<1> HIDE DEF m
<1>2. G \in [1..m -> [Int -> Int]]
  BY <1>1
<1>3. \E f : Recurses(f, m, Int, 0, G)
  <2> HIDE DEF G
  <2>1. 0 \in Int
    OBVIOUS
  <2> QED
    BY <1>1, <1>2, <2>1, Recursion
<1>4. PICK f : Recurses(f, m, Int, 0, G)
  BY <1>3
<1>5. f \in [0..m -> Int] /\ f = [n \in 0..m |-> IF n = 0 THEN 0 ELSE G[n][f[n - 1]]]
  BY <1>4 DEF Recurses
<1>6. ASSUME NEW n \in 0..m, n # 0 PROVE G[n][f[n - 1]] = f[n - 1] + s[n]
  <2>1. n \in 1..m /\ n - 1 \in 0..m
    BY <1>1, <1>6
  <2>2. f[n - 1] \in Int
    BY <1>5, <2>1
  <2> QED
    BY <2>1, <2>2
<1> HIDE DEF G
<1>7. Eqn(f)
  BY <1>5, <1>6
<1>8. Sum(s) = (CHOOSE g : Eqn(g))[m]
  BY DEF Sum, m
<1>9. PICK g : g = CHOOSE h : Eqn(h)
  OBVIOUS
<1> HIDE DEF Eqn
<1>10. Eqn(g)
  BY <1>7, <1>9
<1>11. g = [n \in 0..m |-> IF n = 0 THEN 0 ELSE g[n - 1] + s[n]]
  BY <1>10 DEF Eqn
<1>12. /\ g[0] = 0 /\ \A n \in 1..m : g[n] = g[n - 1] + s[n]
       /\ DOMAIN g = 0..m
  <2>1. 0 \in 0..m /\ \A n \in 1..m : n \in 0..m /\ n # 0
    BY <1>1
  <2> QED
    BY <1>11, <2>1
<1>13. 0..m \subseteq {n \in 0..m : g[n] \in Int}
  <2>1. ASSUME NEW n \in 0..m, g[n] \in Int, n < m PROVE g[n + 1] \in Int
    <3>1. n + 1 \in 1..m /\ (n + 1) - 1 = n
      BY <1>1, <2>1
    <3>2. g[n + 1] = g[(n + 1) - 1] + s[n + 1]
      BY <1>12, <3>1
    <3> QED
      BY <1>1, <2>1, <3>1, <3>2
  <2>2. 0 \in {n \in 0..m : g[n] \in Int}
    BY <1>1, <1>12
  <2>3. \A n \in 0..m : n \in {k \in 0..m : g[k] \in Int} /\ n < m =>
          n + 1 \in {k \in 0..m : g[k] \in Int}
    BY <1>1, <2>1
  <2> QED
    BY <1>1, <2>2, <2>3, IntervalInduction
<1>14. g \in [0..m -> Int]
  BY <1>11, <1>13
<1>15. SumsTo(g, s)
  BY <1>12, <1>14 DEF SumsTo, m
<1> QED
  BY <1>8, <1>9, <1>15 DEF m

\* Numbers that are not negative sum to such a number, no smaller than any of them.
LEMMA SumOfNats ==
  ASSUME NEW s \in Seq(Nat)
  PROVE  Sum(s) \in Nat /\ \A n \in 1..Len(s) : s[n] <= Sum(s)
<1>1. s \in Seq(Int) /\ Len(s) \in Nat /\ \A n \in 1..Len(s) : s[n] \in Nat
  OBVIOUS
<1>2. PICK total : SumsTo(total, s) /\ Sum(s) = total[Len(s)]
  BY <1>1, SumIs
<1> DEFINE m == Len(s)
           P == {n \in 0..m : total[n] \in Nat /\ \A k \in 1..n : s[k] <= total[n]}
<1>3. 0 \in P
  BY <1>1, <1>2 DEF SumsTo
<1>4. ASSUME NEW n \in P, n < m PROVE n + 1 \in P
  <2>1. n + 1 \in 1..m /\ (n + 1) - 1 = n /\ n \in 0..m
    BY <1>1, <1>4
  <2>2. total[n + 1] = total[n] + s[n + 1] /\ s[n + 1] \in Nat
    BY <1>1, <1>2, <2>1 DEF SumsTo
  <2>3. \A k \in 1..(n + 1) : k \in 1..n \/ k = n + 1
    BY <2>1
  <2>4. \A k \in 1..n : s[k] \in Nat /\ s[k] <= total[n]
    BY <1>1, <1>4, <2>1
  <2>5. total[n] \in Nat
    OBVIOUS
  <2> HIDE DEF P
  <2>6. \A k \in 1..(n + 1) : s[k] <= total[n + 1]
    BY <2>2, <2>3, <2>4, <2>5
  <2> QED
    BY <2>1, <2>2, <2>5, <2>6 DEF P
<1>5. 0..m \subseteq P
  <2> HIDE DEF P, m
  <2>1. \A n \in 0..m : n \in P /\ n < m => n + 1 \in P
    BY <1>4
  <2> QED
    BY <1>1, <1>3, <2>1, IntervalInduction DEF m
<1>6. m \in 0..m
  BY <1>1
<1> QED
  BY <1>2, <1>5, <1>6

\* The greater of two numbers.
LEMMA MaxOfTwo ==
  ASSUME NEW a \in Int, NEW b \in Int
  PROVE  Max({a, b}) \in {a, b} /\ Max({a, b}) >= a /\ Max({a, b}) >= b
<1>1. \E x \in {a, b} : \A y \in {a, b} : x >= y
  OBVIOUS
<1>2. PICK x : x = Max({a, b})
  OBVIOUS
<1>3. x \in {a, b} /\ \A y \in {a, b} : x >= y
  BY <1>1, <1>2 DEF Max
<1> QED
  BY <1>2, <1>3

\* What the packing looks at are numbers.
LEMMA DocumentFields ==
  ASSUME NEW d \in Documents
  PROVE  d.heading \in Nat /\ d.text \in Nat /\ d.relevant \in Nat
BY DEF Documents

\* A share of a number is a number.
LEMMA QuotientIsNatural ==
  ASSUME NEW a \in Nat, NEW b \in Nat \ {0}
  PROVE  a \div b \in Nat
OBVIOUS

\* The lesser of two numbers is one of them.
LEMMA LeastIs ==
  ASSUME NEW a \in Nat, NEW b \in Nat
  PROVE  Least(a, b) \in Nat /\ Least(a, b) <= a /\ Least(a, b) <= b /\ Least(a, b) \in {a, b}
BY DEF Least

\* The greater of a number and zero.
LEMMA NotNegative ==
  ASSUME NEW x \in Int
  PROVE  Max({0, x}) \in Nat /\ Max({0, x}) >= x /\ (x >= 0 => Max({0, x}) = x)
<1>1. Max({0, x}) \in {0, x} /\ Max({0, x}) >= 0 /\ Max({0, x}) >= x
  BY MaxOfTwo, 0 \in Int, Zenon
<1> QED
  BY <1>1

\* How the limits of n cards come about.
Shares(limits, n, limit, budget, baseline, shared, weights, total) ==
  /\ n \in Nat \ {0} /\ {budget, baseline, shared} \subseteq Nat /\ total \in Nat \ {0}
  /\ budget = Max({0, limit - (HeaderEstimate + n * HeadingEstimate)})
  /\ baseline = Least(MinPerDocument, budget \div n)
  /\ shared = Max({0, budget - baseline * n})
  /\ weights \in [1..n -> Nat] /\ weights \in Seq(Nat) /\ Len(weights) = n
  /\ total = Sum(weights)
  /\ limits = [k \in 1..n |->
                 Least(MaxPerDocument, baseline + (shared * weights[k]) \div total)]

\* They come about that way.
LEMMA LimitsAre ==
  ASSUME NEW ds \in Seq(Documents), NEW limit \in Nat, NEW n \in Nat \ {0}, n = Len(ds)
  PROVE  \E budget, baseline, shared, weights, total :
           Shares(CharacterLimits(ds, limit), n, limit, budget, baseline, shared, weights, total)
<1> USE PackingAssumption
<1> DEFINE budget == Max({0, limit - (HeaderEstimate + n * HeadingEstimate)})
           baseline == Least(MinPerDocument, budget \div n)
           shared == Max({0, budget - baseline * n})
           Weight(d) == Max({Relevance(d), 1})
           weights == [i \in DOMAIN ds |-> Weight(ds[i])]
           total == Sum(weights)
           limits == [i \in DOMAIN ds |->
                       Least(MaxPerDocument, baseline + (shared * Weight(ds[i])) \div total)]
<1>0. {HeaderEstimate, HeadingEstimate, MinPerDocument, MaxPerDocument} \subseteq Nat
  OBVIOUS
<1>1. DOMAIN ds = 1..n
  OBVIOUS
<1>2. \A k \in 1..n : Weight(ds[k]) \in Nat \ {0}
  <2> SUFFICES ASSUME NEW k \in 1..n PROVE Weight(ds[k]) \in Nat \ {0}
    OBVIOUS
  <2>1. PICK d \in Documents : d = ds[k]
    OBVIOUS
  <2>2. Relevance(d) \in Int /\ Relevance(d) \in Nat
    BY RelevanceType
  <2>3. Weight(d) \in {Relevance(d), 1} /\ Weight(d) >= 1
    BY <2>2, MaxOfTwo, 1 \in Int, Zenon
  <2>4. Weight(d) \in Nat \ {0}
    BY <2>2, <2>3
  <2> HIDE DEF Weight
  <2> QED
    BY <2>1, <2>4
<1>3. CharacterLimits(ds, limit) = limits
  BY Zenon DEF CharacterLimits
<1> HIDE DEF Weight
<1>4. /\ weights \in Seq(Nat) /\ Len(weights) = n /\ weights \in [1..n -> Nat]
      /\ \A k \in 1..n : weights[k] = Weight(ds[k])
  BY <1>1, <1>2
<1> HIDE DEF weights
<1>5. total \in Nat \ {0}
  <2>1. 1 \in 1..n
    OBVIOUS
  <2>2. Sum(weights) \in Nat /\ weights[1] <= Sum(weights)
    BY <1>4, <2>1, SumOfNats
  <2> QED
    BY <1>2, <1>4, <2>1, <2>2
<1> HIDE DEF total
<1>6. budget \in Nat
  <2>1. n * HeadingEstimate \in Int
    BY <1>0
  <2>2. limit - (HeaderEstimate + n * HeadingEstimate) \in Int
    BY SMTT(30), <1>0, <2>1
  <2> QED
    BY <2>2, NotNegative
<1> HIDE DEF budget
<1>7. baseline \in Nat
  <2>1. budget \div n \in Nat
    BY <1>6, QuotientIsNatural, Zenon
  <2> QED
    BY <1>0, <2>1, LeastIs
<1> HIDE DEF baseline
<1>8. shared \in Nat
  <2>1. baseline * n \in Int
    BY <1>7
  <2>2. budget - baseline * n \in Int
    BY <1>6, <2>1
  <2> QED
    BY <2>2, NotNegative
<1> HIDE DEF shared
<1>9. limits = [k \in 1..n |->
                  Least(MaxPerDocument, baseline + (shared * weights[k]) \div total)]
  BY <1>1, <1>4
<1> HIDE DEF limits
<1>10. Shares(limits, n, limit, budget, baseline, shared, weights, total)
  BY <1>4, <1>5, <1>6, <1>7, <1>8, <1>9 DEF Shares, budget, baseline, shared, total
<1> QED
  BY <1>3, <1>10

\* The shares of characters are numbers, none of them negative.
LEMMA LimitsAreNumbers ==
  ASSUME NEW ds \in Seq(Documents), NEW limit \in Nat, NEW k \in 1..Len(ds)
  PROVE  CharacterLimits(ds, limit)[k] \in Nat
<1>1. PICK n \in Nat \ {0} : n = Len(ds) /\ k \in 1..n
  OBVIOUS
<1>2. PICK limits : limits = CharacterLimits(ds, limit)
  OBVIOUS
<1>3. PICK budget, baseline, shared, weights, total :
        Shares(limits, n, limit, budget, baseline, shared, weights, total)
  BY <1>1, <1>2, LimitsAre
<1>4. /\ baseline \in Nat /\ shared \in Nat /\ total \in Nat \ {0} /\ weights[k] \in Nat
      /\ limits[k] = Least(MaxPerDocument, baseline + (shared * weights[k]) \div total)
  BY <1>1, <1>3 DEF Shares
<1>5. PICK weight \in Nat : weight = weights[k]
  BY <1>4
<1>6. shared * weight \in Nat
  BY <1>4
<1>7. PICK share \in Nat : share = (shared * weight) \div total
  BY <1>4, <1>6, QuotientIsNatural, Zenon
<1>8. MaxPerDocument \in Nat /\ baseline + share \in Nat
  BY <1>4, <1>7, PackingAssumption
<1>9. limits[k] = Least(MaxPerDocument, baseline + share)
  BY <1>4, <1>5, <1>7, Zenon
<1>10. limits[k] \in Nat
  BY <1>8, <1>9, LeastIs, Zenon
<1> QED
  BY <1>2, <1>10

Bundles == [documents : Seq(Documents), characters : Int, full : BOOLEAN]

\* What holds of a bundle after k of the ranked documents.
BundleOf(bundle, ranked, k, limit) ==
  /\ bundle \in Bundles
  /\ bundle.documents # <<>> => bundle.characters <= limit
  /\ \A a \in DOMAIN bundle.documents : \E i \in 1..k : bundle.documents[a] = ranked[i]
  /\ DistinctContents(bundle.documents)

\* A card is added within the limit, and a content once.
LEMMA CardIsAdded ==
  ASSUME NEW ranked \in Seq(Documents), DistinctContents(ranked), NEW limit \in Nat,
         NEW k \in 1..Len(ranked), NEW ownLimit \in Nat,
         NEW bundle, BundleOf(bundle, ranked, k - 1, limit)
  PROVE  BundleOf(AddCard(bundle, ranked[k], ownLimit, limit), ranked, k, limit)
<1> DEFINE d == ranked[k]
           room == Room(bundle, d, limit)
           excerpt == Excerpt(d, Least(ownLimit, room))
           later == AddCard(bundle, d, ownLimit, limit)
<1>1. d \in Documents /\ d.heading \in Nat /\ d.text \in Nat /\ d.relevant \in Nat
  <2>1. ranked[k] \in Documents
    OBVIOUS
  <2> QED
    BY <2>1, DocumentFields
<1>2. bundle \in Bundles
  BY DEF BundleOf
<1>3. room = limit - bundle.characters - 2 - d.heading /\ room \in Int
  BY <1>1, <1>2 DEF Room, Separator, Bundles
<1>4. room > 0 => excerpt \in Nat /\ excerpt <= room
  BY <1>1, <1>3 DEF Excerpt, Least
<1>5. \A a \in DOMAIN bundle.documents : \E i \in 1..(k - 1) : bundle.documents[a] = ranked[i]
  BY DEF BundleOf
<1>6. later = IF bundle.full \/ room <= 0 THEN [bundle EXCEPT !.full = TRUE]
              ELSE IF excerpt = 0 THEN bundle
              ELSE [bundle EXCEPT !.documents = Append(@, d),
                                  !.characters = @ + 2 + d.heading + excerpt]
  BY DEF AddCard, Separator
<1>d. d = ranked[k]
  OBVIOUS
<1> HIDE DEF room, excerpt, later, d
<1>7. \A a \in DOMAIN bundle.documents : \E i \in 1..k : bundle.documents[a] = ranked[i]
  <2>1. \A i \in 1..(k - 1) : i \in 1..k
    OBVIOUS
  <2> QED
    BY <1>5, <2>1
<1>8. CASE bundle.full \/ room <= 0
  <2>1. /\ later = [bundle EXCEPT !.full = TRUE]
        /\ later.documents = bundle.documents /\ later.characters = bundle.characters
        /\ later \in Bundles
    BY <1>2, <1>6, <1>8 DEF Bundles
  <2> QED
    BY <1>7, <2>1 DEF BundleOf, later, d
<1>9. CASE ~(bundle.full \/ room <= 0) /\ excerpt = 0
  BY <1>6, <1>7, <1>9 DEF BundleOf, later, d
<1>10. CASE ~(bundle.full \/ room <= 0) /\ excerpt # 0
  <2>1. /\ later.documents = Append(bundle.documents, d)
        /\ later.characters = bundle.characters + 2 + d.heading + excerpt
        /\ later.full = bundle.full
        /\ later = [documents |-> later.documents, characters |-> later.characters,
                    full |-> later.full]
    BY <1>2, <1>6, <1>10 DEF Bundles
  <2>2. bundle.characters \in Int /\ bundle.documents \in Seq(Documents) /\ bundle.full \in BOOLEAN
    BY <1>2 DEF Bundles
  <2>3. later.characters <= limit /\ later.characters \in Int
    <3>1. room > 0
      BY <1>3, <1>10
    <3>2. excerpt \in Nat /\ excerpt <= room
      BY <1>4, <3>1
    <3>3. d.heading \in Nat /\ bundle.characters \in Int
      BY <1>1, <2>2
    <3> QED
      <4>1. PICK c \in Int : c = bundle.characters
        BY <3>3
      <4>2. PICK h \in Nat : h = d.heading
        BY <3>3
      <4>3. PICK e \in Nat : e = excerpt
        BY <3>2
      <4>4. room = limit - c - 2 - h /\ e <= room
        BY <1>3, <3>2, <4>1, <4>2, <4>3
      <4>5. later.characters = c + 2 + h + e
        BY <2>1, <4>1, <4>2, <4>3
      <4>6. c + 2 + h + e <= limit /\ c + 2 + h + e \in Int
        BY <4>4
      <4> QED
        BY <4>5, <4>6
  <2>4. later \in Bundles
    <3>1. later.documents \in Seq(Documents)
      BY <1>1, <2>1, <2>2
    <3>2. later.full \in BOOLEAN
      BY <2>1, <2>2
    <3> QED
      BY <2>1, <2>3, <3>1, <3>2 DEF Bundles
  <2> DEFINE docs == bundle.documents
             m == Len(docs)
  <2>5. /\ DOMAIN later.documents = 1..(m + 1) /\ m \in Nat /\ DOMAIN docs = 1..m
        /\ later.documents[m + 1] = d /\ \A a \in 1..m : later.documents[a] = docs[a]
        /\ \A a \in 1..(m + 1) : a \in 1..m \/ a = m + 1
    BY SMTT(30), <1>1, <2>1, <2>2
  <2>6. \A a \in 1..m : docs[a].content # d.content
    <3>1. \A i \in 1..(k - 1) : ranked[i].content # d.content
      <4>1. \A i \in 1..(k - 1) : i \in DOMAIN ranked /\ i # k
        OBVIOUS
      <4> QED
        BY <4>1 DEF DistinctContents, d
    <3> QED
      BY <1>5, <2>5, <3>1
  <2>7. \A a \in 1..(m + 1) : \E i \in 1..k : later.documents[a] = ranked[i]
    <3>1. k \in 1..k
      OBVIOUS
    <3> HIDE DEF docs
    <3> QED
      BY <1>7, <1>d, <2>5, <3>1 DEF docs
  <2>8. DistinctContents(docs)
    BY DEF BundleOf
  <2> HIDE DEF docs, m
  <2>9. DistinctContents(later.documents)
    BY <2>5, <2>6, <2>8 DEF DistinctContents
  <2> QED
    BY <2>3, <2>4, <2>5, <2>7, <2>9 DEF BundleOf, later, d
<1> QED
  BY <1>8, <1>9, <1>10

-----------------------------------------------------------------------------
(* Sequences laid end to end *)

Lengths(seqs) == [g \in 1..Len(seqs) |-> Len(seqs[g])]

\* Where the parts of a sequence of sequences end when they are laid end to end.
LEMMA EndsExist ==
  ASSUME NEW U, NEW seqs \in Seq(Seq(U))
  PROVE  \E ends : SumsTo(ends, Lengths(seqs))
<1>1. Lengths(seqs) \in Seq(Int)
  BY DEF Lengths
<1> QED
  BY <1>1, SumIs

\* What these ends are.
EndsOf(ends, seqs) ==
  /\ ends \in [0..Len(seqs) -> Nat] /\ ends[0] = 0
  /\ \A g \in 1..Len(seqs) : ends[g] = ends[g - 1] + Len(seqs[g])
  /\ \A g, h \in 0..Len(seqs) : g <= h => ends[g] <= ends[h]

\* They do not decrease, and lie as far apart as the parts are long.
LEMMA EndsAre ==
  ASSUME NEW U, NEW seqs \in Seq(Seq(U)), NEW ends, SumsTo(ends, Lengths(seqs))
  PROVE  EndsOf(ends, seqs)
<1> DEFINE m == Len(seqs)
           P == {n \in 0..m : ends[n] \in Nat /\ \A g \in 0..n : ends[g] <= ends[n]}
<1>1. m \in Nat /\ \A g \in 1..m : Len(seqs[g]) \in Nat
  OBVIOUS
<1>2. /\ ends \in [0..m -> Int] /\ ends[0] = 0
      /\ \A g \in 1..m : ends[g] = ends[g - 1] + Len(seqs[g])
  <2>1. Lengths(seqs) \in Seq(Nat) /\ Len(Lengths(seqs)) = m
    BY <1>1 DEF Lengths
  <2>2. \A g \in 1..m : Lengths(seqs)[g] = Len(seqs[g])
    BY DEF Lengths
  <2> QED
    BY <2>1, <2>2 DEF SumsTo
<1> HIDE DEF m
<1>3. 0 \in P
  BY <1>1, <1>2
<1>4. ASSUME NEW n \in 0..m, n \in P, n < m PROVE n + 1 \in P
  <2>1. n + 1 \in 1..m /\ (n + 1) - 1 = n
    BY <1>1, <1>4
  <2>2. ends[n + 1] = ends[n] + Len(seqs[n + 1]) /\ Len(seqs[n + 1]) \in Nat
    BY <1>1, <1>2, <2>1
  <2>3. ends[n] \in Nat /\ \A g \in 0..n : ends[g] <= ends[n] /\ ends[g] \in Int
    BY <1>1, <1>2, <1>4
  <2>4. \A g \in 0..(n + 1) : g \in 0..n \/ g = n + 1
    BY <1>1, <1>4
  <2>5. \A g \in 0..(n + 1) : ends[g] <= ends[n + 1]
    BY <2>2, <2>3, <2>4
  <2> QED
    BY <1>1, <2>1, <2>2, <2>3, <2>5
<1>5. 0..m \subseteq P
  <2> HIDE DEF P
  <2> QED
    BY <1>1, <1>3, <1>4, IntervalInduction
<1>6. ends \in [0..m -> Nat]
  BY <1>2, <1>5
<1>7. ASSUME NEW g \in 0..m, NEW h \in 0..m, g <= h PROVE ends[g] <= ends[h]
  <2>1. h \in P /\ g \in 0..h
    BY <1>1, <1>5, <1>7
  <2> QED
    BY <2>1
<1> QED
  BY <1>2, <1>6, <1>7 DEF EndsOf, m

\* flat is what the first n of the parts are, laid end to end.
FlatOf(flat, seqs, ends, n, U) ==
  /\ flat \in Seq(U) /\ Len(flat) = ends[n]
  /\ \A g \in 1..n : \A a \in 1..Len(seqs[g]) :
       ends[g - 1] + a \in 1..Len(flat) /\ flat[ends[g - 1] + a] = seqs[g][a]
  /\ \A p \in 1..Len(flat) : \E g \in 1..n : \E a \in 1..Len(seqs[g]) : p = ends[g - 1] + a

\* One more part is laid at the end.
LEMMA FlatGrows ==
  ASSUME NEW U, NEW seqs \in Seq(Seq(U)), NEW ends, EndsOf(ends, seqs),
         NEW n \in Nat, n < Len(seqs), NEW flat, FlatOf(flat, seqs, ends, n, U)
  PROVE  FlatOf(flat \o seqs[n + 1], seqs, ends, n + 1, U)
<1> DEFINE part == seqs[n + 1]
           longer == flat \o part
           m == Len(flat)
<1>1. n + 1 \in 1..Len(seqs) /\ (n + 1) - 1 = n /\ part \in Seq(U) /\ flat \in Seq(U)
  BY DEF FlatOf
<1>2. /\ longer \in Seq(U) /\ Len(longer) = m + Len(part) /\ m \in Nat /\ Len(part) \in Nat
      /\ \A p \in 1..m : longer[p] = flat[p] /\ p \in 1..Len(longer)
      /\ \A a \in 1..Len(part) : longer[m + a] = part[a] /\ m + a \in 1..Len(longer)
  BY <1>1
<1>3. ends[n] = m /\ ends[n + 1] = m + Len(part)
  BY <1>1 DEF FlatOf, EndsOf
<1>4. \A p \in 1..Len(longer) : p \in 1..m \/ (p - m \in 1..Len(part) /\ p = m + (p - m))
  BY <1>2
<1>5. \A g \in 1..(n + 1) : g \in 1..n \/ g = n + 1
  OBVIOUS
<1>6. 1..n \subseteq 1..(n + 1) /\ n + 1 \in 1..(n + 1)
  OBVIOUS
<1> HIDE DEF longer
<1>7. ASSUME NEW g \in 1..(n + 1), NEW a \in 1..Len(seqs[g])
      PROVE  ends[g - 1] + a \in 1..Len(longer) /\ longer[ends[g - 1] + a] = seqs[g][a]
  <2>1. CASE g \in 1..n
    BY <1>2, <2>1 DEF FlatOf
  <2>2. CASE g = n + 1
    BY <1>1, <1>2, <1>3, <2>2
  <2> QED
    BY <1>5, <2>1, <2>2
<1>8. ASSUME NEW p \in 1..Len(longer)
      PROVE  \E g \in 1..(n + 1) : \E a \in 1..Len(seqs[g]) : p = ends[g - 1] + a
  <2>1. CASE p \in 1..m
    BY <1>6, <2>1 DEF FlatOf
  <2>2. CASE p - m \in 1..Len(part) /\ p = m + (p - m)
    BY <1>1, <1>3, <1>6, <2>2
  <2> QED
    BY <1>4, <2>1, <2>2
<1> QED
  BY <1>2, <1>3, <1>7, <1>8 DEF FlatOf, longer

\* A sequence of sequences is flattened by laying them end to end.
LEMMA FlatIs ==
  ASSUME NEW U, NEW seqs \in Seq(Seq(U)), NEW ends, EndsOf(ends, seqs)
  PROVE  FlatOf(FlattenSeq(seqs), seqs, ends, Len(seqs), U)
<1> DEFINE m == Len(seqs)
           G == [n \in 1..m |-> [s \in Seq(U) |-> s \o seqs[n]]]
           Eqn(g) == g = [i \in 1..m |-> IF i = 1 THEN seqs[i] ELSE g[i - 1] \o seqs[i]]
<1>1. m \in Nat /\ \A g \in 1..m : seqs[g] \in Seq(U) /\ Len(seqs[g]) \in Nat
  OBVIOUS
<1>2. FlatOf(<<>>, seqs, ends, 0, U)
  BY DEF FlatOf, EndsOf
<1>3. CASE m = 0
  <2>1. seqs = <<>>
    BY <1>3
  <2>2. FlattenSeq(seqs) = <<>>
    BY <1>3, <2>1 DEF FlattenSeq
  <2> QED
    BY <1>2, <1>3, <2>2
<1>4. CASE m # 0
  <2> HIDE DEF m
  <2>1. G \in [1..m -> [Seq(U) -> Seq(U)]]
    BY <1>1
  <2>2. <<>> \in Seq(U)
    OBVIOUS
  <2>3. \E f : Recurses(f, m, Seq(U), <<>>, G)
    <3> HIDE DEF G
    <3> QED
      BY <1>1, <2>1, <2>2, Recursion
  <2>4. PICK f : Recurses(f, m, Seq(U), <<>>, G)
    BY <2>3
  <2>5. f \in [0..m -> Seq(U)] /\ f = [n \in 0..m |-> IF n = 0 THEN <<>> ELSE G[n][f[n - 1]]]
    BY <2>4 DEF Recurses
  <2>6. ASSUME NEW n \in 1..m PROVE f[n] = f[n - 1] \o seqs[n]
    <3>1. n \in 0..m /\ n # 0 /\ n - 1 \in 0..m
      BY <1>1
    <3>2. f[n - 1] \in Seq(U)
      BY <2>5, <3>1
    <3>3. f[n] = G[n][f[n - 1]]
      <4> HIDE DEF G
      <4> QED
        BY <2>5, <3>1
    <3> QED
      BY <3>2, <3>3
  <2> HIDE DEF G
  <2>7. f[0] = <<>> /\ 0 \in 0..m
    BY <1>1, <2>5
  <2>8. f[1] = seqs[1]
    <3>0. 1 \in 1..m /\ 1 - 1 = 0
      BY <1>1, <1>4
    <3>1. f[1] = <<>> \o seqs[1] /\ seqs[1] \in Seq(U)
      <4>1. f[1] = f[1 - 1] \o seqs[1]
        BY <2>6, <3>0, Zenon
      <4> QED
        BY <1>1, <2>7, <3>0, <4>1
    <3> QED
      BY <3>1
  <2> DEFINE h == [i \in 1..m |-> f[i]]
  <2>9. Eqn(h)
    <3> DEFINE R == [i \in 1..m |-> IF i = 1 THEN seqs[i] ELSE h[i - 1] \o seqs[i]]
    <3>1. ASSUME NEW i \in 1..m PROVE h[i] = R[i]
      <4>1. CASE i = 1
        BY <2>8, <4>1
      <4>2. CASE i # 1
        <5>1. i - 1 \in 1..m
          BY <1>1, <4>2
        <5> QED
          BY <2>6, <4>2, <5>1
      <4> QED
        BY <4>1, <4>2
    <3>2. h = R
      BY <3>1
    <3> QED
      BY <3>2
  <2> HIDE DEF h
  <2>10. PICK g : g = CHOOSE x : Eqn(x)
    OBVIOUS
  <2>11. FlattenSeq(seqs) = g[m]
    BY <1>4, <2>10, Zenon DEF FlattenSeq, m
  <2> HIDE DEF Eqn
  <2>12. Eqn(g)
    BY <2>9, <2>10
  <2>13. g = [i \in 1..m |-> IF i = 1 THEN seqs[i] ELSE g[i - 1] \o seqs[i]]
    BY <2>12 DEF Eqn
  <2> DEFINE P == {n \in 0..m : n > 0 => FlatOf(g[n], seqs, ends, n, U)}
  <2>14. 0 \in P
    BY <1>1
  <2>15. ASSUME NEW n \in 0..m, n \in P, n < m PROVE n + 1 \in P
    <3>1. n \in Nat /\ n + 1 \in 1..m /\ n < Len(seqs)
      BY <1>1, <2>15 DEF m
    <3>2. CASE n = 0
      <4>1. g[1] = seqs[1] /\ seqs[1] \in Seq(U)
        BY <1>1, <2>13, <3>1, <3>2
      <4>2. <<>> \o seqs[1] = g[1]
        BY <4>1
      <4>3. FlatOf(<<>> \o seqs[n + 1], seqs, ends, n + 1, U)
        BY <1>2, <3>1, <3>2, FlatGrows
      <4>4. n + 1 = 1
        BY <3>2
      <4>5. FlatOf(g[n + 1], seqs, ends, n + 1, U)
        BY <4>2, <4>3, <4>4
      <4> QED
        BY <3>1, <4>5
    <3>3. CASE n # 0
      <4>1. FlatOf(g[n], seqs, ends, n, U)
        BY <2>15, <3>1, <3>3
      <4>2. g[n + 1] = g[n] \o seqs[n + 1]
        <5>1. n + 1 # 1 /\ (n + 1) - 1 = n
          BY <3>1, <3>3
        <5> QED
          BY <2>13, <3>1, <5>1
      <4>3. FlatOf(g[n] \o seqs[n + 1], seqs, ends, n + 1, U)
        BY <3>1, <4>1, FlatGrows
      <4>4. FlatOf(g[n + 1], seqs, ends, n + 1, U)
        BY <4>2, <4>3, Zenon
      <4>5. n + 1 \in 0..m
        BY <1>1, <3>1
      <4> QED
        BY <4>4, <4>5
    <3> QED
      BY <3>2, <3>3
  <2>16. 0..m \subseteq P
    <3> HIDE DEF P
    <3> QED
      BY <1>1, <2>14, <2>15, IntervalInduction
  <2>17. m \in 0..m /\ m > 0
    BY <1>1, <1>4
  <2> QED
    BY <2>11, <2>16, <2>17 DEF m
<1> QED
  BY <1>3, <1>4

\* A bundle stays one when a card is added.
LEMMA AddingKeepsType ==
  ASSUME NEW bundle \in Bundles, NEW d \in Documents, NEW ownLimit \in Nat, NEW limit \in Nat
  PROVE  AddCard(bundle, d, ownLimit, limit) \in Bundles
<1> DEFINE room == Room(bundle, d, limit)
           excerpt == Excerpt(d, Least(ownLimit, room))
           later == AddCard(bundle, d, ownLimit, limit)
<1>1. d.heading \in Nat /\ d.text \in Nat /\ d.relevant \in Nat
  BY DocumentFields
<1>2. /\ bundle.characters \in Int /\ bundle.documents \in Seq(Documents)
      /\ bundle.full \in BOOLEAN
  BY DEF Bundles
<1>3. room \in Int
  BY <1>1, <1>2 DEF Room, Separator
<1>4. excerpt \in Int
  BY <1>1, <1>3 DEF Excerpt, Least
<1>5. later = IF bundle.full \/ room <= 0 THEN [bundle EXCEPT !.full = TRUE]
              ELSE IF excerpt = 0 THEN bundle
              ELSE [bundle EXCEPT !.documents = Append(@, d),
                                  !.characters = @ + 2 + d.heading + excerpt]
  BY DEF AddCard, Separator
<1>6. Append(bundle.documents, d) \in Seq(Documents)
  BY <1>2
<1> HIDE DEF room, excerpt, later
<1>7. bundle.characters + 2 + d.heading + excerpt \in Int
  BY <1>1, <1>2, <1>4
<1>8. later \in Bundles
  BY <1>5, <1>6, <1>7 DEF Bundles
<1> QED
  BY <1>8 DEF later

\* bundles[k] is what the first k of the ranked documents make.
CardByCard(bundles, ranked, limit) ==
  /\ bundles[0] = NoCards
  /\ \A k \in 1..Len(ranked) :
       bundles[k] = AddCard(bundles[k - 1], ranked[k], CharacterLimits(ranked, limit)[k], limit)

\* A bundle is built card by card.
LEMMA BundleUnfolds ==
  ASSUME NEW ds \in Seq(Documents), NEW limit \in Nat, RankDocuments(ds) \in Seq(Documents)
  PROVE  \E bundles : /\ CardByCard(bundles, RankDocuments(ds), limit)
                      /\ BuildBundle(ds, limit) = bundles[Len(RankDocuments(ds))]
<1>1. PICK ranked \in Seq(Documents) : ranked = RankDocuments(ds)
  OBVIOUS
<1>3. PICK m \in Nat : m = Len(ranked)
  OBVIOUS
<1>4. PICK limits : limits = CharacterLimits(ranked, limit)
  OBVIOUS
<1>5. \A k \in 1..m : ranked[k] \in Documents /\ limits[k] \in Nat
  BY <1>3, <1>4, LimitsAreNumbers
<1> DEFINE Step(k, b) == AddCard(b, ranked[k], limits[k], limit)
           G == [k \in 1..m |-> [b \in Bundles |-> Step(k, b)]]
           Eqn(g) == g = [k \in 0..m |-> IF k = 0 THEN NoCards ELSE Step(k, g[k - 1])]
<1>6. \A k \in 1..m : \A b \in Bundles : Step(k, b) \in Bundles
  BY <1>5, AddingKeepsType
<1>7. NoCards \in Bundles
  BY PackingAssumption DEF NoCards, Bundles
<1>8. BuildBundle(ds, limit) = (CHOOSE g : Eqn(g))[m]
  BY <1>1, <1>3, <1>4 DEF BuildBundle
<1>9. \A bundles : (bundles[0] = NoCards /\ \A k \in 1..m : bundles[k] = Step(k, bundles[k - 1]))
                     => CardByCard(bundles, ranked, limit)
  BY <1>3, <1>4 DEF CardByCard
<1> HIDE DEF Step
<1>10. G \in [1..m -> [Bundles -> Bundles]]
  BY <1>6
<1>11. \E f : Recurses(f, m, Bundles, NoCards, G)
  <2> HIDE DEF G
  <2> QED
    BY <1>7, <1>10, Recursion
<1>12. PICK f : Recurses(f, m, Bundles, NoCards, G)
  BY <1>11
<1>13. f \in [0..m -> Bundles] /\ f = [k \in 0..m |-> IF k = 0 THEN NoCards ELSE G[k][f[k - 1]]]
  BY <1>12 DEF Recurses
<1>14. ASSUME NEW k \in 0..m, k # 0 PROVE G[k][f[k - 1]] = Step(k, f[k - 1])
  <2>1. k \in 1..m /\ k - 1 \in 0..m
    BY <1>14
  <2>2. f[k - 1] \in Bundles
    BY <1>13, <2>1
  <2> QED
    BY <2>1, <2>2
<1> HIDE DEF G
<1>15. Eqn(f)
  BY <1>13, <1>14
<1>16. PICK g : g = CHOOSE h : Eqn(h)
  OBVIOUS
<1> HIDE DEF Eqn
<1>17. Eqn(g)
  BY <1>15, <1>16
<1>18. g = [k \in 0..m |-> IF k = 0 THEN NoCards ELSE Step(k, g[k - 1])]
  BY <1>17 DEF Eqn
<1>19. g[0] = NoCards /\ \A k \in 1..m : g[k] = Step(k, g[k - 1])
  <2>1. 0 \in 0..m /\ \A k \in 1..m : k \in 0..m /\ k # 0
    OBVIOUS
  <2> QED
    BY <1>18, <2>1
<1>20. CardByCard(g, ranked, limit)
  BY <1>9, <1>19
<1> QED
  BY <1>1, <1>3, <1>8, <1>16, <1>20

\* A bundle holds documents of a sequence, within its limit, each content once.
LEMMA BundleIs ==
  ASSUME NEW ds \in Seq(Documents), DistinctIds(ToSet(ds)), NEW limit \in Nat
  PROVE  BundleOf(BuildBundle(ds, limit), RankDocuments(ds), Len(RankDocuments(ds)), limit)
<1>1. PICK ranked : ranked = RankDocuments(ds)
  OBVIOUS
<1>2. ranked \in Seq(Documents) /\ DistinctContents(ranked)
  BY <1>1, RankingIs
<1>3. PICK m \in Nat : m = Len(ranked)
  BY <1>2
<1>4. PICK g : CardByCard(g, ranked, limit) /\ BuildBundle(ds, limit) = g[m]
  BY <1>1, <1>2, <1>3, BundleUnfolds
<1> DEFINE P == {k \in 0..m : BundleOf(g[k], ranked, k, limit)}
<1>5. 0 \in P
  <2>1. NoCards.documents = <<>> /\ NoCards \in Bundles
    BY PackingAssumption DEF NoCards, Bundles
  <2>2. BundleOf(NoCards, ranked, 0, limit)
    BY <2>1 DEF BundleOf, DistinctContents
  <2> QED
    BY <1>4, <2>2 DEF CardByCard
<1>6. ASSUME NEW k \in 0..m, k \in P, k < m PROVE k + 1 \in P
  <2>1. k + 1 \in 1..m /\ (k + 1) - 1 = k
    BY <1>6
  <2>2. PICK own : own = CharacterLimits(ranked, limit)[k + 1]
    OBVIOUS
  <2>3. own \in Nat
    BY <1>2, <1>3, <2>1, <2>2, LimitsAreNumbers
  <2>4. g[k + 1] = AddCard(g[k], ranked[k + 1], own, limit)
    BY <1>3, <1>4, <2>1, <2>2 DEF CardByCard
  <2>5. BundleOf(g[k], ranked, (k + 1) - 1, limit)
    BY <1>6, <2>1
  <2>6. BundleOf(AddCard(g[k], ranked[k + 1], own, limit), ranked, k + 1, limit)
    BY <1>2, <1>3, <2>1, <2>3, <2>5, CardIsAdded
  <2> QED
    BY <2>1, <2>4, <2>6
<1>7. 0..m \subseteq P
  <2> HIDE DEF P
  <2> QED
    BY <1>5, <1>6, IntervalInduction
<1> QED
  BY <1>1, <1>3, <1>4, <1>7

-----------------------------------------------------------------------------
(* The groups of a plan: _partition_map_groups *)

\* What holds of the groups of the first n documents: every document is in one
\* place, and only those documents are there.
GroupsOf(groups, ds, n) ==
  /\ groups \in Seq(Seq(Documents))
  /\ \A g \in DOMAIN groups : \A a \in DOMAIN groups[g] : \E i \in 1..n : groups[g][a] = ds[i]
  /\ \A g, h \in DOMAIN groups : \A a \in DOMAIN groups[g] : \A b \in DOMAIN groups[h] :
       groups[g][a].content = groups[h][b].content => g = h /\ a = b

\* Groups stay sequences of documents.
LEMMA NextGroupsKeepType ==
  ASSUME NEW groups \in Seq(Seq(Documents)), NEW d \in Documents
  PROVE  NextGroups(groups, d) \in Seq(Seq(Documents))
<1>1. <<d>> \in Seq(Documents)
  OBVIOUS
<1>2. Append(groups, <<d>>) \in Seq(Seq(Documents))
  BY <1>1
<1>3. ASSUME groups # <<>>
      PROVE  Append(Front(groups), Append(Last(groups), d)) \in Seq(Seq(Documents))
  <2>1. Len(groups) \in Nat \ {0}
    BY <1>3
  <2>2. Front(groups) \in Seq(Seq(Documents)) /\ Last(groups) \in Seq(Documents)
    BY <2>1 DEF Front, Last
  <2>3. Append(Last(groups), d) \in Seq(Documents)
    BY <2>2
  <2> QED
    BY <2>2, <2>3
<1> QED
  BY <1>2, <1>3 DEF NextGroups

\* The next document gets one place, at the end of the last group or in a new
\* one, and moves no other.
LEMMA DocumentIsGrouped ==
  ASSUME NEW ds \in Seq(Documents), DistinctContents(ds), NEW n \in Nat, n < Len(ds),
         NEW groups, GroupsOf(groups, ds, n)
  PROVE  GroupsOf(NextGroups(groups, ds[n + 1]), ds, n + 1)
<1>0. PICK d : d = ds[n + 1]
  OBVIOUS
<1>1. d \in Documents /\ n + 1 \in 1..Len(ds) /\ n + 1 \in 1..(n + 1)
  BY <1>0
<1>2. PICK m \in Nat : m = Len(groups)
  BY DEF GroupsOf
<1>3. PICK later : later = NextGroups(groups, d)
  OBVIOUS
<1>4. groups \in Seq(Seq(Documents)) /\ DOMAIN groups = 1..m
  BY <1>2 DEF GroupsOf
<1>5. later \in Seq(Seq(Documents))
  BY <1>1, <1>3, <1>4, NextGroupsKeepType
<1>6. \A i \in 1..n : ds[i].content # d.content /\ i \in 1..(n + 1)
  <2>1. \A i \in 1..n : i \in DOMAIN ds /\ n + 1 \in DOMAIN ds /\ i # n + 1 /\ i \in 1..(n + 1)
    BY <1>1
  <2> QED
    BY <1>0, <2>1 DEF DistinctContents
<1>7. \A g \in 1..m : \A a \in DOMAIN groups[g] :
        groups[g][a].content # d.content /\ \E i \in 1..(n + 1) : groups[g][a] = ds[i]
  <2> SUFFICES ASSUME NEW g \in 1..m, NEW a \in DOMAIN groups[g]
               PROVE  groups[g][a].content # d.content /\ \E i \in 1..(n + 1) : groups[g][a] = ds[i]
    OBVIOUS
  <2>1. PICK i \in 1..n : groups[g][a] = ds[i]
    BY <1>4 DEF GroupsOf
  <2> QED
    BY <1>6, <2>1
\* The last group, or a new one, is longer by the document.
<1> DEFINE Grows(j, x) ==
      /\ DOMAIN later = 1..j /\ x \in Nat
      /\ DOMAIN later[j] = 1..(x + 1) /\ later[j][x + 1] = d
      /\ \A a \in 1..x : j \in 1..m /\ a \in DOMAIN groups[j] /\ later[j][a] = groups[j][a]
      /\ \A g \in 1..j : g # j => g \in 1..m /\ later[g] = groups[g]
<1>8. \E j \in Nat, x \in Nat : Grows(j, x)
  <2>1. CASE later = Append(groups, <<d>>)
    <3>1. /\ DOMAIN later = 1..(m + 1) /\ later[m + 1] = <<d>>
          /\ \A g \in 1..m : later[g] = groups[g]
      BY <1>2, <1>4, <2>1
    <3>2. DOMAIN <<d>> = 1..(0 + 1) /\ <<d>>[0 + 1] = d
      OBVIOUS
    <3>3. \A g \in 1..(m + 1) : g # m + 1 => g \in 1..m
      OBVIOUS
    <3>4. \A a \in 1..0 : FALSE
      OBVIOUS
    <3>5. Grows(m + 1, 0)
      BY <3>1, <3>2, <3>3, <3>4
    <3> HIDE DEF Grows
    <3>6. m + 1 \in Nat /\ 0 \in Nat
      OBVIOUS
    <3> QED
      BY <3>5, <3>6
  <2>2. CASE groups # <<>> /\ later = Append(Front(groups), Append(Last(groups), d))
    <3>1. m \in 1..m /\ m - 1 \in Nat /\ (m - 1) + 1 = m
      BY <1>2, <1>4, <2>2
    <3>2. PICK front : front = Front(groups)
      OBVIOUS
    <3>3. /\ front \in Seq(Seq(Documents)) /\ Len(front) = m - 1
          /\ \A g \in 1..(m - 1) : front[g] = groups[g] /\ g \in 1..m
      BY <1>2, <1>4, <3>1, <3>2 DEF Front
    <3>4. PICK last : last = groups[m]
      OBVIOUS
    <3>5. last = Last(groups) /\ last \in Seq(Documents)
      BY <1>2, <1>4, <3>1, <3>4 DEF Last
    <3>6. PICK x \in Nat : x = Len(last)
      BY <3>5
    <3>7. PICK longer : longer = Append(last, d)
      OBVIOUS
    <3>8. /\ DOMAIN longer = 1..(x + 1) /\ longer[x + 1] = d /\ DOMAIN last = 1..x
          /\ \A a \in 1..x : longer[a] = last[a]
      BY <1>1, <3>5, <3>6, <3>7
    <3>9. later = Append(front, longer)
      BY <2>2, <3>2, <3>5, <3>7
    <3>10. /\ DOMAIN later = 1..((m - 1) + 1) /\ later[(m - 1) + 1] = longer
           /\ \A g \in 1..(m - 1) : later[g] = front[g]
      BY <3>1, <3>3, <3>9
    <3>11. \A g \in 1..m : g # m => g \in 1..(m - 1)
      BY <3>1
    <3>12. Grows(m, x)
      BY <3>1, <3>3, <3>4, <3>6, <3>8, <3>10, <3>11
    <3> HIDE DEF Grows
    <3> QED
      BY <3>12
  <2> QED
    BY <1>3, <2>1, <2>2 DEF NextGroups
<1>9. PICK j \in Nat, x \in Nat : Grows(j, x)
  BY <1>8
\* Every place of the groups is an earlier one, or the document's.
<1> DEFINE Old(g, a) == g \in 1..m /\ a \in DOMAIN groups[g] /\ later[g][a] = groups[g][a]
<1>10. \A g \in 1..j : \A a \in DOMAIN later[g] :
         Old(g, a) \/ (g = j /\ a = x + 1 /\ later[g][a] = d)
  <2>1. \A a \in 1..(x + 1) : a \in 1..x \/ a = x + 1
    OBVIOUS
  <2> QED
    BY <1>9, <2>1
<1>11. DOMAIN later = 1..j
  BY <1>9
<1> HIDE DEF Grows
<1>12. ASSUME NEW g \in DOMAIN later, NEW a \in DOMAIN later[g]
       PROVE  \E i \in 1..(n + 1) : later[g][a] = ds[i]
  BY <1>0, <1>1, <1>7, <1>10, <1>11, <1>12
<1>13. ASSUME NEW g \in DOMAIN later, NEW h \in DOMAIN later,
              NEW a \in DOMAIN later[g], NEW b \in DOMAIN later[h],
              later[g][a].content = later[h][b].content
       PROVE  g = h /\ a = b
  <2>1. Old(g, a) \/ (g = j /\ a = x + 1 /\ later[g][a] = d)
    BY <1>10, <1>11
  <2>2. Old(h, b) \/ (h = j /\ b = x + 1 /\ later[h][b] = d)
    BY <1>10, <1>11
  <2>3. CASE Old(g, a) /\ Old(h, b)
    BY <1>4, <1>13, <2>3 DEF GroupsOf
  <2>4. CASE Old(g, a) /\ ~Old(h, b)
    BY <1>7, <1>13, <2>2, <2>4
  <2>5. CASE ~Old(g, a) /\ Old(h, b)
    BY <1>7, <1>13, <2>1, <2>5
  <2>6. CASE ~Old(g, a) /\ ~Old(h, b)
    BY <2>1, <2>2, <2>6
  <2> QED
    BY <2>3, <2>4, <2>5, <2>6
<1>14. GroupsOf(later, ds, n + 1)
  BY <1>5, <1>12, <1>13 DEF GroupsOf
<1> QED
  BY <1>0, <1>3, <1>14

\* groups[n] is what becomes of the first n documents.
OneByOne(groups, ds) ==
  groups[0] = <<>> /\ \A n \in 1..Len(ds) : groups[n] = NextGroups(groups[n - 1], ds[n])

\* Groups are filled document by document.
LEMMA GroupsUnfold ==
  ASSUME NEW ds \in Seq(Documents)
  PROVE  \E groups : OneByOne(groups, ds) /\ Groups(ds) = groups[Len(ds)]
<1>1. PICK m \in Nat : m = Len(ds)
  OBVIOUS
<1> DEFINE U == Seq(Seq(Documents))
           G == [n \in 1..m |-> [x \in U |-> NextGroups(x, ds[n])]]
           Eqn(g) == g = [n \in 0..m |-> IF n = 0 THEN <<>> ELSE NextGroups(g[n - 1], ds[n])]
<1>2. \A n \in 1..m : \A x \in U : NextGroups(x, ds[n]) \in U
  BY <1>1, NextGroupsKeepType
<1>3. <<>> \in U
  OBVIOUS
<1>4. Groups(ds) = (CHOOSE g : Eqn(g))[m]
  BY <1>1 DEF Groups
<1> HIDE DEF U
<1>5. G \in [1..m -> [U -> U]]
  BY <1>2
<1>6. \E f : Recurses(f, m, U, <<>>, G)
  <2> HIDE DEF G
  <2> QED
    BY <1>3, <1>5, Recursion
<1>7. PICK f : Recurses(f, m, U, <<>>, G)
  BY <1>6
<1>8. f \in [0..m -> U] /\ f = [n \in 0..m |-> IF n = 0 THEN <<>> ELSE G[n][f[n - 1]]]
  BY <1>7 DEF Recurses
<1>9. ASSUME NEW n \in 0..m, n # 0 PROVE G[n][f[n - 1]] = NextGroups(f[n - 1], ds[n])
  <2>1. n \in 1..m /\ n - 1 \in 0..m
    BY <1>9
  <2>2. f[n - 1] \in U
    BY <1>8, <2>1
  <2> QED
    BY <2>1, <2>2
<1> HIDE DEF G
<1>10. Eqn(f)
  BY <1>8, <1>9
<1>11. PICK g : g = CHOOSE h : Eqn(h)
  OBVIOUS
<1> HIDE DEF Eqn
<1>12. Eqn(g)
  BY <1>10, <1>11
<1>13. g = [n \in 0..m |-> IF n = 0 THEN <<>> ELSE NextGroups(g[n - 1], ds[n])]
  BY <1>12 DEF Eqn
<1>14. g[0] = <<>> /\ \A n \in 1..m : g[n] = NextGroups(g[n - 1], ds[n])
  <2>1. 0 \in 0..m /\ \A n \in 1..m : n \in 0..m /\ n # 0
    OBVIOUS
  <2> QED
    BY <1>13, <2>1
<1>15. OneByOne(g, ds)
  BY <1>1, <1>14 DEF OneByOne
<1> QED
  BY <1>1, <1>4, <1>11, <1>15

\* The documents of a sequence are each in one place of its groups.
LEMMA GroupsAre ==
  ASSUME NEW ds \in Seq(Documents), DistinctContents(ds)
  PROVE  GroupsOf(Groups(ds), ds, Len(ds))
<1>1. PICK m \in Nat : m = Len(ds)
  OBVIOUS
<1>2. PICK g : OneByOne(g, ds) /\ Groups(ds) = g[m]
  BY <1>1, GroupsUnfold
<1> DEFINE P == {n \in 0..m : GroupsOf(g[n], ds, n)}
<1>3. 0 \in P
  <2>1. GroupsOf(<<>>, ds, 0)
    BY DEF GroupsOf
  <2> QED
    BY <1>2, <2>1 DEF OneByOne
<1>4. ASSUME NEW n \in 0..m, n \in P, n < m PROVE n + 1 \in P
  <2>1. n + 1 \in 1..m /\ (n + 1) - 1 = n /\ n \in Nat
    BY <1>4
  <2>2. GroupsOf(NextGroups(g[n], ds[n + 1]), ds, n + 1)
    BY <1>1, <1>4, <2>1, DocumentIsGrouped
  <2>3. g[n + 1] = NextGroups(g[n], ds[n + 1])
    BY <1>1, <1>2, <2>1 DEF OneByOne
  <2> QED
    BY <2>1, <2>2, <2>3
<1>5. 0..m \subseteq P
  <2> HIDE DEF P
  <2> QED
    BY <1>3, <1>4, IntervalInduction
<1> QED
  BY <1>1, <1>2, <1>5

-----------------------------------------------------------------------------
(* The plan of a brief: build_evidence_plan *)

\* The top of a ranking is taken.
LEMMA BudgetIsAPrefix ==
  ASSUME NEW ranked \in Seq(Documents)
  PROVE  \E n \in Nat : WithinTotalBudget(ranked) = AtMost(ranked, n)
<1> DEFINE Fits(k) == k <= 1 \/ Estimate(AtMost(ranked, k)) <= MaxGroups * GroupLimit
           S == {k \in 0..Len(ranked) : Fits(k)}
<1>1. Len(ranked) \in Nat /\ 0 \in S
  OBVIOUS
<1>2. WithinTotalBudget(ranked) = AtMost(ranked, Max(S))
  BY DEF WithinTotalBudget
<1>3. S \in SUBSET (0..Len(ranked)) /\ S # {}
  BY <1>1
<1> HIDE DEF S
<1>4. PICK n : n = Max(S)
  OBVIOUS
<1>5. n \in S
  BY <1>1, <1>3, <1>4, Greatest
<1>6. n \in 0..Len(ranked)
  BY <1>3, <1>5
<1>7. n \in Nat
  BY <1>1, <1>6
<1> QED
  BY <1>2, <1>4, <1>7

\* What a plan promises of its bundles.
LimitOf(p) == IF p.direct THEN DirectLimit ELSE GroupLimit

PlanOf(p) ==
  /\ p = [direct |-> p.direct, bundles |-> p.bundles]
  /\ p.direct \in BOOLEAN /\ p.bundles \in Seq(Bundles)
  /\ Len(p.bundles) <= MaxGroups /\ (p.direct => Len(p.bundles) = 1)
  /\ \A k \in DOMAIN p.bundles : p.bundles[k].documents # <<>> =>
       p.bundles[k].characters <= LimitOf(p)
  /\ \A g, h \in DOMAIN p.bundles :
       \A a \in DOMAIN p.bundles[g].documents, b \in DOMAIN p.bundles[h].documents :
         p.bundles[g].documents[a].content = p.bundles[h].documents[b].content => g = h /\ a = b

\* The documents of a bundle are among those it is built from.
LEMMA BundleFrom ==
  ASSUME NEW ds \in Seq(Documents), DistinctIds(ToSet(ds)), NEW limit \in Nat
  PROVE  LET bundle == BuildBundle(ds, limit)
         IN  /\ bundle \in Bundles
             /\ bundle.documents # <<>> => bundle.characters <= limit
             /\ DistinctContents(bundle.documents)
             /\ \A a \in DOMAIN bundle.documents : \E i \in 1..Len(ds) : bundle.documents[a] = ds[i]
<1>1. PICK bundle : bundle = BuildBundle(ds, limit)
  OBVIOUS
<1>2. PICK ranked : ranked = RankDocuments(ds)
  OBVIOUS
<1>3. BundleOf(bundle, ranked, Len(ranked), limit)
  BY <1>1, <1>2, BundleIs
<1>4. ranked \in Seq(Documents) /\ \A k \in DOMAIN ranked : ranked[k] \in ToSet(ds)
  BY <1>2, RankingIs
<1>5. \A k \in 1..Len(ranked) : \E i \in 1..Len(ds) : ranked[k] = ds[i]
  <2>1. DOMAIN ranked = 1..Len(ranked) /\ DOMAIN ds = 1..Len(ds)
    BY <1>4
  <2> QED
    BY <1>4, <2>1 DEF ToSet
<1> QED
  BY <1>1, <1>3, <1>5 DEF BundleOf

\* A plan keeps what its bundles promise: no more calls than groups are allowed,
\* no bundle beyond its limit, and every content in one place of one bundle.
LEMMA PlanIs ==
  ASSUME NEW ds \in Seq(Documents), DistinctIds(ToSet(ds))
  PROVE  PlanOf(EvidencePlan(ds))
<1> USE PackingAssumption
<1>0. {DirectLimit, GroupLimit, MaxGroups} \subseteq Nat \ {0}
  OBVIOUS
<1>1. PICK ranked : ranked = RankDocuments(ds)
  OBVIOUS
<1>2. /\ ranked \in Seq(Documents) /\ DistinctContents(ranked)
      /\ \A k \in DOMAIN ranked : ranked[k] \in ToSet(ds)
  BY <1>1, RankingIs
<1>3. PICK planned : planned = WithinTotalBudget(ranked)
  OBVIOUS
<1>4. PICK n \in Nat : planned = AtMost(ranked, n)
  BY <1>2, <1>3, BudgetIsAPrefix
<1>5. /\ planned \in Seq(Documents)
      /\ \A k \in 1..Len(planned) : planned[k] = ranked[k] /\ k \in 1..Len(ranked)
  BY <1>2, <1>4, PrefixElements
<1>6. DOMAIN planned = 1..Len(planned) /\ DOMAIN ranked = 1..Len(ranked)
  BY <1>2, <1>5
<1>7. DistinctContents(planned)
  BY <1>2, <1>5, <1>6 DEF DistinctContents
<1>8. \A k \in 1..Len(planned) : planned[k] \in ToSet(ds)
  BY <1>2, <1>5, <1>6
<1>9. DistinctIds(ToSet(planned))
  <2>1. ToSet(planned) \subseteq ToSet(ds)
    BY <1>6, <1>8 DEF ToSet
  <2> QED
    BY <2>1 DEF DistinctIds
<1>10. PICK plan_ : plan_ = EvidencePlan(ds)
  OBVIOUS
<1>11. CASE Estimate(planned) <= DirectLimit
  <2>1. PICK bundle : bundle = BuildBundle(planned, DirectLimit)
    OBVIOUS
  <2>2. plan_ = [direct |-> TRUE, bundles |-> <<bundle>>]
    BY <1>1, <1>3, <1>10, <1>11, <2>1 DEF EvidencePlan
  <2>3. /\ bundle \in Bundles /\ DistinctContents(bundle.documents)
        /\ bundle.documents # <<>> => bundle.characters <= DirectLimit
    BY <1>0, <1>5, <1>9, <2>1, BundleFrom
  <2>4. PlanOf(plan_)
    <3>1. /\ plan_.direct = TRUE /\ plan_.bundles = <<bundle>> /\ DOMAIN plan_.bundles = {1}
          /\ plan_.bundles[1] = bundle /\ Len(plan_.bundles) = 1 /\ plan_.bundles \in Seq(Bundles)
          /\ plan_ = [direct |-> plan_.direct, bundles |-> plan_.bundles]
      BY <2>2, <2>3
    <3>2. LimitOf(plan_) = DirectLimit
      BY <3>1 DEF LimitOf
    <3>3. \A k \in DOMAIN plan_.bundles : plan_.bundles[k] = bundle /\ k = 1
      BY <3>1
    <3>4. \A g, h \in DOMAIN plan_.bundles :
            \A a \in DOMAIN plan_.bundles[g].documents, b \in DOMAIN plan_.bundles[h].documents :
              plan_.bundles[g].documents[a].content = plan_.bundles[h].documents[b].content
                => g = h /\ a = b
      BY <2>3, <3>3 DEF DistinctContents
    <3>5. Len(plan_.bundles) <= MaxGroups
      BY <1>0, <3>1
    <3>6. \A k \in DOMAIN plan_.bundles : plan_.bundles[k].documents # <<>> =>
            plan_.bundles[k].characters <= LimitOf(plan_)
      BY <2>3, <3>2, <3>3
    <3> QED
      BY <3>1, <3>4, <3>5, <3>6 DEF PlanOf
  <2> QED
    BY <1>10, <2>4
<1>12. CASE ~(Estimate(planned) <= DirectLimit)
  <2>1. PICK all : all = Groups(planned)
    OBVIOUS
  <2>2. GroupsOf(all, planned, Len(planned))
    BY <1>5, <1>7, <2>1, GroupsAre
  <2>3. all \in Seq(Seq(Documents))
    BY <2>2 DEF GroupsOf
  <2>4. PICK groups : groups = PartitionMapGroups(planned)
    OBVIOUS
  <2>5. groups = AtMost(all, MaxGroups)
    BY <2>1, <2>4 DEF PartitionMapGroups
  <2>6. /\ groups \in Seq(Seq(Documents)) /\ Len(groups) <= MaxGroups
        /\ \A g \in 1..Len(groups) : groups[g] = all[g] /\ g \in 1..Len(all)
    <3>1. MaxGroups \in Nat
      BY <1>0
    <3>2. PICK lists : lists = Seq(Documents)
      OBVIOUS
    <3>3. all \in Seq(lists)
      BY <2>3, <3>2
    <3>4. /\ groups \in Seq(lists) /\ Len(groups) <= MaxGroups
          /\ \A g \in 1..Len(groups) : groups[g] = all[g] /\ g \in 1..Len(all)
      BY <2>5, <3>1, <3>3, PrefixElements
    <3> QED
      BY <3>2, <3>4
  <2>7. DOMAIN groups = 1..Len(groups) /\ DOMAIN all = 1..Len(all) /\ Len(groups) \in Nat
    BY <2>3, <2>6
  <2>8. ASSUME NEW g \in 1..Len(groups)
        PROVE  /\ groups[g] \in Seq(Documents) /\ DistinctIds(ToSet(groups[g]))
    <3>1. groups[g] \in Seq(Documents)
      BY <2>6
    <3>2. \A a \in DOMAIN groups[g] : \E i \in 1..Len(planned) : groups[g][a] = planned[i]
      <4>1. groups[g] = all[g] /\ g \in DOMAIN all
        BY <2>6, <2>7
      <4>2. \A a \in DOMAIN all[g] : \E i \in 1..Len(planned) : all[g][a] = planned[i]
        BY <2>2, <4>1 DEF GroupsOf
      <4> QED
        BY <4>1, <4>2
    <3>3. ToSet(groups[g]) \subseteq ToSet(ds)
      BY SMTT(30), <1>8, <3>2 DEF ToSet
    <3> QED
      BY <3>1, <3>3 DEF DistinctIds
  <2> DEFINE bundles == [k \in DOMAIN groups |-> BuildBundle(groups[k], GroupLimit)]
  <2>9. plan_ = [direct |-> FALSE, bundles |-> bundles]
    BY <1>1, <1>3, <1>10, <1>12, <2>4 DEF EvidencePlan
  <2>10. DOMAIN bundles = 1..Len(groups)
    BY <2>7
  <2>11. ASSUME NEW k \in 1..Len(groups)
         PROVE  /\ bundles[k] \in Bundles /\ DistinctContents(bundles[k].documents)
                /\ bundles[k].documents # <<>> => bundles[k].characters <= GroupLimit
                /\ \A a \in DOMAIN bundles[k].documents :
                     \E i \in DOMAIN groups[k] : bundles[k].documents[a] = groups[k][i]
    <3>1. PICK group : group = groups[k]
      OBVIOUS
    <3>2. PICK bundle : bundle = BuildBundle(group, GroupLimit)
      OBVIOUS
    <3>3. bundles[k] = bundle
      BY <2>7, <3>1, <3>2
    <3>4. group \in Seq(Documents) /\ DistinctIds(ToSet(group)) /\ DOMAIN group = 1..Len(group)
      BY <2>8, <3>1
    <3> HIDE DEF bundles
    <3>5. /\ bundle \in Bundles /\ DistinctContents(bundle.documents)
          /\ bundle.documents # <<>> => bundle.characters <= GroupLimit
          /\ \A a \in DOMAIN bundle.documents :
               \E i \in 1..Len(group) : bundle.documents[a] = group[i]
      BY <1>0, <3>2, <3>4, BundleFrom
    <3> QED
      BY <3>1, <3>3, <3>4, <3>5
  <2> HIDE DEF bundles
  <2>12. bundles \in Seq(Bundles) /\ Len(bundles) = Len(groups)
    <3>1. bundles \in [1..Len(groups) -> Bundles]
      BY <2>7, <2>10, <2>11 DEF bundles
    <3> QED
      BY <2>7, <3>1
  <2>13. ASSUME NEW g \in 1..Len(groups), NEW h \in 1..Len(groups),
                NEW a \in DOMAIN bundles[g].documents, NEW b \in DOMAIN bundles[h].documents,
                bundles[g].documents[a].content = bundles[h].documents[b].content
         PROVE  g = h /\ a = b
    <3>1. PICK i \in DOMAIN groups[g] : bundles[g].documents[a] = groups[g][i]
      BY <2>11
    <3>2. PICK j \in DOMAIN groups[h] : bundles[h].documents[b] = groups[h][j]
      BY <2>11
    <3>3. groups[g] = all[g] /\ groups[h] = all[h] /\ g \in DOMAIN all /\ h \in DOMAIN all
      BY <2>6, <2>7
    <3>6. all[g][i].content = all[h][j].content /\ i \in DOMAIN all[g] /\ j \in DOMAIN all[h]
      BY <2>13, <3>1, <3>2, <3>3
    <3>4. g = h
      BY <2>2, <3>3, <3>6 DEF GroupsOf
    <3>5. DistinctContents(bundles[g].documents)
      BY <2>11
    <3> QED
      BY <2>13, <3>4, <3>5 DEF DistinctContents
  <2>14. PlanOf(plan_)
    <3>1. /\ plan_.direct = FALSE /\ plan_.bundles = bundles
          /\ plan_ = [direct |-> plan_.direct, bundles |-> plan_.bundles]
      BY <2>9
    <3>2. LimitOf(plan_) = GroupLimit
      BY <3>1 DEF LimitOf
    <3>3. \A k \in DOMAIN bundles : bundles[k].documents # <<>> =>
            bundles[k].characters <= GroupLimit
      BY <2>10, <2>11
    <3>4. \A g, h \in DOMAIN bundles :
            \A a \in DOMAIN bundles[g].documents, b \in DOMAIN bundles[h].documents :
              bundles[g].documents[a].content = bundles[h].documents[b].content => g = h /\ a = b
      BY <2>10, <2>13
    <3>5. Len(bundles) <= MaxGroups
      BY <2>6, <2>12
    <3>6. \A k \in DOMAIN plan_.bundles : plan_.bundles[k].documents # <<>> =>
            plan_.bundles[k].characters <= LimitOf(plan_)
      BY <3>1, <3>2, <3>3
    <3>7. \A g, h \in DOMAIN plan_.bundles :
            \A a \in DOMAIN plan_.bundles[g].documents, b \in DOMAIN plan_.bundles[h].documents :
              plan_.bundles[g].documents[a].content = plan_.bundles[h].documents[b].content
                => g = h /\ a = b
      BY <3>1, <3>4
    <3>8. plan_.bundles \in Seq(Bundles) /\ Len(plan_.bundles) <= MaxGroups
      BY <2>12, <3>1, <3>5
    <3> QED
      BY <3>1, <3>6, <3>7, <3>8 DEF PlanOf
  <2> QED
    BY <1>10, <2>14
<1> QED
  BY <1>11, <1>12

\* The documents of a plan are those of its bundles, laid end to end.
LEMMA CarriedIs ==
  ASSUME NEW p, p.bundles \in Seq(Bundles)
  PROVE  /\ Carried(p) \in Seq(Documents)
         /\ \A k \in DOMAIN p.bundles : ToSet(p.bundles[k].documents) \subseteq ToSet(Carried(p))
         /\ PlanOf(p) => DistinctContents(Carried(p))
<1> DEFINE seqs == [k \in DOMAIN p.bundles |-> p.bundles[k].documents]
<1>1. PICK m \in Nat : m = Len(p.bundles) /\ DOMAIN p.bundles = 1..m
  OBVIOUS
<1>2. \A k \in 1..m : p.bundles[k] \in Bundles
  BY <1>1
<1>3. \A k \in 1..m : seqs[k] = p.bundles[k].documents /\ seqs[k] \in Seq(Documents)
  BY <1>1, <1>2 DEF Bundles
<1>4. seqs \in [1..m -> Seq(Documents)]
  <2>1. DOMAIN seqs = 1..m /\ seqs = [k \in 1..m |-> seqs[k]]
    BY <1>1
  <2> HIDE DEF seqs
  <2> QED
    BY <1>3, <2>1
<1> DEFINE flat == FlattenSeq(seqs)
<1>5. Carried(p) = flat
  BY DEF Carried
<1> HIDE DEF seqs
<1>6. seqs \in Seq(Seq(Documents)) /\ Len(seqs) = m
  BY <1>4
<1>7. PICK ends : SumsTo(ends, Lengths(seqs))
  BY <1>6, EndsExist
<1>8. EndsOf(ends, seqs)
  BY <1>6, <1>7, EndsAre
<1>9. FlatOf(flat, seqs, ends, m, Documents)
  BY <1>6, <1>8, FlatIs
<1> HIDE DEF flat
<1>10. /\ flat \in Seq(Documents)
       /\ \A g \in 1..m : \A a \in 1..Len(seqs[g]) :
            ends[g - 1] + a \in 1..Len(flat) /\ flat[ends[g - 1] + a] = seqs[g][a]
       /\ \A i \in 1..Len(flat) : \E g \in 1..m : \E a \in 1..Len(seqs[g]) : i = ends[g - 1] + a
  BY <1>9 DEF FlatOf
<1>11. DOMAIN flat = 1..Len(flat) /\ \A g \in 1..m : DOMAIN seqs[g] = 1..Len(seqs[g])
  BY <1>3, <1>10
<1>12. ASSUME NEW k \in 1..m PROVE ToSet(p.bundles[k].documents) \subseteq ToSet(flat)
  <2>1. \A a \in DOMAIN seqs[k] : \E i \in DOMAIN flat : flat[i] = seqs[k][a]
    BY <1>10, <1>11
  <2> QED
    BY <1>3, <2>1 DEF ToSet
<1>13. ASSUME PlanOf(p) PROVE DistinctContents(flat)
  <2> SUFFICES ASSUME NEW i \in 1..Len(flat), NEW k \in 1..Len(flat),
                      flat[i].content = flat[k].content
               PROVE  i = k
    BY <1>11 DEF DistinctContents
  <2>1. PICK g \in 1..m : \E a \in 1..Len(seqs[g]) : i = ends[g - 1] + a
    BY <1>10
  <2>2. PICK a \in 1..Len(seqs[g]) : i = ends[g - 1] + a
    BY <2>1
  <2>3. PICK h \in 1..m : \E b \in 1..Len(seqs[h]) : k = ends[h - 1] + b
    BY <1>10
  <2>4. PICK b \in 1..Len(seqs[h]) : k = ends[h - 1] + b
    BY <2>3
  <2>5. flat[i] = seqs[g][a] /\ flat[k] = seqs[h][b]
    BY <1>10, <2>2, <2>4
  <2>6. /\ a \in DOMAIN p.bundles[g].documents /\ flat[i] = p.bundles[g].documents[a]
        /\ b \in DOMAIN p.bundles[h].documents /\ flat[k] = p.bundles[h].documents[b]
        /\ g \in DOMAIN p.bundles /\ h \in DOMAIN p.bundles
    BY <1>1, <1>3, <1>11, <2>5
  <2>7. g = h /\ a = b
    BY <1>13, <2>6 DEF PlanOf
  <2> QED
    BY <2>2, <2>4, <2>7
<1> QED
  BY <1>1, <1>5, <1>10, <1>12, <1>13

Partials == [cited : SUBSET Documents, characters : Nat]

\* Citations of a sequence are finitely many of its documents.
LEMMA CitedIs ==
  ASSUME NEW sources \in Seq(Documents), NEW refs, Accepted(refs, sources)
  PROVE  /\ Cited(refs, sources) \in SUBSET Documents
         /\ Cited(refs, sources) \subseteq ToSet(sources)
         /\ IsFiniteSet(Cited(refs, sources))
<1>1. refs \subseteq DOMAIN sources /\ DOMAIN sources = 1..Len(sources) /\ Len(sources) \in Nat
  BY DEF Accepted
<1>2. Cited(refs, sources) \in SUBSET Documents /\ Cited(refs, sources) \subseteq ToSet(sources)
  BY <1>1 DEF Cited, ToSet
<1>3. IsFiniteSet(DOMAIN sources)
  BY <1>1, FS_Interval
<1>4. IsFiniteSet(refs)
  BY <1>1, <1>3, FS_Subset
<1>5. [k \in refs |-> sources[k]] \in Surjection(refs, Cited(refs, sources))
  BY DEF Surjection, Cited
<1> QED
  BY <1>2, <1>4, <1>5, FS_Surjection

\* The members of a finite set in some order.
LEMMA SetToSeqIs ==
  ASSUME NEW S, IsFiniteSet(S)
  PROVE  SetToSeq(S) \in Seq(S)
<1>1. Cardinality(S) \in Nat /\ ExistsBijection(1..Cardinality(S), S)
  BY FS_CardinalityType
<1>2. PICK f : f \in Bijection(1..Cardinality(S), S)
  BY <1>1 DEF ExistsBijection
<1>3. f \in [1..Cardinality(S) -> S] /\ IsInjective(f)
  BY <1>2 DEF Bijection, Injection, IsInjective
<1>4. PICK s : s = SetToSeq(S)
  OBVIOUS
<1>5. s \in [1..Cardinality(S) -> S]
  BY <1>3, <1>4 DEF SetToSeq
<1> QED
  BY <1>1, <1>4, <1>5

\* What the reducer may cite was cited by a partial brief.
LEMMA ReducerSourcesAre ==
  ASSUME NEW ps \in Seq(Partials), \A k \in DOMAIN ps : IsFiniteSet(ps[k].cited)
  PROVE  LET sources == FlattenSeq([k \in DOMAIN ps |-> SetToSeq(ps[k].cited)])
         IN  /\ sources \in Seq(Documents)
             /\ ToSet(sources) \subseteq UNION {ps[k].cited : k \in DOMAIN ps}
<1> DEFINE seqs == [k \in DOMAIN ps |-> SetToSeq(ps[k].cited)]
           flat == FlattenSeq(seqs)
<1>1. PICK m \in Nat : m = Len(ps) /\ DOMAIN ps = 1..m
  OBVIOUS
<1>2. \A k \in 1..m : ps[k].cited \in SUBSET Documents /\ IsFiniteSet(ps[k].cited)
  <2> SUFFICES ASSUME NEW k \in 1..m
               PROVE  ps[k].cited \in SUBSET Documents /\ IsFiniteSet(ps[k].cited)
    OBVIOUS
  <2>1. ps[k] \in Partials /\ k \in DOMAIN ps
    BY <1>1
  <2> QED
    BY <2>1 DEF Partials
<1>3. \A k \in 1..m : seqs[k] = SetToSeq(ps[k].cited) /\ seqs[k] \in Seq(ps[k].cited)
  BY <1>1, <1>2, SetToSeqIs
<1>4. DOMAIN seqs = 1..m /\ seqs = [k \in 1..m |-> seqs[k]]
  BY <1>1
<1> HIDE DEF seqs
<1>5. \A k \in 1..m : seqs[k] \in Seq(Documents)
  BY <1>2, <1>3
<1>6. seqs \in Seq(Seq(Documents)) /\ Len(seqs) = m
  <2>1. seqs \in [1..m -> Seq(Documents)]
    BY <1>4, <1>5
  <2> QED
    BY <2>1
<1>7. PICK ends : SumsTo(ends, Lengths(seqs))
  BY <1>6, EndsExist
<1>8. FlatOf(flat, seqs, ends, m, Documents)
  BY <1>6, <1>7, EndsAre, FlatIs
<1> HIDE DEF flat
<1>9. ASSUME NEW i \in DOMAIN flat PROVE \E k \in DOMAIN ps : flat[i] \in ps[k].cited
  <2>1. flat \in Seq(Documents) /\ i \in 1..Len(flat)
    BY <1>8 DEF FlatOf
  <2>2. PICK g \in 1..m : \E a \in 1..Len(seqs[g]) : i = ends[g - 1] + a
    BY <1>8, <2>1 DEF FlatOf
  <2>3. PICK a \in 1..Len(seqs[g]) : i = ends[g - 1] + a
    BY <2>2
  <2>4. flat[i] = seqs[g][a]
    BY <1>8, <2>3 DEF FlatOf
  <2>5. seqs[g][a] \in ps[g].cited
    BY <1>3
  <2> QED
    BY <1>1, <2>4, <2>5
<1>10. flat \in Seq(Documents)
  BY <1>8 DEF FlatOf
<1> QED
  BY <1>9, <1>10 DEF ToSet, flat, seqs

-----------------------------------------------------------------------------
(* Runs of documents and their estimates *)

\* The documents of ds after the first i, up to the k-th.
Segment(ds, i, k) == [a \in 1..(k - i) |-> ds[i + a]]

Estimates(ds) == [k \in DOMAIN ds |-> EstimatedCharacters(ds[k])]

\* What is estimated of a document is within the limit of an excerpt.
LEMMA EstimateOfOne ==
  ASSUME NEW d \in Documents
  PROVE  EstimatedCharacters(d) \in 0..MaxPerDocument
BY DocumentFields, PackingAssumption DEF EstimatedCharacters, Least

\* A run is a sequence of some of the documents.
LEMMA SegmentIs ==
  ASSUME NEW ds \in Seq(Documents), NEW i \in 0..Len(ds), NEW k \in 0..Len(ds), i <= k
  PROVE  /\ Segment(ds, i, k) \in Seq(Documents) /\ Len(Segment(ds, i, k)) = k - i
         /\ \A a \in 1..(k - i) : Segment(ds, i, k)[a] = ds[i + a] /\ i + a \in 1..Len(ds)
<1>1. \A a \in 1..(k - i) : i + a \in 1..Len(ds) /\ ds[i + a] \in Documents
  OBVIOUS
<1>2. k - i \in Nat
  OBVIOUS
<1> QED
  BY <1>1, <1>2 DEF Segment

\* The estimates of a sequence are numbers.
LEMMA EstimatesAre ==
  ASSUME NEW ds \in Seq(Documents)
  PROVE  /\ Estimates(ds) \in Seq(Int) /\ Len(Estimates(ds)) = Len(ds)
         /\ \A k \in 1..Len(ds) : /\ Estimates(ds)[k] = EstimatedCharacters(ds[k])
                                  /\ Estimates(ds)[k] \in 0..MaxPerDocument
<1>1. DOMAIN ds = 1..Len(ds) /\ \A k \in 1..Len(ds) : ds[k] \in Documents
  OBVIOUS
<1>2. \A k \in 1..Len(ds) : EstimatedCharacters(ds[k]) \in 0..MaxPerDocument
  BY <1>1, EstimateOfOne
<1>3. MaxPerDocument \in Nat
  BY PackingAssumption
<1> QED
  BY <1>1, <1>2, <1>3 DEF Estimates

\* The estimate of a run is a difference of subtotals.
LEMMA SegmentEstimate ==
  ASSUME NEW ds \in Seq(Documents), NEW total, SumsTo(total, Estimates(ds)),
         NEW i \in 0..Len(ds), NEW k \in 0..Len(ds), i <= k
  PROVE  Estimate(Segment(ds, i, k)) = total[k] - total[i]
<1>1. PICK s \in Seq(Documents) : s = Segment(ds, i, k)
  BY SegmentIs
<1>2. PICK m \in Nat : m = k - i
  OBVIOUS
<1>3. Len(s) = m /\ \A a \in 1..m : s[a] = ds[i + a] /\ i + a \in 1..Len(ds)
  BY <1>1, <1>2, SegmentIs
<1>4. PICK t : SumsTo(t, Estimates(s)) /\ Sum(Estimates(s)) = t[m]
  BY <1>3, EstimatesAre, SumIs
<1>5. /\ t \in [0..m -> Int] /\ t[0] = 0
      /\ \A a \in 1..m : t[a] = t[a - 1] + EstimatedCharacters(s[a])
  BY <1>3, <1>4, EstimatesAre DEF SumsTo
<1>6. /\ total \in [0..Len(ds) -> Int]
      /\ \A a \in 1..Len(ds) : total[a] = total[a - 1] + EstimatedCharacters(ds[a])
  BY EstimatesAre DEF SumsTo
<1> DEFINE P == {a \in 0..m : t[a] = total[i + a] - total[i]}
<1>7. 0 \in P
  BY <1>5, <1>6
<1>8. ASSUME NEW a \in 0..m, a \in P, a < m PROVE a + 1 \in P
  <2>1. a + 1 \in 1..m /\ (a + 1) - 1 = a /\ i + (a + 1) \in 1..Len(ds)
    BY <1>3, <1>8
  <2>2. t[a + 1] = t[a] + EstimatedCharacters(s[a + 1])
    BY <1>5, <2>1
  <2>3. (i + (a + 1)) - 1 = i + a /\ i + a \in 0..Len(ds)
    BY <2>1
  <2>4. total[i + (a + 1)] = total[i + a] + EstimatedCharacters(ds[i + (a + 1)])
    BY <1>6, <2>1, <2>3
  <2>5. s[a + 1] = ds[i + (a + 1)] /\ EstimatedCharacters(s[a + 1]) \in Int
    <3>1. s[a + 1] = ds[i + (a + 1)] /\ s[a + 1] \in Documents
      BY <1>3, <2>1
    <3>2. EstimatedCharacters(s[a + 1]) \in 0..MaxPerDocument
      BY <3>1, EstimateOfOne
    <3> QED
      BY <3>1, <3>2
  <2>6. t[a] = total[i + a] - total[i] /\ total[i + a] \in Int /\ total[i] \in Int
    BY <1>6, <1>8, <2>3
  <2>7. t[a + 1] = total[i + (a + 1)] - total[i]
    BY <2>2, <2>4, <2>5, <2>6
  <2> QED
    BY <2>1, <2>7
<1>9. 0..m \subseteq P
  <2> HIDE DEF P
  <2> QED
    BY <1>7, <1>8, IntervalInduction
<1>10. t[m] = total[i + m] - total[i] /\ i + m = k
  BY <1>2, <1>9
<1>11. Estimate(s) = Sum(Estimates(s))
  BY DEF Estimate, Estimates
<1> QED
  BY <1>1, <1>4, <1>10, <1>11

\* One more of a number.
LEMMA OneMore ==
  ASSUME NEW n \in Int, NEW c \in Int
  PROVE  (n + 1) * c = n * c + c
OBVIOUS

\* Multiples of a number grow with it.
LEMMA MultiplesGrow ==
  ASSUME NEW a \in Nat, NEW b \in Nat, a <= b, NEW c \in Nat
  PROVE  a * c <= b * c /\ a * c \in Nat /\ b * c \in Nat
OBVIOUS

\* Subtotals of estimates grow by no more than an excerpt each.
LEMMA SubtotalsGrow ==
  ASSUME NEW ds \in Seq(Documents), NEW total, SumsTo(total, Estimates(ds)),
         NEW i \in 0..Len(ds), NEW k \in 0..Len(ds), i <= k
  PROVE  total[i] <= total[k] /\ total[k] <= total[i] + (k - i) * MaxPerDocument
<1>1. MaxPerDocument \in Nat
  BY PackingAssumption
<1>2. /\ total \in [0..Len(ds) -> Int]
      /\ \A a \in 1..Len(ds) : /\ total[a] = total[a - 1] + EstimatedCharacters(ds[a])
                               /\ EstimatedCharacters(ds[a]) \in 0..MaxPerDocument
  BY EstimatesAre DEF SumsTo
<1>3. PICK m \in Nat : m = k - i
  OBVIOUS
<1> DEFINE P == {a \in 0..m : total[i] <= total[i + a] /\
                              total[i + a] <= total[i] + a * MaxPerDocument}
<1>4. 0 \in P
  <2>1. i + 0 = i /\ total[i] \in Int /\ 0 * MaxPerDocument = 0
    BY <1>1, <1>2
  <2> QED
    BY <1>3, <2>1
<1>5. ASSUME NEW a \in 0..m, a \in P, a < m PROVE a + 1 \in P
  <2>1. /\ a + 1 \in 0..m /\ i + (a + 1) \in 1..Len(ds) /\ (i + (a + 1)) - 1 = i + a
        /\ i + a \in 0..Len(ds) /\ i + (a + 1) \in 0..Len(ds)
    BY <1>3, <1>5
  <2>2. PICK e \in 0..MaxPerDocument : total[i + (a + 1)] = total[i + a] + e
    BY <1>2, <2>1
  <2>3. {total[i], total[i + a], total[i + (a + 1)]} \subseteq Int
    BY <1>2, <2>1
  <2>4. (a + 1) * MaxPerDocument = a * MaxPerDocument + MaxPerDocument
    BY <1>1, OneMore
  <2>5. a * MaxPerDocument \in Nat
    BY <1>1, MultiplesGrow
  <2>6. total[i] <= total[i + a] /\ total[i + a] <= total[i] + a * MaxPerDocument
    BY <1>5
  <2>7. total[i] <= total[i + (a + 1)]
    BY <1>1, <2>2, <2>3, <2>6
  <2>8. total[i + (a + 1)] <= total[i] + (a + 1) * MaxPerDocument
    BY <1>1, <2>2, <2>3, <2>4, <2>5, <2>6
  <2> QED
    BY <2>1, <2>7, <2>8
<1>6. 0..m \subseteq P
  <2> HIDE DEF P
  <2> QED
    BY <1>4, <1>5, IntervalInduction
<1> QED
  BY <1>3, <1>6

\* The groups are consecutive runs of the first n documents: where each ends.
Consecutive(groups, ends, ds, n) ==
  /\ groups \in Seq(Seq(Documents))
  /\ ends \in [0..Len(groups) -> 0..n] /\ ends[0] = 0 /\ ends[Len(groups)] = n
  /\ \A g \in 1..Len(groups) :
       ends[g - 1] < ends[g] /\ groups[g] = Segment(ds, ends[g - 1], ends[g])

\* Each fits its limit, and each but the last is full up to an excerpt.
FilledInTurn(groups, ends, total) ==
  \A g \in 1..Len(groups) :
    /\ total[ends[g]] - total[ends[g - 1]] <= GroupLimit
    /\ g < Len(groups) => total[ends[g]] - total[ends[g - 1]] + MaxPerDocument > GroupLimit

\* A run grows by the document after it.
LEMMA SegmentGrows ==
  ASSUME NEW ds \in Seq(Documents), NEW i \in 0..Len(ds), NEW n \in 0..Len(ds), i <= n,
         n < Len(ds)
  PROVE  Append(Segment(ds, i, n), ds[n + 1]) = Segment(ds, i, n + 1)
<1>0. n + 1 \in 0..Len(ds) /\ i <= n + 1 /\ n + 1 \in Nat
  OBVIOUS
<1>1. PICK s \in Seq(Documents) : s = Segment(ds, i, n)
  BY SegmentIs
<1>2. PICK t \in Seq(Documents) : t = Segment(ds, i, n + 1)
  BY <1>0, SegmentIs
<1>3. Len(s) = n - i /\ \A a \in 1..(n - i) : s[a] = ds[i + a]
  BY <1>1, SegmentIs
<1>4. Len(t) = (n + 1) - i /\ \A a \in 1..((n + 1) - i) : t[a] = ds[i + a]
  BY <1>0, <1>2, SegmentIs
<1>5. ds[n + 1] \in Documents
  OBVIOUS
<1>6. PICK u \in Seq(Documents) : u = Append(s, ds[n + 1])
  <2>1. Append(s, ds[n + 1]) \in Seq(Documents)
    BY <1>5
  <2> QED
    BY <2>1
<1>7. /\ Len(u) = (n + 1) - i /\ u[(n + 1) - i] = ds[n + 1]
      /\ \A a \in 1..(n - i) : u[a] = s[a]
  BY <1>3, <1>5, <1>6
<1>8. \A a \in 1..((n + 1) - i) : u[a] = t[a]
  <2> SUFFICES ASSUME NEW a \in 1..((n + 1) - i) PROVE u[a] = t[a]
    OBVIOUS
  <2>1. CASE a \in 1..(n - i)
    BY <1>3, <1>4, <1>7, <2>1
  <2>2. CASE a = (n + 1) - i
    <3>1. i + a = n + 1
      BY <2>2
    <3> QED
      BY <1>4, <1>7, <2>2, <3>1
  <2>3. a \in 1..(n - i) \/ a = (n + 1) - i
    BY <1>0
  <2> QED
    BY <2>1, <2>2, <2>3, Zenon
<1>9. u = t
  BY <1>4, <1>7, <1>8
<1> QED
  BY <1>1, <1>2, <1>6, <1>9

\* The next document extends the last run, or starts one.
LEMMA NextSegment ==
  ASSUME NEW ds \in Seq(Documents), NEW total, SumsTo(total, Estimates(ds)),
         NEW n \in Nat, n < Len(ds), NEW groups, NEW ends,
         Consecutive(groups, ends, ds, n), FilledInTurn(groups, ends, total)
  PROVE  \E later : /\ Consecutive(NextGroups(groups, ds[n + 1]), later, ds, n + 1)
                    /\ FilledInTurn(NextGroups(groups, ds[n + 1]), later, total)
<1> DEFINE d == ds[n + 1]
           e == EstimatedCharacters(d)
<1>1. /\ groups \in Seq(Seq(Documents))
      /\ ends \in [0..Len(groups) -> 0..n] /\ ends[0] = 0 /\ ends[Len(groups)] = n
      /\ \A g \in 1..Len(groups) :
           ends[g - 1] < ends[g] /\ groups[g] = Segment(ds, ends[g - 1], ends[g])
  BY DEF Consecutive
<1>2. PICK m \in Nat : m = Len(groups)
  BY <1>1
<1>3. d \in Documents /\ n + 1 \in 1..Len(ds) /\ n \in 0..Len(ds) /\ (n + 1) - 1 = n
  OBVIOUS
<1>4. e \in 0..MaxPerDocument /\ MaxPerDocument \in Nat /\ GroupLimit \in Nat
      /\ MaxPerDocument <= GroupLimit
  BY <1>3, EstimateOfOne, PackingAssumption
<1>5. /\ total \in [0..Len(ds) -> Int]
      /\ total[n + 1] = total[n] + e
  BY <1>3, EstimatesAre DEF SumsTo
<1> HIDE DEF e, d
<1>6. CASE groups # <<>> /\ Estimate(Last(groups)) + e <= GroupLimit
  <2>1. m >= 1 /\ m \in 1..m /\ m - 1 \in 0..m
    BY <1>1, <1>2, <1>6
  <2>2. PICK i \in 0..n : i = ends[m - 1]
    BY <1>1, <1>2, <2>1
  <2>3. groups[m] = Segment(ds, i, n) /\ i < n
    BY <1>1, <1>2, <2>1, <2>2
  <2>4. Last(groups) = Segment(ds, i, n)
    BY <1>2, <2>3 DEF Last
  <2>5. i \in 0..Len(ds) /\ i <= n
    BY <1>3, <2>2, <2>3
  <2>6. Estimate(Last(groups)) = total[n] - total[i]
    BY <1>3, <2>4, <2>5, SegmentEstimate
  <2>7. Append(Last(groups), d) = Segment(ds, i, n + 1)
    BY <1>3, <2>4, <2>5, SegmentGrows DEF d
  <2>8. PICK after : after = NextGroups(groups, d)
    OBVIOUS
  <2>9. after = Append(Front(groups), Segment(ds, i, n + 1))
    BY <1>6, <2>7, <2>8 DEF NextGroups, e
  <2>10. Segment(ds, i, n + 1) \in Seq(Documents)
    BY <1>3, <2>5, SegmentIs
  <2>11. /\ after \in Seq(Seq(Documents)) /\ Len(after) = m /\ after[m] = Segment(ds, i, n + 1)
         /\ \A g \in 1..m : g # m => after[g] = groups[g]
    <3>1. PICK front : front = Front(groups)
      OBVIOUS
    <3>2. PICK lists : lists = Seq(Documents)
      OBVIOUS
    <3>3. groups \in Seq(lists) /\ Segment(ds, i, n + 1) \in lists
      BY <1>1, <2>10, <3>2
    <3>4. /\ front \in Seq(lists) /\ Len(front) = m - 1
          /\ \A g \in 1..(m - 1) : front[g] = groups[g]
      BY <1>2, <2>1, <3>1, <3>3 DEF Front
    <3>5. /\ after \in Seq(lists) /\ Len(after) = m /\ after[m] = Segment(ds, i, n + 1)
          /\ \A g \in 1..(m - 1) : after[g] = front[g]
      BY <2>1, <2>9, <3>1, <3>3, <3>4
    <3> QED
      BY <3>2, <3>4, <3>5
  <2> DEFINE later == [g \in 0..m |-> IF g = m THEN n + 1 ELSE ends[g]]
  <2>12. /\ later \in [0..m -> 0..(n + 1)] /\ later[0] = 0 /\ later[m] = n + 1
         /\ \A g \in 0..m : g # m => later[g] = ends[g]
    BY <1>1, <1>2, <1>3, <2>1
  <2> HIDE DEF later
  <2>13. \A g \in 1..m : g - 1 \in 0..m /\ g - 1 # m /\ g \in 0..m
    OBVIOUS
  <2>14. ASSUME NEW g \in 1..m
         PROVE  /\ later[g - 1] < later[g]
                /\ after[g] = Segment(ds, later[g - 1], later[g])
                /\ total[later[g]] - total[later[g - 1]] <= GroupLimit
                /\ g < m => total[later[g]] - total[later[g - 1]] + MaxPerDocument > GroupLimit
    <3>1. later[g - 1] = ends[g - 1] /\ ends[g - 1] \in 0..n
      BY <1>1, <1>2, <2>12, <2>13
    <3>2. CASE g = m
      <4>1. later[g - 1] = i /\ later[g] = n + 1
        BY <2>2, <2>12, <3>1, <3>2
      <4>2. total[n + 1] - total[i] <= GroupLimit
        BY <1>3, <1>4, <1>5, <1>6, <2>5, <2>6
      <4> QED
        BY <2>2, <2>11, <3>2, <4>1, <4>2
    <3>3. CASE g # m
      <4>1. later[g] = ends[g] /\ after[g] = groups[g] /\ g < m
        BY <2>11, <2>12, <2>13, <3>3
      <4> QED
        BY <1>1, <1>2, <3>1, <4>1 DEF FilledInTurn
    <3> QED
      BY <3>2, <3>3
  <2>15. Consecutive(after, later, ds, n + 1)
    BY <2>11, <2>12, <2>14 DEF Consecutive
  <2>16. FilledInTurn(after, later, total)
    BY <2>11, <2>14 DEF FilledInTurn
  <2> QED
    BY <2>8, <2>15, <2>16 DEF d
<1>7. CASE ~(groups # <<>> /\ Estimate(Last(groups)) + e <= GroupLimit)
  <2>1. PICK after : after = NextGroups(groups, d)
    OBVIOUS
  <2>2. after = Append(groups, <<d>>)
    BY <1>7, <2>1 DEF NextGroups, e
  <2>3. Segment(ds, n, n + 1) = <<d>>
    <3>0. n + 1 \in 0..Len(ds) /\ n <= n + 1 /\ (n + 1) - n = 1 /\ 1 \in 1..1
      BY <1>3
    <3>1. PICK s \in Seq(Documents) : s = Segment(ds, n, n + 1)
      BY <1>3, <3>0, SegmentIs
    <3>2. Len(s) = (n + 1) - n /\ \A a \in 1..((n + 1) - n) : s[a] = ds[n + a]
      BY <1>3, <3>0, <3>1, SegmentIs
    <3>3. Len(s) = 1 /\ s[1] = d
      BY <3>0, <3>2 DEF d
    <3> QED
      BY <3>1, <3>3
  <2>4. /\ after \in Seq(Seq(Documents)) /\ Len(after) = m + 1
        /\ after[m + 1] = Segment(ds, n, n + 1)
        /\ \A g \in 1..m : after[g] = groups[g]
    <3>1. PICK lists : lists = Seq(Documents)
      OBVIOUS
    <3>2. groups \in Seq(lists) /\ <<d>> \in lists
      BY <1>1, <1>3, <3>1
    <3>3. /\ after \in Seq(lists) /\ Len(after) = m + 1 /\ after[m + 1] = <<d>>
          /\ \A g \in 1..m : after[g] = groups[g]
      BY <1>2, <2>2, <3>2
    <3> QED
      BY <2>3, <3>1, <3>3
  <2> DEFINE later == [g \in 0..(m + 1) |-> IF g = m + 1 THEN n + 1 ELSE ends[g]]
  <2>5. /\ later \in [0..(m + 1) -> 0..(n + 1)] /\ later[0] = 0 /\ later[m + 1] = n + 1
        /\ \A g \in 0..m : later[g] = ends[g]
    BY <1>1, <1>2, <1>3
  <2> HIDE DEF later
  <2>6. m >= 1 => total[n] - total[ends[m - 1]] + MaxPerDocument > GroupLimit
    <3> SUFFICES ASSUME m >= 1
                 PROVE  total[n] - total[ends[m - 1]] + MaxPerDocument > GroupLimit
      OBVIOUS
    <3>1. groups # <<>> /\ m \in 1..m /\ m - 1 \in 0..m
      BY <1>2
    <3>2. PICK i \in 0..n : i = ends[m - 1]
      BY <1>1, <1>2, <3>1
    <3>3. groups[m] = Segment(ds, i, n) /\ i < n
      BY <1>1, <1>2, <3>1, <3>2
    <3>4. Last(groups) = Segment(ds, i, n)
      BY <1>2, <3>3 DEF Last
    <3>5. i \in 0..Len(ds) /\ i <= n
      BY <1>3, <3>2, <3>3
    <3>6. Estimate(Last(groups)) = total[n] - total[i]
      BY <1>3, <3>4, <3>5, SegmentEstimate
    <3>7. total[n] \in Int /\ total[i] \in Int
      BY <1>3, <1>5, <3>5
    <3>8. ~(Estimate(Last(groups)) + e <= GroupLimit)
      BY <1>7, <3>1
    <3> QED
      BY <1>4, <3>2, <3>6, <3>7, <3>8
  <2>7. ASSUME NEW g \in 1..(m + 1)
        PROVE  /\ later[g - 1] < later[g]
               /\ after[g] = Segment(ds, later[g - 1], later[g])
               /\ total[later[g]] - total[later[g - 1]] <= GroupLimit
               /\ g < m + 1 =>
                    total[later[g]] - total[later[g - 1]] + MaxPerDocument > GroupLimit
    <3>1. CASE g = m + 1
      <4>1. later[g - 1] = n /\ later[g] = n + 1
        BY <1>1, <1>2, <2>5, <3>1
      <4>2. total[n + 1] - total[n] <= GroupLimit
        BY <1>3, <1>4, <1>5
      <4> QED
        BY <2>4, <3>1, <4>1, <4>2
    <3>2. CASE g # m + 1
      <4>1. g \in 1..m /\ g - 1 \in 0..m /\ g \in 0..m
        BY <3>2
      <4>2. later[g - 1] = ends[g - 1] /\ later[g] = ends[g] /\ after[g] = groups[g]
        BY <2>4, <2>5, <4>1
      <4>3. total[ends[g]] - total[ends[g - 1]] + MaxPerDocument > GroupLimit
        <5>1. CASE g = m
          BY <1>1, <1>2, <2>6, <4>1, <5>1
        <5>2. CASE g # m
          BY <1>2, <4>1, <5>2 DEF FilledInTurn
        <5> QED
          BY <5>1, <5>2
      <4> QED
        BY <1>1, <1>2, <4>1, <4>2, <4>3 DEF FilledInTurn
    <3> QED
      BY <3>1, <3>2
  <2>8. Consecutive(after, later, ds, n + 1)
    BY <2>4, <2>5, <2>7 DEF Consecutive
  <2>9. FilledInTurn(after, later, total)
    BY <2>4, <2>7 DEF FilledInTurn
  <2> QED
    BY <2>1, <2>8, <2>9 DEF d
<1> QED
  BY <1>6, <1>7

\* The groups of a sequence are consecutive runs of it.
LEMMA GroupsAreSegments ==
  ASSUME NEW ds \in Seq(Documents), NEW total, SumsTo(total, Estimates(ds))
  PROVE  \E ends : /\ Consecutive(Groups(ds), ends, ds, Len(ds))
                   /\ FilledInTurn(Groups(ds), ends, total)
<1>1. PICK m \in Nat : m = Len(ds)
  OBVIOUS
<1>2. PICK g : OneByOne(g, ds) /\ Groups(ds) = g[m]
  BY <1>1, GroupsUnfold
<1> DEFINE Good(gs, n) == \E ends : Consecutive(gs, ends, ds, n) /\ FilledInTurn(gs, ends, total)
           P == {n \in 0..m : Good(g[n], n)}
<1>3. 0 \in P
  <2>1. Consecutive(<<>>, [k \in 0..0 |-> 0], ds, 0)
    BY DEF Consecutive
  <2>2. FilledInTurn(<<>>, [k \in 0..0 |-> 0], total)
    BY DEF FilledInTurn
  <2>3. g[0] = <<>>
    BY <1>2 DEF OneByOne
  <2> QED
    BY <2>1, <2>2, <2>3
<1>4. ASSUME NEW n \in 0..m, n \in P, n < m PROVE n + 1 \in P
  <2>1. n + 1 \in 1..m /\ (n + 1) - 1 = n /\ n \in Nat
    BY <1>4
  <2>2. PICK ends : Consecutive(g[n], ends, ds, n) /\ FilledInTurn(g[n], ends, total)
    BY <1>4
  <2>3. Good(NextGroups(g[n], ds[n + 1]), n + 1)
    BY <1>1, <1>4, <2>1, <2>2, NextSegment
  <2>4. g[n + 1] = NextGroups(g[n], ds[n + 1])
    BY <1>1, <1>2, <2>1 DEF OneByOne
  <2> HIDE DEF Good
  <2> QED
    BY <2>1, <2>3, <2>4
<1>5. 0..m \subseteq P
  <2> HIDE DEF P
  <2> QED
    BY <1>3, <1>4, IntervalInduction
<1>6. m \in P
  <2> HIDE DEF P
  <2> QED
    BY <1>5
<1> QED
  BY <1>1, <1>2, <1>6

-----------------------------------------------------------------------------
(* A run of the ranking is ranked already *)

\* What is known of the documents of a ranking, and of every run of it.
RankedDocuments(s) ==
  /\ s \in Seq(Documents) /\ Len(s) <= MaxDocuments
  /\ BestFirst(s) /\ DistinctContents(s) /\ DistinctIds(ToSet(s))
  /\ \A k \in DOMAIN s : HasText(s[k])

\* Two sequences of the same documents, each best first, are the same.
LEMMA OneOrder ==
  ASSUME NEW D \in SUBSET Documents, DistinctIds(D), NEW n \in Nat,
         NEW s \in [1..n -> D], NEW t \in [1..n -> D],
         BestFirst(s), BestFirst(t),
         \A d \in D : \E k \in 1..n : s[k] = d,
         \A d \in D : \E k \in 1..n : t[k] = d
  PROVE  s = t
<1>1. DOMAIN s = 1..n /\ DOMAIN t = 1..n
  OBVIOUS
<1> SUFFICES ASSUME s # t PROVE FALSE
  OBVIOUS
<1>2. {k \in 1..n : s[k] # t[k]} \in SUBSET Nat /\ {k \in 1..n : s[k] # t[k]} # {}
  <2>1. s = [k \in 1..n |-> s[k]] /\ t = [k \in 1..n |-> t[k]]
    OBVIOUS
  <2>2. \E k \in 1..n : s[k] # t[k]
    BY <2>1, Zenon
  <2>3. {k \in 1..n : s[k] # t[k]} # {}
    BY <2>2, Zenon
  <2>4. {k \in 1..n : s[k] # t[k]} \in SUBSET Nat
    OBVIOUS
  <2> QED
    BY <2>3, <2>4, Zenon
<1>3. PICK k \in {k \in 1..n : s[k] # t[k]} : \A i \in {i \in 1..n : s[i] # t[i]} : k <= i
  BY <1>2, LeastExists
<1>4. k \in 1..n /\ s[k] # t[k] /\ \A i \in 1..n : i < k => s[i] = t[i]
  BY <1>3
<1>5. PICK j \in 1..n : t[j] = s[k]
  BY <1>4
<1>6. PICK i \in 1..n : s[i] = t[k]
  BY <1>4
<1>7. /\ \A a, b \in 1..n : a < b => Outranks(s[a], s[b])
      /\ \A a, b \in 1..n : a < b => Outranks(t[a], t[b])
  BY <1>1 DEF BestFirst
<1>8. \A d, e \in D : Outranks(d, e) => ~Outranks(e, d)
  BY RankingIsAnOrder
<1>9. \A d \in D : ~Outranks(d, d)
  BY RankingIsAnOrder
<1>10. k < j
  <2>1. j # k
    BY <1>4, <1>5
  <2>2. CASE j < k
    <3>1. s[j] = s[k] /\ Outranks(s[j], s[k]) /\ s[k] \in D
      BY <1>4, <1>5, <1>7, <2>2
    <3> QED
      BY <1>9, <3>1
  <2> QED
    BY <1>4, <2>1, <2>2
<1>11. k < i
  <2>1. i # k
    BY <1>4, <1>6
  <2>2. CASE i < k
    <3>1. t[i] = t[k] /\ Outranks(t[i], t[k]) /\ t[k] \in D
      BY <1>4, <1>6, <1>7, <2>2
    <3> QED
      BY <1>9, <3>1
  <2> QED
    BY <1>4, <2>1, <2>2
<1>12. Outranks(t[k], s[k]) /\ Outranks(s[k], t[k]) /\ s[k] \in D /\ t[k] \in D
  BY <1>4, <1>5, <1>6, <1>7, <1>10, <1>11
<1> QED
  BY <1>8, <1>12

\* Ranking changes nothing of what is ranked.
LEMMA RankedStays ==
  ASSUME NEW s, RankedDocuments(s)
  PROVE  RankDocuments(s) = s
<1> USE PackingAssumption
<1> DEFINE D == ToSet(s)
           o == InOrder(D)
<1>1. PICK n \in Nat : n = Len(s) /\ DOMAIN s = 1..n
  BY DEF RankedDocuments
<1>2. /\ s \in Seq(Documents) /\ n <= MaxDocuments /\ MaxDocuments \in Nat
      /\ BestFirst(s) /\ DistinctContents(s) /\ DistinctIds(D)
  BY <1>1 DEF RankedDocuments
<1>3. D = {s[k] : k \in 1..n}
  BY <1>1 DEF ToSet
<1>4. D \in SUBSET Documents /\ s \in [1..n -> D] /\ \A d \in D : \E k \in 1..n : s[k] = d
  BY <1>1, <1>2, <1>3
<1>5. {d \in D : HasText(d)} = D
  BY <1>1, <1>3 DEF RankedDocuments
<1> HIDE DEF D
<1>6. Distinct(D) = D
  <2>1. ASSUME NEW d \in D, NEW e \in D, e.content = d.content PROVE ~Outranks(e, d)
    <3>1. PICK i \in 1..n : s[i] = d
      BY <1>4
    <3>2. PICK k \in 1..n : s[k] = e
      BY <1>4
    <3>3. i = k
      BY <1>1, <1>2, <2>1, <3>1, <3>2 DEF DistinctContents
    <3> QED
      BY <1>2, <1>4, <3>1, <3>2, <3>3, RankingIsAnOrder
  <2> QED
    BY <2>1 DEF Distinct
<1>7. RankDocuments(s) = AtMost(o, MaxDocuments)
  BY <1>5, <1>6 DEF RankDocuments, D
<1>8. IsFiniteSet(D) /\ Cardinality(D) = n
  <2>1. IsFiniteSet(1..n) /\ Cardinality(1..n) = n
    <3>1. /\ IsFiniteSet(1..n)
          /\ Cardinality(1..n) = IF 1 > n THEN 0 ELSE n - 1 + 1
      BY 1 \in Int, n \in Int, FS_Interval
    <3> QED
      BY <3>1
  <2>2. \A i, k \in 1..n : s[i] = s[k] => i = k
    BY <1>1, <1>2 DEF DistinctContents
  <2>3. s \in Surjection(1..n, D)
    BY <1>4 DEF Surjection
  <2>4. IsInjective(s)
    BY <1>1, <2>2 DEF IsInjective
  <2>5. s \in Injection(1..n, D)
    BY <1>4, <2>4 DEF Injection
  <2> QED
    BY <2>1, <2>3, <2>5, FS_Surjection
<1>9. /\ o \in Seq(D) /\ Len(o) = n
      /\ \A i, k \in DOMAIN o : i < k => Outranks(o[i], o[k])
      /\ \A d \in D : \E k \in DOMAIN o : o[k] = d
  BY <1>2, <1>4, <1>8, InOrderIs
<1> HIDE DEF o
<1>10. DOMAIN o = 1..n /\ o \in [1..n -> D] /\ BestFirst(o)
  BY <1>9 DEF BestFirst
<1>11. o = s
  <2>1. \A d \in D : \E k \in 1..n : o[k] = d
    BY <1>9, <1>10
  <2> QED
    BY <1>2, <1>4, <1>10, <2>1, OneOrder
<1>12. AtMost(o, MaxDocuments) = o
  <2>1. Least(MaxDocuments, n) = n
    BY <1>2 DEF Least
  <2>2. SubSeq(o, 1, n) = o
    BY <1>9, <1>10
  <2> QED
    BY <1>9, <2>1, <2>2 DEF AtMost
<1> QED
  BY <1>7, <1>11, <1>12

\* Every run of a ranking is one.
LEMMA SegmentIsRanked ==
  ASSUME NEW s, RankedDocuments(s), NEW i \in 0..Len(s), NEW k \in 0..Len(s), i <= k
  PROVE  RankedDocuments(Segment(s, i, k))
<1>4. s \in Seq(Documents) /\ DOMAIN s = 1..Len(s) /\ Len(s) \in Nat
  BY DEF RankedDocuments
<1>1. PICK t \in Seq(Documents) : t = Segment(s, i, k)
  BY <1>4, SegmentIs
<1>2. PICK n \in Nat : n = k - i
  BY <1>4
<1>3. /\ Len(t) = n /\ DOMAIN t = 1..n
      /\ \A a \in 1..n : t[a] = s[i + a] /\ i + a \in 1..Len(s)
  <2>1. Len(t) = n /\ \A a \in 1..n : t[a] = s[i + a] /\ i + a \in 1..Len(s)
    BY <1>1, <1>2, <1>4, SegmentIs
  <2> QED
    BY <2>1
<1>5. n <= Len(s) /\ Len(s) <= MaxDocuments /\ MaxDocuments \in Nat
  BY <1>2, <1>4, PackingAssumption DEF RankedDocuments
<1>6. BestFirst(t)
  <2> SUFFICES ASSUME NEW a \in 1..n, NEW b \in 1..n, a < b PROVE Outranks(t[a], t[b])
    BY <1>3 DEF BestFirst
  <2>1. i + a < i + b /\ i + a \in DOMAIN s /\ i + b \in DOMAIN s
    BY <1>3, <1>4
  <2>2. Outranks(s[i + a], s[i + b])
    BY <2>1 DEF RankedDocuments, BestFirst
  <2> QED
    BY <1>3, <2>2
<1>7. DistinctContents(t)
  <2> SUFFICES ASSUME NEW a \in 1..n, NEW b \in 1..n, t[a].content = t[b].content PROVE a = b
    BY <1>3 DEF DistinctContents
  <2>1. i + a \in DOMAIN s /\ i + b \in DOMAIN s /\ s[i + a].content = s[i + b].content
    BY <1>3, <1>4
  <2>2. i + a = i + b
    BY <2>1 DEF RankedDocuments, DistinctContents
  <2> QED
    BY <2>2
<1>8. DistinctIds(ToSet(t))
  <2>1. ToSet(t) \subseteq ToSet(s)
    BY <1>3, <1>4 DEF ToSet
  <2> QED
    BY <2>1 DEF RankedDocuments, DistinctIds
<1>9. \A a \in DOMAIN t : HasText(t[a])
  BY <1>3, <1>4 DEF RankedDocuments
<1>10. Len(t) <= MaxDocuments
  BY <1>3, <1>5
<1> QED
  BY <1>1, <1>6, <1>7, <1>8, <1>9, <1>10 DEF RankedDocuments

\* What RankDocuments returns is ranked.
LEMMA RankingIsRanked ==
  ASSUME NEW ds \in Seq(Documents), DistinctIds(ToSet(ds))
  PROVE  RankedDocuments(RankDocuments(ds))
<1>1. PICK r : r = RankDocuments(ds)
  OBVIOUS
<1>2. /\ r \in Seq(Documents) /\ \A k \in DOMAIN r : r[k] \in ToSet(ds)
      /\ DistinctContents(r) /\ BestFirst(r) /\ Len(r) <= MaxDocuments
      /\ \A k \in DOMAIN r : HasText(r[k])
  BY <1>1, RankingIs
<1>3. ToSet(r) \subseteq ToSet(ds)
  BY <1>2 DEF ToSet
<1>4. DistinctIds(ToSet(r))
  BY <1>3 DEF DistinctIds
<1> QED
  BY <1>1, <1>2, <1>4 DEF RankedDocuments

-----------------------------------------------------------------------------
(* The shares of a bundle's cards *)

\* A number times a quotient by it.
LEMMA QuotientTimes ==
  ASSUME NEW a \in Nat, NEW b \in Nat \ {0}
  PROVE  b * (a \div b) <= a
OBVIOUS

\* A number that goes into another that many times.
LEMMA QuotientAtLeast ==
  ASSUME NEW a \in Nat, NEW b \in Nat \ {0}, NEW c \in Nat, b * c <= a
  PROVE  c <= a \div b
OBVIOUS

\* Products of sums.
LEMMA Distributes ==
  ASSUME NEW a \in Int, NEW b \in Int, NEW c \in Int
  PROVE  a * (b + c) = a * b + a * c
OBVIOUS

\* What is compared may be compared without a common factor.
LEMMA FactorCancels ==
  ASSUME NEW a \in Nat \ {0}, NEW b \in Nat, NEW c \in Nat, a * b <= c * a
  PROVE  b <= c
OBVIOUS

\* Products of numbers that are not negative.
LEMMA ProductIsNatural ==
  ASSUME NEW a \in Nat, NEW b \in Nat
  PROVE  a * b \in Nat
OBVIOUS

\* Sums compare as what is added does.
LEMMA SumsCompare ==
  ASSUME NEW a \in Nat, NEW b \in Nat, NEW c \in Nat, NEW d \in Nat, a <= c, b <= d
  PROVE  a + b <= c + d
OBVIOUS

\* The subtotals of n numbers that are not negative.
Subtotals(t, s, n) ==
  /\ t \in [0..n -> Nat] /\ t[0] = 0
  /\ \A k \in 1..n : t[k] = t[k - 1] + s[k]

\* The numbers s in proportion to weights, rounded down.
Proportional(s, weights, n, shared, total) ==
  s \in [1..n -> Nat] /\ \A k \in 1..n : s[k] = (shared * weights[k]) \div total

\* What is shared out in proportion is not exceeded.
LEMMA SharesFit ==
  ASSUME NEW n \in Nat, NEW weights \in [1..n -> Nat], NEW w, Subtotals(w, weights, n),
         NEW total \in Nat \ {0}, total = w[n], NEW shared \in Nat,
         NEW s, Proportional(s, weights, n, shared, total), NEW q, Subtotals(q, s, n)
  PROVE  q[n] <= shared
<1>a. /\ w \in [0..n -> Nat] /\ w[0] = 0 /\ \A k \in 1..n : w[k] = w[k - 1] + weights[k]
      /\ q \in [0..n -> Nat] /\ q[0] = 0
  BY DEF Subtotals
<1>b. \A k \in 1..n : q[k] = q[k - 1] + (shared * weights[k]) \div total
  BY Zenon DEF Subtotals, Proportional
<1> DEFINE P == {k \in 0..n : total * q[k] <= shared * w[k]}
<1>1. 0 \in P
  BY <1>a
<1>2. ASSUME NEW k \in 0..n, k \in P, k < n PROVE k + 1 \in P
  <2>1. k + 1 \in 1..n /\ (k + 1) - 1 = k /\ k + 1 \in 0..n
    BY <1>2
  <2>2. PICK a \in Nat : a = weights[k + 1]
    BY <2>1
  <2>3. PICK b \in Nat : b = shared * a
    BY <2>2, ProductIsNatural
  <2>4. PICK c \in Nat : c = b \div total
    BY <2>3, QuotientIsNatural
  <2>5. q[k + 1] = q[k] + c /\ w[k + 1] = w[k] + a
    BY <1>a, <1>b, <2>1, <2>2, <2>3, <2>4
  <2>6. total * c <= b
    BY <2>3, <2>4, QuotientTimes
  <2>7. q[k] \in Nat /\ w[k] \in Nat
    BY <1>2, <1>a
  <2>8. total * (q[k] + c) = total * q[k] + total * c
    BY <2>4, <2>7, Distributes
  <2>9. shared * (w[k] + a) = shared * w[k] + b
    <3>1. shared * (w[k] + a) = shared * w[k] + shared * a
      BY <2>2, <2>7, Distributes
    <3> QED
      BY <2>3, <3>1, Zenon
  <2>10. /\ total * q[k] \in Nat /\ total * c \in Nat /\ shared * w[k] \in Nat
         /\ total * q[k] <= shared * w[k]
    BY <1>2, <2>4, <2>7, ProductIsNatural
  <2>11. total * q[k] + total * c <= shared * w[k] + b
    BY <2>3, <2>6, <2>10, SumsCompare, Zenon
  <2>12. total * q[k + 1] <= shared * w[k + 1]
    BY <2>5, <2>8, <2>9, <2>11, Zenon
  <2> QED
    BY <2>1, <2>12
<1>3. 0..n \subseteq P
  <2> HIDE DEF P
  <2> QED
    BY <1>1, <1>2, IntervalInduction
<1>4. total * q[n] <= shared * total
  <2>1. n \in 0..n
    OBVIOUS
  <2> QED
    BY <1>3, <2>1
<1>5. q[n] \in Nat
  BY <1>a
<1> QED
  BY <1>4, <1>5, FactorCancels

\* Subtotals of numbers that are not negative do not decrease.
LEMMA SubtotalsOfNats ==
  ASSUME NEW n \in Nat, NEW s \in [1..n -> Nat]
  PROVE  \E t : /\ Subtotals(t, s, n) /\ t[n] = Sum(s)
               /\ \A k \in 0..n : t[k] <= t[n]
<1>1. s \in Seq(Int) /\ s \in Seq(Nat) /\ Len(s) = n
  OBVIOUS
<1>2. PICK t : SumsTo(t, s) /\ Sum(s) = t[n]
  BY <1>1, SumIs
<1>3. t \in [0..n -> Int] /\ t[0] = 0 /\ \A k \in 1..n : t[k] = t[k - 1] + s[k]
  BY <1>1, <1>2 DEF SumsTo
<1> DEFINE P == {k \in 0..n : t[k] \in Nat /\ \A i \in 0..k : t[i] <= t[k]}
<1>4. 0 \in P
  BY <1>3
<1>5. ASSUME NEW k \in 0..n, k \in P, k < n PROVE k + 1 \in P
  <2>1. k + 1 \in 1..n /\ (k + 1) - 1 = k
    BY <1>5
  <2>2. t[k + 1] = t[k] + s[k + 1] /\ s[k + 1] \in Nat /\ t[k] \in Nat
    BY <1>3, <1>5, <2>1
  <2>3. ASSUME NEW i \in 0..(k + 1) PROVE t[i] <= t[k + 1]
    <3>1. CASE i = k + 1
      BY <2>2, <3>1
    <3>2. CASE i # k + 1
      <4>1. i \in 0..k /\ i \in 0..n
        BY <3>2
      <4>2. t[i] <= t[k] /\ t[i] \in Int
        BY <1>3, <1>5, <4>1
      <4> QED
        BY <2>2, <4>2
    <3> QED
      BY <3>1, <3>2
  <2> QED
    BY <2>1, <2>2, <2>3
<1>6. 0..n \subseteq P
  <2> HIDE DEF P
  <2> QED
    BY <1>4, <1>5, IntervalInduction
<1>7. t \in [0..n -> Nat]
  BY <1>3, <1>6
<1>8. \A k \in 0..n : t[k] <= t[n]
  <2>1. n \in P
    BY <1>6
  <2> QED
    BY <2>1
<1> QED
  BY <1>2, <1>3, <1>7, <1>8 DEF Subtotals

\* Products do not depend on the order.
LEMMA Commutes ==
  ASSUME NEW a \in Int, NEW b \in Int
  PROVE  a * b = b * a
OBVIOUS

\* What n cards may take, and each of them at least, where there is room for n.
CardsMayTake(limits, spent, n, limit) ==
  /\ limits \in [1..n -> Nat] /\ \A k \in 1..n : limits[k] > Unreserved
  /\ Subtotals(spent, limits, n) /\ \A k \in 0..n : spent[k] <= spent[n]
  /\ HeaderEstimate + n * HeadingEstimate + spent[n] <= limit

\* The limits of the cards share out no more than what the headings leave.
LEMMA LimitsFit ==
  ASSUME NEW n, NEW limit \in Nat, NEW limits, NEW budget, NEW baseline, NEW shared,
         NEW weights, NEW total,
         Shares(limits, n, limit, budget, baseline, shared, weights, total),
         RoomFor(n, limit)
  PROVE  \E spent : CardsMayTake(limits, spent, n, limit)
<1>0. {HeaderEstimate, HeadingEstimate, MinPerDocument, MaxPerDocument} \subseteq Nat
  BY PackingAssumption
<1>1. Unreserved \in Nat /\ Unreserved < MinPerDocument /\ Unreserved < MaxPerDocument
  BY PackingAssumption, RoomAssumption DEF Unreserved, Least
<1>2. /\ n \in Nat \ {0} /\ {budget, baseline, shared} \subseteq Nat /\ total \in Nat \ {0}
      /\ budget = Max({0, limit - (HeaderEstimate + n * HeadingEstimate)})
      /\ baseline = Least(MinPerDocument, budget \div n)
      /\ shared = Max({0, budget - baseline * n})
      /\ weights \in [1..n -> Nat] /\ total = Sum(weights)
      /\ limits = [k \in 1..n |->
                     Least(MaxPerDocument, baseline + (shared * weights[k]) \div total)]
  BY DEF Shares
<1>3. PICK h \in Nat : h = n * HeadingEstimate
  BY <1>0, <1>2, ProductIsNatural
<1>4. PICK u \in Nat : u = n * (Unreserved + 1)
  <2>1. Unreserved + 1 \in Nat /\ n \in Nat
    BY <1>1, <1>2
  <2> QED
    BY <2>1, ProductIsNatural
<1>5. HeaderEstimate + h + u <= limit
  <2>1. HeadingEstimate \in Int /\ Unreserved + 1 \in Int /\ n \in Int
    BY <1>0, <1>1, <1>2
  <2>2. n * (HeadingEstimate + (Unreserved + 1)) = n * HeadingEstimate + n * (Unreserved + 1)
    BY <2>1, Distributes
  <2>3. HeadingEstimate + (Unreserved + 1) = HeadingEstimate + Unreserved + 1
    BY <1>0, <1>1
  <2>4. n * (HeadingEstimate + Unreserved + 1) = h + u
    BY <1>3, <1>4, <2>2, <2>3
  <2>5. HeaderEstimate + (h + u) <= limit
    BY <2>4 DEF RoomFor
  <2> QED
    BY <1>0, <2>5
<1>6. budget = limit - (HeaderEstimate + h)
  <2>1. limit - (HeaderEstimate + h) \in Int /\ limit - (HeaderEstimate + h) >= 0
    BY <1>0, <1>5
  <2> QED
    BY <1>2, <1>3, <2>1, NotNegative
<1>7. u <= budget /\ budget \in Nat
  BY <1>0, <1>2, <1>5, <1>6
<1>8. PICK portion \in Nat : portion = budget \div n
  BY <1>2, <1>7, QuotientIsNatural
<1>9. Unreserved + 1 <= portion
  <2>1. Unreserved + 1 \in Nat
    BY <1>1
  <2> QED
    BY <1>2, <1>4, <1>7, <1>8, <2>1, QuotientAtLeast
<1>10. baseline \in Nat /\ baseline > Unreserved /\ baseline <= portion
  <2>1. baseline \in {MinPerDocument, portion} /\ baseline <= portion
    BY <1>0, <1>2, <1>8, LeastIs
  <2> QED
    BY <1>1, <1>2, <1>9, <2>1
<1>11. PICK base \in Nat : base = n * baseline
  BY <1>2, <1>10, ProductIsNatural
<1>12. base <= budget
  <2>1. n * portion <= budget
    BY <1>2, <1>7, <1>8, QuotientTimes
  <2>2. baseline * n <= portion * n
    BY <1>2, <1>10, MultiplesGrow
  <2>3. n * portion = portion * n /\ n * baseline = baseline * n
    BY <1>2, <1>10, Commutes
  <2>4. portion * n \in Nat
    BY <1>2, ProductIsNatural
  <2> QED
    BY <1>7, <1>11, <2>1, <2>2, <2>3, <2>4
<1>13. base + shared = budget
  <2>1. baseline * n = base
    BY <1>2, <1>10, <1>11, Commutes
  <2>2. shared = Max({0, budget - base})
    BY <1>2, <2>1
  <2>3. budget - base \in Int /\ budget - base >= 0
    BY <1>7, <1>12
  <2>4. shared = budget - base
    BY <2>2, <2>3, NotNegative
  <2> QED
    BY <1>7, <2>4
<1> DEFINE parts_ == [k \in 1..n |-> (shared * weights[k]) \div total]
<1>14. parts_ \in [1..n -> Nat]
  <2> SUFFICES ASSUME NEW k \in 1..n PROVE (shared * weights[k]) \div total \in Nat
    OBVIOUS
  <2>1. PICK a \in Nat : a = shared * weights[k]
    BY <1>2, ProductIsNatural
  <2> QED
    BY <1>2, <2>1, QuotientIsNatural
<1>15. \A k \in 1..n : parts_[k] = (shared * weights[k]) \div total
  OBVIOUS
<1>16. \A k \in 1..n : limits[k] = Least(MaxPerDocument, baseline + parts_[k])
  BY <1>2, <1>15
<1>17. DOMAIN limits = 1..n /\ limits = [k \in 1..n |-> limits[k]]
  BY <1>2
<1> HIDE DEF parts_
<1>18. \A k \in 1..n : /\ limits[k] \in Nat /\ limits[k] > Unreserved
                       /\ limits[k] <= baseline + parts_[k]
  <2> SUFFICES ASSUME NEW k \in 1..n
               PROVE  /\ limits[k] \in Nat /\ limits[k] > Unreserved
                      /\ limits[k] <= baseline + parts_[k]
    OBVIOUS
  <2>1. parts_[k] \in Nat /\ baseline + parts_[k] \in Nat
    BY <1>10, <1>14
  <2>2. PICK b \in Nat : b = baseline + parts_[k]
    BY <2>1
  <2>3. limits[k] = Least(MaxPerDocument, b) /\ MaxPerDocument \in Nat
    BY <1>0, <1>16, <2>2
  <2>4. limits[k] \in {MaxPerDocument, b} /\ limits[k] <= b
    BY <2>3, LeastIs, Zenon
  <2> QED
    BY <1>0, <1>1, <1>10, <2>1, <2>2, <2>4
<1>19. limits \in [1..n -> Nat]
  BY <1>17, <1>18
<1>20. n \in Nat
  BY <1>2
<1>21. PICK w : Subtotals(w, weights, n) /\ w[n] = total
  BY <1>2, <1>20, SubtotalsOfNats
<1>22. PICK q : Subtotals(q, parts_, n)
  BY <1>14, <1>20, SubtotalsOfNats
<1>23. q[n] <= shared
  <2>1. Proportional(parts_, weights, n, shared, total)
    BY <1>14, <1>15 DEF Proportional
  <2>2. weights \in [1..n -> Nat] /\ total \in Nat \ {0} /\ shared \in Nat
    BY <1>2
  <2> QED
    BY <1>20, <1>21, <1>22, <2>1, <2>2, SharesFit, Zenon
<1>24. PICK spent : Subtotals(spent, limits, n) /\ \A k \in 0..n : spent[k] <= spent[n]
  BY <1>19, <1>20, SubtotalsOfNats
<1>a. /\ spent \in [0..n -> Nat] /\ spent[0] = 0 /\ q \in [0..n -> Nat] /\ q[0] = 0
      /\ \A k \in 1..n : spent[k] = spent[k - 1] + limits[k] /\ q[k] = q[k - 1] + parts_[k]
  BY <1>22, <1>24 DEF Subtotals
<1> DEFINE P == {k \in 0..n : spent[k] <= k * baseline + q[k]}
<1>25. 0 \in P
  <2>1. 0 * baseline = 0
    BY <1>10
  <2> QED
    BY <1>20, <1>a, <2>1
<1>26. ASSUME NEW k \in 0..n, k \in P, k < n PROVE k + 1 \in P
  <2>1. k + 1 \in 1..n /\ (k + 1) - 1 = k /\ k + 1 \in 0..n /\ k \in Nat
    BY <1>20, <1>26
  <2>2. PICK x \in Nat : x = k * baseline
    BY <1>10, <2>1, ProductIsNatural
  <2>3. (k + 1) * baseline = x + baseline
    BY <1>10, <2>1, <2>2, OneMore
  <2>4. spent[k + 1] = spent[k] + limits[k + 1] /\ q[k + 1] = q[k] + parts_[k + 1]
    BY <1>a, <2>1
  <2>5. limits[k + 1] <= baseline + parts_[k + 1] /\ limits[k + 1] \in Nat
        /\ parts_[k + 1] \in Nat
    BY <1>14, <1>18, <2>1
  <2>6. spent[k] <= x + q[k] /\ spent[k] \in Nat /\ q[k] \in Nat
    BY <1>26, <1>a, <2>2
  <2>7. spent[k + 1] <= (x + baseline) + q[k + 1]
    BY <1>10, <2>4, <2>5, <2>6
  <2> QED
    BY <2>1, <2>3, <2>7
<1>27. n \in P
  <2> HIDE DEF P
  <2>1. 0..n \subseteq P
    BY <1>20, <1>25, <1>26, IntervalInduction
  <2> QED
    BY <1>20, <2>1
<1>28. spent[n] <= base + q[n] /\ spent[n] \in Nat /\ q[n] \in Nat
  BY <1>11, <1>20, <1>27, <1>a
<1>29. HeaderEstimate + h + spent[n] <= limit
  <2>1. spent[n] <= budget
    <3>1. shared \in Nat /\ budget \in Nat
      BY <1>2
    <3> QED
      BY <1>13, <1>23, <1>28, <3>1
  <2> QED
    BY <1>0, <1>6, <1>28, <2>1
<1> QED
  BY <1>3, <1>18, <1>19, <1>24, <1>29 DEF CardsMayTake

-----------------------------------------------------------------------------
(* A bundle with room for all its cards *)

\* Where there is room for the limit of a card, the card is added.
LEMMA NextCard ==
  ASSUME NEW bundle \in Bundles, ~bundle.full, NEW d \in Documents, HasText(d), Ordinary(d),
         NEW limit \in Nat, NEW own \in Nat, own > Unreserved,
         bundle.characters + own + HeadingEstimate - Unreserved <= limit
  PROVE  LET later == AddCard(bundle, d, own, limit)
         IN  /\ later \in Bundles /\ ~later.full
             /\ later.documents = Append(bundle.documents, d)
             /\ later.characters <= bundle.characters + HeadingEstimate + own
<1> DEFINE room == Room(bundle, d, limit)
           least == Least(own, room)
           excerpt == Excerpt(d, least)
           later == AddCard(bundle, d, own, limit)
<1>1. /\ d.heading \in Nat /\ d.text \in Nat /\ d.relevant \in Nat
      /\ d.text > 0 /\ d.heading + 2 <= HeadingEstimate
  BY DocumentFields DEF HasText, Ordinary, Separator
<1>2. HeadingEstimate \in Nat /\ Unreserved \in Nat
  <2>1. HeadingEstimate \in Nat /\ Header \in Nat /\ HeaderEstimate \in Nat
    BY PackingAssumption
  <2> QED
    BY <2>1 DEF Unreserved
<1>3. /\ bundle.characters \in Int /\ bundle.documents \in Seq(Documents)
      /\ bundle.full \in BOOLEAN
  BY DEF Bundles
<1>4. room \in Int /\ room > 0
  <2>1. PICK c \in Int : c = bundle.characters
    BY <1>3
  <2>2. PICK g \in Nat : g = d.heading
    BY <1>1
  <2>3. room = limit - c - 2 - g
    BY <2>1, <2>2 DEF Room, Separator
  <2>4. g + 2 <= HeadingEstimate
    BY <1>1, <2>2
  <2>5. c + own + HeadingEstimate - Unreserved <= limit
    BY <2>1
  <2> HIDE DEF room
  <2> QED
    BY <1>2, <2>3, <2>4, <2>5
<1> HIDE DEF room
<1>5. least \in Nat /\ least > 0 /\ least <= own
  BY <1>2, <1>4 DEF Least
<1> HIDE DEF least
<1>6. excerpt \in Nat /\ excerpt # 0 /\ excerpt <= own
  BY <1>1, <1>5 DEF Excerpt, Least
<1>7. later = IF bundle.full \/ room <= 0 THEN [bundle EXCEPT !.full = TRUE]
              ELSE IF excerpt = 0 THEN bundle
              ELSE [bundle EXCEPT !.documents = Append(@, d),
                                  !.characters = @ + 2 + d.heading + excerpt]
  BY DEF AddCard, Separator, room, least
<1> HIDE DEF excerpt, later
<1>8. later = [bundle EXCEPT !.documents = Append(@, d),
                             !.characters = @ + 2 + d.heading + excerpt]
  <2>1. ~(bundle.full \/ room <= 0)
    BY <1>4
  <2> QED
    BY <1>6, <1>7, <2>1, Zenon
<1>9. Append(bundle.documents, d) \in Seq(Documents)
  BY <1>3
<1>10. bundle.characters + 2 + d.heading + excerpt \in Int
  BY <1>1, <1>3, <1>6
<1>11. /\ later \in Bundles /\ later.full = bundle.full
       /\ later.documents = Append(bundle.documents, d)
       /\ later.characters = bundle.characters + 2 + d.heading + excerpt
  BY <1>8, <1>9, <1>10 DEF Bundles
<1>12. later.characters <= bundle.characters + HeadingEstimate + own
  <2>1. PICK c \in Int : c = bundle.characters
    BY <1>3
  <2>2. PICK g \in Nat : g = d.heading
    BY <1>1
  <2>3. later.characters = c + 2 + g + excerpt
    BY <1>11, <2>1, <2>2
  <2>4. g + 2 <= HeadingEstimate
    BY <1>1, <2>2
  <2>5. c + 2 + g + excerpt <= c + HeadingEstimate + own
    BY <1>2, <1>6, <2>4
  <2> QED
    BY <2>1, <2>3, <2>5
<1> QED
  BY <1>11, <1>12 DEF later

\* A run from the beginning is a prefix, and the whole is one.
LEMMA FirstSegment ==
  ASSUME NEW ds \in Seq(Documents)
  PROVE  /\ Segment(ds, 0, 0) = <<>> /\ Segment(ds, 0, Len(ds)) = ds
         /\ \A k \in 0..Len(ds) : AtMost(ds, k) = Segment(ds, 0, k)
<1>1. Len(ds) \in Nat
  OBVIOUS
<1>2. ASSUME NEW k \in 0..Len(ds) PROVE AtMost(ds, k) = Segment(ds, 0, k)
  <2>1. k - 0 = k /\ 0 <= k /\ 0 \in 0..Len(ds) /\ k \in Nat
    BY <1>1
  <2>2. PICK s \in Seq(Documents) : s = Segment(ds, 0, k)
    BY <2>1, SegmentIs
  <2>3. Len(s) = k /\ \A a \in 1..k : s[a] = ds[0 + a]
    BY <2>1, <2>2, SegmentIs
  <2>4. PICK t \in Seq(Documents) : t = AtMost(ds, k)
    BY <2>1, PrefixElements
  <2>5. Len(t) = Least(k, Len(ds)) /\ \A a \in 1..Len(t) : t[a] = ds[a]
    BY <2>1, <2>4, PrefixElements
  <2>6. Len(t) = k
    BY <1>1, <2>5 DEF Least
  <2>7. \A a \in 1..k : s[a] = t[a]
    BY <2>3, <2>5, <2>6
  <2> QED
    BY <2>2, <2>3, <2>4, <2>6, <2>7
<1>3. Segment(ds, 0, 0) = <<>>
  BY DEF Segment
<1>4. Segment(ds, 0, Len(ds)) = ds
  <2>1. Len(ds) - 0 = Len(ds) /\ \A a \in 1..Len(ds) : 0 + a = a
    BY <1>1
  <2>2. ds = [a \in 1..Len(ds) |-> ds[a]]
    OBVIOUS
  <2> QED
    BY <2>1, <2>2 DEF Segment
<1> QED
  BY <1>2, <1>3, <1>4

\* With room for all of them, every document gets a card whose heading, and those
\* ahead of it, are ordinary.
LEMMA CardsAreAdded ==
  ASSUME NEW ranked \in Seq(Documents), NEW n \in Nat \ {0}, n = Len(ranked),
         \A k \in 1..n : HasText(ranked[k]),
         NEW m \in 1..n, \A k \in 1..m : Ordinary(ranked[k]),
         NEW limit \in Nat, RoomFor(n, limit),
         NEW bundles, CardByCard(bundles, ranked, limit)
  PROVE  bundles[m] \in Bundles /\ bundles[m].documents = Segment(ranked, 0, m)
<1>1. PICK limits : limits = CharacterLimits(ranked, limit)
  OBVIOUS
<1>2. PICK spent : CardsMayTake(limits, spent, n, limit)
  <2>1. PICK budget, baseline, shared, weights, total :
          Shares(limits, n, limit, budget, baseline, shared, weights, total)
    BY <1>1, LimitsAre
  <2> QED
    BY <2>1, LimitsFit
<1>3. /\ limits \in [1..n -> Nat] /\ \A k \in 1..n : limits[k] > Unreserved
      /\ spent \in [0..n -> Nat] /\ spent[0] = 0
      /\ \A k \in 1..n : spent[k] = spent[k - 1] + limits[k]
      /\ \A k \in 0..n : spent[k] <= spent[n]
      /\ HeaderEstimate + n * HeadingEstimate + spent[n] <= limit
  BY <1>2 DEF CardsMayTake, Subtotals
<1>4. /\ Header \in Nat /\ HeaderEstimate \in Nat /\ HeadingEstimate \in Nat
      /\ Unreserved \in Nat /\ Header - Unreserved <= HeaderEstimate
  <2>1. Header \in Nat /\ HeaderEstimate \in Nat /\ HeadingEstimate \in Nat
    BY PackingAssumption
  <2> QED
    BY <2>1 DEF Unreserved
<1>5. bundles[0] = NoCards /\ \A k \in 1..n :
        bundles[k] = AddCard(bundles[k - 1], ranked[k], limits[k], limit)
  BY <1>1 DEF CardByCard
<1> DEFINE Added(k) == /\ bundles[k] \in Bundles /\ ~bundles[k].full
                       /\ bundles[k].documents = Segment(ranked, 0, k)
                       /\ bundles[k].characters <= Header + k * HeadingEstimate + spent[k]
           P == {k \in 0..m : Added(k)}
<1>6. 0 \in P
  <2>1. /\ NoCards \in Bundles /\ ~NoCards.full /\ NoCards.documents = <<>>
        /\ NoCards.characters = Header
    BY PackingAssumption DEF NoCards, Bundles
  <2>2. 0 * HeadingEstimate = 0 /\ 0 \in 0..m
    BY <1>4
  <2>3. Segment(ranked, 0, 0) = <<>>
    BY FirstSegment
  <2> QED
    BY <1>3, <1>4, <1>5, <2>1, <2>2, <2>3
<1>7. ASSUME NEW k \in 0..m, k \in P, k < m PROVE k + 1 \in P
  <2>1. /\ k + 1 \in 1..n /\ k + 1 \in 1..m /\ (k + 1) - 1 = k /\ k + 1 \in 0..n
        /\ k + 1 \in 0..m /\ k \in Nat /\ k < n /\ k \in 0..n /\ n \in 0..n
    BY <1>7
  <2>2. PICK b \in Bundles : b = bundles[k]
    BY <1>7
  <2>3. PICK own \in Nat : own = limits[k + 1]
    BY <1>3, <2>1
  <2>4. PICK d \in Documents : d = ranked[k + 1]
    BY <2>1
  <2>5. PICK h \in Nat : h = k * HeadingEstimate
    BY <1>4, <2>1, ProductIsNatural
  <2>6. (k + 1) * HeadingEstimate = h + HeadingEstimate
    BY <1>4, <2>1, <2>5, OneMore
  <2>7. PICK all \in Nat : all = n * HeadingEstimate
    BY <1>4, ProductIsNatural
  <2>8. h + HeadingEstimate <= all
    <3>1. k + 1 \in Nat /\ n \in Nat /\ k + 1 <= n /\ HeadingEstimate \in Nat
      BY <1>4, <2>1
    <3>2. (k + 1) * HeadingEstimate <= n * HeadingEstimate
      BY <3>1, MultiplesGrow
    <3> QED
      BY <2>6, <2>7, <3>2
  <2>9. ~b.full /\ b.documents = Segment(ranked, 0, k) /\ b.characters <= Header + h + spent[k]
    BY <1>7, <2>2, <2>5
  <2>10. /\ spent[k + 1] = spent[k] + own /\ spent[k] \in Nat /\ spent[k + 1] \in Nat
         /\ spent[k + 1] <= spent[n] /\ spent[n] \in Nat /\ own > Unreserved
    BY <1>3, <2>1, <2>3
  <2>11. b.characters \in Int
    BY DEF Bundles
  <2>12. HeaderEstimate + all + spent[n] <= limit
    BY <1>3, <2>7
  <2>a. PICK x \in Nat : x = spent[k]
    BY <2>10
  <2>b. PICK y \in Nat : y = spent[n]
    BY <2>10
  <2>c. PICK c \in Int : c = b.characters
    BY <2>11
  <2>d. c <= Header + h + x /\ x + own <= y /\ HeaderEstimate + all + y <= limit
    BY <2>9, <2>10, <2>12, <2>a, <2>b, <2>c
  <2>13. b.characters + own + HeadingEstimate - Unreserved <= limit
    <3>1. c + own + HeadingEstimate - Unreserved <= limit
      BY <1>4, <2>8, <2>d
    <3> QED
      BY <2>c, <3>1
  <2>14. HasText(d) /\ Ordinary(d)
    BY <2>1, <2>4
  <2>15. PICK later : later = AddCard(b, d, own, limit)
    OBVIOUS
  <2>16. /\ later \in Bundles /\ ~later.full /\ later.documents = Append(b.documents, d)
         /\ later.characters <= b.characters + HeadingEstimate + own
    BY <2>9, <2>10, <2>13, <2>14, <2>15, NextCard
  <2>17. bundles[k + 1] = later
    BY <1>5, <2>1, <2>2, <2>3, <2>4, <2>15
  <2>18. later.documents = Segment(ranked, 0, k + 1)
    <3>1. 0 \in 0..Len(ranked) /\ k \in 0..Len(ranked) /\ 0 <= k /\ k < Len(ranked)
      BY <1>7, <2>1
    <3>2. Append(Segment(ranked, 0, k), ranked[k + 1]) = Segment(ranked, 0, k + 1)
      BY <3>1, SegmentGrows
    <3> QED
      BY <2>4, <2>9, <2>16, <3>2
  <2>19. later.characters \in Int
    BY <2>16 DEF Bundles
  <2>20. later.characters <= Header + (k + 1) * HeadingEstimate + spent[k + 1]
    <3>1. PICK z \in Int : z = later.characters
      BY <2>19
    <3>2. z <= c + HeadingEstimate + own
      BY <2>16, <2>c, <3>1
    <3>3. z <= Header + (h + HeadingEstimate) + (x + own)
      BY <1>4, <2>d, <3>2
    <3> QED
      BY <2>6, <2>10, <2>a, <3>1, <3>3
  <2>21. Added(k + 1)
    BY <2>16, <2>17, <2>18, <2>20
  <2> HIDE DEF Added
  <2> QED
    BY <2>1, <2>21
<1>9. m \in Nat /\ m \in 0..m
  OBVIOUS
<1>8. 0..m \subseteq P
  <2> HIDE DEF P
  <2> QED
    BY <1>6, <1>7, <1>9, IntervalInduction
<1> QED
  BY <1>8, <1>9

\* A bundle keeps its cards when another is added.
LEMMA CardsAreKept ==
  ASSUME NEW bundle \in Bundles, NEW d \in Documents, NEW own \in Nat, NEW limit \in Nat,
         NEW c \in DOMAIN bundle.documents
  PROVE  LET later == AddCard(bundle, d, own, limit)
         IN  c \in DOMAIN later.documents /\ later.documents[c] = bundle.documents[c]
<1> DEFINE room == Room(bundle, d, limit)
           excerpt == Excerpt(d, Least(own, room))
           later == AddCard(bundle, d, own, limit)
<1>1. PICK cards \in Seq(Documents) : cards = bundle.documents
  BY DEF Bundles
<1>2. later = IF bundle.full \/ room <= 0 THEN [bundle EXCEPT !.full = TRUE]
              ELSE IF excerpt = 0 THEN bundle
              ELSE [bundle EXCEPT !.documents = Append(@, d),
                                  !.characters = @ + 2 + d.heading + excerpt]
  BY DEF AddCard, Separator
<1> HIDE DEF room, excerpt, later
<1>3. later.documents = cards \/ later.documents = Append(cards, d)
  BY <1>1, <1>2 DEF Bundles
<1>4. c \in DOMAIN Append(cards, d) /\ Append(cards, d)[c] = cards[c]
  BY <1>1
<1>5. c \in DOMAIN later.documents /\ later.documents[c] = bundle.documents[c]
  BY <1>1, <1>3, <1>4
<1> QED
  BY <1>5 DEF later

\* So a bundle of a ranking is the whole of it, if its headings are ordinary.
LEMMA BundleIsWhole ==
  ASSUME NEW s, RankedDocuments(s), s # <<>>, \A k \in DOMAIN s : Ordinary(s[k]),
         NEW limit \in Nat, RoomFor(Len(s), limit)
  PROVE  BuildBundle(s, limit).documents = s
<1>1. s \in Seq(Documents) /\ RankDocuments(s) = s
  BY RankedStays DEF RankedDocuments
<1>2. PICK n \in Nat \ {0} : n = Len(s) /\ DOMAIN s = 1..n
  BY <1>1
<1>3. PICK bundles : CardByCard(bundles, s, limit) /\ BuildBundle(s, limit) = bundles[n]
  BY <1>1, <1>2, BundleUnfolds
<1>4. n \in 1..n /\ \A k \in 1..n : HasText(s[k]) /\ Ordinary(s[k])
  BY <1>2 DEF RankedDocuments
<1>5. bundles[n].documents = Segment(s, 0, n)
  BY <1>1, <1>2, <1>3, <1>4, CardsAreAdded
<1>6. Segment(s, 0, n) = s
  BY <1>1, <1>2, FirstSegment
<1> QED
  BY <1>3, <1>5, <1>6

\* And whatever headings it has, it shows the documents ahead of the first long one.
LEMMA BundleShows ==
  ASSUME NEW s, RankedDocuments(s), NEW c \in DOMAIN s, \A k \in 1..c : Ordinary(s[k]),
         NEW limit \in Nat, RoomFor(Len(s), limit)
  PROVE  s[c] \in ToSet(BuildBundle(s, limit).documents)
<1>1. s \in Seq(Documents) /\ RankDocuments(s) = s
  BY RankedStays DEF RankedDocuments
<1>2. PICK n \in Nat \ {0} : n = Len(s) /\ DOMAIN s = 1..n
  BY <1>1
<1>3. PICK bundles : CardByCard(bundles, s, limit) /\ BuildBundle(s, limit) = bundles[n]
  BY <1>1, <1>2, BundleUnfolds
<1>4. c \in 1..n /\ \A k \in 1..n : HasText(s[k])
  BY <1>2 DEF RankedDocuments
<1>5. bundles[c] \in Bundles /\ bundles[c].documents = Segment(s, 0, c)
  BY <1>1, <1>2, <1>3, <1>4, CardsAreAdded
<1>6. c \in DOMAIN bundles[c].documents /\ bundles[c].documents[c] = s[c]
  <2>1. 0 \in 0..Len(s) /\ c \in 0..Len(s) /\ 0 <= c /\ c - 0 = c /\ c \in Nat
    BY <1>2, <1>4
  <2>2. PICK t \in Seq(Documents) : t = Segment(s, 0, c)
    BY <1>1, <2>1, SegmentIs
  <2>3. Len(t) = c /\ \A a \in 1..c : t[a] = s[0 + a]
    <3>1. Len(t) = c - 0 /\ \A a \in 1..(c - 0) : t[a] = s[0 + a]
      BY <1>1, <2>1, <2>2, SegmentIs
    <3> QED
      BY <2>1, <3>1
  <2>4. c \in 1..c /\ 0 + c = c
    BY <1>4
  <2> QED
    BY <1>5, <2>2, <2>3, <2>4
<1>7. PICK limits : limits = CharacterLimits(s, limit)
  OBVIOUS
<1>8. \A k \in 1..n : limits[k] \in Nat
  BY <1>1, <1>2, <1>7, LimitsAreNumbers
<1>9. \A k \in 1..n : bundles[k] = AddCard(bundles[k - 1], s[k], limits[k], limit)
  BY <1>2, <1>3, <1>7 DEF CardByCard
<1> DEFINE Shown(k) == /\ bundles[k] \in Bundles /\ c \in DOMAIN bundles[k].documents
                       /\ bundles[k].documents[c] = s[c]
           P == {k \in 0..n : k >= c => Shown(k)}
<1>10. 0 \in P
  BY <1>4
<1>11. ASSUME NEW k \in 0..n, k \in P, k < n PROVE k + 1 \in P
  <2>1. k + 1 \in 1..n /\ (k + 1) - 1 = k /\ k + 1 \in 0..n /\ k \in Nat
    BY <1>11
  <2>2. CASE k + 1 < c
    BY <1>4, <2>1, <2>2
  <2>3. CASE k + 1 = c
    BY <1>5, <1>6, <2>1, <2>3
  <2>4. CASE k >= c
    <3>1. PICK b \in Bundles :
            b = bundles[k] /\ c \in DOMAIN b.documents /\ b.documents[c] = s[c]
      BY <1>11, <2>4
    <3>2. PICK own \in Nat : own = limits[k + 1]
      BY <1>8, <2>1
    <3>3. PICK d \in Documents : d = s[k + 1]
      BY <1>1, <1>2, <2>1
    <3>4. PICK later : later = AddCard(b, d, own, limit)
      OBVIOUS
    <3>5. bundles[k + 1] = later
      BY <1>9, <2>1, <3>1, <3>2, <3>3, <3>4
    <3>6. later \in Bundles
      BY <3>4, AddingKeepsType
    <3>7. c \in DOMAIN later.documents /\ later.documents[c] = b.documents[c]
      BY <3>1, <3>4, CardsAreKept
    <3>8. Shown(k + 1)
      BY <3>1, <3>5, <3>6, <3>7
    <3> HIDE DEF Shown
    <3> QED
      BY <2>1, <3>8
  <2> HIDE DEF P
  <2>5. c \in Nat
    BY <1>4
  <2> QED
    BY <2>1, <2>2, <2>3, <2>4, <2>5
<1>12. 0..n \subseteq P
  <2> HIDE DEF P
  <2> QED
    BY <1>10, <1>11, IntervalInduction
<1>13. Shown(n)
  <2>1. n \in 0..n /\ n >= c
    BY <1>4
  <2> QED
    BY <1>12, <2>1
<1> QED
  BY <1>3, <1>13 DEF ToSet

-----------------------------------------------------------------------------
(* What a plan carries *)

\* What is left of a call's room after all but the least of its documents.
Spared == GroupLimit - MaxPerDocument

\* The limits of the calls are numbers.
LEMMA CallLimits ==
  /\ MaxGroups \in Nat /\ MaxGroups >= 1 /\ GroupLimit \in Nat /\ DirectLimit \in Nat
  /\ MaxPerDocument \in Nat /\ MaxDocuments \in Nat /\ Spared \in Nat
BY PackingAssumption DEF Spared

\* The best documents are planned, at least one, and all unless they fill all groups.
LEMMA TopOfRanking ==
  ASSUME NEW ranked \in Seq(Documents)
  PROVE  \E n \in 0..Len(ranked) :
           /\ WithinTotalBudget(ranked) = Segment(ranked, 0, n)
           /\ ranked # <<>> => n >= 1
           /\ n < Len(ranked) => Estimate(Segment(ranked, 0, n)) > MaxGroups * Spared
<1> DEFINE Fits(k) == k <= 1 \/ Estimate(AtMost(ranked, k)) <= MaxGroups * GroupLimit
           S == {k \in 0..Len(ranked) : Fits(k)}
<1>1. Len(ranked) \in Nat /\ 0 \in S
  OBVIOUS
<1>2. WithinTotalBudget(ranked) = AtMost(ranked, Max(S))
  BY DEF WithinTotalBudget
<1>3. S \in SUBSET (0..Len(ranked)) /\ S # {}
  BY <1>1
<1>4. \A k \in 0..Len(ranked) : Fits(k) => k \in S
  OBVIOUS
<1> HIDE DEF S
<1>5. PICK n : n = Max(S)
  OBVIOUS
<1>6. n \in S /\ \A k \in S : k <= n
  BY <1>1, <1>3, <1>5, Greatest
<1>7. n \in 0..Len(ranked) /\ n \in Nat
  BY <1>1, <1>3, <1>6
<1>8. WithinTotalBudget(ranked) = Segment(ranked, 0, n)
  BY <1>2, <1>5, <1>7, FirstSegment
<1>9. ASSUME ranked # <<>> PROVE n >= 1
  <2>1. 1 \in 0..Len(ranked) /\ Fits(1)
    BY <1>1, <1>9
  <2> QED
    BY <1>4, <1>6, <2>1
<1>10. ASSUME n < Len(ranked) PROVE Estimate(Segment(ranked, 0, n)) > MaxGroups * Spared
  <2>1. n + 1 \in 0..Len(ranked) /\ 0 <= n + 1 /\ (n + 1) - n = 1 /\ ~(n + 1 <= n)
    BY <1>1, <1>7, <1>10
  <2>2. ~(Estimate(AtMost(ranked, n + 1)) <= MaxGroups * GroupLimit)
    BY <1>4, <1>6, <2>1
  <2> HIDE DEF Fits
  <2>3. PICK total : SumsTo(total, Estimates(ranked))
    BY EstimatesAre, SumIs
  <2>4. total \in [0..Len(ranked) -> Int] /\ total[0] = 0
    BY <2>3, EstimatesAre DEF SumsTo
  <2>5. PICK x \in Int : x = total[n]
    BY <1>7, <2>4
  <2>6. PICK y \in Int : y = total[n + 1]
    BY <2>1, <2>4
  <2>7. 0 \in 0..Len(ranked) /\ 0 <= n
    BY <1>1, <1>7
  <2>8. Estimate(Segment(ranked, 0, n)) = x
    <3>1. Estimate(Segment(ranked, 0, n)) = total[n] - total[0]
      BY <1>7, <2>3, <2>7, SegmentEstimate
    <3> QED
      BY <2>4, <2>5, <3>1
  <2>9. Estimate(AtMost(ranked, n + 1)) = y
    <3>1. Estimate(Segment(ranked, 0, n + 1)) = total[n + 1] - total[0]
      BY <2>1, <2>3, <2>7, SegmentEstimate
    <3>2. AtMost(ranked, n + 1) = Segment(ranked, 0, n + 1)
      BY <2>1, FirstSegment
    <3> QED
      BY <2>4, <2>6, <3>1, <3>2
  <2>10. y <= x + MaxPerDocument
    <3>1. n <= n + 1
      BY <1>7
    <3>2. total[n + 1] <= total[n] + ((n + 1) - n) * MaxPerDocument
      BY <1>7, <2>1, <2>3, <3>1, SubtotalsGrow
    <3>3. 1 * MaxPerDocument = MaxPerDocument
      BY CallLimits
    <3> QED
      BY <2>1, <2>5, <2>6, <3>2, <3>3
  <2>11. PICK spared \in Nat : spared = MaxGroups * Spared
    BY CallLimits, ProductIsNatural
  <2>12. PICK most \in Nat : most = MaxGroups * MaxPerDocument
    BY CallLimits, ProductIsNatural
  <2>13. MaxGroups * GroupLimit = spared + most
    <3>1. GroupLimit = Spared + MaxPerDocument /\ Spared \in Int
      BY CallLimits DEF Spared
    <3>2. MaxGroups * (Spared + MaxPerDocument) = MaxGroups * Spared + MaxGroups * MaxPerDocument
      BY CallLimits, <3>1, Distributes
    <3> QED
      BY <2>11, <2>12, <3>1, <3>2
  <2>14. MaxPerDocument <= most
    <3>1. 1 * MaxPerDocument <= MaxGroups * MaxPerDocument
      BY CallLimits, 1 \in Nat, MultiplesGrow
    <3>2. 1 * MaxPerDocument = MaxPerDocument
      BY CallLimits
    <3> QED
      BY <2>12, <3>1, <3>2
  <2>15. y > spared + most
    BY <2>2, <2>9, <2>13
  <2>16. x > spared
    BY CallLimits, <2>10, <2>14, <2>15
  <2> QED
    BY <2>8, <2>11, <2>16
<1> QED
  BY <1>7, <1>8, <1>9, <1>10

\* When a group is not the last, it and those before it are nearly full.
LEMMA GroupsBeforeAreFull ==
  ASSUME NEW ds \in Seq(Documents), NEW total, SumsTo(total, Estimates(ds)),
         NEW groups, NEW ends, Consecutive(groups, ends, ds, Len(ds)),
         FilledInTurn(groups, ends, total), NEW g \in Nat \ {0}, g < Len(groups)
  PROVE  total[ends[g]] > g * Spared
<1>1. /\ groups \in Seq(Seq(Documents)) /\ Len(groups) \in Nat
      /\ ends \in [0..Len(groups) -> 0..Len(ds)] /\ ends[0] = 0
  BY DEF Consecutive
<1>2. /\ total \in [0..Len(ds) -> Int] /\ total[0] = 0
  BY EstimatesAre DEF SumsTo
<1> DEFINE P == {h \in 0..g : total[ends[h]] >= h * Spared + h}
<1>3. 0 \in P
  <2>1. 0 * Spared = 0
    BY CallLimits
  <2> QED
    BY <1>1, <1>2, <2>1
<1>4. ASSUME NEW h \in 0..g, h \in P, h < g PROVE h + 1 \in P
  <2>1. /\ h + 1 \in 1..Len(groups) /\ h + 1 < Len(groups) /\ (h + 1) - 1 = h
        /\ h \in 0..Len(groups) /\ h + 1 \in 0..Len(groups) /\ h + 1 \in 0..g /\ h \in Nat
    BY <1>1, <1>4
  <2>2. PICK x \in Int : x = total[ends[h]]
    BY <1>1, <1>2, <2>1
  <2>3. PICK y \in Int : y = total[ends[h + 1]]
    BY <1>1, <1>2, <2>1
  <2>4. y - x + MaxPerDocument > GroupLimit
    <3>1. total[ends[h + 1]] - total[ends[h]] + MaxPerDocument > GroupLimit
      BY <2>1 DEF FilledInTurn
    <3> QED
      BY <2>2, <2>3, <3>1
  <2>5. PICK z \in Nat : z = h * Spared
    BY CallLimits, <2>1, ProductIsNatural
  <2>6. (h + 1) * Spared = z + Spared
    BY CallLimits, <2>1, <2>5, OneMore
  <2>7. x >= z + h
    BY <1>4, <2>2, <2>5
  <2>8. y >= (z + Spared) + (h + 1)
    BY CallLimits, <2>1, <2>4, <2>7 DEF Spared
  <2> QED
    BY <2>1, <2>3, <2>6, <2>8
<1>5. 0..g \subseteq P
  <2> HIDE DEF P
  <2> QED
    BY <1>3, <1>4, IntervalInduction
<1>6. total[ends[g]] >= g * Spared + g
  BY <1>5
<1>7. PICK z \in Nat : z = g * Spared
  BY CallLimits, ProductIsNatural
<1>8. total[ends[g]] \in Int
  <2>1. g \in 0..Len(groups)
    BY <1>1
  <2>2. ends[g] \in 0..Len(ds)
    BY <1>1, <2>1
  <2> QED
    BY <1>2, <2>2
<1> QED
  BY <1>6, <1>7, <1>8

\* There is room for a ranking in a single call.
LEMMA RoomInACall ==
  ASSUME NEW s, RankedDocuments(s)
  PROVE  RoomFor(Len(s), DirectLimit)
<1>1. PICK n \in Nat : n = Len(s) /\ n <= MaxDocuments
  BY DEF RankedDocuments
<1>2. PICK c \in Nat : c = HeadingEstimate + Unreserved + 1
  <2>1. HeadingEstimate \in Nat /\ Header \in Nat /\ HeaderEstimate \in Nat
    BY PackingAssumption
  <2>2. Unreserved \in Nat
    BY <2>1 DEF Unreserved
  <2> QED
    BY <2>1, <2>2
<1>3. HeaderEstimate + MaxDocuments * c <= DirectLimit
  BY <1>2, RoomAssumption DEF RoomFor
<1>4. n * c <= MaxDocuments * c /\ n * c \in Nat /\ MaxDocuments * c \in Nat
  BY CallLimits, <1>1, <1>2, MultiplesGrow
<1>5. HeaderEstimate \in Nat
  BY PackingAssumption
<1>6. HeaderEstimate + n * c <= DirectLimit
  <2>1. PICK x \in Nat : x = n * c
    BY <1>4
  <2>2. PICK y \in Nat : y = MaxDocuments * c
    BY <1>4
  <2> QED
    BY CallLimits, <1>3, <1>4, <1>5, <2>1, <2>2
<1> QED
  BY <1>1, <1>2, <1>6 DEF RoomFor

\* And in a group, since its single call would not have held them all.
LEMMA RoomInAGroup ==
  ASSUME NEW s, RankedDocuments(s), NEW total, SumsTo(total, Estimates(s)),
         total[Len(s)] > DirectLimit,
         NEW i \in 0..Len(s), NEW k \in 0..Len(s), i < k, total[k] - total[i] <= GroupLimit
  PROVE  RoomFor(k - i, GroupLimit)
<1>1. PICK m \in Nat : m = Len(s) /\ m <= MaxDocuments
  BY DEF RankedDocuments
<1>2. s \in Seq(Documents)
  BY DEF RankedDocuments
<1>3. total \in [0..m -> Int] /\ total[0] = 0
  BY <1>1, <1>2, EstimatesAre DEF SumsTo
<1>4. PICK x \in Int : x = total[i]
  BY <1>1, <1>3
<1>5. PICK y \in Int : y = total[k]
  BY <1>1, <1>3
<1>6. PICK z \in Int : z = total[m]
  BY <1>1, <1>3
<1>7. i \in Nat /\ k \in Nat /\ k <= m /\ 0 <= i /\ 0 \in 0..Len(s) /\ m \in 0..Len(s)
      /\ i - 0 = i /\ m - k \in Nat
  BY <1>1
<1>8. PICK before \in Nat : before = i * MaxPerDocument
  BY CallLimits, <1>7, ProductIsNatural
<1>9. PICK after \in Nat : after = (m - k) * MaxPerDocument
  BY CallLimits, <1>7, ProductIsNatural
<1>10. x <= before
  <2>1. total[i] <= total[0] + (i - 0) * MaxPerDocument
    BY <1>2, <1>7, SubtotalsGrow
  <2> QED
    BY <1>3, <1>4, <1>7, <1>8, <2>1
<1>11. z <= y + after
  <2>1. total[m] <= total[k] + (m - k) * MaxPerDocument
    BY <1>2, <1>7, SubtotalsGrow
  <2> QED
    BY <1>5, <1>6, <1>9, <2>1
<1>12. before + after > DirectLimit - GroupLimit
  <2>1. z > DirectLimit
    BY <1>1, <1>6
  <2>2. y - x <= GroupLimit
    BY <1>4, <1>5
  <2> QED
    BY CallLimits, <1>10, <1>11, <2>1, <2>2
<1>13. PICK others \in Nat : others = MaxDocuments - (k - i)
  BY CallLimits, <1>1, <1>7
<1>14. before + after <= others * MaxPerDocument
  <2>1. i + (m - k) <= others /\ i + (m - k) \in Nat
    BY CallLimits, <1>1, <1>7, <1>13
  <2>2. (i + (m - k)) * MaxPerDocument <= others * MaxPerDocument
    BY CallLimits, <2>1, MultiplesGrow
  <2>3. (i + (m - k)) * MaxPerDocument = before + after
    <3>1. MaxPerDocument * (i + (m - k)) = MaxPerDocument * i + MaxPerDocument * (m - k)
      BY CallLimits, <1>7, Distributes
    <3>2. /\ MaxPerDocument * (i + (m - k)) = (i + (m - k)) * MaxPerDocument
          /\ MaxPerDocument * i = i * MaxPerDocument
          /\ MaxPerDocument * (m - k) = (m - k) * MaxPerDocument
      BY CallLimits, <1>7, <2>1, Commutes
    <3> QED
      BY <1>8, <1>9, <3>1, <3>2
  <2> QED
    BY <2>2, <2>3
<1>15. (MaxDocuments - (k - i)) * MaxPerDocument > DirectLimit - GroupLimit
  <2>1. others * MaxPerDocument \in Nat
    BY CallLimits, ProductIsNatural
  <2> QED
    BY CallLimits, <1>12, <1>13, <1>14, <2>1
<1>16. k - i \in 1..MaxDocuments
  BY CallLimits, <1>1, <1>7
<1> QED
  BY <1>15, <1>16, RoomAssumption

\* A run from the beginning is a prefix in the sense of the library.
LEMMA RunIsPrefix ==
  ASSUME NEW ds \in Seq(Documents), NEW c \in 0..Len(ds)
  PROVE  IsPrefix(Segment(ds, 0, c), ds)
<1>1. c \in Nat /\ Len(ds) \in Nat /\ 0 \in 0..Len(ds) /\ 0 <= c /\ c - 0 = c
  OBVIOUS
<1>2. PICK s \in Seq(Documents) : s = Segment(ds, 0, c)
  BY <1>1, SegmentIs
<1>3. Len(s) = c
  BY <1>1, <1>2, SegmentIs
<1>4. s = SubSeq(ds, 1, c)
  <2>1. s = AtMost(ds, c)
    BY <1>2, FirstSegment
  <2>2. Least(c, Len(ds)) = c
    BY <1>1 DEF Least
  <2> QED
    BY <2>1, <2>2 DEF AtMost
<1>5. SubSeq(s, 1, c) = s
  BY <1>3
<1> QED
  BY <1>1, <1>2, <1>3, <1>4, <1>5 DEF IsPrefix

\* One sequence, laid end to end, is itself.
LEMMA FlatOfOne ==
  ASSUME NEW p, NEW bundle, p.bundles = <<bundle>>, bundle.documents \in Seq(Documents)
  PROVE  Carried(p) = bundle.documents
<1>1. PICK s \in Seq(Documents) : s = bundle.documents
  OBVIOUS
<1>2. DOMAIN p.bundles = {1} /\ p.bundles[1] = bundle /\ {1} = 1..1
  OBVIOUS
<1>3. [k \in DOMAIN p.bundles |-> p.bundles[k].documents] = <<s>>
  BY <1>1, <1>2
<1>4. Carried(p) = FlattenSeq(<<s>>)
  BY <1>3 DEF Carried
<1>5. PICK seqs \in Seq(Seq(Documents)) : seqs = <<s>>
  <2>1. PICK lists : lists = Seq(Documents)
    OBVIOUS
  <2>2. <<s>> \in Seq(lists)
    BY <2>1
  <2> QED
    BY <2>1, <2>2
<1>6. Len(seqs) = 1 /\ seqs[1] = s
  BY <1>5
<1>7. PICK ends : EndsOf(ends, seqs)
  BY EndsExist, EndsAre
<1>8. ends[0] = 0 /\ ends[1] = Len(s)
  BY <1>6, <1>7 DEF EndsOf
<1>9. PICK flat : flat = FlattenSeq(seqs)
  OBVIOUS
<1>10. FlatOf(flat, seqs, ends, 1, Documents)
  BY <1>6, <1>7, <1>9, FlatIs
<1>11. /\ flat \in Seq(Documents) /\ Len(flat) = Len(s)
       /\ \A a \in 1..Len(s) : flat[a] = s[a]
  BY <1>6, <1>8, <1>10 DEF FlatOf
<1> QED
  BY <1>1, <1>4, <1>5, <1>9, <1>11

\* A run of a run from the beginning is one.
LEMMA SegmentOfSegment ==
  ASSUME NEW ds \in Seq(Documents), NEW n \in 0..Len(ds), NEW c \in 0..n
  PROVE  Segment(Segment(ds, 0, n), 0, c) = Segment(ds, 0, c) /\ c \in 0..Len(ds)
<1>1. /\ n \in Nat /\ c \in Nat /\ n - 0 = n /\ c - 0 = c /\ c \in 0..Len(ds)
      /\ 0 \in 0..Len(ds) /\ 0 <= n /\ 0 <= c
  OBVIOUS
<1>2. PICK s \in Seq(Documents) : s = Segment(ds, 0, n)
  BY <1>1, SegmentIs
<1>3. Len(s) = n /\ \A a \in 1..n : s[a] = ds[0 + a]
  <2>1. Len(s) = n - 0 /\ \A a \in 1..(n - 0) : s[a] = ds[0 + a]
    BY <1>1, <1>2, SegmentIs
  <2> QED
    BY <1>1, <2>1
<1>4. Segment(s, 0, c) = [a \in 1..c |-> s[0 + a]] /\ Segment(ds, 0, c) = [a \in 1..c |-> ds[0 + a]]
  BY <1>1 DEF Segment
<1>5. \A a \in 1..c : s[0 + a] = ds[0 + a]
  BY <1>1, <1>3
<1> QED
  BY <1>1, <1>2, <1>4, <1>5

\* The first m of the groups.
FirstOf(seqs, groups, m) ==
  /\ seqs \in Seq(Seq(Documents)) /\ Len(seqs) = m /\ m \in 0..Len(groups)
  /\ \A g \in 1..m : seqs[g] = groups[g]

\* Consecutive runs, laid end to end, are one run.
LEMMA RunsLaidEndToEnd ==
  ASSUME NEW ds \in Seq(Documents), NEW groups, NEW ends, Consecutive(groups, ends, ds, Len(ds)),
         NEW m, NEW seqs, FirstOf(seqs, groups, m)
  PROVE  FlattenSeq(seqs) = Segment(ds, 0, ends[m]) /\ ends[m] \in 0..Len(ds)
<1>c. /\ m \in 0..Len(groups) /\ Len(seqs) = m /\ seqs \in Seq(Seq(Documents))
      /\ \A g \in 1..m : seqs[g] = groups[g]
  BY DEF FirstOf
<1>1. /\ groups \in Seq(Seq(Documents)) /\ Len(groups) \in Nat
      /\ ends \in [0..Len(groups) -> 0..Len(ds)] /\ ends[0] = 0
      /\ \A g \in 1..Len(groups) :
           ends[g - 1] < ends[g] /\ groups[g] = Segment(ds, ends[g - 1], ends[g])
  BY DEF Consecutive
<1>a. /\ ends \in [0..Len(groups) -> 0..Len(ds)] /\ ends[0] = 0
      /\ \A g \in 1..Len(groups) : ends[g - 1] < ends[g]
  BY <1>1
<1>b. \A g \in 1..Len(groups) : groups[g] = Segment(ds, ends[g - 1], ends[g])
  BY <1>1
<1>2. /\ m \in Nat /\ m <= Len(groups) /\ m \in 0..m /\ 0 \in 0..m
      /\ \A g \in 1..m : /\ g \in 1..Len(groups) /\ g - 1 \in 0..Len(groups)
                         /\ g \in 0..Len(groups) /\ g \in 0..m /\ g - 1 \in 0..m
  BY <1>1, <1>c
<1> DEFINE e == [g \in 0..m |-> ends[g]]
<1>3. ASSUME NEW g \in 1..m
      PROVE  /\ ends[g - 1] \in 0..Len(ds) /\ ends[g] \in 0..Len(ds)
             /\ Len(seqs[g]) = ends[g] - ends[g - 1]
             /\ \A a \in 1..Len(seqs[g]) : seqs[g][a] = ds[ends[g - 1] + a]
  <2>a. g \in 1..Len(groups) /\ g - 1 \in 0..Len(groups) /\ g \in 0..Len(groups)
    BY <1>2
  <2>1. PICK i \in 0..Len(ds) : i = ends[g - 1]
    BY <1>a, <2>a
  <2>2. PICK k \in 0..Len(ds) : k = ends[g]
    BY <1>a, <2>a
  <2>3. i <= k /\ seqs[g] = Segment(ds, i, k)
    <3>1. i < k
      BY <1>a, <2>a, <2>1, <2>2
    <3>2. seqs[g] = groups[g]
      BY <1>c, Zenon
    <3>3. seqs[g] = Segment(ds, i, k)
      BY <1>b, <2>a, <2>1, <2>2, <3>2, Zenon
    <3> QED
      BY <3>1, <3>3
  <2>4. PICK s \in Seq(Documents) : s = Segment(ds, i, k)
    BY <2>3, SegmentIs
  <2>5. Len(s) = k - i /\ \A a \in 1..(k - i) : s[a] = ds[i + a]
    BY <2>3, <2>4, SegmentIs
  <2> QED
    BY <2>1, <2>2, <2>3, <2>4, <2>5
<1>4. SumsTo(e, Lengths(seqs))
  <2>1. /\ Len(Lengths(seqs)) = m /\ \A g \in 1..m : Lengths(seqs)[g] = Len(seqs[g])
    BY <1>2, <1>c DEF Lengths
  <2>2. \A g \in 0..m : ends[g] \in Int
    <3>1. \A g \in 0..m : g \in 0..Len(groups)
      BY <1>1, <1>2
    <3>2. \A g \in 0..Len(groups) : ends[g] \in 0..Len(ds)
      BY <1>a
    <3> QED
      BY <3>1, <3>2
  <2>3. e \in [0..m -> Int] /\ e[0] = 0
    BY <1>a, <1>2, <2>2
  <2>4. ASSUME NEW g \in 1..m PROVE e[g] = e[g - 1] + Lengths(seqs)[g]
    <3>1. e[g] = ends[g] /\ e[g - 1] = ends[g - 1]
      BY <1>2
    <3>2. PICK i \in Int : i = ends[g - 1]
      BY <1>2, <2>2
    <3>3. PICK k \in Int : k = ends[g]
      BY <1>2, <2>2
    <3>4. Lengths(seqs)[g] = k - i
      BY <1>3, <2>1, <3>2, <3>3, Zenon
    <3> HIDE DEF e
    <3> QED
      BY <3>1, <3>2, <3>3, <3>4
  <2> HIDE DEF e
  <2> QED
    BY <2>1, <2>3, <2>4 DEF SumsTo
<1>5. e[m] = ends[m] /\ ends[m] \in 0..Len(ds) /\ \A g \in 1..m : e[g - 1] = ends[g - 1]
  BY SMTT(30), <1>a, <1>2
<1> HIDE DEF e
<1>6. EndsOf(e, seqs)
  BY <1>4, <1>c, EndsAre
<1>7. PICK flat : flat = FlattenSeq(seqs)
  OBVIOUS
<1>8. FlatOf(flat, seqs, e, m, Documents)
  BY <1>6, <1>7, <1>c, FlatIs
<1>9. /\ flat \in Seq(Documents) /\ Len(flat) = e[m]
      /\ \A g \in 1..m : \A a \in 1..Len(seqs[g]) : flat[e[g - 1] + a] = seqs[g][a]
      /\ \A p \in 1..Len(flat) : \E g \in 1..m : \E a \in 1..Len(seqs[g]) : p = e[g - 1] + a
  BY <1>8 DEF FlatOf
<1>10. ASSUME NEW p \in 1..Len(flat) PROVE flat[p] = ds[p]
  <2>1. PICK g \in 1..m : \E a \in 1..Len(seqs[g]) : p = e[g - 1] + a
    BY <1>9
  <2>2. PICK a \in 1..Len(seqs[g]) : p = e[g - 1] + a
    BY <2>1
  <2>3. flat[p] = seqs[g][a]
    BY <1>9, <2>2
  <2>4. p = ends[g - 1] + a
    BY <1>5, <2>2
  <2>5. seqs[g][a] = ds[p]
    BY <1>3, <2>4, Zenon
  <2> QED
    BY <2>3, <2>5
<1>11. PICK c \in 0..Len(ds) : c = ends[m] /\ c = Len(flat)
  BY <1>5, <1>9
<1>12. flat = [a \in 1..c |-> ds[0 + a]] /\ c - 0 = c
  <2>1. flat = [a \in 1..c |-> flat[a]] /\ c \in Nat
    BY <1>9, <1>11
  <2>2. \A a \in 1..c : flat[a] = ds[0 + a]
    BY <1>9, <1>10, <1>11
  <2> QED
    BY <2>1, <2>2
<1> QED
  BY <1>7, <1>11, <1>12 DEF Segment

\* The groups of a ranking that is too long for a single call: the first of the runs
\* it falls into.
PlannedRuns(groups, all, ends, total, s) ==
  /\ SumsTo(total, Estimates(s)) /\ total[Len(s)] > DirectLimit
  /\ Consecutive(all, ends, s, Len(s)) /\ FilledInTurn(all, ends, total)
  /\ FirstOf(groups, all, Len(groups)) /\ Len(groups) = Least(MaxGroups, Len(all))

\* Such a ranking has them.
LEMMA MapGroupsAre ==
  ASSUME NEW s, RankedDocuments(s), ~(Estimate(s) <= DirectLimit),
         NEW groups, groups = PartitionMapGroups(s)
  PROVE  \E all, ends, total : PlannedRuns(groups, all, ends, total, s)
<1>1. s \in Seq(Documents) /\ Len(s) \in Nat /\ DOMAIN s = 1..Len(s)
  BY DEF RankedDocuments
<1>2. PICK total : SumsTo(total, Estimates(s)) /\ Sum(Estimates(s)) = total[Len(s)]
  BY <1>1, EstimatesAre, SumIs
<1>3. total \in [0..Len(s) -> Int] /\ total[0] = 0
  BY <1>1, <1>2, EstimatesAre DEF SumsTo
<1>4. total[Len(s)] > DirectLimit
  <2>1. Estimate(s) = total[Len(s)]
    BY <1>2 DEF Estimate, Estimates
  <2>2. total[Len(s)] \in Int
    BY <1>1, <1>3
  <2> QED
    BY CallLimits, <2>1, <2>2
<1>5. PICK all : all = Groups(s)
  OBVIOUS
<1>6. PICK ends : Consecutive(all, ends, s, Len(s)) /\ FilledInTurn(all, ends, total)
  BY <1>1, <1>2, <1>5, GroupsAreSegments
<1>7. PICK lists : lists = Seq(Documents)
  OBVIOUS
<1>8. all \in Seq(lists) /\ Len(all) \in Nat
  BY <1>6, <1>7 DEF Consecutive
<1>9. groups = AtMost(all, MaxGroups)
  BY <1>5 DEF PartitionMapGroups
<1>10. /\ groups \in Seq(lists) /\ Len(groups) = Least(MaxGroups, Len(all))
       /\ Len(groups) <= Len(all)
       /\ \A g \in 1..Len(groups) : groups[g] = all[g] /\ g \in 1..Len(all)
  BY CallLimits, <1>8, <1>9, PrefixElements
<1>11. FirstOf(groups, all, Len(groups))
  BY <1>7, <1>8, <1>10 DEF FirstOf
<1>12. PlannedRuns(groups, all, ends, total, s)
  BY <1>2, <1>4, <1>6, <1>10, <1>11 DEF PlannedRuns
<1> QED
  BY <1>12

\* Every group is a run of the ranking, and its call has room for the whole of it.
LEMMA GroupHasRoom ==
  ASSUME NEW s, RankedDocuments(s), NEW groups, NEW all, NEW ends, NEW total,
         PlannedRuns(groups, all, ends, total, s), NEW g \in DOMAIN groups
  PROVE  /\ RankedDocuments(groups[g]) /\ groups[g] # <<>>
         /\ RoomFor(Len(groups[g]), GroupLimit)
         /\ \A a \in DOMAIN groups[g] : \E i \in DOMAIN s : groups[g][a] = s[i]
<1>1. s \in Seq(Documents) /\ Len(s) \in Nat /\ DOMAIN s = 1..Len(s)
  BY DEF RankedDocuments
<1>2. SumsTo(total, Estimates(s)) /\ total[Len(s)] > DirectLimit /\ FilledInTurn(all, ends, total)
  BY DEF PlannedRuns
<1>3. /\ all \in Seq(Seq(Documents)) /\ Len(all) \in Nat /\ ends \in [0..Len(all) -> 0..Len(s)]
      /\ \A h \in 1..Len(all) :
           ends[h - 1] < ends[h] /\ all[h] = Segment(s, ends[h - 1], ends[h])
  BY DEF PlannedRuns, Consecutive
<1>4. PICK m \in Nat : m = Len(groups)
  BY DEF PlannedRuns, FirstOf
<1>5. m \in 0..Len(all) /\ DOMAIN groups = 1..m /\ \A h \in 1..m : groups[h] = all[h]
  BY <1>4 DEF PlannedRuns, FirstOf
<1>6. g \in 1..Len(all) /\ g \in 0..Len(all) /\ g - 1 \in 0..Len(all)
  BY <1>3, <1>5
<1>7. PICK i \in 0..Len(s) : i = ends[g - 1]
  BY <1>3, <1>6
<1>8. PICK k \in 0..Len(s) : k = ends[g]
  BY <1>3, <1>6
<1>9. i < k /\ i <= k /\ groups[g] = Segment(s, i, k)
  <2>1. i < k
    BY <1>3, <1>6, <1>7, <1>8
  <2>2. all[g] = Segment(s, i, k)
    BY <1>3, <1>6, <1>7, <1>8, Zenon
  <2>3. groups[g] = all[g]
    BY <1>5, Zenon
  <2> QED
    BY <2>1, <2>2, <2>3
<1>10. total[k] - total[i] <= GroupLimit
  BY <1>2, <1>6, <1>7, <1>8 DEF FilledInTurn
<1>11. RoomFor(k - i, GroupLimit)
  BY <1>2, <1>9, <1>10, RoomInAGroup
<1>12. PICK t : t = Segment(s, i, k)
  OBVIOUS
<1>13. RankedDocuments(t)
  BY <1>9, <1>12, SegmentIsRanked
<1>14. /\ t \in Seq(Documents) /\ Len(t) = k - i
       /\ \A a \in 1..(k - i) : t[a] = s[i + a] /\ i + a \in 1..Len(s)
  BY <1>1, <1>9, <1>12, SegmentIs
<1>15. DOMAIN t = 1..(k - i) /\ t # <<>>
  BY <1>1, <1>9, <1>14
<1> QED
  BY <1>1, <1>9, <1>11, <1>12, <1>13, <1>14, <1>15

\* The bundles of the groups carry consecutive runs of the plan.
LEMMA GroupsAreCarried ==
  ASSUME NEW s, RankedDocuments(s), \A k \in DOMAIN s : Ordinary(s[k]),
         ~(Estimate(s) <= DirectLimit),
         NEW groups, groups = PartitionMapGroups(s), NEW p,
         p.bundles = [k \in DOMAIN groups |-> BuildBundle(groups[k], GroupLimit)]
  PROVE  /\ \A k \in DOMAIN p.bundles : p.bundles[k].documents # <<>>
         /\ \E c \in 0..Len(s) :
              /\ Carried(p) = Segment(s, 0, c)
              /\ c < Len(s) => Estimate(Carried(p)) > MaxGroups * Spared
<1>1. s \in Seq(Documents) /\ Len(s) \in Nat /\ DOMAIN s = 1..Len(s)
  BY DEF RankedDocuments
<1>5. PICK all, ends, total : PlannedRuns(groups, all, ends, total, s)
  BY MapGroupsAre
<1>2. SumsTo(total, Estimates(s))
  BY <1>5 DEF PlannedRuns
<1>3. total \in [0..Len(s) -> Int] /\ total[0] = 0
  BY <1>1, <1>2, EstimatesAre DEF SumsTo
<1>6. Consecutive(all, ends, s, Len(s)) /\ FilledInTurn(all, ends, total)
  BY <1>5 DEF PlannedRuns
<1>7. Len(all) \in Nat /\ ends[Len(all)] = Len(s)
  BY <1>6 DEF Consecutive
<1>8. PICK m \in Nat : m = Len(groups)
  BY <1>5 DEF PlannedRuns, FirstOf
<1>9. /\ groups \in Seq(Seq(Documents)) /\ DOMAIN groups = 1..m /\ m = Least(MaxGroups, Len(all))
      /\ m \in 0..Len(all) /\ \A g \in 1..m : groups[g] = all[g] /\ g \in 1..Len(all)
  BY <1>5, <1>7, <1>8 DEF PlannedRuns, FirstOf
<1>10. ASSUME NEW g \in 1..m
       PROVE  /\ BuildBundle(groups[g], GroupLimit).documents = groups[g]
              /\ groups[g] # <<>>
  <2>1. PICK t : t = groups[g]
    OBVIOUS
  <2>2. /\ RankedDocuments(t) /\ t # <<>> /\ RoomFor(Len(t), GroupLimit)
        /\ \A a \in DOMAIN t : \E i \in DOMAIN s : t[a] = s[i]
    BY SMTT(30), <1>5, <1>9, <2>1, GroupHasRoom
  <2>3. BuildBundle(t, GroupLimit).documents = t
    BY CallLimits, <2>2, BundleIsWhole
  <2> QED
    BY <2>1, <2>2, <2>3
<1>11. DOMAIN p.bundles = 1..m /\ \A g \in 1..m : p.bundles[g].documents = groups[g]
  BY <1>9, <1>10
<1>12. Carried(p) = FlattenSeq(groups)
  <2>1. [k \in DOMAIN p.bundles |-> p.bundles[k].documents] = [k \in 1..m |-> groups[k]]
    BY <1>11, Zenon
  <2>2. groups = [k \in 1..m |-> groups[k]]
    BY <1>8, <1>9
  <2> QED
    BY <2>1, <2>2 DEF Carried
<1>13. PICK c \in 0..Len(s) : c = ends[m] /\ Carried(p) = Segment(s, 0, c)
  <2>1. FlattenSeq(groups) = Segment(s, 0, ends[m]) /\ ends[m] \in 0..Len(s)
    <3>1. groups \in Seq(Seq(Documents)) /\ Len(groups) = m /\ m \in 0..Len(all)
      BY <1>8, <1>9
    <3>2. \A g \in 1..m : groups[g] = all[g]
      BY <1>9, Zenon
    <3>3. FirstOf(groups, all, m)
      BY <3>1, <3>2, Zenon DEF FirstOf
    <3> QED
      BY <1>1, <1>6, <3>3, RunsLaidEndToEnd
  <2> QED
    BY <1>12, <2>1
<1>14. ASSUME c < Len(s) PROVE Estimate(Carried(p)) > MaxGroups * Spared
  <2>1. m # Len(all)
    BY <1>7, <1>13, <1>14
  <2>2. m = MaxGroups /\ m < Len(all)
    BY CallLimits, <1>7, <1>9, <2>1 DEF Least
  <2>3. m \in Nat \ {0}
    BY CallLimits, <2>2
  <2>4. total[ends[m]] > m * Spared
    BY <1>1, <1>2, <1>6, <2>2, <2>3, GroupsBeforeAreFull
  <2>5. Estimate(Segment(s, 0, c)) = total[c] - total[0]
    <3>1. 0 \in 0..Len(s) /\ 0 <= c
      BY <1>1, <1>13
    <3> QED
      BY <1>1, <1>2, <3>1, SegmentEstimate
  <2>6. total[c] \in Int
    BY <1>3
  <2> QED
    BY <1>3, <1>13, <2>2, <2>4, <2>5, <2>6
<1> QED
  BY <1>10, <1>11, <1>13, <1>14

\* With ordinary headings, a plan that carries documents carries the best of a corpus.
LEMMA PlanCarriesTheBest ==
  ASSUME NEW ds \in Seq(Documents), DistinctIds(ToSet(ds)), \A d \in ToSet(ds) : Ordinary(d),
         NEW p, p = EvidencePlan(ds), Carried(p) # <<>>,
         NEW ranked, ranked = RankDocuments(ds)
  PROVE  /\ \A k \in DOMAIN p.bundles : p.bundles[k].documents # <<>>
         /\ \E c \in 0..Len(ranked) :
              /\ Carried(p) = Segment(ranked, 0, c)
              /\ c < Len(ranked) => Estimate(Carried(p)) > MaxGroups * Spared
<1>1. RankedDocuments(ranked)
  BY RankingIsRanked
<1>2. ranked \in Seq(Documents) /\ Len(ranked) \in Nat /\ DOMAIN ranked = 1..Len(ranked)
  BY <1>1 DEF RankedDocuments
<1>3. \A k \in 1..Len(ranked) : Ordinary(ranked[k])
  <2>1. \A k \in DOMAIN ranked : ranked[k] \in ToSet(ds)
    BY RankingIs
  <2> QED
    BY <1>2, <2>1
<1>4. PICK n \in 0..Len(ranked) :
        /\ WithinTotalBudget(ranked) = Segment(ranked, 0, n)
        /\ ranked # <<>> => n >= 1
        /\ n < Len(ranked) => Estimate(Segment(ranked, 0, n)) > MaxGroups * Spared
  BY <1>2, TopOfRanking
<1>5. PICK planned : planned = WithinTotalBudget(ranked)
  OBVIOUS
<1>6. 0 \in 0..Len(ranked) /\ 0 <= n /\ n - 0 = n /\ n \in Nat
  BY <1>2
<1>7. RankedDocuments(planned)
  BY <1>1, <1>4, <1>5, <1>6, SegmentIsRanked
<1>8. /\ planned \in Seq(Documents) /\ Len(planned) = n /\ DOMAIN planned = 1..n
      /\ \A k \in 1..n : Ordinary(planned[k])
  <2>0. planned = Segment(ranked, 0, n)
    BY <1>4, <1>5
  <2>1. /\ planned \in Seq(Documents) /\ Len(planned) = n
        /\ \A k \in 1..n : planned[k] = ranked[0 + k] /\ 0 + k \in 1..Len(ranked)
    <3>1. PICK t : t = Segment(ranked, 0, n)
      OBVIOUS
    <3>2. /\ t \in Seq(Documents) /\ Len(t) = n - 0
          /\ \A k \in 1..(n - 0) : t[k] = ranked[0 + k] /\ 0 + k \in 1..Len(ranked)
      BY <1>2, <1>6, <3>1, SegmentIs
    <3> QED
      BY <1>6, <2>0, <3>1, <3>2
  <2> QED
    BY <1>3, <2>1
<1>9. CASE Estimate(planned) <= DirectLimit
  <2>1. PICK bundle : bundle = BuildBundle(planned, DirectLimit)
    OBVIOUS
  <2>2. p = [direct |-> TRUE, bundles |-> <<bundle>>]
    BY <1>5, <1>9, <2>1 DEF EvidencePlan
  <2>3. p.bundles = <<bundle>> /\ DOMAIN p.bundles = {1} /\ p.bundles[1] = bundle
    BY <2>2
  <2>4. /\ bundle \in Bundles /\ bundle.documents \in Seq(Documents)
        /\ \A a \in DOMAIN bundle.documents :
             \E i \in 1..Len(planned) : bundle.documents[a] = planned[i]
    <3>1. planned \in Seq(Documents) /\ DistinctIds(ToSet(planned)) /\ DirectLimit \in Nat
      BY CallLimits, <1>7 DEF RankedDocuments
    <3>2. /\ bundle \in Bundles
          /\ \A a \in DOMAIN bundle.documents :
               \E i \in 1..Len(planned) : bundle.documents[a] = planned[i]
      BY <2>1, <3>1, BundleFrom
    <3> QED
      BY <3>2 DEF Bundles
  <2>5. Carried(p) = bundle.documents
    <3>1. bundle.documents \in Seq(Documents)
      BY <2>4
    <3> QED
      BY <2>3, <3>1, FlatOfOne DEF Carried
  <2>6. planned # <<>>
    <3> SUFFICES ASSUME planned = <<>> PROVE FALSE
      OBVIOUS
    <3>1. ToSet(planned) = {}
      BY <1>8 DEF ToSet
    <3>2. \A a \in DOMAIN bundle.documents : FALSE
      BY <1>8, <2>4
    <3>3. PICK t \in Seq(Documents) : t = bundle.documents
      BY <2>4
    <3>4. t = <<>>
      BY <3>2, <3>3
    <3> QED
      BY <2>5, <3>3, <3>4
  <2>7. bundle.documents = planned
    <3>1. RoomFor(Len(planned), DirectLimit)
      BY <1>7, RoomInACall
    <3> QED
      BY CallLimits, <1>7, <1>8, <2>1, <2>6, <3>1, BundleIsWhole
  <2>8. Carried(p) = Segment(ranked, 0, n)
    BY <1>4, <1>5, <2>5, <2>7
  <2>9. \A k \in DOMAIN p.bundles : p.bundles[k].documents # <<>>
    BY <2>3, <2>6, <2>7
  <2> QED
    BY <1>4, <2>8, <2>9
<1>10. CASE ~(Estimate(planned) <= DirectLimit)
  <2>1. PICK groups : groups = PartitionMapGroups(planned)
    OBVIOUS
  <2>2. p.bundles = [k \in DOMAIN groups |-> BuildBundle(groups[k], GroupLimit)]
    BY <1>5, <1>10, <2>1 DEF EvidencePlan
  <2>3. /\ \A k \in DOMAIN p.bundles : p.bundles[k].documents # <<>>
        /\ \E c \in 0..n :
              /\ Carried(p) = Segment(planned, 0, c)
              /\ c < n => Estimate(Carried(p)) > MaxGroups * Spared
    BY <1>7, <1>8, <1>10, <2>1, <2>2, GroupsAreCarried
  <2>4. PICK c \in 0..n : /\ Carried(p) = Segment(planned, 0, c)
                          /\ c < n => Estimate(Carried(p)) > MaxGroups * Spared
    BY <2>3
  <2>5. Carried(p) = Segment(ranked, 0, c) /\ c \in 0..Len(ranked)
    BY <1>2, <1>4, <1>5, <2>4, SegmentOfSegment
  <2>6. c < Len(ranked) => Estimate(Carried(p)) > MaxGroups * Spared
    <3>1. CASE c = n
      BY <1>4, <2>5, <3>1
    <3>2. CASE c < n
      BY <2>4, <3>2
    <3> QED
      BY <1>6, <3>1, <3>2
  <2> QED
    BY <2>3, <2>5, <2>6
<1> QED
  BY <1>9, <1>10

\* What the plan of a corpus sends to each call, before any card is made.
CallsOf(ds) ==
  LET planned == WithinTotalBudget(RankDocuments(ds))
  IN  IF EvidencePlan(ds).direct THEN <<planned>> ELSE PartitionMapGroups(planned)

\* Every call shows what it is sent, up to the first long heading.
LEMMA CallsShowTheirBest ==
  ASSUME NEW ds \in Seq(Documents), DistinctIds(ToSet(ds)),
         NEW k \in DOMAIN CallsOf(ds), NEW c \in DOMAIN CallsOf(ds)[k],
         \A i \in 1..c : Ordinary(CallsOf(ds)[k][i])
  PROVE  CallsOf(ds)[k][c] \in ToSet(EvidencePlan(ds).bundles[k].documents)
<1>1. PICK ranked : ranked = RankDocuments(ds)
  OBVIOUS
<1>2. RankedDocuments(ranked)
  BY <1>1, RankingIsRanked
<1>3. ranked \in Seq(Documents) /\ Len(ranked) \in Nat
  BY <1>2 DEF RankedDocuments
<1>4. PICK n \in 0..Len(ranked) : WithinTotalBudget(ranked) = Segment(ranked, 0, n)
  BY <1>3, TopOfRanking
<1>5. PICK planned : planned = WithinTotalBudget(ranked)
  OBVIOUS
<1>6. RankedDocuments(planned)
  <2>1. 0 \in 0..Len(ranked) /\ 0 <= n
    BY <1>3
  <2> QED
    BY <1>2, <1>4, <1>5, <2>1, SegmentIsRanked
<1>7. PICK t : t = CallsOf(ds)[k]
  OBVIOUS
<1>8. c \in DOMAIN t /\ \A i \in 1..c : Ordinary(t[i])
  BY <1>7
<1>9. CASE Estimate(planned) <= DirectLimit
  <2>1. PICK bundle : bundle = BuildBundle(planned, DirectLimit)
    OBVIOUS
  <2>2. EvidencePlan(ds) = [direct |-> TRUE, bundles |-> <<bundle>>]
    BY <1>1, <1>5, <1>9, <2>1 DEF EvidencePlan
  <2>3. CallsOf(ds) = <<planned>>
    BY <1>1, <1>5, <2>2 DEF CallsOf
  <2>4. k = 1 /\ t = planned /\ EvidencePlan(ds).bundles[k] = bundle
    BY <1>7, <2>2, <2>3
  <2>5. RoomFor(Len(planned), DirectLimit)
    BY <1>6, RoomInACall
  <2>6. t[c] \in ToSet(bundle.documents)
    BY CallLimits, <1>6, <1>8, <2>1, <2>4, <2>5, BundleShows
  <2> QED
    BY <1>7, <2>4, <2>6
<1>10. CASE ~(Estimate(planned) <= DirectLimit)
  <2>1. PICK groups : groups = PartitionMapGroups(planned)
    OBVIOUS
  <2>2. PICK bundles : bundles = [g \in DOMAIN groups |-> BuildBundle(groups[g], GroupLimit)]
    OBVIOUS
  <2>3. EvidencePlan(ds) = [direct |-> FALSE, bundles |-> bundles]
    BY <1>1, <1>5, <1>10, <2>1, <2>2 DEF EvidencePlan
  <2>4. CallsOf(ds) = groups
    BY <1>1, <1>5, <2>1, <2>3 DEF CallsOf
  <2>5. /\ k \in DOMAIN groups /\ t = groups[k]
        /\ EvidencePlan(ds).bundles[k] = BuildBundle(t, GroupLimit)
    BY <1>7, <2>2, <2>3, <2>4
  <2>6. PICK all, ends, total : PlannedRuns(groups, all, ends, total, planned)
    BY <1>6, <1>10, <2>1, MapGroupsAre
  <2>7. RankedDocuments(t) /\ RoomFor(Len(t), GroupLimit)
    BY <1>6, <2>5, <2>6, GroupHasRoom
  <2>8. t[c] \in ToSet(BuildBundle(t, GroupLimit).documents)
    BY CallLimits, <1>8, <2>7, BundleShows
  <2> QED
    BY <1>7, <2>5, <2>8
<1> QED
  BY <1>9, <1>10

-----------------------------------------------------------------------------
(* The generation: bedrock_brief_generator.py *)

\* What the partial briefs cite, of the bundles of a plan.
PartialsOf(ps, p) ==
  /\ ps \in Seq(Partials) /\ Len(ps) <= Len(p.bundles)
  /\ \A k \in DOMAIN ps : /\ IsFiniteSet(ps[k].cited)
                          /\ ps[k].cited \subseteq ToSet(p.bundles[k].documents)

AllCited(ps) == UNION {ps[k].cited : k \in DOMAIN ps}

\* Before the evidence is planned, and after.
Unplanned ==
  stage = "none" /\ plan = NoPlan /\ partials = <<>> /\ calls = 0 /\ brief = {}

Planned ==
  /\ PlanOf(plan) /\ PartialsOf(partials, plan)
  /\ calls \in 0..(IF plan.direct THEN 1 ELSE Len(plan.bundles) + 1)

GenInv ==
  \/ Unplanned
  \/ /\ Planned
     /\ \/ stage = "direct" /\ plan.direct /\ calls = 0 /\ brief = {}
        \/ stage = "map" /\ ~plan.direct /\ calls = Len(partials) /\ brief = {}
        \/ stage = "failed" /\ brief = {}
        \/ stage = "done" /\ plan.direct /\ brief \subseteq ToSet(plan.bundles[1].documents)
        \/ /\ stage = "done" /\ ~plan.direct /\ calls = Len(plan.bundles) + 1
           /\ ReducerFits /\ brief \subseteq AllCited(partials)

\* Nothing is planned before the first request.
LEMMA PlanningInit == GenInit => GenInv
BY DEF GenInit, GenInv, Unplanned

\* A plan has numbers of bundles and of calls.
LEMMA PlanTypes ==
  ASSUME NEW p, PlanOf(p)
  PROVE  /\ p.bundles \in Seq(Bundles) /\ Len(p.bundles) \in Nat /\ p.direct \in BOOLEAN
         /\ DOMAIN p.bundles = 1..Len(p.bundles)
         /\ \A k \in DOMAIN p.bundles : p.bundles[k].documents \in Seq(Documents)
<1>1. p.bundles \in Seq(Bundles) /\ p.direct \in BOOLEAN
  BY DEF PlanOf
<1>2. \A k \in DOMAIN p.bundles : p.bundles[k] \in Bundles
  BY <1>1
<1> QED
  BY <1>1, <1>2 DEF Bundles

\* A generation starts without partial briefs.
LEMMA NoPartials ==
  ASSUME NEW p, PlanOf(p)
  PROVE  PartialsOf(<<>>, p)
<1>1. <<>> \in Seq(Partials) /\ Len(<<>>) = 0 /\ DOMAIN <<>> = {}
  OBVIOUS
<1> QED
  BY <1>1, PlanTypes DEF PartialsOf

\* The first request plans the evidence of a corpus.
LEMMA PrepareKeepsPlanning == GenInv /\ Prepare => GenInv'
<1> SUFFICES ASSUME GenInv, Prepare PROVE GenInv'
  OBVIOUS
<1>1. PICK ds \in Corpora : corpus' = ds /\ plan' = EvidencePlan(ds)
  BY DEF Prepare
<1>2. ds \in Seq(Documents) /\ \A i, k \in DOMAIN ds : ds[i].id = ds[k].id => i = k
  BY GenerationAssumption
<1>3. DistinctIds(ToSet(ds))
  BY <1>2 DEF DistinctIds, ToSet
<1>4. PICK p : p = plan' /\ PlanOf(p)
  BY <1>1, <1>2, <1>3, PlanIs
<1>5. Unplanned
  BY DEF GenInv, Prepare
<1>6. partials' = <<>> /\ calls' = 0 /\ brief' = {} /\ stage' = IF p.direct THEN "direct" ELSE "map"
  BY <1>4, <1>5 DEF Prepare, Start, Unplanned
<1>7. Planned'
  BY <1>4, <1>6, NoPartials, PlanTypes DEF Planned
<1> QED
  BY <1>4, <1>6, <1>7, PlanTypes DEF GenInv

\* A retry starts over with the same plan.
LEMMA RetryKeepsPlanning == GenInv /\ Retry => GenInv'
<1> SUFFICES ASSUME GenInv, Retry PROVE GenInv'
  OBVIOUS
<1>1. Planned /\ brief = {}
  BY DEF GenInv, Retry, Unplanned
<1>2. PICK p : p = plan /\ p = plan' /\ PlanOf(p)
  BY <1>1 DEF Planned, Retry
<1>3. partials' = <<>> /\ calls' = 0 /\ brief' = {} /\ stage' = IF p.direct THEN "direct" ELSE "map"
  BY <1>1, <1>2 DEF Retry, Start
<1>4. Planned'
  BY <1>2, <1>3, NoPartials, PlanTypes DEF Planned
<1> QED
  BY <1>2, <1>3, <1>4, PlanTypes DEF GenInv

\* The last call ends the generation, with a brief that cites its sources.
LEMMA FinalCallIs ==
  ASSUME NEW sources \in Seq(Documents), FinalCall(sources)
  PROVE  /\ calls' = calls + 1 /\ plan' = plan /\ partials' = partials
         /\ \/ stage' = "failed" /\ brief' = brief
            \/ stage' = "done" /\ brief' \subseteq ToSet(sources)
<1>1. PICK refs \in Answers(Len(sources)) :
        IF Accepted(refs, sources)
        THEN stage' = "done" /\ brief' = Cited(refs, sources)
        ELSE stage' = "failed" /\ UNCHANGED brief
  BY DEF FinalCall
<1> QED
  BY <1>1, CitedIs DEF FinalCall

\* A direct call answers out of the one bundle.
LEMMA DirectKeepsPlanning == GenInv /\ Direct => GenInv'
<1> SUFFICES ASSUME GenInv, Direct PROVE GenInv'
  OBVIOUS
<1>1. Planned /\ plan.direct /\ calls = 0 /\ brief = {}
  BY DEF GenInv, Direct, Unplanned
<1>2. PICK p : p = plan /\ PlanOf(p)
  BY <1>1 DEF Planned
<1>3. 1 \in DOMAIN p.bundles
  BY <1>1, <1>2, PlanTypes DEF PlanOf
<1>4. PICK sources \in Seq(Documents) : sources = p.bundles[1].documents
  BY <1>2, <1>3, PlanTypes
<1>5. FinalCall(sources)
  BY <1>2, <1>4 DEF Direct
<1>6. /\ calls' = 1 /\ plan' = plan /\ partials' = partials
      /\ \/ stage' = "failed" /\ brief' = {}
         \/ stage' = "done" /\ brief' \subseteq ToSet(sources)
  BY <1>1, <1>5, FinalCallIs
<1>7. Planned'
  BY <1>1, <1>6 DEF Planned
<1> QED
  BY <1>1, <1>2, <1>4, <1>6, <1>7 DEF GenInv

\* A map call adds a partial brief that cites its own group, or fails.
LEMMA GroupKeepsPlanning == GenInv /\ MapGroup => GenInv'
<1> SUFFICES ASSUME GenInv, MapGroup PROVE GenInv'
  OBVIOUS
<1>1. Planned /\ ~plan.direct /\ calls = Len(partials) /\ brief = {}
  BY DEF GenInv, MapGroup, Unplanned
<1>2. PICK p : p = plan /\ PlanOf(p)
  BY <1>1 DEF Planned
<1>3. PICK ps : ps = partials /\ PartialsOf(ps, p)
  BY <1>1, <1>2 DEF Planned
<1>4. PICK m \in Nat : m = Len(ps) /\ DOMAIN ps = 1..m
  BY <1>3 DEF PartialsOf
<1> DEFINE k == m + 1
<1>5. k \in DOMAIN p.bundles /\ k <= Len(p.bundles) /\ stage = "map"
  BY <1>2, <1>3, <1>4, PlanTypes DEF MapGroup
<1>6. PICK sources \in Seq(Documents) : sources = p.bundles[k].documents
  BY <1>2, <1>5, PlanTypes
<1>7. CASE GenerationError
  <2>1. stage' = "failed" /\ plan' = plan /\ partials' = partials /\ calls' = calls /\ brief' = {}
    BY <1>1, <1>7 DEF GenerationError
  <2>2. Planned'
    BY <1>1, <2>1 DEF Planned
  <2> QED
    BY <2>1, <2>2 DEF GenInv
<1>8. CASE /\ calls' = calls + 1
           /\ \E refs \in Answers(Len(sources)), n \in PartialLengths :
                IF Accepted(refs, sources)
                THEN /\ partials' = Append(partials,
                          [cited |-> Cited(refs, sources), characters |-> n])
                     /\ UNCHANGED stage
                ELSE stage' = "failed" /\ UNCHANGED partials
           /\ UNCHANGED <<corpus, plan, brief>>
  <2>1. PICK refs \in Answers(Len(sources)), n \in PartialLengths :
                IF Accepted(refs, sources)
                THEN /\ partials' = Append(partials,
                          [cited |-> Cited(refs, sources), characters |-> n])
                     /\ UNCHANGED stage
                ELSE stage' = "failed" /\ UNCHANGED partials
    BY <1>8
  <2>2. /\ calls' = m + 1 /\ calls' \in 0..(Len(p.bundles) + 1)
        /\ plan' = p /\ brief' = {} /\ ~p.direct
    BY <1>1, <1>2, <1>3, <1>4, <1>5, <1>8
  <2>3. CASE ~Accepted(refs, sources)
    <3>1. stage' = "failed" /\ partials' = ps
      BY <1>3, <2>1, <2>3
    <3>2. Planned'
      BY <1>2, <1>3, <2>2, <3>1 DEF Planned
    <3> QED
      BY <2>2, <3>1, <3>2 DEF GenInv
  <2>4. CASE Accepted(refs, sources)
    <3>1. PICK cited : cited = Cited(refs, sources)
      OBVIOUS
    <3>2. PICK new : new = [cited |-> cited, characters |-> n]
      OBVIOUS
    <3>3. partials' = Append(ps, new) /\ stage' = "map"
      BY <1>3, <1>5, <2>1, <2>4, <3>1, <3>2
    <3>4. cited \in SUBSET Documents /\ cited \subseteq ToSet(sources) /\ IsFiniteSet(cited)
      BY <2>4, <3>1, CitedIs
    <3>5. new \in Partials /\ new.cited = cited
      BY <3>2, <3>4, GenerationAssumption DEF Partials
    <3>6. ps \in Seq(Partials)
      BY <1>3 DEF PartialsOf
    <3>7. PICK later : later = Append(ps, new)
      OBVIOUS
    <3>8. /\ later \in Seq(Partials) /\ Len(later) = m + 1 /\ DOMAIN later = 1..(m + 1)
          /\ later[m + 1] = new /\ \A i \in 1..m : later[i] = ps[i]
      BY <1>4, <3>5, <3>6, <3>7
    <3>9. ASSUME NEW i \in 1..(m + 1)
          PROVE  /\ IsFiniteSet(later[i].cited)
                 /\ later[i].cited \subseteq ToSet(p.bundles[i].documents)
      <4>1. CASE i = m + 1
        BY <1>6, <3>4, <3>5, <3>8, <4>1
      <4>2. CASE i \in 1..m
        BY <1>3, <1>4, <3>8, <4>2 DEF PartialsOf
      <4> QED
        BY <4>1, <4>2
    <3>10. PartialsOf(later, p)
      BY <1>5, <3>8, <3>9 DEF PartialsOf
    <3>11. Planned'
      BY <1>2, <2>2, <3>3, <3>7, <3>10 DEF Planned
    <3>12. calls' = Len(partials')
      BY <2>2, <3>3, <3>7, <3>8
    <3> QED
      BY <2>2, <3>3, <3>11, <3>12 DEF GenInv
  <2> QED
    BY <2>3, <2>4
<1>9. GroupSources(Len(partials) + 1) = sources
  BY <1>2, <1>3, <1>4, <1>6 DEF GroupSources
<1> QED
  BY <1>7, <1>8, <1>9 DEF MapGroup

\* The reducer answers out of what the partial briefs cite, if they fit its prompt.
LEMMA ReduceKeepsPlanning == GenInv /\ Reduce => GenInv'
<1> SUFFICES ASSUME GenInv, Reduce PROVE GenInv'
  OBVIOUS
<1>1. Planned /\ ~plan.direct /\ calls = Len(partials) /\ brief = {}
  BY DEF GenInv, Reduce, Unplanned
<1>2. PICK p : p = plan /\ PlanOf(p)
  BY <1>1 DEF Planned
<1>3. PICK ps : ps = partials /\ PartialsOf(ps, p)
  BY <1>1, <1>2 DEF Planned
<1>4. Len(ps) = Len(p.bundles) /\ Len(p.bundles) \in Nat
  BY <1>2, <1>3, PlanTypes DEF Reduce
<1>5. CASE ~ReducerFits
  <2>1. stage' = "failed" /\ plan' = plan /\ partials' = partials /\ calls' = calls /\ brief' = {}
    BY <1>1, <1>5 DEF Reduce, GenerationError
  <2>2. Planned'
    BY <1>1, <2>1 DEF Planned
  <2> QED
    BY <2>1, <2>2 DEF GenInv
<1>6. CASE ReducerFits
  <2>1. PICK sources : sources = ReducerSources
    OBVIOUS
  <2>2. sources \in Seq(Documents) /\ ToSet(sources) \subseteq AllCited(ps)
    <3>1. sources = FlattenSeq([k \in DOMAIN ps |-> SetToSeq(ps[k].cited)])
      BY <1>3, <2>1 DEF ReducerSources
    <3>2. ps \in Seq(Partials) /\ \A k \in DOMAIN ps : IsFiniteSet(ps[k].cited)
      BY <1>3 DEF PartialsOf
    <3> QED
      BY <3>1, <3>2, ReducerSourcesAre DEF AllCited
  <2>3. FinalCall(sources)
    BY <1>6, <2>1 DEF Reduce
  <2>4. /\ calls' = calls + 1 /\ plan' = p /\ partials' = ps
        /\ \/ stage' = "failed" /\ brief' = {}
           \/ stage' = "done" /\ brief' \subseteq ToSet(sources)
    BY <1>1, <1>2, <1>3, <2>2, <2>3, FinalCallIs
  <2>5. calls' = Len(p.bundles) + 1
    BY <1>1, <1>3, <1>4, <2>4
  <2>6. Planned'
    BY <1>1, <1>2, <1>3, <1>4, <2>4, <2>5 DEF Planned
  <2>7. ReducerFits'
    BY <1>3, <1>6, <2>4 DEF ReducerFits, ReducerEstimate
  <2> QED
    BY <1>1, <1>2, <2>2, <2>4, <2>5, <2>6, <2>7 DEF GenInv
<1> QED
  BY <1>5, <1>6

\* The generation keeps its plan, and what it cites within it.
LEMMA GenerationInvariance == GenSpec => []GenInv
<1>1. GenInv /\ [GenNext]_genVars => GenInv'
  <2> SUFFICES ASSUME GenInv, [GenNext]_genVars PROVE GenInv'
    OBVIOUS
  <2>1. CASE UNCHANGED genVars
    BY <2>1 DEF GenInv, Unplanned, Planned, genVars, ReducerFits, ReducerEstimate
  <2> QED
    BY <2>1, PrepareKeepsPlanning, RetryKeepsPlanning, DirectKeepsPlanning,
       GroupKeepsPlanning, ReduceKeepsPlanning DEF GenNext
<1> QED
  BY <1>1, PlanningInit, PTL DEF GenSpec

\* The bundles of a plan, and of none.
LEMMA BundlesOfState ==
  ASSUME GenInv
  PROVE  plan.bundles \in Seq(Bundles) /\ (PlanOf(plan) \/ plan.bundles = <<>>)
<1>1. CASE plan = NoPlan
  <2>1. plan.bundles = <<>>
    BY <1>1 DEF NoPlan
  <2>2. <<>> \in Seq(Bundles)
    OBVIOUS
  <2> QED
    BY <2>1, <2>2
<1>2. CASE PlanOf(plan)
  <2>1. PICK p : p = plan
    OBVIOUS
  <2>2. p.bundles \in Seq(Bundles)
    BY <1>2, <2>1, PlanTypes
  <2> QED
    BY <1>2, <2>1, <2>2
<1> QED
  BY <1>1, <1>2 DEF GenInv, Unplanned, Planned

\* However long documents and their headings are, and whatever the model answers,
\* no bundle of cards is longer than its limit allows.
THEOREM BundlesAreCapped == GenSpec => []BundlesFit
<1>1. GenInv => BundlesFit
  <2> SUFFICES ASSUME GenInv PROVE BundlesFit
    OBVIOUS
  <2>1. PICK p : p = plan /\ (PlanOf(p) \/ p.bundles = <<>>)
    BY BundlesOfState
  <2>2. \A k \in DOMAIN p.bundles : p.bundles[k].documents # <<>> =>
          p.bundles[k].characters <= IF p.direct THEN DirectLimit ELSE GroupLimit
    BY <2>1 DEF PlanOf, LimitOf
  <2> QED
    BY <2>1, <2>2 DEF BundlesFit
<1> QED
  BY <1>1, GenerationInvariance, PTL

\* A brief costs no more calls than its limits allow, whatever the campaign holds,
\* and no content is sent to the model in two places.
THEOREM CallsAreCapped == GenSpec => []CallsAreBounded
<1>1. GenInv => CallsAreBounded
  <2> SUFFICES ASSUME GenInv PROVE CallsAreBounded
    OBVIOUS
  <2>1. PICK p : p = plan /\ p.bundles \in Seq(Bundles)
    BY BundlesOfState
  <2>2. calls <= IF plan.direct THEN 1 ELSE MaxGroups + 1
    <3>1. CASE Unplanned
      BY <3>1 DEF Unplanned, NoPlan
    <3>2. CASE Planned
      <4>1. MaxGroups \in Nat
        BY PackingAssumption
      <4>2. Len(p.bundles) <= MaxGroups /\ Len(p.bundles) \in Nat
        BY <2>1, <3>2, PlanTypes DEF Planned, PlanOf
      <4> QED
        BY <2>1, <3>2, <4>1, <4>2 DEF Planned
    <3> QED
      BY <3>1, <3>2 DEF GenInv
  <2>3. stage = "done" /\ ~plan.direct => calls = Len(plan.bundles) + 1
    BY DEF GenInv, Unplanned
  <2>4. DistinctContents(Carried(p))
    <3>1. CASE PlanOf(p)
      BY <2>1, <3>1, CarriedIs
    <3>2. CASE p.bundles = <<>>
      <4>1. Carried(p) \in Seq(Documents) /\ Carried(p) = <<>>
        BY <3>2 DEF Carried, FlattenSeq
      <4> QED
        BY <4>1 DEF DistinctContents
    <3> QED
      BY <2>1, <3>1, <3>2, BundlesOfState
  <2> QED
    BY <2>1, <2>2, <2>3, <2>4 DEF CallsAreBounded, DistinctContents
<1> QED
  BY <1>1, GenerationInvariance, PTL

\* Whatever the model answers, a brief cites documents the model was shown, and the
\* reducer's cites what a map call cited out of its own group.
THEOREM BriefsAreGrounded == GenSpec => []CitationsAreGrounded
<1>1. GenInv => CitationsAreGrounded
  <2> SUFFICES ASSUME GenInv PROVE CitationsAreGrounded
    OBVIOUS
  <2>1. CASE Unplanned
    BY <2>1 DEF Unplanned, CitationsAreGrounded
  <2>2. CASE Planned
    <3>1. PICK p : p = plan /\ PlanOf(p)
      BY <2>2 DEF Planned
    <3>2. PICK ps : ps = partials /\ PartialsOf(ps, p)
      BY <2>2, <3>1 DEF Planned
    <3>3. \A k \in DOMAIN p.bundles : ToSet(p.bundles[k].documents) \subseteq ToSet(Carried(p))
      BY <3>1, PlanTypes, CarriedIs
    <3>4. \A k \in DOMAIN ps : k \in DOMAIN p.bundles
      BY <3>1, <3>2, PlanTypes DEF PartialsOf
    <3>5. \A k \in DOMAIN ps : ps[k].cited \subseteq ToSet(p.bundles[k].documents)
      BY <3>2 DEF PartialsOf
    <3>6. AllCited(ps) \subseteq ToSet(Carried(p))
      BY <3>3, <3>4, <3>5 DEF AllCited
    <3>7. stage = "done" /\ ~plan.direct => brief \subseteq AllCited(ps)
      BY <3>2 DEF GenInv, Unplanned
    <3>8. plan.direct => 1 \in DOMAIN p.bundles
      BY <3>1, PlanTypes DEF PlanOf
    <3>9. brief \subseteq ToSet(Carried(p))
      BY <3>1, <3>2, <3>3, <3>6, <3>8 DEF GenInv, Unplanned
    <3> QED
      BY <3>1, <3>2, <3>5, <3>7, <3>9 DEF CitationsAreGrounded, AllCited
  <2> QED
    BY <2>1, <2>2 DEF GenInv
<1> QED
  BY <1>1, GenerationInvariance, PTL

\* What has been planned is the plan of the corpus that was read.
ReadAndPlanned ==
  stage # "none" => corpus \in Corpora /\ plan = EvidencePlan(corpus) /\ Carried(plan) # <<>>

\* The plan is made once, of that corpus, and kept by every retry.
LEMMA PlanOfTheCorpus == GenSpec => []ReadAndPlanned
<1>1. GenInit => ReadAndPlanned
  BY DEF GenInit, ReadAndPlanned
<1>2. ReadAndPlanned /\ [GenNext]_genVars => ReadAndPlanned'
  <2> SUFFICES ASSUME ReadAndPlanned, [GenNext]_genVars PROVE ReadAndPlanned'
    OBVIOUS
  <2>1. CASE Prepare
    BY <2>1 DEF Prepare, ReadAndPlanned
  <2>2. CASE stage # "none" /\ corpus' = corpus /\ plan' = plan
    BY <2>2 DEF ReadAndPlanned
  <2>3. CASE UNCHANGED genVars
    BY <2>3 DEF genVars, ReadAndPlanned
  <2>4. CASE Retry
    BY <2>2, <2>4 DEF Retry
  <2>5. CASE Direct
    BY <2>2, <2>5 DEF Direct, FinalCall
  <2>6. CASE MapGroup
    BY <2>2, <2>6 DEF MapGroup, GenerationError
  <2>7. CASE Reduce
    BY <2>2, <2>7 DEF Reduce, FinalCall, GenerationError
  <2> QED
    BY <2>1, <2>3, <2>4, <2>5, <2>6, <2>7 DEF GenNext
<1> QED
  BY <1>1, <1>2, PTL DEF GenSpec

\* Whatever is crawled, however long and however scored: where headings are ordinary
\* the model is shown the top of the ranking, cut only when the groups are full, and
\* no call is left without a document.
THEOREM BestIsCarried == GenSpec => []BestEvidenceIsCarried
<1>1. ReadAndPlanned => BestEvidenceIsCarried
  <2> SUFFICES ASSUME stage # "none", \A d \in ToSet(corpus) : Ordinary(d),
                      corpus \in Corpora, plan = EvidencePlan(corpus), Carried(plan) # <<>>
               PROVE  BestEvidenceIsCarried
    BY DEF ReadAndPlanned, BestEvidenceIsCarried
  <2>1. PICK ds \in Corpora : ds = corpus
    OBVIOUS
  <2>2. ds \in Seq(Documents) /\ \A i, k \in DOMAIN ds : ds[i].id = ds[k].id => i = k
    BY GenerationAssumption
  <2>3. DistinctIds(ToSet(ds)) /\ \A d \in ToSet(ds) : Ordinary(d)
    BY <2>1, <2>2 DEF DistinctIds, ToSet
  <2>4. PICK p : p = plan /\ p = EvidencePlan(ds) /\ Carried(p) # <<>>
    BY <2>1
  <2>5. PICK ranked : ranked = RankDocuments(ds)
    OBVIOUS
  <2>6. ranked \in Seq(Documents)
    BY <2>2, <2>3, <2>5, RankingIs
  <2>7. /\ \A k \in DOMAIN p.bundles : p.bundles[k].documents # <<>>
        /\ \E c \in 0..Len(ranked) :
              /\ Carried(p) = Segment(ranked, 0, c)
              /\ c < Len(ranked) => Estimate(Carried(p)) > MaxGroups * Spared
    BY <2>2, <2>3, <2>4, <2>5, PlanCarriesTheBest
  <2>8. PICK c \in 0..Len(ranked) :
              /\ Carried(p) = Segment(ranked, 0, c)
              /\ c < Len(ranked) => Estimate(Carried(p)) > MaxGroups * Spared
    BY <2>7
  <2>9. PICK carried : carried = Carried(p)
    OBVIOUS
  <2>10. IsPrefix(carried, ranked)
    BY <2>6, <2>8, <2>9, RunIsPrefix
  <2>11. carried # ranked => Estimate(carried) > MaxGroups * (GroupLimit - MaxPerDocument)
    <3> SUFFICES ASSUME carried # ranked PROVE Estimate(carried) > MaxGroups * Spared
      BY DEF Spared
    <3>1. c # Len(ranked)
      BY <2>6, <2>8, <2>9, FirstSegment
    <3> QED
      BY <2>6, <2>8, <2>9, <3>1
  <2> QED
    BY <2>1, <2>4, <2>5, <2>7, <2>9, <2>10, <2>11 DEF BestEvidenceIsCarried
<1> QED
  BY <1>1, PlanOfTheCorpus, PTL

\* However long titles and URLs are, and whatever the rest of the plan: no call loses a
\* document to a long heading that is not its own or ranked ahead of it in that call.
THEOREM LongHeadingsHideLittle == GenSpec => []LongHeadingsHideOnlyLater
<1>1. ReadAndPlanned => LongHeadingsHideOnlyLater
  <2> SUFFICES ASSUME stage # "none", corpus \in Corpora, plan = EvidencePlan(corpus)
               PROVE  LongHeadingsHideOnlyLater
    BY DEF ReadAndPlanned, LongHeadingsHideOnlyLater
  <2>1. PICK ds \in Corpora : ds = corpus
    OBVIOUS
  <2>2. ds \in Seq(Documents) /\ \A i, k \in DOMAIN ds : ds[i].id = ds[k].id => i = k
    BY GenerationAssumption
  <2>3. DistinctIds(ToSet(ds))
    BY <2>2 DEF DistinctIds, ToSet
  <2>4. PICK p : p = plan /\ p = EvidencePlan(ds)
    BY <2>1
  <2>5. PICK planned : planned = PlannedCalls(corpus) /\ planned = CallsOf(ds)
    BY <2>1, <2>4 DEF PlannedCalls, CallsOf
  <2>6. ASSUME NEW k \in DOMAIN planned, NEW c \in DOMAIN planned[k],
               \A i \in 1..c : Ordinary(planned[k][i])
        PROVE  planned[k][c] \in ToSet(p.bundles[k].documents)
    BY <2>2, <2>3, <2>4, <2>5, <2>6, CallsShowTheirBest
  <2> QED
    BY <2>4, <2>5, <2>6 DEF LongHeadingsHideOnlyLater
<1> QED
  BY <1>1, PlanOfTheCorpus, PTL

=============================================================================
