---------------------------- MODULE LeaseProofs ----------------------------
(***************************************************************************)
(* Leases and their tokens, for every instance of the crawl: a host has one *)
(* live lease, at most one process can report a job, a success it reports   *)
(* has been stored, and what has been reported stays.                       *)
(***************************************************************************)
EXTENDS CrawlProofs

LeaseInv == LeaseShape /\ LeaseIsReservation

\* Distinct jobs never share a token, so reservations are exclusive.
LEMMA LeaseInvSuffices == TypeInv /\ LeaseInv => DomainExclusive
<1> SUFFICES ASSUME TypeInv, LeaseInv, NEW j \in Jobs, LiveLease(j)
             PROVE  /\ policy[DomainOf[j]].token = job[j].token
                    /\ policy[DomainOf[j]].left = job[j].left
                    /\ \A k \in Jobs \ {j} :
                         LiveLease(k) => DomainOf[k] # DomainOf[j]
  BY DEF DomainExclusive
<1>1. /\ policy[DomainOf[j]].token = job[j].token
      /\ policy[DomainOf[j]].left = job[j].left
  BY DEF LeaseInv, LeaseIsReservation
<1>2. ASSUME NEW k \in Jobs \ {j}, LiveLease(k), DomainOf[k] = DomainOf[j]
      PROVE  FALSE
  <2>1. job[k].token = job[j].token
    BY <1>1, <1>2 DEF LeaseInv, LeaseIsReservation
  <2>2. job[k].token = <<k, job[k].drawn>> /\ job[j].token = <<j, job[j].drawn>>
    BY <1>2 DEF LeaseInv, LeaseShape, LiveLease
  <2>3. job[k].token[1] = k /\ job[j].token[1] = j
    BY <2>2
  <2>4. QED
    BY <1>2, <2>1, <2>3
<1>3. QED
  BY <1>1, <1>2

\* Nothing is leased yet.
LEMMA LeaseInit == Init => LeaseInv
BY StoreAssumption DEF Init, StoreInit, LeaseInv, LeaseShape,
   LeaseIsReservation, LiveLease, NewJob, NoJob, Unleased, Expired

\* A claim finds the host free, so no other live lease loses its reservation.
LEMMA LeaseClaim ==
  ASSUME TypeInv, LeaseInv, NEW w \in Workers, NEW j \in Jobs,
         NEW left \in 0..LeaseSeconds, Leases(w, j, left)
  PROVE  LeaseInv'
<1> USE StoreAssumption
<1> DEFINE token == FreshToken(j)
           d == DomainOf[j]
           row == [ClaimRow(w, j, token) EXCEPT !.left = left]
<1>1. /\ job \in [Jobs -> JobRow] /\ policy \in [Domains -> PolicyRow]
      /\ d \in Domains
  BY DEF TypeInv, TypeOK, StoreTypeOK
<1>2. /\ job' = [job EXCEPT ![j] = row]
      /\ row.status = "LEASED" /\ row.drawn = job[j].drawn + 1
      /\ row.token = token /\ row.left = left
  BY DEF Leases, ClaimRow
<1>3. /\ policy'[d].token = token /\ policy'[d].left = left
      /\ \A e \in Domains \ {d} : policy'[e] = policy[e]
  BY <1>1 DEF Leases
<1>4. \A k \in Jobs \ {j} : LiveLease(k) => DomainOf[k] # d
  BY <1>1 DEF Leases, LeaseInv, LeaseIsReservation, LiveLease, PolicyRow, JobRow, Expired
<1> HIDE DEF row
<1>5. LeaseShape'
  BY <1>1, <1>2 DEF LeaseInv, LeaseShape, FreshToken
<1>6. LeaseIsReservation'
  <2> SUFFICES ASSUME NEW k \in Jobs, LiveLease(k)'
               PROVE  /\ policy'[DomainOf[k]].token = job'[k].token
                      /\ policy'[DomainOf[k]].left = job'[k].left
    BY DEF LeaseIsReservation
  <2>1. CASE k = j
    BY <1>1, <1>2, <1>3, <2>1
  <2>2. CASE k # j
    BY <1>1, <1>2, <1>3, <1>4, <2>2 DEF LeaseInv, LeaseIsReservation, LiveLease
  <2>3. QED
    BY <2>1, <2>2
<1>7. QED
  BY <1>5, <1>6 DEF LeaseInv

\* Finalizing a job frees the host only of that job's own reservation.
LEMMA LeaseFinalize ==
  ASSUME TypeInv, LeaseInv, NEW j \in Jobs, NEW s \in JobStatus \ {"LEASED"},
         job[j].status = "LEASED",
         NEW n, policy' = FreedFor(DomainOf[j], job[j].token, n),
         job' = [job EXCEPT ![j] = Released(j, s)]
  PROVE  LeaseInv'
<1> USE StoreAssumption
<1>1. /\ job \in [Jobs -> JobRow] /\ policy \in [Domains -> PolicyRow]
      /\ \A k \in Jobs : DomainOf[k] \in Domains
  BY DEF TypeInv, TypeOK, StoreTypeOK
<1>2. LeaseShape'
  BY <1>1 DEF LeaseInv, LeaseShape, Released, Unleased
<1>3. ASSUME NEW k \in Jobs, LiveLease(k)'
      PROVE  /\ policy'[DomainOf[k]].token = job'[k].token
             /\ policy'[DomainOf[k]].left = job'[k].left
  <2>1. k # j /\ job'[k] = job[k]
    BY <1>1, <1>3 DEF LiveLease, Released, Unleased
  <2>2. /\ policy[DomainOf[k]].token = job[k].token
        /\ policy[DomainOf[k]].left = job[k].left
    BY <1>3, <2>1 DEF LeaseInv, LeaseIsReservation, LiveLease
  <2>3. job[k].token # job[j].token
    BY <1>3, <2>1 DEF LeaseInv, LeaseShape, LiveLease
  <2>4. policy'[DomainOf[k]] = policy[DomainOf[k]]
    BY <1>1, <2>2, <2>3 DEF FreedFor
  <2>5. QED
    BY <2>1, <2>2, <2>4
<1>4. QED
  BY <1>2, <1>3 DEF LeaseInv, LeaseIsReservation

\* Rows that are inserted or cancelled hold no lease before or after.
LEMMA LeaseUnleased ==
  ASSUME LeaseInv, job \in [Jobs -> JobRow], policy' = policy,
         NEW S \in SUBSET Jobs,
         \A k \in S : job[k].status # "LEASED",
         \A k \in S : /\ job'[k].status # "LEASED"
                      /\ job'[k].token = Null
                      /\ job'[k].left = Expired,
         \A k \in Jobs \ S : job'[k] = job[k]
  PROVE  LeaseInv'
<1>1. LeaseShape'
  BY DEF LeaseInv, LeaseShape
<1>2. LeaseIsReservation'
  BY DEF LeaseInv, LeaseIsReservation, LiveLease
<1>3. QED
  BY <1>1, <1>2 DEF LeaseInv

\* Time runs equally fast for a lease and for its reservation.
LEMMA LeaseTick == ASSUME TypeInv, LeaseInv, NEW p, TimePasses(p) PROVE LeaseInv'
<1> USE StoreAssumption
<1>1. ASSUME NEW k \in Jobs
      PROVE  /\ job'[k].status = job[k].status
             /\ job'[k].token = job[k].token
             /\ job'[k].drawn = job[k].drawn
             /\ job'[k].left = Sooner(job[k].left)
             /\ job[k].left \in Int
             /\ DomainOf[k] \in Domains
  <2>1. job[k] \in JobRow
    BY DEF TypeInv, TypeOK, StoreTypeOK
  <2>2. QED
    BY <2>1 DEF TimePasses, JobRow, Expired
<1>2. \A d \in Domains : /\ policy'[d].token = policy[d].token
                         /\ policy'[d].left = Sooner(policy[d].left)
  BY DEF TimePasses
<1>3. LeaseShape'
  BY <1>1 DEF LeaseInv, LeaseShape, Sooner, Expired
<1>4. LeaseIsReservation'
  BY <1>1, <1>2 DEF LeaseInv, LeaseIsReservation, LiveLease, Sooner, Expired
<1>5. QED
  BY <1>3, <1>4 DEF LeaseInv

\* Claims and reports move lease and reservation together.
LEMMA LeaseUntimed == TypeInv /\ LeaseInv /\ [UntimedNext]_vars => LeaseInv'
<1> USE StoreAssumption
<1> SUFFICES ASSUME TypeInv, LeaseInv, [UntimedNext]_vars PROVE LeaseInv'
  OBVIOUS
<1>0. /\ job \in [Jobs -> JobRow]
      /\ \A w \in Workers : worker[w].pc \in Working => ClaimedJob(w) \in Jobs
  BY DEF TypeInv, TypeOK, StoreTypeOK, WorkerHoldsToken, ClaimedJob, Tokens
<1>1. ASSUME NEW w \in Workers, NEW j \in Jobs, NEW left \in 0..LeaseSeconds,
             Leases(w, j, left)
      PROVE  LeaseInv'
  BY <1>1, LeaseClaim
<1>2. ASSUME NEW w \in Workers, NEW n, Settles(w, n) PROVE LeaseInv'
  <2> DEFINE j == ClaimedJob(w)
  <2>1. /\ j \in Jobs /\ job[j].status = "LEASED"
        /\ policy' = FreedFor(DomainOf[j], job[j].token, n)
        /\ job' = [job EXCEPT ![j] = Released(j, ReportedStatus(w))]
    BY <1>0, <1>2 DEF Settles, Working
  <2>2. ReportedStatus(w) \in JobStatus \ {"LEASED"}
    BY VerdictTypes
  <2> HIDE DEF j
  <2>3. QED
    BY <2>1, <2>2, LeaseFinalize
<1>4. ASSUME NEW w \in Workers, ExpandFrontier(w) PROVE LeaseInv'
  <2> DEFINE parent == ClaimedJob(w)
  <2>1. PICK S \in Selections(parent) : EnqueueDiscoveredLinks(parent, S)
    BY <1>4 DEF ExpandFrontier
  <2>2. \A k \in NewChildren(parent, S) : k \in Jobs /\ job[k].status # "LEASED"
    BY DEF NewChildren, FirstByRank, Selections, Exists
  <2>3. /\ policy' = policy
        /\ \A k \in NewChildren(parent, S) :
             /\ job'[k].status # "LEASED"
             /\ job'[k].token = Null
             /\ job'[k].left = Expired
        /\ \A k \in Jobs \ NewChildren(parent, S) : job'[k] = job[k]
    BY <2>1, <2>2 DEF EnqueueDiscoveredLinks, NewJob, Unleased
  <2>4. QED
    BY <1>0, <2>2, <2>3, LeaseUnleased
<1>5. ASSUME NEW r \in Runs, Control(r) PROVE LeaseInv'
  <2>1. CASE CancelCrawlRun(r)
    <3> DEFINE S == {k \in Jobs : RunOf[k] = r /\ CancelledJob(k)}
    <3>1. /\ policy' = policy
          /\ \A k \in S : /\ job'[k].status # "LEASED"
                          /\ job'[k].token = Null
                          /\ job'[k].left = Expired
          /\ \A k \in Jobs \ S : job'[k] = job[k]
      BY <2>1 DEF CancelCrawlRun, Released, Unleased
    <3>2. S \in SUBSET Jobs /\ \A k \in S : job[k].status # "LEASED"
      BY DEF CancelledJob
    <3> HIDE DEF S
    <3>3. QED
      BY <1>0, <3>1, <3>2, LeaseUnleased
  <2>2. CASE UNCHANGED <<job, policy>>
    BY <2>2 DEF LeaseInv, LeaseShape, LeaseIsReservation, LiveLease
  <2>3. QED
    BY <1>5, <2>1, <2>2 DEF Control, StartCrawlRun, PauseCrawlRun,
                            ResumeCrawlRun
<1>6. ASSUME NEW p, TimePasses(p) PROVE LeaseInv'
  BY <1>6, LeaseTick
<1>7. CASE UNCHANGED <<job, policy>>
  BY <1>7 DEF LeaseInv, LeaseShape, LeaseIsReservation, LiveLease
<1>8. QED
  BY <1>1, <1>2, <1>4, <1>5, <1>6, <1>7
     DEF UntimedNext, FetchPage, PersistDocument, ExpansionFails, Stops, Restart,
         storeVars, vars

\* In particular, the steps of the crawl do.
LEMMA LeaseStep == TypeInv /\ LeaseInv /\ [Next]_vars => LeaseInv'
BY NextIsUntimed, LeaseUntimed

\* At most one live lease per host, across all campaigns and workers.
THEOREM DomainExclusivity == Spec => []DomainExclusive
<1>1. Init => TypeInv /\ LeaseInv
  BY TypeInit, LeaseInit
<1>2. TypeInv /\ LeaseInv /\ [Next]_vars => (TypeInv /\ LeaseInv)'
  BY TypeStep, LeaseStep
<1>3. QED
  BY <1>1, <1>2, LeaseInvSuffices, PTL DEF Spec

-----------------------------------------------------------------------------

TokenInv == TokensIssued /\ SingleFinalizer

\* A step that moves no process into a new lease and rewrites no token.
LEMMA TokenKept ==
  ASSUME TokenInv,
         \A w \in Workers : worker'[w].pc \in Working =>
           worker[w].pc \in Working /\ worker'[w].token = worker[w].token,
         \A w \in Workers : worker[w].pc \in Working =>
           LET j == ClaimedJob(w)
           IN  /\ job'[j].drawn >= job[j].drawn
               /\ job'[j].token = Claimed(w) =>
                    job[j].token = Claimed(w) /\ job'[j].owner = job[j].owner,
         TypeInv, TypeInv'
  PROVE  TokenInv'
<1>1. \A w \in Workers : worker'[w].pc \in Working =>
        /\ worker[w].pc \in Working
        /\ Claimed(w)' = Claimed(w) /\ ClaimedJob(w)' = ClaimedJob(w)
  BY DEF Claimed, ClaimedJob
<1>2. \A w \in Workers : worker[w].pc \in Working =>
        /\ Claimed(w)[2] \in Nat
        /\ job[ClaimedJob(w)].drawn \in Nat
  BY StoreAssumption DEF TypeInv, TypeOK, StoreTypeOK, JobRow, WorkerHoldsToken, Tokens,
     ClaimedJob, Claimed
<1>3. \A w \in Workers : worker'[w].pc \in Working =>
        job'[ClaimedJob(w)].drawn \in Nat
  BY <1>1, StoreAssumption DEF TypeInv, TypeOK, StoreTypeOK, JobRow, WorkerHoldsToken,
     Tokens, ClaimedJob, Claimed
<1>4. TokensIssued'
  BY <1>1, <1>2, <1>3 DEF TokenInv, TokensIssued
<1>5. SingleFinalizer'
  BY <1>1 DEF TokenInv, SingleFinalizer
<1>6. QED
  BY <1>4, <1>5 DEF TokenInv

\* No process is at work yet.
LEMMA TokenInit == Init => TokenInv
BY DEF Init, Idle, Working, TokenInv, TokensIssued, SingleFinalizer

\* A claim issues a token no process has.
LEMMA TokenClaim ==
  ASSUME TypeInv, TokenInv, NEW w \in Workers, NEW j \in Jobs, NEW left,
         Leases(w, j, left)
  PROVE  TokenInv'
<1> USE StoreAssumption
<1> DEFINE token == FreshToken(j)
           row == [ClaimRow(w, j, token) EXCEPT !.left = left]
<1>1. /\ job'[j] = row
      /\ \A k \in Jobs \ {j} : job'[k] = job[k]
      /\ job[j].drawn \in Nat
  BY DEF Leases, TypeInv, TypeOK, StoreTypeOK, JobRow
<1>2. /\ worker'[w].pc = "fetch" /\ worker'[w].token = token
      /\ \A v \in Workers \ {w} : worker'[v] = worker[v]
  BY DEF Leases, TypeInv, TypeOK
<1>3. /\ job'[j].token = token /\ job'[j].owner = w
      /\ job'[j].drawn = job[j].drawn + 1
  BY <1>1 DEF ClaimRow
<1> HIDE DEF row
<1>4. \A v \in Workers : worker[v].pc \in Working =>
        /\ ClaimedJob(v) \in Jobs /\ Claimed(v)[2] \in Nat
        /\ Claimed(v) = <<ClaimedJob(v), Claimed(v)[2]>>
        /\ job[ClaimedJob(v)].drawn \in Nat
        /\ Claimed(v)[2] <= job[ClaimedJob(v)].drawn
  BY DEF TypeInv, TypeOK, StoreTypeOK, JobRow, WorkerHoldsToken, Tokens,
     ClaimedJob, Claimed, TokenInv, TokensIssued
<1>5. \A v \in Workers : worker[v].pc \in Working => Claimed(v) # token
  BY <1>1, <1>4 DEF FreshToken
<1>6. \A v \in Workers \ {w} :
        /\ Claimed(v)' = Claimed(v) /\ ClaimedJob(v)' = ClaimedJob(v)
        /\ worker'[v].pc = worker[v].pc
  BY <1>2 DEF Claimed, ClaimedJob
<1>7. Claimed(w)' = token /\ ClaimedJob(w)' = j
  BY <1>2 DEF Claimed, ClaimedJob, FreshToken
<1> HIDE DEF token
<1>8. TokensIssued'
  <2>1. token[2] = job[j].drawn + 1
    BY DEF token, FreshToken
  <2>2. Claimed(w)'[2] <= job'[ClaimedJob(w)'].drawn
    BY <1>1, <1>3, <1>7, <2>1
  <2>3. ASSUME NEW v \in Workers \ {w}, worker'[v].pc \in Working
        PROVE  Claimed(v)'[2] <= job'[ClaimedJob(v)'].drawn
    <3>1. Claimed(v)[2] <= job[ClaimedJob(v)].drawn /\ ClaimedJob(v) \in Jobs
          /\ Claimed(v)[2] \in Nat
      BY <1>4, <1>6, <2>3
    <3>2. job'[ClaimedJob(v)].drawn \in {job[ClaimedJob(v)].drawn, job[j].drawn + 1}
          /\ (ClaimedJob(v) # j => job'[ClaimedJob(v)] = job[ClaimedJob(v)])
      BY <1>1, <1>3, <3>1
    <3>3. QED
      BY <1>1, <1>3, <1>6, <3>1, <3>2
  <2>4. QED
    BY <2>2, <2>3 DEF TokensIssued, Claimed, ClaimedJob
<1>9. SingleFinalizer'
  <2>1. ASSUME NEW v \in Workers, NEW u \in Workers \ {v},
               worker'[v].pc \in Working, worker'[u].pc \in Working
        PROVE  Claimed(u)' # Claimed(v)'
    BY <1>5, <1>6, <1>7, <2>1 DEF TokenInv, SingleFinalizer
  <2>2. ASSUME NEW v \in Workers, worker'[v].pc \in Working,
               job'[ClaimedJob(v)'].token = Claimed(v)'
        PROVE  job'[ClaimedJob(v)'].owner = v
    <3>1. CASE v = w
      BY <1>3, <1>7, <3>1
    <3>2. CASE v # w
      <4>1. /\ worker[v].pc \in Working /\ ClaimedJob(v)' = ClaimedJob(v)
            /\ Claimed(v) # token /\ Claimed(v)' = Claimed(v)
            /\ ClaimedJob(v) \in Jobs
        BY <1>4, <1>5, <1>6, <2>2, <3>2
      <4>2. ClaimedJob(v) # j
        BY <1>3, <2>2, <4>1
      <4>3. QED
        BY <1>1, <2>2, <4>1, <4>2 DEF TokenInv, SingleFinalizer
    <3>3. QED
      BY <3>1, <3>2
  <2>3. QED
    BY <2>1, <2>2 DEF SingleFinalizer, Claimed, ClaimedJob
<1>10. QED
  BY <1>8, <1>9 DEF TokenInv

\* A report takes the token off its row; nobody else is affected.
LEMMA TokenFinalize ==
  ASSUME TypeInv, TypeInv', TokenInv, NEW w \in Workers, NEW s,
         worker[w].pc \in Working,
         worker' = [worker EXCEPT ![w] = Idle],
         job' = [job EXCEPT ![ClaimedJob(w)] = Released(ClaimedJob(w), s)]
  PROVE  TokenInv'
<1> DEFINE j == ClaimedJob(w)
<1>1. /\ j \in Jobs /\ \A v \in Workers : worker[v].pc \in Working =>
           ClaimedJob(v) \in Jobs /\ Claimed(v) # Null
  BY NullAssumption DEF TypeInv, WorkerHoldsToken, Tokens, ClaimedJob
<1>2. /\ job'[j].token = Null /\ job'[j].drawn = job[j].drawn
      /\ \A k \in Jobs \ {j} : job'[k] = job[k]
  BY <1>1 DEF Released, Unleased, TypeInv, TypeOK, StoreTypeOK
<1>3. \A v \in Workers : worker'[v].pc \in Working =>
        worker[v].pc \in Working /\ worker'[v].token = worker[v].token
  BY DEF TypeInv, TypeOK, Idle, Working
<1>4. \A k \in Jobs : job[k].drawn \in Nat
  BY StoreAssumption DEF TypeInv, TypeOK, StoreTypeOK, JobRow
<1> HIDE DEF j
<1>5. ASSUME NEW v \in Workers, worker[v].pc \in Working
      PROVE  /\ job'[ClaimedJob(v)].drawn >= job[ClaimedJob(v)].drawn
             /\ job'[ClaimedJob(v)].token = Claimed(v) =>
                  /\ job[ClaimedJob(v)].token = Claimed(v)
                  /\ job'[ClaimedJob(v)].owner = job[ClaimedJob(v)].owner
  BY <1>1, <1>2, <1>4, <1>5
<1>6. QED
  BY <1>3, <1>5, TokenKept

\* A step that leaves every token, owner and token count of the rows alone,
\* or belongs to rows without a token, and gives no process a new token.
LEMMA TokenStutter ==
  ASSUME TypeInv, TypeInv', TokenInv,
         \A w \in Workers : worker'[w].pc \in Working =>
           worker[w].pc \in Working /\ worker'[w].token = worker[w].token,
         \A k \in Jobs : \/ job'[k].token = Null
                         \/ /\ job'[k].token = job[k].token
                            /\ job'[k].owner = job[k].owner,
         \A k \in Jobs : Exists(k) => job'[k].drawn = job[k].drawn
  PROVE  TokenInv'
<1>1. \A k \in Jobs : job[k].drawn \in Nat
  BY StoreAssumption DEF TypeInv, TypeOK, StoreTypeOK, JobRow
<1>2. \A w \in Workers : worker[w].pc \in Working =>
        ClaimedJob(w) \in Jobs /\ Exists(ClaimedJob(w)) /\ Claimed(w) # Null
  BY NullAssumption DEF TypeInv, WorkerHoldsToken, Tokens, ClaimedJob
<1>3. QED
  BY <1>1, <1>2, TokenKept

\* Claims issue new tokens, reports take theirs back.
LEMMA TokenUntimed == TypeInv /\ TokenInv /\ [UntimedNext]_vars => TokenInv'
<1> SUFFICES ASSUME TypeInv, TokenInv, [UntimedNext]_vars
             PROVE  TokenInv'
  OBVIOUS
<1>0. TypeInv'
  BY TypeUntimed
<1>1. ASSUME NEW w \in Workers, NEW j \in Jobs, NEW left, Leases(w, j, left)
      PROVE  TokenInv'
  BY <1>1, TokenClaim
<1>2. ASSUME NEW w \in Workers, NEW n, Settles(w, n) PROVE TokenInv'
  <2>1. /\ worker[w].pc \in Working /\ worker' = [worker EXCEPT ![w] = Idle]
        /\ job' = [job EXCEPT ![ClaimedJob(w)] =
                    Released(ClaimedJob(w), ReportedStatus(w))]
    BY <1>2 DEF Settles, Working
  <2>2. QED
    BY <1>0, <2>1, TokenFinalize
<1>3. ASSUME NEW w \in Workers, ExpandFrontier(w) PROVE TokenInv'
  <2>1. PICK S \in Selections(ClaimedJob(w)) :
          EnqueueDiscoveredLinks(ClaimedJob(w), S)
    BY <1>3 DEF ExpandFrontier
  <2> DEFINE N == NewChildren(ClaimedJob(w), S)
  <2>2. \A k \in N : ~Exists(k)
    BY DEF NewChildren, FirstByRank
  <2>3. /\ \A k \in Jobs : k \in N => job'[k].token = Null
        /\ \A k \in Jobs : k \notin N => job'[k] = job[k]
    BY <2>1 DEF EnqueueDiscoveredLinks, NewJob, Unleased
  <2>4. \A v \in Workers : worker'[v].pc \in Working =>
          worker[v].pc \in Working /\ worker'[v].token = worker[v].token
    BY <1>3 DEF ExpandFrontier, Goto, TypeInv, TypeOK, Working
  <2> HIDE DEF N
  <2>5. QED
    BY <1>0, <2>2, <2>3, <2>4, TokenStutter
<1>4. ASSUME NEW r \in Runs, Control(r), UNCHANGED <<worker, docs>>
      PROVE  TokenInv'
  <2>1. \A k \in Jobs : \/ job'[k] = job[k]
                        \/ job'[k] = Released(k, "CANCELLED")
    BY <1>4 DEF Control, StartCrawlRun, PauseCrawlRun, ResumeCrawlRun,
                CancelCrawlRun
  <2>2. \A k \in Jobs : /\ job'[k].drawn = job[k].drawn
                        /\ job'[k].token = Null \/ job'[k] = job[k]
    <3>1. \A k \in Jobs : /\ Released(k, "CANCELLED").token = Null
                          /\ Released(k, "CANCELLED").drawn = job[k].drawn
      BY DEF Released, Unleased
    <3>2. QED
      BY <2>1, <3>1
  <2>3. QED
    BY <1>0, <1>4, <2>2, TokenStutter
<1>5. ASSUME NEW p, TimePasses(p) PROVE TokenInv'
  <2>1. \A k \in Jobs : /\ job'[k].drawn = job[k].drawn
                        /\ job'[k].token = job[k].token
                        /\ job'[k].owner = job[k].owner
    BY <1>5 DEF TimePasses, TypeInv, TypeOK, StoreTypeOK, JobRow
  <2>2. QED
    BY <1>0, <1>5, <2>1, TokenStutter DEF TimePasses
<1>6. ASSUME NEW w \in Workers,
             \/ FetchPage(w) \/ PersistDocument(w) \/ ExpansionFails(w)
             \/ Stops(w) \/ Restart(w)
      PROVE  TokenInv'
  <2>1. job' = job
    BY <1>6 DEF FetchPage, PersistDocument, ExpansionFails, Stops, Restart, storeVars
  <2>2. \A v \in Workers : worker'[v].pc \in Working =>
          worker[v].pc \in Working /\ worker'[v].token = worker[v].token
    <3>1. CASE \E stage : Goto(w, stage) /\ worker[w].pc \in Working
      BY <3>1 DEF Goto, TypeInv, TypeOK
    <3>2. CASE worker' = [worker EXCEPT ![w] = Down]
      BY <3>2 DEF Down, Working, TypeInv, TypeOK
    <3>3. CASE worker' = [worker EXCEPT ![w] = Idle]
      BY <3>3 DEF Idle, Working, TypeInv, TypeOK
    <3>4. QED
      BY <1>6, <3>1, <3>2, <3>3 DEF FetchPage, PersistDocument,
         ExpansionFails, Stops, Restart, Working
  <2>3. QED
    BY <1>0, <2>1, <2>2, TokenStutter
<1>7. CASE UNCHANGED vars
  BY <1>0, <1>7, TokenStutter DEF vars
<1>8. QED
  BY <1>1, <1>2, <1>3, <1>4, <1>5, <1>6, <1>7 DEF UntimedNext

\* In particular, the steps of the crawl do.
LEMMA TokenStep == TypeInv /\ TokenInv /\ [Next]_vars => TokenInv'
BY NextIsUntimed, TokenUntimed

-----------------------------------------------------------------------------

StoredInv == SavedBeforeReported /\ SuccessIsStored

\* Nothing is stored or reported yet.
LEMMA StoredInit == Init => StoredInv
BY StoreAssumption DEF Init, StoreInit, NewJob, NoJob, Unleased, Idle,
   StoredInv, SavedBeforeReported, SuccessIsStored

\* No document is taken back, processes move past their save only by it, and
\* no job succeeds.
LEMMA StoredKept ==
  ASSUME StoredInv, docs \subseteq docs',
         \A w \in Workers : worker'[w].pc \in {"expand", "complete"} =>
           \/ ClaimedJob(w)' \in docs'
           \/ /\ worker[w].pc \in {"expand", "complete"}
              /\ worker'[w].token = worker[w].token,
         \A k \in Jobs : job'[k].status = "SUCCEEDED" =>
                           job[k].status = "SUCCEEDED"
  PROVE  StoredInv'
BY DEF StoredInv, SavedBeforeReported, SuccessIsStored, ClaimedJob, Claimed

\* complete_job is the only step that adds a success, and its process is past
\* its save.
LEMMA StoredUntimed == TypeInv /\ StoredInv /\ [UntimedNext]_vars => StoredInv'
<1> SUFFICES ASSUME TypeInv, StoredInv, [UntimedNext]_vars
             PROVE  StoredInv'
  OBVIOUS
<1> USE StoreAssumption
<1>0. /\ \A w \in Workers : worker[w].pc \in Working => ClaimedJob(w) \in Jobs
      /\ job \in [Jobs -> JobRow] /\ worker \in [Workers -> WorkerState]
  BY DEF TypeInv, TypeOK, StoreTypeOK, WorkerHoldsToken, Tokens, ClaimedJob
<1>1. ASSUME NEW w \in Workers, NEW j \in Jobs, NEW left, Leases(w, j, left)
      PROVE  StoredInv'
  <2>1. \A k \in Jobs : job'[k].status = "SUCCEEDED" => job[k].status = "SUCCEEDED"
    BY <1>0, <1>1 DEF Leases, ClaimRow
  <2>2. \A v \in Workers : worker'[v].pc \in {"expand", "complete"} =>
          worker[v].pc \in {"expand", "complete"} /\ worker'[v] = worker[v]
    BY <1>0, <1>1 DEF Leases
  <2>3. docs' = docs
    BY <1>1 DEF Leases
  <2>4. QED
    BY <2>1, <2>2, <2>3, StoredKept
<1>2. ASSUME NEW w \in Workers, NEW n, Settles(w, n) PROVE StoredInv'
  <2> DEFINE j == ClaimedJob(w)
  <2>1. /\ j \in Jobs
        /\ job' = [job EXCEPT ![j] = Released(j, ReportedStatus(w))]
    BY <1>0, <1>2 DEF Settles, Working
  <2>2. /\ Released(j, ReportedStatus(w)).status = ReportedStatus(w)
        /\ ReportedStatus(w) = "SUCCEEDED" => j \in docs
    BY <1>2 DEF Settles, Released, Unleased, ReportedStatus, FailureStatus, StoredInv,
       SavedBeforeReported
  <2>3. /\ \A v \in Workers : worker'[v].pc \in {"expand", "complete"} =>
             worker[v].pc \in {"expand", "complete"} /\ worker'[v] = worker[v]
        /\ docs' = docs
    BY <1>0, <1>2 DEF Settles, Idle
  <2> HIDE DEF j
  <2>4. \A k \in Jobs : job'[k].status = "SUCCEEDED" =>
          job[k].status = "SUCCEEDED" \/ k \in docs
    BY <1>0, <2>1, <2>2
  <2>5. QED
    BY <2>3, <2>4 DEF StoredInv, SavedBeforeReported, SuccessIsStored, ClaimedJob, Claimed
<1>4. ASSUME NEW w \in Workers, PersistDocument(w) PROVE StoredInv'
  <2>1. \A v \in Workers : v # w => worker'[v] = worker[v]
    BY <1>0, <1>4 DEF PersistDocument, Goto
  <2>2. /\ worker'[w].token = worker[w].token
        /\ worker'[w].pc \in {"expand", "complete"} => ClaimedJob(w) \in docs'
        /\ docs \subseteq docs' /\ job' = job
    BY <1>0, <1>4 DEF PersistDocument, Goto, AfterPersist, WorkerState, storeVars
  <2>3. ClaimedJob(w)' = ClaimedJob(w)
    BY <2>2 DEF ClaimedJob, Claimed
  <2>4. QED
    BY <2>1, <2>2, <2>3, StoredKept
<1>5. ASSUME NEW w \in Workers, ExpandFrontier(w) PROVE StoredInv'
  <2>1. PICK S \in Selections(ClaimedJob(w)) :
          EnqueueDiscoveredLinks(ClaimedJob(w), S)
    BY <1>5 DEF ExpandFrontier
  <2>2. \A k \in Jobs : job'[k].status = "SUCCEEDED" => job[k].status = "SUCCEEDED"
    BY <2>1 DEF EnqueueDiscoveredLinks, NewJob, Unleased
  <2>3. \A v \in Workers : worker'[v].pc \in {"expand", "complete"} =>
          worker[v].pc \in {"expand", "complete"} /\ worker'[v].token = worker[v].token
    BY <1>0, <1>5 DEF ExpandFrontier, Goto, WorkerState
  <2>4. docs' = docs
    BY <1>5 DEF ExpandFrontier
  <2>5. QED
    BY <2>2, <2>3, <2>4, StoredKept
<1>6. ASSUME NEW r \in Runs, Control(r), UNCHANGED <<worker, docs>>
      PROVE  StoredInv'
  <2>1. \A k \in Jobs : job'[k].status = "SUCCEEDED" => job[k].status = "SUCCEEDED"
    BY <1>6 DEF Control, StartCrawlRun, PauseCrawlRun, ResumeCrawlRun,
       CancelCrawlRun, Released, Unleased
  <2>2. QED
    BY <1>6, <2>1, StoredKept
<1>7. ASSUME NEW p, TimePasses(p) PROVE StoredInv'
  <2>1. \A k \in Jobs : job'[k].status = job[k].status
    BY <1>0, <1>7 DEF TimePasses, JobRow
  <2>2. QED
    BY <1>7, <2>1, StoredKept DEF TimePasses
<1>8. ASSUME NEW w \in Workers,
             FetchPage(w) \/ ExpansionFails(w) \/ Stops(w) \/ Restart(w)
      PROVE  StoredInv'
  <2>1. job' = job /\ docs' = docs
    BY <1>8 DEF FetchPage, ExpansionFails, Stops, Restart, storeVars
  <2>2. \A v \in Workers : worker'[v].pc \in {"expand", "complete"} =>
          worker[v].pc \in {"expand", "complete"} /\ worker'[v].token = worker[v].token
    BY <1>0, <1>8 DEF FetchPage, ExpansionFails, Stops, Restart, Goto, Idle, Down,
                      WorkerState
  <2>3. QED
    BY <2>1, <2>2, StoredKept
<1>9. CASE UNCHANGED vars
  BY <1>9, StoredKept DEF vars
<1>10. QED
  BY <1>1, <1>2, <1>4, <1>5, <1>6, <1>7, <1>8, <1>9 DEF UntimedNext

\* In particular, no step of the crawl breaks it.
LEMMA StoredStep == TypeInv /\ StoredInv /\ [Next]_vars => StoredInv'
BY NextIsUntimed, StoredUntimed

\* Whichever process reported a success, the page is stored.
THEOREM SuccessStored == Spec => []SuccessIsStored
<1>1. Init => TypeInv /\ StoredInv
  BY TypeInit, StoredInit
<1>2. TypeInv /\ StoredInv /\ [Next]_vars => (TypeInv /\ StoredInv)'
  BY TypeStep, StoredStep
<1>3. StoredInv => SuccessIsStored
  BY DEF StoredInv
<1>4. QED
  BY <1>1, <1>2, <1>3, PTL DEF Spec

-----------------------------------------------------------------------------

Final ==
  /\ \A r \in Runs : run[r] \in CompletedRun => run'[r] = run[r]
  /\ \A j \in Jobs : job[j].status \in TerminalJobStatuses => job'[j] = job[j]

\* A reported result, and a verdict, outlast every later step.
LEMMA FinalUntimed == TypeInv /\ LeaseInv /\ [UntimedNext]_vars => Final
<1> SUFFICES ASSUME TypeInv, LeaseInv, [UntimedNext]_vars
             PROVE  Final
  OBVIOUS
<1> USE StoreAssumption
<1>0. /\ \A w \in Workers : worker[w].pc \in Working => ClaimedJob(w) \in Jobs
      /\ job \in [Jobs -> JobRow] /\ run \in [Runs -> RunStatus]
  BY DEF TypeInv, TypeOK, StoreTypeOK, WorkerHoldsToken, Tokens, ClaimedJob
<1>1. ASSUME NEW w \in Workers, NEW j \in Jobs, NEW left, Leases(w, j, left) PROVE Final
  <2>1. job[j].status \notin TerminalJobStatuses /\ run' = run
    BY <1>1 DEF Leases, Open, OpenJobStatuses, TerminalJobStatuses
  <2>2. \A k \in Jobs \ {j} : job'[k] = job[k]
    BY <1>0, <1>1 DEF Leases
  <2>3. QED
    BY <2>1, <2>2 DEF Final
<1>2. ASSUME NEW w \in Workers, NEW n, Settles(w, n) PROVE Final
  <2> DEFINE j == ClaimedJob(w)
  <2>1. /\ j \in Jobs /\ job[j].status = "LEASED"
        /\ \A k \in Jobs \ {j} : job'[k] = job[k]
    BY <1>0, <1>2 DEF Settles, Working
  <2>2. \A r \in Runs : run[r] # "RUNNING" => run'[r] = run[r]
    BY <1>0, <1>2 DEF Settles, ReportedVerdict
  <2> HIDE DEF j
  <2>3. QED
    BY <2>1, <2>2 DEF Final, TerminalJobStatuses, CompletedRun
<1>3. ASSUME NEW w \in Workers, ExpandFrontier(w) PROVE Final
  <2>1. PICK S \in Selections(ClaimedJob(w)) :
          EnqueueDiscoveredLinks(ClaimedJob(w), S)
    BY <1>3 DEF ExpandFrontier
  <2>2. \A k \in NewChildren(ClaimedJob(w), S) : job[k].status = "ABSENT"
    BY DEF NewChildren, FirstByRank, Exists
  <2>3. run' = run /\ \A k \in Jobs : job[k].status # "ABSENT" => job'[k] = job[k]
    BY <2>1, <2>2 DEF EnqueueDiscoveredLinks
  <2>4. QED
    BY <2>3 DEF Final, TerminalJobStatuses
<1>4. ASSUME NEW r \in Runs, Control(r) PROVE Final
  <2>1. \A q \in Runs : run[q] \in CompletedRun => run'[q] = run[q]
    BY <1>0, <1>4 DEF Control, StartCrawlRun, PauseCrawlRun, ResumeCrawlRun,
       CancelCrawlRun, Cancellable, CompletedRun
  <2>2. \A k \in Jobs : ~CancelledJob(k) => job'[k] = job[k]
    BY <1>0, <1>4 DEF Control, StartCrawlRun, PauseCrawlRun, ResumeCrawlRun,
       CancelCrawlRun
  <2>3. QED
    BY <2>1, <2>2 DEF Final, CancelledJob, TerminalJobStatuses
<1>5. ASSUME NEW p, TimePasses(p) PROVE Final
  <2>1. \A k \in Jobs : job'[k] = [job[k] EXCEPT !.left = Sooner(@)] /\ run' = run
    BY <1>5 DEF TimePasses
  <2>2. \A k \in Jobs : job[k].status # "LEASED" => Sooner(job[k].left) = job[k].left
    BY <1>0, <2>1 DEF LeaseInv, LeaseShape, Sooner, JobRow
  <2>3. ASSUME NEW k \in Jobs, job[k].status # "LEASED"
        PROVE  job'[k] = job[k]
    <3>1. job'[k] = [job[k] EXCEPT !.left = job[k].left]
      BY <2>1, <2>2, <2>3
    <3>2. job[k] \in JobRow
      BY <1>0
    <3>3. QED
      BY <3>1, <3>2 DEF JobRow
  <2>4. QED
    BY <1>5, <2>3 DEF Final, TimePasses, TerminalJobStatuses
<1>6. CASE UNCHANGED <<run, job>>
  BY <1>6 DEF Final
<1>7. QED
  BY <1>1, <1>2, <1>3, <1>4, <1>5, <1>6
     DEF UntimedNext, FetchPage, PersistDocument, ExpansionFails, Stops, Restart,
         storeVars, vars

\* In particular, no step of the crawl revises them.
LEMMA FinalStep == TypeInv /\ LeaseInv /\ [Next]_vars => Final
BY NextIsUntimed, FinalUntimed

\* Verdicts and job results are never revised.
THEOREM ResultsFinal == Spec => ResultsAreFinal
<1>1. Init => TypeInv /\ LeaseInv
  BY TypeInit, LeaseInit
<1>2. TypeInv /\ LeaseInv /\ [Next]_vars => (TypeInv /\ LeaseInv)'
  BY TypeStep, LeaseStep
<1>3. TypeInv /\ LeaseInv /\ [Next]_vars =>
        [/\ \A r \in Runs : run[r] \in CompletedRun => run'[r] = run[r]
         /\ \A j \in Jobs : job[j].status \in TerminalJobStatuses =>
                              job'[j] = job[j]]_vars
  BY FinalStep DEF Final
<1>4. QED
  BY <1>1, <1>2, <1>3, PTL DEF Spec, ResultsAreFinal

=============================================================================
