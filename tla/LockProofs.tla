----------------------------- MODULE LockProofs -----------------------------
(***************************************************************************)
(* The transactions of RowLocking, for every number of workers, jobs, hosts *)
(* and campaigns.  Reports and expansions never wait for one another in a   *)
(* cycle: what one holds is a prefix of the rows it locks, in the order     *)
(* job, host, campaign, so of two that wait the one waited for waits higher.*)
(*                                                                          *)
(* Whatever the interleaving, the crawl stays safe.  Each transaction has a *)
(* promise, what it relies on under the locks it holds; no other session    *)
(* breaks a promise, so that every commit writes what the transaction as a  *)
(* single step could write at that moment, its clock reading apart.  The    *)
(* safety of the single steps was proved for every such reading.            *)
(***************************************************************************)
EXTENDS RowLocking, LeaseProofs, NaturalsInduction, WellFoundedInduction

Reports == {"complete", "fail", "enqueue"}

Shape(t) == t = [op |-> t.op, age |-> t.age, plan |-> t.plan, todo |-> t.todo,
                 links |-> t.links, verdict |-> t.verdict]

\* The rows a report or an expansion locks before its campaign's.
Lower(op, j) ==
  IF op = "enqueue" THEN {JobRowOf(j)} ELSE {JobRowOf(j), HostRow(DomainOf[j])}

\* How far a report or an expansion has come with its locks.
Staged(s) ==
  LET j == ClaimedJob(s)
      op == tx[s].op
  IN  \/ tx[s].plan = LockPlan(op, j) /\ locks[s] = {}
      \/ /\ op # "enqueue"
         /\ tx[s].plan = <<HostRow(DomainOf[j]), RunRow(RunOf[j])>>
         /\ locks[s] = {JobRowOf(j)}
      \/ tx[s].plan = <<RunRow(RunOf[j])>> /\ locks[s] = Lower(op, j)
      \/ tx[s].plan = <<>> /\ locks[s] = Lower(op, j) \cup {RunRow(RunOf[j])}

SessionInv(s) ==
  /\ Shape(tx[s])
  /\ tx[s].op \in Reports \cup {"none", "claim", "cancel"}
  /\ tx[s].op = "none" => tx[s].plan = <<>> /\ locks[s] = {}
  /\ tx[s].op \in Reports => s \in Workers /\ Staged(s)

LockInv ==
  /\ DOMAIN tx = Sessions /\ DOMAIN locks = Sessions /\ DOMAIN worker = Workers
  /\ \A s \in Sessions : SessionInv(s)

-----------------------------------------------------------------------------
(* The invariant excludes cycles of reports *)

Level(row) == CASE row[1] = "job" -> 1 [] row[1] = "host" -> 2 [] OTHER -> 3

\* The level of the row session s is waiting for.
Rung(s) == Level(Head(tx[s].plan))

\* The levels of the three kinds of rows.
LEMMA Levels ==
  ASSUME NEW x
  PROVE  Level(JobRowOf(x)) = 1 /\ Level(HostRow(x)) = 2 /\ Level(RunRow(x)) = 3
BY DEF Level, JobRowOf, HostRow, RunRow

\* A waiting report holds only rows below the one it waits for.
LEMMA HeldBelow ==
  ASSUME NEW s, Staged(s), tx[s].plan # <<>>
  PROVE  Rung(s) \in 1..3 /\ \A row \in locks[s] : Level(row) < Rung(s)
<1> DEFINE j == ClaimedJob(s)
<1>1. CASE tx[s].plan = LockPlan(tx[s].op, j) /\ locks[s] = {}
  <2>1. Head(tx[s].plan) = JobRowOf(j)
    BY <1>1 DEF LockPlan
  <2>2. QED
    BY <1>1, <2>1, Levels DEF Rung
<1>2. CASE /\ tx[s].plan = <<HostRow(DomainOf[j]), RunRow(RunOf[j])>>
           /\ locks[s] = {JobRowOf(j)}
  <2>1. Head(tx[s].plan) = HostRow(DomainOf[j])
    BY <1>2
  <2>2. QED
    BY <1>2, <2>1, Levels DEF Rung
<1>3. CASE tx[s].plan = <<RunRow(RunOf[j])>> /\ locks[s] = Lower(tx[s].op, j)
  <2>1. Head(tx[s].plan) = RunRow(RunOf[j])
    BY <1>3
  <2>2. QED
    BY <1>3, <2>1, Levels DEF Rung, Lower
<1>4. QED
  BY <1>1, <1>2, <1>3 DEF Staged

\* In a cycle of reports each waits for one that waits higher, and there are
\* three levels only.
LEMMA NoCycleOfReports == LockInv => ReportsNeverDeadlock
<1> SUFFICES ASSUME LockInv, NEW S \in WaitCycles,
                    \A s \in S : tx[s].op \notin {"claim", "cancel"}
             PROVE  FALSE
  BY DEF ReportsNeverDeadlock
<1>1. /\ S \in (SUBSET Sessions) \ {{}}
      /\ \A s \in S : WaitsFor(s) \cap S # {}
  BY Zenon DEF WaitCycles
<1>2. \A s \in S : tx[s].plan # <<>> /\ Staged(s)
  BY <1>1 DEF WaitsFor, LockInv, SessionInv
<1>3. \A s \in S : Rung(s) \in 1..3
  BY <1>2, HeldBelow
<1>4. \A s \in S : \E t \in S : Rung(s) < Rung(t)
  <2> SUFFICES ASSUME NEW s \in S
               PROVE  \E t \in S : Rung(s) < Rung(t)
    OBVIOUS
  <2>1. PICK t \in S : t \in WaitsFor(s)
    BY <1>1
  <2>2. Head(tx[s].plan) \in locks[t]
    BY <1>2, <2>1 DEF WaitsFor
  <2>3. Level(Head(tx[s].plan)) < Rung(t)
    BY <1>2, <2>2, HeldBelow
  <2>4. QED
    BY <2>3 DEF Rung
<1>5. PICK s \in S : TRUE
  BY <1>1
<1>6. PICK t \in S : Rung(s) < Rung(t)
  BY <1>4
<1>7. PICK u \in S : Rung(t) < Rung(u)
  BY <1>4
<1>8. PICK v \in S : Rung(u) < Rung(v)
  BY <1>4
<1>9. QED
  BY <1>3, <1>6, <1>7, <1>8

-----------------------------------------------------------------------------
(* The invariant is inductive *)

\* No transaction has begun.
LEMMA LockInvInit == LockInit => LockInv
<1> SUFFICES ASSUME LockInit PROVE LockInv
  OBVIOUS
<1>1. /\ DOMAIN tx = Sessions /\ DOMAIN locks = Sessions /\ DOMAIN worker = Workers
      /\ \A s \in Sessions : tx[s] = NoTx /\ locks[s] = {}
  BY DEF LockInit, Init
<1>2. Shape(NoTx) /\ NoTx.op = "none" /\ NoTx.plan = <<>>
  BY DEF Shape, NoTx
<1>3. QED
  BY <1>1, <1>2 DEF LockInv, SessionInv, Reports

\* A step of one session leaves the others' part of the invariant alone.
LEMMA OneSession ==
  ASSUME LockInv, NEW a \in Sessions,
         DOMAIN tx' = Sessions, DOMAIN locks' = Sessions, DOMAIN worker' = Workers,
         \A s \in Sessions \ {a} : /\ tx'[s] = tx[s] /\ locks'[s] = locks[s]
                                   /\ s \in Workers => worker'[s] = worker[s],
         SessionInv(a)'
  PROVE  LockInv'
<1> SUFFICES ASSUME NEW s \in Sessions \ {a}
             PROVE  SessionInv(s)'
  BY DEF LockInv
<1>1. SessionInv(s) /\ tx'[s] = tx[s] /\ locks'[s] = locks[s]
  BY DEF LockInv
<1>2. s \in Workers => ClaimedJob(s)' = ClaimedJob(s)
  BY DEF ClaimedJob, Claimed
<1>3. QED
  BY <1>1, <1>2 DEF SessionInv, Staged, LockPlan, Lower, Reports

\* A transaction that ends leaves nothing to say of its session.
LEMMA Ended ==
  ASSUME LockInv, NEW a \in Sessions, End(a),
         DOMAIN worker' = Workers,
         \A s \in Workers \ {a} : worker'[s] = worker[s]
  PROVE  LockInv'
<1>1. /\ tx'[a] = NoTx /\ locks'[a] = {}
      /\ DOMAIN tx' = Sessions /\ DOMAIN locks' = Sessions
      /\ \A s \in Sessions \ {a} : tx'[s] = tx[s] /\ locks'[s] = locks[s]
  BY DEF LockInv, End
<1>2. Shape(NoTx) /\ NoTx.op = "none" /\ NoTx.plan = <<>>
  BY DEF Shape, NoTx
<1>3. SessionInv(a)'
  <2>1. tx'[a].op = "none" /\ tx'[a].plan = <<>> /\ Shape(tx'[a])
    BY <1>1, <1>2
  <2>2. QED
    BY <1>1, <2>1 DEF SessionInv, Reports, Shape
<1>4. QED
  BY <1>1, <1>3, OneSession

\* Of a claim or a cancellation the invariant says nothing but its shape.
LEMMA Loose ==
  ASSUME LockInv, NEW a \in Sessions,
         DOMAIN tx' = Sessions, DOMAIN locks' = Sessions, worker' = worker,
         \A s \in Sessions \ {a} : tx'[s] = tx[s] /\ locks'[s] = locks[s],
         Shape(tx'[a]), tx'[a].op \in {"claim", "cancel"}
  PROVE  LockInv'
<1>1. SessionInv(a)'
  BY DEF SessionInv, Reports, Shape
<1>2. QED
  BY <1>1, OneSession DEF LockInv

\* The steps of a claim before it commits.
LEMMA ClaimSteps ==
  ASSUME LockInv, NEW w \in Workers,
         BeginClaim(w) \/ TryCandidate(w) \/ LockHost(w)
  PROVE  LockInv'
<1> w \in Sessions
  BY DEF Sessions
<1>1. CASE BeginClaim(w)
  <2>1. PICK C : tx' = [tx EXCEPT ![w] = [NoTx EXCEPT !.op = "claim", !.todo = C]]
    BY <1>1 DEF BeginClaim, Begin
  <2>2. Shape(tx'[w]) /\ tx'[w].op = "claim"
    BY <2>1 DEF LockInv, Shape, NoTx
  <2>3. QED
    BY <1>1, <2>1, <2>2, Loose DEF BeginClaim, LockInv, vars, storeVars
<1>2. CASE TryCandidate(w)
  <2>1. Shape(tx[w]) /\ tx[w].op = "claim" /\ worker' = worker
    BY <1>2 DEF TryCandidate, LockInv, SessionInv, vars
  <2>2. \/ \E row : /\ locks' = [locks EXCEPT ![w] = @ \cup {row}]
                    /\ tx' = [tx EXCEPT ![w].plan =
                                <<HostRow(DomainOf[Best(w)[1]])>>]
        \/ tx' = [tx EXCEPT ![w].todo = Rest(w)] /\ locks' = locks
    BY <1>2 DEF TryCandidate
  <2>3. Shape(tx'[w]) /\ tx'[w].op = "claim"
    BY <2>1, <2>2 DEF LockInv, Shape
  <2>4. QED
    BY <2>1, <2>2, <2>3, Loose DEF LockInv
<1>3. CASE LockHost(w)
  <2>1. Shape(tx[w]) /\ tx[w].op = "claim" /\ worker' = worker
    BY <1>3 DEF LockHost, LockInv, SessionInv, vars
  <2>2. /\ locks' = [locks EXCEPT ![w] = @ \cup {Head(tx[w].plan)}]
        /\ \/ tx' = [tx EXCEPT ![w].plan = <<>>, ![w].verdict = "LEASED"]
           \/ tx' = [tx EXCEPT ![w].plan = <<>>, ![w].todo = Rest(w)]
    BY <1>3 DEF LockHost, Lock
  <2>3. Shape(tx'[w]) /\ tx'[w].op = "claim"
    BY <2>1, <2>2 DEF LockInv, Shape
  <2>4. QED
    BY <2>1, <2>2, <2>3, Loose DEF LockInv
<1>4. QED
  BY <1>1, <1>2, <1>3

\* The steps of a cancellation before it commits.
LEMMA CancelSteps ==
  ASSUME LockInv, NEW r \in Runs, BeginCancel(r) \/ VisitJob(r) \/ LockJob(r)
  PROVE  LockInv'
<1> r \in Sessions
  BY DEF Sessions
<1>1. CASE BeginCancel(r)
  <2>1. PICK C : tx' = [tx EXCEPT ![r] = [NoTx EXCEPT !.op = "cancel", !.todo = C]]
    BY <1>1 DEF BeginCancel, Begin
  <2>2. Shape(tx'[r]) /\ tx'[r].op = "cancel"
    BY <2>1 DEF LockInv, Shape, NoTx
  <2>3. worker' = worker /\ locks' = [locks EXCEPT ![r] = {RunRow(r)}]
    BY <1>1 DEF BeginCancel, vars
  <2>4. QED
    BY <2>1, <2>2, <2>3, Loose DEF LockInv
<1>2. CASE VisitJob(r)
  <2>1. Shape(tx[r]) /\ tx[r].op = "cancel" /\ worker' = worker /\ locks' = locks
    BY <1>2 DEF VisitJob, LockInv, SessionInv, vars
  <2>2. PICK c : tx' = [tx EXCEPT ![r].plan = <<JobRowOf(c[1])>>, ![r].todo = @ \ {c}]
    BY <1>2 DEF VisitJob
  <2>3. Shape(tx'[r]) /\ tx'[r].op = "cancel"
    BY <2>1, <2>2 DEF LockInv, Shape
  <2>4. QED
    BY <2>1, <2>2, <2>3, Loose DEF LockInv
<1>3. CASE LockJob(r)
  <2>1. Shape(tx[r]) /\ tx[r].op = "cancel" /\ worker' = worker
    BY <1>3 DEF LockJob, LockInv, SessionInv, vars
  <2>2. /\ locks' = [locks EXCEPT ![r] = @ \cup {Head(tx[r].plan)}]
        /\ tx' = [tx EXCEPT ![r].plan = <<>>]
    BY <1>3 DEF LockJob, Lock
  <2>3. Shape(tx'[r]) /\ tx'[r].op = "cancel"
    BY <2>1, <2>2 DEF LockInv, Shape
  <2>4. QED
    BY <2>1, <2>2, <2>3, Loose DEF LockInv
<1>4. QED
  BY <1>1, <1>2, <1>3

\* The transaction a report or an expansion begins with.
LEMMA FreshWork ==
  ASSUME NEW op, NEW p, NEW S
  PROVE  LET t == [NoTx EXCEPT !.op = op, !.plan = p, !.links = S]
         IN  Shape(t) /\ t.op = op /\ t.plan = p
<1> DEFINE u == [NoTx EXCEPT !.op = op]
           v == [NoTx EXCEPT !.op = op, !.plan = p]
           t == [NoTx EXCEPT !.op = op, !.plan = p, !.links = S]
<1>1. Shape(NoTx)
  BY DEF Shape, NoTx
<1>2. v = [u EXCEPT !.plan = p] /\ t = [v EXCEPT !.links = S]
  OBVIOUS
<1>3. Shape(u) /\ u.op = op
  BY <1>1 DEF Shape
<1> HIDE DEF u, v, t
<1>4. Shape(v) /\ v.op = op /\ v.plan = p
  BY <1>2, <1>3 DEF Shape
<1>5. Shape(t) /\ t.op = op /\ t.plan = p
  BY <1>2, <1>4 DEF Shape
<1>6. QED
  BY <1>5 DEF t

\* A report or an expansion begins with its whole plan and no lock.
LEMMA WorkBegins ==
  ASSUME LockInv, NEW w \in Workers, NEW op \in Reports, NEW S, BeginWork(w, op, S)
  PROVE  LockInv'
<1> w \in Sessions
  BY DEF Sessions
<1> DEFINE t == [NoTx EXCEPT !.op = op, !.plan = LockPlan(op, ClaimedJob(w)),
                             !.links = S]
<1>1. tx[w].op = "none" /\ tx' = [tx EXCEPT ![w] = t]
      /\ worker' = worker /\ locks' = locks
  BY DEF BeginWork, Begin, vars
<1>2. Shape(t) /\ t.op = op /\ t.plan = LockPlan(op, ClaimedJob(w))
  BY FreshWork
<1> HIDE DEF t
<1>3. tx'[w] = t /\ locks'[w] = {} /\ ClaimedJob(w)' = ClaimedJob(w)
  BY <1>1 DEF LockInv, SessionInv, ClaimedJob, Claimed
<1>4. Staged(w)'
  BY <1>2, <1>3 DEF Staged, LockPlan
<1>5. SessionInv(w)'
  <2>1. Shape(tx'[w]) /\ tx'[w].op = op
    BY <1>2, <1>3
  <2>2. QED
    BY <2>1, <1>4 DEF SessionInv, Reports, Shape
<1>6. QED
  BY <1>1, <1>5, OneSession DEF LockInv

\* The next lock is granted and leaves the plan.
LEMMA RowLocked ==
  ASSUME LockInv, NEW w \in Workers, LockRow(w)
  PROVE  LockInv'
<1> w \in Sessions
  BY DEF Sessions
<1> DEFINE j == ClaimedJob(w)
           plan == tx[w].plan
           shorter == [tx[w] EXCEPT !.plan = Tail(plan)]
<1>1. /\ tx[w].op \in Reports /\ plan # <<>> /\ worker' = worker
      /\ locks' = [locks EXCEPT ![w] = @ \cup {Head(plan)}]
      /\ tx' = [tx EXCEPT ![w] = Granted(w)]
  BY DEF LockRow, Lock, Grantable, Reporting, Reports, vars
<1>2. Shape(tx[w]) /\ Staged(w)
  BY <1>1 DEF LockInv, SessionInv
<1>3. Shape(tx'[w]) /\ tx'[w].op = tx[w].op /\ tx'[w].plan = Tail(plan)
  <2>0. tx'[w] = Granted(w)
    BY <1>1 DEF LockInv
  <2>1. CASE Tail(plan) = <<>>
    <3>1. tx'[w] = Counted(w)
      BY <2>0, <2>1 DEF Granted
    <3>2. QED
      BY <1>2, <2>1, <3>1 DEF Counted, Shape
  <2>2. CASE Tail(plan) # <<>>
    <3>1. tx'[w] = shorter
      BY <2>0, <2>2 DEF Granted
    <3>2. QED
      BY <1>2, <3>1 DEF Shape
  <2>3. QED
    BY <2>1, <2>2
<1>4. locks'[w] = locks[w] \cup {Head(plan)} /\ ClaimedJob(w)' = j
  BY <1>1 DEF LockInv, ClaimedJob, Claimed
<1>5. Staged(w)'
  <2>1. CASE plan = LockPlan(tx[w].op, j) /\ locks[w] = {}
    <3>1. CASE tx[w].op = "enqueue"
      <4>1. plan = <<JobRowOf(j), RunRow(RunOf[j])>>
        BY <2>1, <3>1 DEF LockPlan
      <4>2. Head(plan) = JobRowOf(j) /\ Tail(plan) = <<RunRow(RunOf[j])>>
        BY <4>1
      <4>3. locks'[w] = Lower(tx[w].op, j)
        BY <1>4, <2>1, <3>1, <4>2 DEF Lower
      <4>4. QED
        BY <1>3, <1>4, <4>2, <4>3 DEF Staged
    <3>2. CASE tx[w].op # "enqueue"
      <4>1. plan = <<JobRowOf(j), HostRow(DomainOf[j]), RunRow(RunOf[j])>>
        BY <2>1, <3>2 DEF LockPlan
      <4>2. /\ Head(plan) = JobRowOf(j)
            /\ Tail(plan) = <<HostRow(DomainOf[j]), RunRow(RunOf[j])>>
        BY <4>1
      <4>3. QED
        BY <1>3, <1>4, <2>1, <3>2, <4>2 DEF Staged
    <3>3. QED
      BY <3>1, <3>2
  <2>2. CASE /\ tx[w].op # "enqueue"
             /\ plan = <<HostRow(DomainOf[j]), RunRow(RunOf[j])>>
             /\ locks[w] = {JobRowOf(j)}
    <3>1. Head(plan) = HostRow(DomainOf[j]) /\ Tail(plan) = <<RunRow(RunOf[j])>>
      BY <2>2
    <3>2. locks'[w] = Lower(tx[w].op, j)
      BY <1>4, <2>2, <3>1 DEF Lower
    <3>3. QED
      BY <1>3, <1>4, <3>1, <3>2 DEF Staged
  <2>3. CASE plan = <<RunRow(RunOf[j])>> /\ locks[w] = Lower(tx[w].op, j)
    <3>1. Head(plan) = RunRow(RunOf[j]) /\ Tail(plan) = <<>>
      BY <2>3
    <3>2. QED
      BY <1>3, <1>4, <2>3, <3>1 DEF Staged
  <2>4. QED
    BY <1>1, <1>2, <2>1, <2>2, <2>3 DEF Staged
<1>6. SessionInv(w)'
  BY <1>1, <1>3, <1>5 DEF SessionInv, Reports, Shape
<1>7. QED
  BY <1>1, <1>6, OneSession DEF LockInv

\* A step between two transactions of a worker.
LEMMA Idling ==
  ASSUME LockInv, NEW w \in Workers, tx[w].op = "none", UNCHANGED <<tx, locks>>,
         DOMAIN worker' = Workers, \A v \in Workers \ {w} : worker'[v] = worker[v]
  PROVE  LockInv'
<1> w \in Sessions
  BY DEF Sessions
<1>1. SessionInv(w)'
  BY DEF LockInv, SessionInv, Reports, Shape
<1>2. QED
  BY <1>1, OneSession DEF LockInv

\* What a worker does between two transactions.
LEMMA BetweenTransactions ==
  ASSUME LockInv, NEW w \in Workers, NothingToEnqueue(w) \/ Between(w)
  PROVE  LockInv'
<1>1. /\ tx[w].op = "none" /\ UNCHANGED <<tx, locks>>
      /\ \E x : worker' = [worker EXCEPT ![w] = x] \/ worker' = [worker EXCEPT ![w].pc = x]
  BY DEF NothingToEnqueue, Between, Goto, FetchPage, PersistDocument, ExpansionFails,
     Restart
<1>2. QED
  BY <1>1, Idling DEF LockInv

\* The steps that end a worker's transaction.
LEMMA WorkerEnds ==
  ASSUME LockInv, NEW w \in Workers,
         CommitClaim(w) \/ ClaimNothing(w) \/ LoseLeaseLocked(w) \/ CommitReport(w)
           \/ CommitEnqueue(w) \/ CrashLocked(w)
  PROVE  LockInv'
<1>1. End(w) /\ w \in Sessions
  BY DEF CommitClaim, ClaimNothing, LoseLeaseLocked, CommitReport, CommitEnqueue,
     CrashLocked, Sessions
<1>2. \/ worker' = worker
      \/ \E x : worker' = [worker EXCEPT ![w] = x] \/ worker' = [worker EXCEPT ![w].pc = x]
  BY DEF CommitClaim, ClaimNothing, LoseLeaseLocked, CommitReport, CommitEnqueue,
     CrashLocked, Goto, vars
<1>3. QED
  BY <1>1, <1>2, Ended DEF LockInv

\* A clock tick makes transactions older, nothing else.
LEMMA Ticked ==
  ASSUME LockInv, TickLocked
  PROVE  LockInv'
<1>1. /\ worker' = worker /\ locks' = locks
      /\ tx' = [s \in Sessions |-> Aged(tx[s])]
  BY DEF TickLocked
<1>2. ASSUME NEW s \in Sessions
      PROVE  Shape(tx'[s]) /\ tx'[s].op = tx[s].op /\ tx'[s].plan = tx[s].plan
  <2>1. Shape(tx[s]) /\ tx'[s] = Aged(tx[s])
    BY <1>1 DEF LockInv, SessionInv
  <2>2. QED
    BY <2>1 DEF Aged, Shape
<1>3. ASSUME NEW s \in Sessions PROVE SessionInv(s)'
  <2>1. SessionInv(s) /\ ClaimedJob(s)' = ClaimedJob(s) /\ locks'[s] = locks[s]
    BY <1>1 DEF LockInv, ClaimedJob, Claimed
  <2>2. QED
    BY <1>2, <2>1 DEF SessionInv, Staged, LockPlan, Lower, Reports, Shape
<1>4. QED
  BY <1>1, <1>3 DEF LockInv

\* No step of a worker, a request, the database or the clock breaks the order.
LEMMA LockStep == LockInv /\ [LockNext]_lockVars => LockInv'
<1> SUFFICES ASSUME LockInv, [LockNext]_lockVars PROVE LockInv'
  OBVIOUS
<1>1. ASSUME NEW w \in Workers, WorkerLockStep(w) PROVE LockInv'
  <2>1. ASSUME BeginReport(w) \/ BeginEnqueue(w) PROVE LockInv'
    <3>1. \E op \in Reports, S \in SUBSET Jobs \cup {{}} : BeginWork(w, op, S)
      BY <2>1 DEF BeginReport, BeginEnqueue, Reports, Selections
    <3>2. QED
      BY <3>1, WorkBegins
  <2>2. QED
    BY <1>1, <2>1, ClaimSteps, RowLocked, BetweenTransactions, WorkerEnds DEF WorkerLockStep
<1>2. ASSUME NEW r \in Runs, ControlLockStep(r) PROVE LockInv'
  <2>1. CASE CommitCancel(r)
    <3>1. End(r) /\ worker' = worker /\ r \in Sessions
      BY <2>1 DEF CommitCancel, Sessions
    <3>2. QED
      BY <3>1, Ended DEF LockInv
  <2>2. CASE ShortControl(r)
    <3>1. UNCHANGED <<tx, locks, worker>>
      BY <2>2 DEF ShortControl
    <3>2. QED
      BY <3>1 DEF LockInv, SessionInv, Staged, LockPlan, Lower, ClaimedJob, Claimed, Shape
  <2>3. QED
    BY <1>2, <2>1, <2>2, CancelSteps DEF ControlLockStep
<1>3. ASSUME NEW s \in Sessions, DeadlockVictim(s) PROVE LockInv'
  <2>1. End(s) /\ worker' = AfterError(s)
    BY <1>3 DEF DeadlockVictim
  <2>2. QED
    BY <2>1, Ended DEF AfterError, LockInv
<1>4. CASE UNCHANGED lockVars
  BY <1>4 DEF lockVars, vars, LockInv, SessionInv, Staged, LockPlan, Lower, ClaimedJob,
     Claimed, Shape
<1>5. QED
  BY <1>1, <1>2, <1>3, <1>4, Ticked DEF LockNext

\* Completions, failures and expansions never wait for one another in a cycle,
\* however many workers run, live and stale: every deadlock the database has to
\* break involves a claim or a cancellation.
THEOREM NoReportDeadlock == LockSpec => []ReportsNeverDeadlock
<1>1. QED
  BY LockInvInit, LockStep, NoCycleOfReports, PTL DEF LockSpec

-----------------------------------------------------------------------------
(* What a session relies on, under the locks that keep it true *)

Exclusive == \A s \in Sessions : \A t \in Sessions \ {s} : locks[s] \cap locks[t] = {}

\* A report owns its job, and once it holds every row its verdict is the one
\* the campaign's rows give now.
ReportPromise(w) ==
  /\ worker[w].pc = tx[w].op
  /\ locks[w] # {} => OwnedWhenBegun(w)
  /\ tx[w].plan = <<>> => tx[w].verdict = VerdictOn(tx[w].op, ClaimedJob(w))

\* An expansion holds every row with the children it may insert now.
EnqueuePromise(w) ==
  LET j == ClaimedJob(w)
  IN  /\ worker[w].pc = "expand"
      /\ IF tx[w].plan # <<>> THEN tx[w].links \in Selections(j)
         ELSE \E S \in Selections(j) : tx[w].links = NewChildren(j, S)

\* A row that may be leased but for its campaign, which may have paused since.
Claimable(j) ==
  /\ job[j].attempts < MaxAttempts
  /\ \/ job[j].status \in {"PENDING", "RETRY_PENDING"}
     \/ job[j].status = "LEASED" /\ job[j].left < 0

\* What a claim knows of a candidate it has read.
Read(c) ==
  /\ c[1] \in Jobs /\ Exists(c[1]) /\ run[RunOf[c[1]]] # "PENDING"
  /\ c[2] \in Nat /\ c[2] <= job[c[1]].drawn
  /\ job[c[1]].status = "LEASED" /\ Seen(c[1]) = c => job[c[1]].left < 0

\* The candidate a claim has locked, or leases, stays claimable, and the host
\* it has found ready stays so.
ClaimPromise(w) ==
  LET j == Best(w)[1]
  IN  /\ worker[w].pc = "idle"
      /\ \A c \in tx[w].todo : Read(c)
      /\ tx[w].verdict \in {"", "LEASED"}
      /\ tx[w].plan = <<>> \/ tx[w].verdict = ""
      /\ tx[w].plan # <<>> \/ tx[w].verdict # "" =>
           /\ tx[w].todo # {} /\ JobRowOf(j) \in locks[w] /\ Claimable(j)
           /\ tx[w].plan # <<>> => tx[w].plan = <<HostRow(DomainOf[j])>>
      /\ tx[w].verdict # "" =>
           HostRow(DomainOf[j]) \in locks[w] /\ HostReady(w, DomainOf[j])

\* A cancellation has locked, or has yet to come to, every job it must cancel.
CancelPromise(r) ==
  /\ RunRow(r) \in locks[r] /\ Cancellable(r)
  /\ tx[r].plan = <<>> \/ \E k \in Jobs : RunOf[k] = r /\ tx[r].plan = <<JobRowOf(k)>>
  /\ \A k \in Jobs : JobRowOf(k) \in locks[r] => RunOf[k] = r
  /\ \A c \in tx[r].todo : c[1] \in Jobs /\ RunOf[c[1]] = r
  /\ \A k \in Jobs : RunOf[k] = r /\ CancelledJob(k) =>
       \/ JobRowOf(k) \in locks[r]
       \/ tx[r].plan = <<JobRowOf(k)>>
       \/ \E c \in tx[r].todo : c[1] = k

Promise(s) ==
  /\ tx[s].age \in 0..MaxAge
  /\ tx[s].op \in {"claim", "complete", "fail", "enqueue"} => s \in Workers
  /\ tx[s].op = "cancel" => s \in Runs
  /\ tx[s].op = "claim" => ClaimPromise(s)
  /\ tx[s].op \in {"complete", "fail"} => ReportPromise(s)
  /\ tx[s].op = "enqueue" => EnqueuePromise(s)
  /\ tx[s].op = "cancel" => CancelPromise(s)

Promises == Exclusive /\ \A s \in Sessions : Promise(s)

StoreInv ==
  TypeInv /\ LeaseInv /\ TokenInv /\ StoredInv /\ VerdictInv /\ WithinPageBudget

SafeInv == StoreInv /\ LockInv /\ Promises

-----------------------------------------------------------------------------
(* Every commit is a step of the crawl, its clock reading apart *)

\* A nonempty set of numbers has a least one.
LEMMA LeastExists ==
  ASSUME NEW S \in SUBSET Nat, S # {}
  PROVE  \E n \in S : \A k \in S : n <= k
<1>1. IsWellFoundedOn(OpToRel(<, Nat), Nat)
  BY NatLessThanWellFounded, Zenon DEF OpToRel
<1>2. PICK n \in S : \A k \in S : ~ (<<k, n>> \in OpToRel(<, Nat))
  BY <1>1, WFMin
<1>3. \A k \in S : ~ (k < n)
  BY <1>2 DEF OpToRel
<1>4. QED
  BY <1>3

\* The best candidate is one of those left.
LEMMA BestLeft ==
  ASSUME NEW w, tx[w].todo # {}, \A c \in tx[w].todo : c[1] \in Jobs
  PROVE  Best(w) \in tx[w].todo
<1> DEFINE R == {Rank[c[1]] : c \in tx[w].todo}
<1>1. R \in SUBSET Nat /\ R # {}
  BY StoreAssumption
<1>2. PICK n \in R : \A k \in R : n <= k
  BY <1>1, LeastExists
<1>3. PICK c \in tx[w].todo : n = Rank[c[1]]
  BY <1>2
<1>4. \A d \in tx[w].todo : Rank[c[1]] <= Rank[d[1]]
  BY <1>2, <1>3
<1>5. QED
  BY <1>4 DEF Best

\* A policy row whose token and term are overwritten.
LEMMA FieldsOfPolicy ==
  ASSUME NEW row \in PolicyRow, NEW token, NEW left
  PROVE  [[row EXCEPT !.token = token] EXCEPT !.left = left] =
           [token |-> token, left |-> left, pause |-> row.pause]
<1> DEFINE one == [row EXCEPT !.token = token]
<1>1. one = [token |-> token, left |-> row.left, pause |-> row.pause]
  BY DEF PolicyRow
<1> HIDE DEF one
<1>2. [one EXCEPT !.left = left] = [token |-> token, left |-> left, pause |-> row.pause]
  BY <1>1
<1>3. QED
  BY <1>2 DEF one

\* A claim leases its job for what is left of the term.
LEMMA ClaimCommits ==
  ASSUME SafeInv, NEW w \in Workers, CommitClaim(w)
  PROVE  /\ Best(w)[1] \in Jobs /\ LeaseSeconds - tx[w].age \in 0..LeaseSeconds
         /\ Leases(w, Best(w)[1], LeaseSeconds - tx[w].age)
<1> USE StoreAssumption, AgeAssumption
<1> DEFINE j == Best(w)[1]
           d == DomainOf[j]
           token == FreshToken(j)
           left == LeaseSeconds - tx[w].age
<1>1. w \in Sessions /\ tx[w].op = "claim" /\ tx[w].verdict = "LEASED"
  BY DEF CommitClaim, Sessions
<1>2. ClaimPromise(w) /\ tx[w].age \in 0..MaxAge
  BY <1>1 DEF SafeInv, Promises, Promise
<1>3. tx[w].todo # {} /\ Claimable(j) /\ HostReady(w, d)
  BY <1>1, <1>2 DEF ClaimPromise
<1>4. Best(w) \in tx[w].todo /\ \A c \in tx[w].todo : Read(c)
  <2>1. \A c \in tx[w].todo : Read(c) /\ c[1] \in Jobs
    BY <1>2 DEF ClaimPromise, Read
  <2>2. QED
    BY <1>3, <2>1, BestLeft
<1>5. j \in Jobs /\ run[RunOf[j]] # "PENDING" /\ d \in Domains
  BY <1>4 DEF Read
<1>6. left \in 0..LeaseSeconds
  BY <1>2
<1>7. policy[d] \in PolicyRow /\ policy[d].left <= 0
  <2>1. policy[d] \in PolicyRow
    BY <1>5 DEF SafeInv, StoreInv, TypeInv, TypeOK, StoreTypeOK
  <2>2. QED
    BY <1>2, <1>3, <2>1 DEF HostReady, PolicyRow, Expired
<1>8. Open(j) /\ job[j].attempts < MaxAttempts
  BY <1>3 DEF Claimable, Open, OpenJobStatuses
<1>9. /\ job' = [job EXCEPT ![j] = [ClaimRow(w, j, token) EXCEPT !.left = left]]
      /\ worker' = [worker EXCEPT ![w] = [pc |-> "fetch", token |-> token]]
      /\ UNCHANGED <<run, docs>>
  BY DEF CommitClaim
<1>10. policy' = [policy EXCEPT ![d] = [token |-> token, left |-> left,
                                        pause |-> policy[d].pause]]
  <2>1. policy' = [policy EXCEPT ![d] = [[@ EXCEPT !.token = token] EXCEPT !.left = left]]
    BY <1>5 DEF CommitClaim, SafeInv, StoreInv, TypeInv, TypeOK, StoreTypeOK
  <2>2. [[policy[d] EXCEPT !.token = token] EXCEPT !.left = left] =
          [token |-> token, left |-> left, pause |-> policy[d].pause]
    BY <1>7, FieldsOfPolicy
  <2>3. QED
    BY <2>1, <2>2
<1> HIDE DEF j, left
<1>11. QED
  BY <1>5, <1>6, <1>7, <1>8, <1>9, <1>10 DEF Leases, j, left

\* A report or an expansion that waits for nothing holds all its rows.
LEMMA AllLocked ==
  ASSUME LockInv, NEW s \in Sessions, tx[s].op \in Reports, tx[s].plan = <<>>
  PROVE  locks[s] = Lower(tx[s].op, ClaimedJob(s)) \cup {RunRow(RunOf[ClaimedJob(s)])}
<1>1. Staged(s)
  BY DEF LockInv, SessionInv
<1>2. LockPlan(tx[s].op, ClaimedJob(s)) # <<>>
  BY DEF LockPlan
<1>3. QED
  BY <1>1, <1>2 DEF Staged

\* A process at work has a job of the frontier, its campaign and its host.
LEMMA AtWork ==
  ASSUME TypeInv, NEW w \in Workers, worker[w].pc \in Working
  PROVE  LET j == ClaimedJob(w)
         IN  j \in Jobs /\ Exists(j) /\ RunOf[j] \in Runs /\ DomainOf[j] \in Domains
BY StoreAssumption DEF TypeInv, WorkerHoldsToken, Tokens, ClaimedJob

\* A report settles its job and campaign as complete_job or fail_job would now.
LEMMA ReportCommits ==
  ASSUME SafeInv, NEW w \in Workers, CommitReport(w)
  PROVE  /\ CrawlDelay - tx[w].age \in 0..CrawlDelay
         /\ Settles(w, CrawlDelay - tx[w].age)
<1> USE StoreAssumption, AgeAssumption
<1> DEFINE j == ClaimedJob(w)
           r == RunOf[j]
           op == tx[w].op
<1>1. w \in Sessions /\ op \in {"complete", "fail"} /\ tx[w].plan = <<>>
  BY DEF CommitReport, Reporting, Sessions
<1>2. ReportPromise(w) /\ tx[w].age \in 0..MaxAge
  BY <1>1 DEF SafeInv, Promises, Promise
<1>3. worker[w].pc = op /\ tx[w].verdict = VerdictOn(op, j)
  BY <1>1, <1>2 DEF ReportPromise
<1>4. OwnedWhenBegun(w)
  <2>1. RunRow(r) \in locks[w]
    BY <1>1, AllLocked DEF SafeInv, Reports
  <2>2. QED
    BY <1>2, <2>1 DEF ReportPromise
<1>5. CrawlDelay - tx[w].age \in 0..CrawlDelay
  BY <1>2
<1>6. run \in [Runs -> RunStatus] /\ r \in Runs
  BY <1>1, <1>3, AtWork DEF SafeInv, StoreInv, TypeInv, TypeOK, StoreTypeOK, Working
<1>7. ReportedStatus(w) = IF op = "complete" THEN "SUCCEEDED" ELSE FailureStatus(j)
  BY <1>3 DEF ReportedStatus
<1>8. VerdictOn(op, j) = "" => ReportedVerdict(w) = run[r]
  <2>1. CASE op = "complete"
    <3>1. ReportedVerdict(w) = IF LastOpenJob(j) /\ run[r] = "RUNNING"
                               THEN "SUCCEEDED" ELSE run[r]
      BY <1>3, <1>7, <2>1 DEF ReportedVerdict
    <3>2. VerdictOn(op, j) = IF LastOpenJob(j) /\ run[r] = "RUNNING"
                             THEN "SUCCEEDED" ELSE ""
      BY <2>1 DEF VerdictOn
    <3>3. QED
      BY <3>1, <3>2
  <2>2. CASE op = "fail"
    <3>1. FailureStatus(j) # "SUCCEEDED" /\ FailureVerdict(r) # ""
      BY DEF FailureStatus, FailureVerdict
    <3>2. QED
      BY <1>3, <1>7, <2>2, <3>1 DEF VerdictOn, ReportedVerdict
  <2>3. QED
    BY <1>1, <2>1, <2>2
<1>9. VerdictOn(op, j) # "" => ReportedVerdict(w) = VerdictOn(op, j)
  <2>1. CASE op = "complete"
    <3>1. ReportedVerdict(w) = IF LastOpenJob(j) /\ run[r] = "RUNNING"
                               THEN "SUCCEEDED" ELSE run[r]
      BY <1>3, <1>7, <2>1 DEF ReportedVerdict
    <3>2. VerdictOn(op, j) = IF LastOpenJob(j) /\ run[r] = "RUNNING"
                             THEN "SUCCEEDED" ELSE ""
      BY <2>1 DEF VerdictOn
    <3>3. QED
      BY <3>1, <3>2
  <2>2. CASE op = "fail"
    BY <1>3, <1>7, <2>2 DEF VerdictOn, ReportedVerdict
  <2>3. QED
    BY <1>1, <2>1, <2>2
<1>10. run' = [run EXCEPT ![r] = ReportedVerdict(w)]
  <2>1. run' = IF VerdictOn(op, j) = "" THEN run
               ELSE [run EXCEPT ![r] = VerdictOn(op, j)]
    BY <1>3 DEF CommitReport
  <2> HIDE DEF r, j, op
  <2>2. QED
    BY <1>6, <1>8, <1>9, <2>1
<1>11. /\ job' = [job EXCEPT ![j] = Released(j, ReportedStatus(w))]
       /\ policy' = FreedFor(DomainOf[j], Claimed(w), CrawlDelay - tx[w].age)
       /\ worker' = [worker EXCEPT ![w] = Idle] /\ docs' = docs
  BY <1>7 DEF CommitReport, FreedFor
<1>12. QED
  BY <1>1, <1>3, <1>4, <1>5, <1>10, <1>11 DEF Settles, OwnedWhenBegun

\* An expansion inserts what enqueue_discovered_links would insert now.
LEMMA EnqueueCommits ==
  ASSUME SafeInv, NEW w \in Workers, CommitEnqueue(w)
  PROVE  ExpandFrontier(w)
<1> DEFINE j == ClaimedJob(w)
<1>1. w \in Sessions /\ tx[w].op = "enqueue" /\ tx[w].plan = <<>>
  BY DEF CommitEnqueue, Sessions
<1>2. EnqueuePromise(w)
  BY <1>1 DEF SafeInv, Promises, Promise
<1>3. PICK S \in Selections(j) : tx[w].links = NewChildren(j, S)
  BY <1>1, <1>2 DEF EnqueuePromise
<1>4. \A k \in tx[w].links : ~Exists(k)
  BY <1>3 DEF NewChildren, FirstByRank
<1>5. EnqueueDiscoveredLinks(j, S)
  BY <1>3, <1>4 DEF CommitEnqueue, EnqueueDiscoveredLinks
<1>6. QED
  BY <1>2, <1>5 DEF EnqueuePromise, CommitEnqueue, ExpandFrontier

\* A cancellation takes back what the campaign has to take back now.
LEMMA CancelCommits ==
  ASSUME SafeInv, NEW r \in Runs, CommitCancel(r)
  PROVE  CancelCrawlRun(r) /\ UNCHANGED <<worker, docs>>
<1>1. r \in Sessions /\ tx[r].op = "cancel" /\ tx[r].plan = <<>> /\ tx[r].todo = {}
  BY DEF CommitCancel, Sessions
<1>2. CancelPromise(r)
  BY <1>1 DEF SafeInv, Promises, Promise
<1>3. \A k \in Jobs : CancelledJob(k) => (JobRowOf(k) \in locks[r] <=> RunOf[k] = r)
  BY <1>1, <1>2 DEF CancelPromise
<1>4. job' = [k \in Jobs |-> IF RunOf[k] = r /\ CancelledJob(k)
                            THEN Released(k, "CANCELLED") ELSE job[k]]
  BY <1>3 DEF CommitCancel
<1>5. QED
  BY <1>2, <1>4 DEF CancelPromise, CommitCancel, CancelCrawlRun

\* enqueue_discovered_links without links adds nothing.
LEMMA NothingExpands ==
  ASSUME TypeInv, NEW w \in Workers, NothingToEnqueue(w)
  PROVE  ExpandFrontier(w)
<1> USE StoreAssumption, SystemAssumption
<1> DEFINE j == ClaimedJob(w)
<1>1. {} \in Selections(j)
  <2>1. Cardinality({}) = 0
    BY FS_EmptySet
  <2>2. QED
    BY <2>1 DEF Selections
<1>2. NewChildren(j, {}) = {}
  BY DEF NewChildren, FirstByRank
<1>3. job' = job /\ job = [k \in Jobs |-> job[k]]
  BY DEF NothingToEnqueue, storeVars, TypeInv, TypeOK, StoreTypeOK
<1>4. EnqueueDiscoveredLinks(j, {})
  BY <1>2, <1>3 DEF NothingToEnqueue, storeVars, EnqueueDiscoveredLinks
<1>5. QED
  BY <1>1, <1>4 DEF NothingToEnqueue, ExpandFrontier

-----------------------------------------------------------------------------
(* Interleaved transactions keep what the one-step transactions keep *)

\* A worker's step writes what some step of the crawl may write, at some
\* reading of the clock.
LEMMA WorkerIsUntimed ==
  ASSUME SafeInv, NEW w \in Workers, WorkerLockStep(w)
  PROVE  [UntimedNext]_vars
<1>1. CASE CommitClaim(w)
  BY <1>1, ClaimCommits DEF UntimedNext
<1>2. CASE CommitReport(w)
  BY <1>2, ReportCommits DEF UntimedNext
<1>3. CASE CommitEnqueue(w)
  BY <1>3, EnqueueCommits DEF UntimedNext
<1>4. CASE NothingToEnqueue(w)
  BY <1>4, NothingExpands DEF UntimedNext, SafeInv, StoreInv
<1>5. CASE Between(w)
  BY <1>5 DEF Between, UntimedNext
<1>6. CASE LoseLeaseLocked(w) \/ CrashLocked(w)
  <2>1. Stops(w)
    BY <1>6 DEF LoseLeaseLocked, CrashLocked, Stops
  <2>2. QED
    BY <2>1 DEF UntimedNext
<1>7. CASE \/ BeginClaim(w) \/ TryCandidate(w) \/ LockHost(w) \/ ClaimNothing(w)
           \/ BeginReport(w) \/ BeginEnqueue(w) \/ LockRow(w)
  <2>1. UNCHANGED vars
    BY <1>7 DEF BeginClaim, TryCandidate, LockHost, ClaimNothing, BeginReport,
       BeginEnqueue, BeginWork, LockRow
  <2>2. QED
    BY <2>1
<1>8. QED
  BY <1>1, <1>2, <1>3, <1>4, <1>5, <1>6, <1>7 DEF WorkerLockStep

\* So does a request's.
LEMMA ControlIsUntimed ==
  ASSUME SafeInv, NEW r \in Runs, ControlLockStep(r)
  PROVE  [UntimedNext]_vars
<1>1. CASE CommitCancel(r)
  <2>1. CancelCrawlRun(r) /\ UNCHANGED <<worker, docs>>
    BY <1>1, CancelCommits
  <2>2. QED
    BY <2>1 DEF Control, UntimedNext
<1>2. CASE ShortControl(r)
  BY <1>2 DEF ShortControl, Control, UntimedNext
<1>3. CASE BeginCancel(r) \/ VisitJob(r) \/ LockJob(r)
  BY <1>3 DEF BeginCancel, VisitJob, LockJob
<1>4. QED
  BY <1>1, <1>2, <1>3 DEF ControlLockStep

\* A transaction that is rolled back writes nothing; its process ends, or
\* reports the failed expansion.
LEMMA VictimIsUntimed ==
  ASSUME SafeInv, NEW s \in Sessions, DeadlockVictim(s)
  PROVE  [UntimedNext]_vars
<1>1. worker' = AfterError(s) /\ UNCHANGED <<storeVars, docs>>
  BY DEF DeadlockVictim
<1>2. CASE s \notin Workers
  <2>1. UNCHANGED vars
    BY <1>1, <1>2 DEF AfterError, vars, storeVars
  <2>2. QED
    BY <2>1
<1>3. CASE s \in Workers /\ tx[s].op = "enqueue"
  <2>1. worker[s].pc = "expand"
    BY <1>3 DEF SafeInv, Promises, Promise, EnqueuePromise
  <2>2. ExpansionFails(s)
    BY <1>1, <1>3, <2>1 DEF AfterError, ExpansionFails, Goto
  <2>3. QED
    BY <1>3, <2>2 DEF UntimedNext
<1>4. CASE s \in Workers /\ tx[s].op # "enqueue"
  <2>1. Stops(s)
    BY <1>1, <1>4 DEF AfterError, Stops
  <2>2. QED
    BY <1>4, <2>1 DEF UntimedNext
<1>5. QED
  BY <1>2, <1>3, <1>4

\* The clock runs on for the rows as it does in the crawl.
LEMMA TickIsUntimed ==
  ASSUME SafeInv, TickLocked
  PROVE  [UntimedNext]_vars
<1> USE StoreAssumption
<1> DEFINE p == [d \in Domains |-> Sooner(policy[d].pause)]
<1>1. \A d \in Domains : policy[d] \in PolicyRow
  BY DEF SafeInv, StoreInv, TypeInv, TypeOK, StoreTypeOK
<1>2. p \in [Domains -> Expired..CrawlDelay]
  <2>1. \A d \in Domains : Sooner(policy[d].pause) \in Expired..CrawlDelay
    BY <1>1 DEF PolicyRow, Sooner, Expired
  <2>2. QED
    BY <2>1
<1>3. \A d \in Domains :
        [policy[d] EXCEPT !.left = Sooner(@), !.pause = Sooner(@)] =
          [token |-> policy[d].token, left |-> Sooner(policy[d].left), pause |-> p[d]]
  <2> SUFFICES ASSUME NEW d \in Domains
               PROVE  [policy[d] EXCEPT !.left = Sooner(@), !.pause = Sooner(@)] =
                        [token |-> policy[d].token, left |-> Sooner(policy[d].left),
                         pause |-> Sooner(policy[d].pause)]
    OBVIOUS
  <2> DEFINE one == [policy[d] EXCEPT !.left = Sooner(@)]
             two == [policy[d] EXCEPT !.left = Sooner(@), !.pause = Sooner(@)]
  <2>1. one = [token |-> policy[d].token, left |-> Sooner(policy[d].left),
               pause |-> policy[d].pause]
    BY <1>1 DEF PolicyRow
  <2>2. two = [one EXCEPT !.pause = Sooner(@)]
    OBVIOUS
  <2> HIDE DEF one, two
  <2>3. two = [token |-> policy[d].token, left |-> Sooner(policy[d].left),
               pause |-> Sooner(policy[d].pause)]
    BY <2>1, <2>2
  <2>4. QED
    BY <2>3 DEF two
<1>4. TimePasses(p)
  <2> HIDE DEF p
  <2>1. policy' = [d \in Domains |-> [token |-> policy[d].token,
                                      left |-> Sooner(policy[d].left), pause |-> p[d]]]
    BY <1>3 DEF TickLocked
  <2>2. QED
    BY <2>1 DEF TickLocked, TimePasses
<1> HIDE DEF p
<1>5. QED
  BY <1>2, <1>4 DEF UntimedNext

\* What any step of any session writes, some step of the crawl may write.
LEMMA LocksAreUntimed == SafeInv /\ [LockNext]_lockVars => [UntimedNext]_vars
<1> SUFFICES ASSUME SafeInv, [LockNext]_lockVars PROVE [UntimedNext]_vars
  OBVIOUS
<1>1. CASE UNCHANGED lockVars
  BY <1>1 DEF lockVars, vars, storeVars
<1>2. QED
  BY <1>1, WorkerIsUntimed, ControlIsUntimed, VictimIsUntimed, TickIsUntimed DEF LockNext

\* So the rows keep their invariants.
LEMMA StoreKept == SafeInv /\ [LockNext]_lockVars => StoreInv'
BY LocksAreUntimed, TypeUntimed, LeaseUntimed, TokenUntimed, StoredUntimed, VerdictUntimed,
   BudgetUntimed DEF SafeInv, StoreInv

-----------------------------------------------------------------------------
(* What a session relies on outlasts the steps of the others *)

\* A row of the frontier only moves on: it stays there, it draws tokens, and a
\* lease that begins has a token of its own.
MovesOn(k) ==
  Exists(k) =>
    /\ Exists(k)' /\ job'[k].depth = job[k].depth
    /\ job'[k].drawn >= job[k].drawn
    /\ job'[k].status = "LEASED" /\ job'[k].drawn = job[k].drawn => job'[k] = job[k]

\* Job row k as its campaign's row protects it: inserted, closed and put back
\* under that lock only.
SameForRun(k) ==
  /\ Exists(k)' <=> Exists(k)
  /\ \A status \in TerminalJobStatuses : job'[k].status = status <=> job[k].status = status
  /\ CancelledJob(k)' => CancelledJob(k)

\* The step changes nothing that session s has locked.
Respects(s) ==
  /\ tx'[s] = tx[s] /\ locks'[s] = locks[s]
  /\ s \in Workers => worker'[s] = worker[s]
  /\ \A k \in Jobs : MovesOn(k)
  /\ \A k \in Jobs : JobRowOf(k) \in locks[s] /\ Exists(k) => job'[k] = job[k]
  /\ \A d \in Domains : HostRow(d) \in locks[s] => policy'[d] = policy[d]
  /\ \A r \in Runs : run[r] # "PENDING" => run'[r] # "PENDING"
  /\ \A r \in Runs : RunRow(r) \in locks[s] =>
       run'[r] = run[r] /\ \A k \in Jobs : RunOf[k] = r => SameForRun(k)

\* What a claim has read.
LEMMA ReadKept ==
  ASSUME SafeInv, TypeInv', NEW s \in Sessions, Respects(s), NEW c, Read(c)
  PROVE  Read(c)'
<1> DEFINE k == c[1]
<1>1. k \in Jobs /\ MovesOn(k) /\ RunOf[k] \in Runs
  BY StoreAssumption DEF Read, Respects
<1>2. job[k].drawn \in Nat /\ job'[k].drawn \in Nat
  BY <1>1 DEF SafeInv, StoreInv, TypeInv, TypeOK, StoreTypeOK, JobRow
<1>3. job'[k].drawn >= job[k].drawn /\ c[2] \in Nat /\ c[2] <= job[k].drawn
  BY <1>1 DEF Read, MovesOn
<1>4. job'[k].status = "LEASED" /\ c = <<k, job'[k].drawn>> => job'[k].left < 0
  <2> SUFFICES ASSUME job'[k].status = "LEASED", c = <<k, job'[k].drawn>>
               PROVE  job'[k].left < 0
    OBVIOUS
  <2>1. job'[k].drawn = job[k].drawn
    BY <1>2, <1>3
  <2>2. job'[k] = job[k]
    BY <1>1, <2>1 DEF MovesOn, Read
  <2>3. QED
    BY <2>1, <2>2 DEF Read, Seen
<1>5. Exists(k)' /\ run'[RunOf[k]] # "PENDING"
  BY <1>1 DEF Read, Respects, MovesOn
<1>6. c[2] <= job'[k].drawn
  BY <1>2, <1>3
<1>7. QED
  BY <1>1, <1>3, <1>4, <1>5, <1>6 DEF Read, Seen

\* A claim keeps its candidate and its host.
LEMMA ClaimKept ==
  ASSUME SafeInv, TypeInv', NEW w \in Sessions, Respects(w), w \in Workers, ClaimPromise(w)
  PROVE  ClaimPromise(w)'
<1> USE StoreAssumption
<1> DEFINE j == Best(w)[1]
<1>1. tx'[w] = tx[w] /\ locks'[w] = locks[w] /\ worker'[w] = worker[w] /\ Best(w)' = Best(w)
  BY DEF Respects, Best
<1>2. \A c \in tx[w].todo : Read(c)'
  BY ReadKept DEF ClaimPromise
<1>3. CASE tx[w].plan # <<>> \/ tx[w].verdict # ""
  <2>1. tx[w].todo # {} /\ JobRowOf(j) \in locks[w] /\ Claimable(j)
    BY <1>3 DEF ClaimPromise
  <2>2. Best(w) \in tx[w].todo
    <3>1. \A c \in tx[w].todo : c[1] \in Jobs
      BY DEF ClaimPromise, Read
    <3>2. QED
      BY <2>1, <3>1, BestLeft
  <2>3. j \in Jobs /\ Exists(j) /\ DomainOf[j] \in Domains
    BY <2>2 DEF ClaimPromise, Read
  <2>4. job'[j] = job[j]
    BY <2>1, <2>3 DEF Respects
  <2>5. Claimable(j)'
    BY <1>1, <2>1, <2>4 DEF Claimable
  <2>6. tx[w].verdict # "" => HostReady(w, DomainOf[j])'
    <3> SUFFICES ASSUME tx[w].verdict # "" PROVE HostReady(w, DomainOf[j])'
      OBVIOUS
    <3>1. HostRow(DomainOf[j]) \in locks[w] /\ HostReady(w, DomainOf[j])
      BY DEF ClaimPromise
    <3>2. policy'[DomainOf[j]] = policy[DomainOf[j]]
      BY <2>3, <3>1 DEF Respects
    <3>3. QED
      BY <1>1, <3>1, <3>2 DEF HostReady
  <2>7. QED
    BY <1>1, <1>2, <1>3, <2>5, <2>6 DEF ClaimPromise
<1>4. CASE tx[w].plan = <<>> /\ tx[w].verdict = ""
  BY <1>1, <1>2, <1>4 DEF ClaimPromise
<1>5. QED
  BY <1>3, <1>4

\* A campaign whose row is locked keeps the frontier and the counts its
\* verdicts and its page budget are computed from.
LEMMA CountsKept ==
  ASSUME NEW s, Respects(s), NEW r \in Runs, RunRow(r) \in locks[s]
  PROVE  /\ run'[r] = run[r] /\ JobsOf(r)' = JobsOf(r)
         /\ SomeSucceeded(r)' <=> SomeSucceeded(r)
         /\ \A j \in Jobs : RunOf[j] = r => (LastOpenJob(j)' <=> LastOpenJob(j))
<1>1. run'[r] = run[r] /\ \A k \in Jobs : RunOf[k] = r => SameForRun(k)
  BY DEF Respects
<1>2. JobsOf(r)' = JobsOf(r)
  BY <1>1 DEF JobsOf, SameForRun
<1>3. \A k \in JobsOf(r) : \A status \in TerminalJobStatuses :
        job'[k].status = status <=> job[k].status = status
  BY <1>1 DEF JobsOf, SameForRun
<1>4. SomeSucceeded(r)' <=> SomeSucceeded(r)
  BY <1>2, <1>3 DEF SomeSucceeded, TerminalJobStatuses
<1>5. \A j \in Jobs : RunOf[j] = r => (LastOpenJob(j)' <=> LastOpenJob(j))
  <2>1. \A k \in JobsOf(r) :
          job'[k].status \in TerminalJobStatuses <=> job[k].status \in TerminalJobStatuses
    BY <1>3
  <2>2. QED
    BY <1>2, <2>1 DEF LastOpenJob
<1>6. QED
  BY <1>1, <1>2, <1>4, <1>5

\* A report keeps its lease and its verdict.
LEMMA ReportKept ==
  ASSUME SafeInv, NEW w \in Sessions, Respects(w), w \in Workers,
         tx[w].op \in {"complete", "fail"}, ReportPromise(w)
  PROVE  ReportPromise(w)'
<1>1. PICK j \in Jobs : j = ClaimedJob(w) /\ Exists(j) /\ RunOf[j] \in Runs
  BY AtWork DEF ReportPromise, Working, SafeInv, StoreInv
<1> DEFINE r == RunOf[j]
           op == tx[w].op
<1>2. /\ tx'[w] = tx[w] /\ locks'[w] = locks[w] /\ worker'[w] = worker[w]
      /\ Claimed(w)' = Claimed(w) /\ ClaimedJob(w)' = j
  BY <1>1 DEF Respects, Claimed, ClaimedJob
<1>3. locks[w] # {} => OwnedWhenBegun(w)'
  <2> SUFFICES ASSUME locks[w] # {} PROVE OwnedWhenBegun(w)'
    OBVIOUS
  <2>1. JobRowOf(j) \in locks[w]
    <3>1. Staged(w)
      BY DEF SafeInv, LockInv, SessionInv, Reports
    <3>2. QED
      BY <1>1, <3>1 DEF Staged, Lower
  <2>2. job'[j] = job[j]
    BY <1>1, <2>1 DEF Respects
  <2>3. QED
    BY <1>1, <1>2, <2>2 DEF ReportPromise, OwnedWhenBegun
<1>4. tx[w].plan = <<>> => VerdictOn(op, j)' = VerdictOn(op, j)
  <2> SUFFICES ASSUME tx[w].plan = <<>>
               PROVE  VerdictOn(op, j)' = VerdictOn(op, j)
    OBVIOUS
  <2>1. RunRow(r) \in locks[w] /\ JobRowOf(j) \in locks[w]
    BY <1>1, AllLocked DEF SafeInv, Reports, Lower
  <2>2. job'[j] = job[j]
    BY <1>1, <2>1 DEF Respects
  <2>3. /\ run'[r] = run[r] /\ (LastOpenJob(j)' <=> LastOpenJob(j))
        /\ (SomeSucceeded(r)' <=> SomeSucceeded(r))
    BY <1>1, <2>1, CountsKept
  <2>4. FailureStatus(j)' = FailureStatus(j) /\ FailureVerdict(r)' = FailureVerdict(r)
    BY <2>2, <2>3 DEF FailureStatus, FailureVerdict
  <2>5. op' = op
    BY <1>2
  <2>6. QED
    BY <2>3, <2>4, <2>5 DEF VerdictOn
<1>5. QED
  BY <1>1, <1>2, <1>3, <1>4 DEF ReportPromise

\* An expansion keeps its children.
LEMMA EnqueueKept ==
  ASSUME SafeInv, NEW w \in Sessions, Respects(w), w \in Workers,
         tx[w].op = "enqueue", EnqueuePromise(w)
  PROVE  EnqueuePromise(w)'
<1>1. PICK j \in Jobs : j = ClaimedJob(w) /\ Exists(j) /\ RunOf[j] \in Runs
  BY AtWork DEF EnqueuePromise, Working, SafeInv, StoreInv
<1> DEFINE r == RunOf[j]
<1>2. /\ tx'[w] = tx[w] /\ worker'[w] = worker[w] /\ ClaimedJob(w)' = j
  BY <1>1 DEF Respects, Claimed, ClaimedJob
<1>3. CASE tx[w].plan # <<>>
  BY <1>1, <1>2, <1>3 DEF EnqueuePromise, Selections
<1>4. CASE tx[w].plan = <<>>
  <2>1. RunRow(r) \in locks[w]
    BY <1>1, <1>4, AllLocked DEF SafeInv, Reports
  <2>2. run'[r] = run[r] /\ JobsOf(r)' = JobsOf(r) /\ job'[j].depth = job[j].depth
    BY <1>1, <2>1, CountsKept DEF Respects, MovesOn
  <2>3. PICK S \in Selections(j) : tx[w].links = NewChildren(j, S)
    BY <1>1, <1>4 DEF EnqueuePromise
  <2>4. \A k \in S : Exists(k)' <=> Exists(k)
    BY <1>1, <2>1, <2>3 DEF Selections, Respects, SameForRun
  <2>5. {c \in S : ~Exists(c)}' = {c \in S : ~Exists(c)}
    BY <2>4
  <2>6. NewChildren(j, S)' = NewChildren(j, S)
    BY <2>2, <2>5 DEF NewChildren, Expandable, RemainingCapacity, FirstByRank
  <2>7. QED
    BY <1>1, <1>2, <1>4, <2>3, <2>6 DEF EnqueuePromise, Selections
<1>5. QED
  BY <1>3, <1>4

\* A cancellation keeps the jobs it must come to.
LEMMA CancelKept ==
  ASSUME NEW r \in Runs, Respects(r), CancelPromise(r)
  PROVE  CancelPromise(r)'
<1>1. tx'[r] = tx[r] /\ locks'[r] = locks[r] /\ run'[r] = run[r]
  BY DEF Respects, CancelPromise
<1>2. \A k \in Jobs : RunOf[k] = r /\ CancelledJob(k)' => CancelledJob(k)
  BY DEF Respects, CancelPromise, SameForRun
<1>3. QED
  BY <1>1, <1>2 DEF CancelPromise, Cancellable

\* So whatever it relies on.
LEMMA PromiseKept ==
  ASSUME SafeInv, TypeInv', NEW s \in Sessions, Respects(s)
  PROVE  Promise(s)'
<1>1. Promise(s) /\ tx'[s] = tx[s]
  BY DEF SafeInv, Promises, Respects
<1>2. QED
  BY <1>1, ClaimKept, ReportKept, EnqueueKept, CancelKept DEF Promise

-----------------------------------------------------------------------------
(* The steps of one session respect the others *)

\* A step of session a, as far as it is nobody else's.
Only(a) ==
  \A s \in Sessions \ {a} : /\ tx'[s] = tx[s] /\ locks'[s] = locks[s]
                            /\ s \in Workers => worker'[s] = worker[s]

\* A step that writes no row.
LEMMA RowsUntouched ==
  ASSUME SafeInv, NEW a, Only(a), UNCHANGED storeVars
  PROVE  \A s \in Sessions \ {a} : Respects(s)
<1>1. \A k \in Jobs : job[k].drawn \in Nat
  BY DEF SafeInv, StoreInv, TypeInv, TypeOK, StoreTypeOK, JobRow
<1>2. \A k \in Jobs : MovesOn(k) /\ SameForRun(k)
  BY <1>1 DEF MovesOn, SameForRun, Exists, CancelledJob, storeVars
<1>3. QED
  BY <1>2 DEF Only, Respects, storeVars

\* What others have locked, session a has not.
LEMMA Apart ==
  ASSUME SafeInv, NEW a \in Sessions, NEW s \in Sessions \ {a}, NEW row \in locks[a]
  PROVE  row \notin locks[s]
BY DEF SafeInv, Promises, Exclusive

\* A claim writes the job and the host it has locked.
LEMMA ClaimRespects ==
  ASSUME SafeInv, NEW w \in Workers, CommitClaim(w), Only(w)
  PROVE  \A s \in Sessions \ {w} : Respects(s)
<1> w \in Sessions
  BY DEF Sessions
<1>1. PICK j \in Jobs : j = Best(w)[1] /\ Leases(w, j, LeaseSeconds - tx[w].age)
  BY ClaimCommits
<1> DEFINE d == DomainOf[j]
<1>2. JobRowOf(j) \in locks[w] /\ HostRow(d) \in locks[w]
  BY <1>1 DEF SafeInv, Promises, Promise, CommitClaim, ClaimPromise
<1>3. \A k \in Jobs : job[k] \in JobRow
  BY DEF SafeInv, StoreInv, TypeInv, TypeOK, StoreTypeOK
<1>4. /\ \A k \in Jobs \ {j} : job'[k] = job[k]
      /\ \A e \in Domains \ {d} : policy'[e] = policy[e]
      /\ run' = run
  BY <1>1 DEF Leases, SafeInv, StoreInv, TypeInv, TypeOK, StoreTypeOK
<1>5. job'[j].status = "LEASED" /\ job'[j].drawn = job[j].drawn + 1
      /\ job'[j].depth = job[j].depth /\ Open(j)
  <2> DEFINE row == ClaimRow(w, j, FreshToken(j))
             left == LeaseSeconds - tx[w].age
  <2>1. job' = [job EXCEPT ![j] = [row EXCEPT !.left = left]] /\ Open(j)
    BY <1>1 DEF Leases
  <2>2. [row EXCEPT !.left = left] = [status |-> "LEASED", depth |-> job[j].depth,
          attempts |-> job[j].attempts + 1, drawn |-> job[j].drawn + 1,
          owner |-> w, token |-> FreshToken(j), left |-> left]
    BY DEF ClaimRow
  <2> HIDE DEF row, left
  <2>3. QED
    BY <2>1, <2>2 DEF SafeInv, StoreInv, TypeInv, TypeOK, StoreTypeOK
<1>6. \A k \in Jobs : MovesOn(k) /\ SameForRun(k)
  <2>1. MovesOn(j) /\ SameForRun(j)
    BY <1>3, <1>5 DEF MovesOn, SameForRun, Exists, CancelledJob, Open, OpenJobStatuses,
       TerminalJobStatuses, JobRow
  <2>2. \A k \in Jobs \ {j} : MovesOn(k) /\ SameForRun(k)
    BY <1>3, <1>4 DEF MovesOn, SameForRun, Exists, CancelledJob, JobRow
  <2>3. QED
    BY <2>1, <2>2
<1>7. ASSUME NEW s \in Sessions \ {w} PROVE Respects(s)
  <2>1. JobRowOf(j) \notin locks[s] /\ HostRow(d) \notin locks[s]
    BY <1>2, Apart
  <2>2. QED
    BY <1>4, <1>6, <2>1 DEF Only, Respects
<1>8. QED
  BY <1>7

\* A report writes the three rows it has locked.
LEMMA ReportRespects ==
  ASSUME SafeInv, NEW w \in Workers, CommitReport(w), Only(w)
  PROVE  \A s \in Sessions \ {w} : Respects(s)
<1> w \in Sessions
  BY DEF Sessions
<1>1. Settles(w, CrawlDelay - tx[w].age) /\ tx[w].op \in {"complete", "fail"}
  BY ReportCommits DEF CommitReport, Reporting
<1>2. PICK j \in Jobs : j = ClaimedJob(w) /\ Exists(j) /\ RunOf[j] \in Runs
                        /\ DomainOf[j] \in Domains
  BY <1>1, AtWork DEF Settles, Working, SafeInv, StoreInv
<1> DEFINE r == RunOf[j]
           d == DomainOf[j]
<1>3. {JobRowOf(j), HostRow(d), RunRow(r)} \subseteq locks[w]
  BY <1>1, <1>2, AllLocked DEF CommitReport, SafeInv, Reports, Lower
<1>4. \A k \in Jobs : job[k] \in JobRow
  BY DEF SafeInv, StoreInv, TypeInv, TypeOK, StoreTypeOK
<1>5. /\ job' = [job EXCEPT ![j] = Released(j, ReportedStatus(w))]
      /\ run' = [run EXCEPT ![r] = ReportedVerdict(w)]
      /\ job[j].status = "LEASED"
      /\ policy' = FreedFor(d, Claimed(w), CrawlDelay - tx[w].age)
  BY <1>1, <1>2 DEF Settles
<1>6. /\ \A k \in Jobs \ {j} : job'[k] = job[k]
      /\ \A e \in Domains \ {d} : policy'[e] = policy[e]
      /\ \A q \in Runs \ {r} : run'[q] = run[q]
  BY <1>5 DEF FreedFor, SafeInv, StoreInv, TypeInv, TypeOK, StoreTypeOK
<1>7. MovesOn(j)
  <2>1. ReportedStatus(w) \in JobStatus \ {"LEASED"}
    BY VerdictTypes
  <2>2. job'[j] = Released(j, ReportedStatus(w))
    BY <1>5 DEF SafeInv, StoreInv, TypeInv, TypeOK, StoreTypeOK
  <2>3. QED
    BY <1>4, <2>1, <2>2 DEF MovesOn, Exists, Released, Unleased, JobRow, JobStatus,
       OpenJobStatuses, TerminalJobStatuses
<1>8. \A k \in Jobs \ {j} : MovesOn(k) /\ SameForRun(k)
  BY <1>4, <1>6 DEF MovesOn, SameForRun, Exists, CancelledJob, JobRow
<1>9. run[r] # "PENDING" => run'[r] # "PENDING"
  <2>1. ReportedVerdict(w) # "PENDING" \/ ReportedVerdict(w) = run[r]
    BY <1>2 DEF ReportedVerdict, FailureVerdict
  <2>2. run'[r] = ReportedVerdict(w)
    BY <1>2, <1>5 DEF SafeInv, StoreInv, TypeInv, TypeOK, StoreTypeOK
  <2>3. QED
    BY <2>1, <2>2
<1>10. ASSUME NEW s \in Sessions \ {w} PROVE Respects(s)
  <2>1. JobRowOf(j) \notin locks[s] /\ HostRow(d) \notin locks[s] /\ RunRow(r) \notin locks[s]
    BY <1>3, Apart
  <2>2. \A k \in Jobs : MovesOn(k)
    BY <1>7, <1>8
  <2>3. \A q \in Runs : RunRow(q) \in locks[s] =>
          run'[q] = run[q] /\ \A k \in Jobs : RunOf[k] = q => SameForRun(k)
    BY <1>6, <1>8, <2>1
  <2>4. \A k \in Jobs : JobRowOf(k) \in locks[s] /\ Exists(k) => job'[k] = job[k]
    BY <1>6, <2>1
  <2>5. \A e \in Domains : HostRow(e) \in locks[s] => policy'[e] = policy[e]
    BY <1>6, <2>1
  <2>6. \A q \in Runs : run[q] # "PENDING" => run'[q] # "PENDING"
    BY <1>6, <1>9
  <2>7. QED
    BY <2>2, <2>3, <2>4, <2>5, <2>6 DEF Only, Respects
<1>11. QED
  BY <1>10

\* An expansion adds rows to the campaign it has locked.
LEMMA EnqueueRespects ==
  ASSUME SafeInv, NEW w \in Workers, CommitEnqueue(w), Only(w)
  PROVE  \A s \in Sessions \ {w} : Respects(s)
<1> w \in Sessions
  BY DEF Sessions
<1>1. tx[w].op = "enqueue" /\ tx[w].plan = <<>> /\ EnqueuePromise(w)
  BY DEF CommitEnqueue, SafeInv, Promises, Promise
<1>2. PICK j \in Jobs : j = ClaimedJob(w) /\ Exists(j) /\ RunOf[j] \in Runs
  BY <1>1, AtWork DEF EnqueuePromise, Working, SafeInv, StoreInv
<1> DEFINE r == RunOf[j]
<1>3. RunRow(r) \in locks[w]
  BY <1>1, <1>2, AllLocked DEF SafeInv, Reports
<1>4. \A k \in Jobs : job[k] \in JobRow
  BY DEF SafeInv, StoreInv, TypeInv, TypeOK, StoreTypeOK
<1>5. \A k \in tx[w].links : RunOf[k] = r
  <2>1. PICK S \in Selections(j) : tx[w].links = NewChildren(j, S)
    BY <1>1, <1>2 DEF EnqueuePromise
  <2>2. QED
    BY <2>1 DEF Selections, NewChildren, FirstByRank
<1>6. /\ \A k \in Jobs : Exists(k) => job'[k] = job[k]
      /\ \A k \in Jobs : RunOf[k] # r => job'[k] = job[k]
      /\ UNCHANGED <<run, policy>>
  BY <1>5 DEF CommitEnqueue
<1>7. \A k \in Jobs : MovesOn(k)
  BY <1>4, <1>6 DEF MovesOn, Exists, JobRow
<1>8. \A k \in Jobs : RunOf[k] # r => SameForRun(k)
  BY <1>6 DEF SameForRun, Exists, CancelledJob
<1>9. ASSUME NEW s \in Sessions \ {w} PROVE Respects(s)
  <2>1. RunRow(r) \notin locks[s]
    BY <1>3, Apart
  <2>2. QED
    BY <1>6, <1>7, <1>8, <2>1 DEF Only, Respects
<1>10. QED
  BY <1>9

\* A cancellation writes the campaign and the jobs it has locked.
LEMMA CancelRespects ==
  ASSUME SafeInv, NEW r \in Runs, CommitCancel(r), Only(r)
  PROVE  \A s \in Sessions \ {r} : Respects(s)
<1> r \in Sessions
  BY DEF Sessions
<1>1. CancelPromise(r)
  BY DEF CommitCancel, SafeInv, Promises, Promise
<1>2. \A k \in Jobs : job[k] \in JobRow
  BY DEF SafeInv, StoreInv, TypeInv, TypeOK, StoreTypeOK
<1>3. /\ \A k \in Jobs : job'[k] = job[k]
                         \/ /\ JobRowOf(k) \in locks[r] /\ RunOf[k] = r /\ CancelledJob(k)
                            /\ job'[k] = Released(k, "CANCELLED")
      /\ UNCHANGED policy
  BY <1>1 DEF CommitCancel, CancelPromise
<1>4. (\A q \in Runs \ {r} : run'[q] = run[q]) /\ run'[r] # "PENDING"
  BY DEF CommitCancel, SafeInv, StoreInv, TypeInv, TypeOK, StoreTypeOK
<1>5. \A k \in Jobs : MovesOn(k)
  <2> SUFFICES ASSUME NEW k \in Jobs PROVE MovesOn(k)
    OBVIOUS
  <2>1. CASE job'[k] = job[k]
    BY <1>2, <2>1 DEF MovesOn, Exists, JobRow
  <2>2. CASE job'[k] = Released(k, "CANCELLED")
    BY <1>2, <2>2 DEF MovesOn, Exists, Released, Unleased, JobRow
  <2>3. QED
    BY <1>3, <2>1, <2>2
<1>6. \A k \in Jobs : RunOf[k] # r => SameForRun(k)
  BY <1>3 DEF SameForRun, Exists, CancelledJob
<1>7. ASSUME NEW s \in Sessions \ {r} PROVE Respects(s)
  <2>1. RunRow(r) \notin locks[s] /\ \A k \in Jobs :
          JobRowOf(k) \in locks[r] => JobRowOf(k) \notin locks[s]
    BY <1>1, Apart DEF CancelPromise
  <2>2. \A k \in Jobs : JobRowOf(k) \in locks[s] => job'[k] = job[k]
    BY <1>3, <2>1
  <2>3. QED
    BY <1>3, <1>4, <1>5, <1>6, <2>1, <2>2 DEF Only, Respects
<1>8. QED
  BY <1>7

\* Start, pause and resume write a campaign nobody has locked.
LEMMA ShortControlRespects ==
  ASSUME SafeInv, NEW r \in Runs, ShortControl(r)
  PROVE  \A s \in Sessions \ {r} : Respects(s)
<1>1. /\ \A q \in Runs \ {r} : run'[q] = run[q]
      /\ run'[r] # "PENDING"
      /\ UNCHANGED <<job, policy, worker, tx, locks>>
  BY DEF ShortControl, StartCrawlRun, PauseCrawlRun, ResumeCrawlRun, ReconciledStatus,
     SafeInv, StoreInv, TypeInv, TypeOK, StoreTypeOK
<1>2. \A k \in Jobs : job[k].drawn \in Nat
  BY DEF SafeInv, StoreInv, TypeInv, TypeOK, StoreTypeOK, JobRow
<1>3. \A k \in Jobs : MovesOn(k) /\ SameForRun(k)
  BY <1>1, <1>2 DEF MovesOn, SameForRun, Exists, CancelledJob
<1>4. \A s \in Sessions \ {r} : RunRow(r) \notin locks[s]
  BY DEF ShortControl, Free
<1>5. QED
  BY <1>1, <1>3, <1>4 DEF Respects

-----------------------------------------------------------------------------
(* What a session's own steps leave it to rely on *)

\* No two sessions lock a row: a lock is granted on a free row.
LEMMA ExclusiveKept ==
  ASSUME SafeInv, NEW a \in Sessions, Only(a),
         \A row \in locks'[a] : row \in locks[a] \/ Free(row, a)
  PROVE  Exclusive'
<1> SUFFICES ASSUME NEW s \in Sessions, NEW t \in Sessions \ {s}, NEW row,
                    row \in locks'[s], row \in locks'[t]
             PROVE  FALSE
  BY DEF Exclusive
<1>1. Exclusive
  BY DEF SafeInv, Promises
<1>2. CASE s # a /\ t # a
  BY <1>1, <1>2 DEF Only, Exclusive
<1>3. CASE s = a
  BY <1>1, <1>3 DEF Only, Exclusive, Free
<1>4. CASE t = a
  BY <1>1, <1>4 DEF Only, Exclusive, Free
<1>5. QED
  BY <1>2, <1>3, <1>4

\* A session between two transactions relies on nothing.
LEMMA Relieved ==
  ASSUME NEW a, tx'[a].op = "none", tx'[a].age = 0
  PROVE  Promise(a)'
BY AgeAssumption DEF Promise

\* The promises of a step: the others are respected, its own session's hold.
LEMMA PromisesKept ==
  ASSUME SafeInv, TypeInv', NEW a \in Sessions, Only(a),
         \A s \in Sessions \ {a} : Respects(s),
         \A row \in locks'[a] : row \in locks[a] \/ Free(row, a),
         Promise(a)'
  PROVE  Promises'
<1>1. Exclusive'
  BY ExclusiveKept
<1>2. \A s \in Sessions \ {a} : Promise(s)'
  BY PromiseKept
<1>3. QED
  BY <1>1, <1>2 DEF Promises

\* A transaction that ends.
LEMMA EndKeeps ==
  ASSUME SafeInv, TypeInv', NEW a \in Sessions, End(a),
         \A s \in Sessions \ {a} : Respects(s)
  PROVE  Promises'
<1>1. tx'[a] = NoTx /\ locks'[a] = {} /\ Only(a)
  BY DEF End, SafeInv, LockInv, Only, Respects
<1>2. NoTx.op = "none" /\ NoTx.age = 0
  BY DEF NoTx
<1>3. Promise(a)'
  BY <1>1, <1>2, Relieved
<1>4. QED
  BY <1>1, <1>3, PromisesKept

\* Which steps touch only their own session.
LEMMA EndIsOnly ==
  ASSUME SafeInv, NEW a \in Sessions, End(a),
         \A v \in Workers \ {a} : worker'[v] = worker[v]
  PROVE  Only(a)
BY DEF End, SafeInv, LockInv, Only

\* A claim that begins has read its window.
LEMMA BeginClaimKeeps ==
  ASSUME SafeInv, TypeInv', NEW w \in Workers, BeginClaim(w)
  PROVE  Promises'
<1> w \in Sessions
  BY DEF Sessions
<1> DEFINE C == {Seen(j) : j \in Candidates}
<1>1. /\ UNCHANGED vars /\ locks' = locks /\ worker[w].pc = "idle"
      /\ tx' = [tx EXCEPT ![w] = [NoTx EXCEPT !.op = "claim", !.todo = C]]
  BY DEF BeginClaim, Begin
<1>2. tx'[w].op = "claim" /\ tx'[w].age = 0 /\ tx'[w].plan = <<>> /\ tx'[w].verdict = ""
      /\ tx'[w].todo = C
  BY <1>1 DEF SafeInv, LockInv, NoTx
<1>3. \A c \in C : Read(c)'
  <2> SUFFICES ASSUME NEW j \in Candidates PROVE Read(Seen(j))'
    BY <1>1 DEF Seen, vars
  <2>1. j \in Jobs /\ Runnable(j)
    BY DEF Candidates, FirstByRank
  <2>2. job[j].drawn \in Nat
    BY <2>1 DEF SafeInv, StoreInv, TypeInv, TypeOK, StoreTypeOK, JobRow
  <2>3. job' = job /\ run' = run
    BY <1>1 DEF vars
  <2>4. QED
    BY <2>1, <2>2, <2>3 DEF Read, Seen, Runnable, Exists
<1> HIDE DEF C
<1>4. ClaimPromise(w)'
  BY <1>1, <1>2, <1>3 DEF ClaimPromise, vars
<1>5. Promise(w)'
  <2>1. tx'[w].op = "claim" /\ tx'[w].age = 0
    BY <1>2, Zenon
  <2>2. tx'[w].age \in 0..MaxAge
    BY <2>1, AgeAssumption
  <2>3. QED
    BY <1>4, <2>1, <2>2 DEF Promise
<1>6. Only(w)
  BY <1>1 DEF Only, SafeInv, LockInv, vars
<1>7. \A s \in Sessions \ {w} : Respects(s)
  BY <1>1, <1>6, RowsUntouched DEF vars, storeVars
<1>8. \A row \in locks'[w] : row \in locks[w]
  BY <1>1
<1>9. QED
  BY <1>5, <1>6, <1>7, <1>8, PromisesKept

\* What a claim goes on with when it passes over its best candidate.
LEMMA RestRead ==
  ASSUME NEW w, ClaimPromise(w), UNCHANGED vars,
         tx'[w].todo = Rest(w), tx'[w].plan = <<>>, tx'[w].verdict = ""
  PROVE  ClaimPromise(w)'
<1>1. \A c \in Rest(w) : Read(c)
  BY DEF ClaimPromise, Rest
<1>2. \A c : Read(c)' <=> Read(c)
  BY DEF Read, Exists, Seen, vars
<1>3. QED
  BY <1>1, <1>2 DEF ClaimPromise, vars

\* A claim tries its best candidate: the row it locks can still be leased.
LEMMA TryCandidateKeeps ==
  ASSUME SafeInv, TypeInv', NEW w \in Workers, TryCandidate(w)
  PROVE  Promises'
<1> w \in Sessions
  BY DEF Sessions
<1> DEFINE j == Best(w)[1]
<1>1. /\ UNCHANGED vars /\ tx[w].op = "claim" /\ tx[w].plan = <<>>
      /\ tx[w].verdict = "" /\ tx[w].todo # {}
  BY DEF TryCandidate
<1>2. ClaimPromise(w) /\ tx[w].age \in 0..MaxAge /\ Shape(tx[w])
  BY <1>1 DEF SafeInv, Promises, Promise, LockInv, SessionInv
<1>3. Only(w)
  BY <1>1 DEF TryCandidate, Only, SafeInv, LockInv, vars
<1>4. \A s \in Sessions \ {w} : Respects(s)
  BY <1>1, <1>3, RowsUntouched DEF vars, storeVars
<1>5. CASE Free(JobRowOf(j), w) /\ StillRunnable(Best(w))
  <2>1. /\ locks' = [locks EXCEPT ![w] = @ \cup {JobRowOf(j)}]
        /\ tx' = [tx EXCEPT ![w].plan = <<HostRow(DomainOf[j])>>]
    BY <1>5 DEF TryCandidate
  <2>2. /\ locks'[w] = locks[w] \cup {JobRowOf(j)}
        /\ tx'[w].op = "claim" /\ tx'[w].age = tx[w].age /\ tx'[w].todo = tx[w].todo
        /\ tx'[w].plan = <<HostRow(DomainOf[j])>> /\ tx'[w].verdict = ""
    BY <1>1, <1>2, <2>1 DEF SafeInv, LockInv, Shape
  <2>3. Best(w)' = Best(w)
    BY <2>2 DEF Best
  <2>4. Best(w) \in tx[w].todo
    <3>1. \A c \in tx[w].todo : c[1] \in Jobs
      BY <1>2 DEF ClaimPromise, Read
    <3>2. QED
      BY <1>1, <3>1, BestLeft
  <2>5. Claimable(j)
    <3>1. Read(Best(w))
      BY <1>2, <2>4 DEF ClaimPromise
    <3>2. QED
      BY <1>5, <3>1 DEF StillRunnable, Read, Claimable
  <2>6. Claimable(j)'
    BY <1>1, <2>3, <2>5 DEF Claimable, vars
  <2>7. \A c : Read(c)' <=> Read(c)
    BY <1>1 DEF Read, Exists, Seen, vars
  <2>8. ClaimPromise(w)'
    BY <1>1, <1>2, <2>2, <2>3, <2>6, <2>7 DEF ClaimPromise, vars
  <2>9. Promise(w)'
    BY <1>2, <2>2, <2>8 DEF Promise
  <2>10. \A row \in locks'[w] : row \in locks[w] \/ Free(row, w)
    BY <1>5, <2>2
  <2>11. QED
    BY <1>3, <1>4, <2>9, <2>10, PromisesKept
<1>6. CASE ~(Free(JobRowOf(j), w) /\ StillRunnable(Best(w)))
  <2>1. tx' = [tx EXCEPT ![w].todo = Rest(w)] /\ locks' = locks
    BY <1>6 DEF TryCandidate
  <2>2. /\ tx'[w].op = "claim" /\ tx'[w].age = tx[w].age /\ tx'[w].todo = Rest(w)
        /\ tx'[w].plan = <<>> /\ tx'[w].verdict = ""
    BY <1>1, <1>2, <2>1 DEF SafeInv, LockInv, Shape
  <2>3. Promise(w)'
    BY <1>1, <1>2, <2>2, RestRead DEF Promise
  <2>4. \A row \in locks'[w] : row \in locks[w]
    BY <2>1
  <2>5. QED
    BY <1>3, <1>4, <2>3, <2>4, PromisesKept
<1>7. QED
  BY <1>5, <1>6

\* A claim locks the host of its candidate, and finds it ready or goes on.
LEMMA LockHostKeeps ==
  ASSUME SafeInv, TypeInv', NEW w \in Workers, LockHost(w)
  PROVE  Promises'
<1> w \in Sessions
  BY DEF Sessions
<1> DEFINE j == Best(w)[1]
<1>1. /\ UNCHANGED vars /\ tx[w].op = "claim" /\ tx[w].plan # <<>>
      /\ Free(Head(tx[w].plan), w)
      /\ locks' = [locks EXCEPT ![w] = @ \cup {Head(tx[w].plan)}]
  BY DEF LockHost, Lock, Grantable
<1>2. ClaimPromise(w) /\ tx[w].age \in 0..MaxAge /\ Shape(tx[w])
  BY <1>1 DEF SafeInv, Promises, Promise, LockInv, SessionInv
<1>3. tx[w].verdict = "" /\ tx[w].plan = <<HostRow(DomainOf[j])>> /\ tx[w].todo # {}
      /\ JobRowOf(j) \in locks[w] /\ Claimable(j)
  BY <1>1, <1>2 DEF ClaimPromise
<1>4. locks'[w] = locks[w] \cup {HostRow(DomainOf[j])}
  <2>1. tx[w].plan = <<HostRow(DomainOf[j])>>
    BY <1>3, Zenon
  <2>2. Head(tx[w].plan) = HostRow(DomainOf[j])
    BY <2>1
  <2> HIDE DEF j
  <2>3. QED
    BY <1>1, <2>2 DEF SafeInv, LockInv
<1>5. Only(w)
  BY <1>1 DEF LockHost, Only, SafeInv, LockInv, vars
<1>6. \A s \in Sessions \ {w} : Respects(s)
  BY <1>1, <1>5, RowsUntouched DEF vars, storeVars
<1>7. Promise(w)'
  <2>1. CASE HostReady(w, DomainOf[j])
    <3>1. tx' = [tx EXCEPT ![w].plan = <<>>, ![w].verdict = "LEASED"]
      BY <2>1 DEF LockHost
    <3>2. /\ tx'[w].op = "claim" /\ tx'[w].age = tx[w].age /\ tx'[w].todo = tx[w].todo
          /\ tx'[w].plan = <<>> /\ tx'[w].verdict = "LEASED"
      BY <1>1, <1>2, <3>1 DEF SafeInv, LockInv, Shape
    <3>3. Best(w)' = Best(w)
      BY <3>2 DEF Best
    <3>4. Claimable(j)' /\ HostReady(w, DomainOf[j])'
      BY <1>1, <1>3, <2>1, <3>2, <3>3 DEF Claimable, HostReady, vars
    <3>5. \A c : Read(c)' <=> Read(c)
      BY <1>1 DEF Read, Exists, Seen, vars
    <3>6. ClaimPromise(w)'
      BY <1>1, <1>2, <1>3, <1>4, <3>2, <3>3, <3>4, <3>5 DEF ClaimPromise, vars
    <3>7. QED
      BY <1>2, <3>2, <3>6 DEF Promise
  <2>2. CASE ~HostReady(w, DomainOf[j])
    <3>1. tx' = [tx EXCEPT ![w].plan = <<>>, ![w].todo = Rest(w)]
      BY <2>2 DEF LockHost
    <3>2. /\ tx'[w].op = "claim" /\ tx'[w].age = tx[w].age /\ tx'[w].todo = Rest(w)
          /\ tx'[w].plan = <<>> /\ tx'[w].verdict = ""
      BY <1>1, <1>2, <1>3, <3>1 DEF SafeInv, LockInv, Shape
    <3>3. QED
      BY <1>1, <1>2, <3>2, RestRead DEF Promise
  <2>3. QED
    BY <2>1, <2>2
<1>8. \A row \in locks'[w] : row \in locks[w] \/ Free(row, w)
  <2>1. tx[w].plan = <<HostRow(DomainOf[j])>>
    BY <1>3, Zenon
  <2>2. Head(tx[w].plan) = HostRow(DomainOf[j])
    BY <2>1
  <2> HIDE DEF j
  <2>3. QED
    BY <1>1, <1>4, <2>2
<1>9. QED
  BY <1>5, <1>6, <1>7, <1>8, PromisesKept

\* A report or an expansion begins, with no lock yet.
LEMMA BeginWorkKeeps ==
  ASSUME SafeInv, TypeInv', NEW w \in Workers, BeginReport(w) \/ BeginEnqueue(w)
  PROVE  Promises'
<1> w \in Sessions
  BY DEF Sessions
<1>1. PICK op \in Reports : \E S :
        /\ worker[w].pc = IF op = "enqueue" THEN "expand" ELSE op
        /\ op = "enqueue" => S \in Selections(ClaimedJob(w))
        /\ BeginWork(w, op, S)
  BY DEF BeginReport, BeginEnqueue, Reports
<1>2. PICK S :
        /\ worker[w].pc = IF op = "enqueue" THEN "expand" ELSE op
        /\ op = "enqueue" => S \in Selections(ClaimedJob(w))
        /\ BeginWork(w, op, S)
  BY <1>1
<1> DEFINE t == [NoTx EXCEPT !.op = op, !.plan = LockPlan(op, ClaimedJob(w)),
                             !.links = S]
<1>3. /\ UNCHANGED vars /\ locks' = locks /\ tx[w].op = "none" /\ tx' = [tx EXCEPT ![w] = t]
  BY <1>2 DEF BeginWork, Begin
<1>4. t.op = op /\ t.plan = LockPlan(op, ClaimedJob(w)) /\ t.links = S /\ t.age = 0
  BY DEF NoTx
<1> HIDE DEF t
<1>5. /\ tx'[w] = t /\ worker'[w] = worker[w] /\ locks'[w] = {}
      /\ ClaimedJob(w)' = ClaimedJob(w)
  BY <1>3 DEF SafeInv, LockInv, SessionInv, vars, ClaimedJob, Claimed
<1>6. t.plan # <<>>
  BY <1>4 DEF LockPlan
<1>7. Promise(w)'
  <2>1. CASE op = "enqueue"
    BY <1>2, <1>4, <1>5, <1>6, <2>1, AgeAssumption DEF Promise, EnqueuePromise, Selections
  <2>2. CASE op # "enqueue"
    BY <1>2, <1>4, <1>5, <1>6, <2>2, AgeAssumption DEF Promise, ReportPromise, Reports
  <2>3. QED
    BY <2>1, <2>2
<1>8. Only(w)
  BY <1>3 DEF Only, SafeInv, LockInv, vars
<1>9. \A s \in Sessions \ {w} : Respects(s)
  BY <1>3, <1>8, RowsUntouched DEF vars, storeVars
<1>10. QED
  BY <1>5, <1>7, <1>8, <1>9, PromisesKept

\* A report or an expansion is granted its next row: with the first it has
\* checked its lease, with the last it counts under all its locks.
LEMMA LockRowKeeps ==
  ASSUME SafeInv, TypeInv', NEW w \in Workers, LockRow(w)
  PROVE  Promises'
<1> w \in Sessions
  BY DEF Sessions
<1>0. PICK j : j = ClaimedJob(w)
  OBVIOUS
<1> DEFINE op == tx[w].op
           plan == tx[w].plan
           shorter == [tx[w] EXCEPT !.plan = Tail(plan)]
<1>1. /\ UNCHANGED vars /\ op \in Reports /\ plan # <<>> /\ Free(Head(plan), w)
      /\ locks' = [locks EXCEPT ![w] = @ \cup {Head(plan)}]
      /\ tx' = [tx EXCEPT ![w] = Granted(w)]
      /\ ChecksLease(w) => OwnedWhenBegun(w)
  BY DEF LockRow, Lock, Grantable, Reporting, Reports
<1>2. Promise(w) /\ Shape(tx[w]) /\ Staged(w)
  BY <1>1 DEF SafeInv, Promises, LockInv, SessionInv
<1>3. /\ locks'[w] = locks[w] \cup {Head(plan)} /\ tx'[w] = Granted(w)
      /\ ClaimedJob(w)' = j /\ worker'[w] = worker[w]
  BY <1>0, <1>1 DEF SafeInv, LockInv, ClaimedJob, Claimed, vars
<1>4. Tail(plan) # <<>> =>
        /\ tx'[w].op = op /\ tx'[w].age = tx[w].age /\ tx'[w].plan = Tail(plan)
        /\ tx'[w].links = tx[w].links
  <2> SUFFICES ASSUME Tail(plan) # <<>>
               PROVE  /\ tx'[w].op = op /\ tx'[w].age = tx[w].age
                      /\ tx'[w].plan = Tail(plan) /\ tx'[w].links = tx[w].links
    OBVIOUS
  <2>1. tx'[w] = shorter
    BY <1>3 DEF Granted
  <2>2. QED
    BY <1>2, <2>1 DEF Shape
<1>5. Tail(plan) = <<>> =>
        /\ tx'[w].op = op /\ tx'[w].age = tx[w].age /\ tx'[w].plan = <<>>
        /\ tx'[w].verdict = IF Reporting(w) THEN VerdictOn(op, j) ELSE ""
        /\ tx'[w].links = NewChildren(j, tx[w].links)
  <2> DEFINE verdict == IF Reporting(w) THEN VerdictOn(op, j) ELSE ""
             one == [tx[w] EXCEPT !.plan = <<>>]
             two == [tx[w] EXCEPT !.plan = <<>>, !.verdict = verdict]
             three == [tx[w] EXCEPT !.plan = <<>>, !.verdict = verdict,
                                    !.links = NewChildren(j, tx[w].links)]
  <2> SUFFICES ASSUME Tail(plan) = <<>>
               PROVE  /\ tx'[w].op = op /\ tx'[w].age = tx[w].age /\ tx'[w].plan = <<>>
                      /\ tx'[w].verdict = verdict
                      /\ tx'[w].links = NewChildren(j, tx[w].links)
    OBVIOUS
  <2>1. tx'[w] = three
    BY <1>0, <1>3 DEF Granted, Counted
  <2>2. two = [one EXCEPT !.verdict = verdict]
        /\ three = [two EXCEPT !.links = NewChildren(j, tx[w].links)]
    OBVIOUS
  <2> HIDE DEF verdict
  <2>3. Shape(one) /\ one.op = op /\ one.age = tx[w].age /\ one.plan = <<>>
    BY <1>2 DEF Shape
  <2> HIDE DEF one, two, three
  <2>4. /\ Shape(two) /\ two.op = op /\ two.age = tx[w].age /\ two.plan = <<>>
        /\ two.verdict = verdict
    BY <2>2, <2>3 DEF Shape
  <2>5. /\ three.op = op /\ three.age = tx[w].age /\ three.plan = <<>>
        /\ three.verdict = verdict /\ three.links = NewChildren(j, tx[w].links)
    BY <2>2, <2>4 DEF Shape
  <2>6. QED
    BY <2>1, <2>5
<1> HIDE DEF shorter
<1>6. \A S : NewChildren(j, S)' = NewChildren(j, S)
  BY <1>1 DEF NewChildren, Expandable, RemainingCapacity, FirstByRank, JobsOf, Exists, vars
<1>7. op = "enqueue" => Promise(w)'
  <2> SUFFICES ASSUME op = "enqueue" PROVE Promise(w)'
    OBVIOUS
  <2>1. tx[w].links \in Selections(j) /\ worker[w].pc = "expand"
    BY <1>0, <1>1, <1>2 DEF Promise, EnqueuePromise
  <2>2. tx'[w].op = "enqueue" /\ tx'[w].age \in 0..MaxAge
    BY <1>2, <1>4, <1>5 DEF Promise
  <2>3. EnqueuePromise(w)'
    <3>1. CASE Tail(plan) # <<>>
      BY <1>3, <1>4, <2>1, <3>1 DEF EnqueuePromise, Selections
    <3>2. CASE Tail(plan) = <<>>
      BY <1>3, <1>5, <1>6, <2>1, <3>2 DEF EnqueuePromise, Selections
    <3>3. QED
      BY <3>1, <3>2
  <2>4. QED
    BY <2>2, <2>3 DEF Promise
<1>8. op # "enqueue" => Promise(w)'
  <2> SUFFICES ASSUME op \in {"complete", "fail"} PROVE Promise(w)'
    BY <1>1 DEF Reports
  <2>1. ReportPromise(w) /\ worker[w].pc = op
    BY <1>2 DEF Promise, ReportPromise
  <2>2. OwnedWhenBegun(w)
    <3>1. CASE locks[w] = {}
      <4>1. plan = LockPlan(op, j)
        BY <1>0, <1>1, <1>2, <3>1 DEF Staged, Lower
      <4>2. Head(plan) = JobRowOf(j)
        BY <4>1 DEF LockPlan
      <4>3. QED
        BY <1>0, <1>1, <4>2 DEF ChecksLease, Reporting
    <3>2. CASE locks[w] # {}
      BY <2>1, <3>2 DEF ReportPromise
    <3>3. QED
      BY <3>1, <3>2
  <2>3. tx'[w].op = op /\ tx'[w].age = tx[w].age
    BY <1>4, <1>5
  <2>4. OwnedWhenBegun(w)'
    BY <1>1, <2>2, <2>3 DEF OwnedWhenBegun, ClaimedJob, Claimed, vars
  <2>5. tx'[w].plan = <<>> => tx'[w].verdict = VerdictOn(op, j)
    BY <1>4, <1>5 DEF Reporting
  <2>6. VerdictOn(op, j) = VerdictOn(tx[w].op, ClaimedJob(w))'
    <3>1. LastOpenJob(j)' <=> LastOpenJob(j)
      BY <1>1 DEF LastOpenJob, JobsOf, Exists, vars
    <3>2. FailureStatus(j)' = FailureStatus(j)
      BY <1>1 DEF FailureStatus, vars
    <3>3. FailureVerdict(RunOf[j])' = FailureVerdict(RunOf[j])
      BY <1>1 DEF FailureVerdict, SomeSucceeded, JobsOf, Exists, vars
    <3>4. op' = op /\ run' = run /\ ClaimedJob(w)' = j
      BY <1>1, <1>3, <2>3 DEF vars
    <3>5. QED
      BY <3>1, <3>2, <3>3, <3>4 DEF VerdictOn
  <2>7. ReportPromise(w)'
    BY <1>3, <2>1, <2>3, <2>4, <2>5, <2>6 DEF ReportPromise
  <2>8. QED
    BY <1>2, <2>3, <2>7 DEF Promise
<1>9. Only(w)
  BY <1>1 DEF Only, SafeInv, LockInv, vars
<1>10. \A s \in Sessions \ {w} : Respects(s)
  BY <1>1, <1>9, RowsUntouched DEF vars, storeVars
<1>11. \A row \in locks'[w] : row \in locks[w] \/ Free(row, w)
  BY <1>1, <1>3
<1>12. QED
  BY <1>7, <1>8, <1>9, <1>10, <1>11, PromisesKept

\* The steps that end a worker's transaction.
LEMMA WorkerEndKeeps ==
  ASSUME SafeInv, TypeInv', NEW w \in Workers,
         CommitClaim(w) \/ ClaimNothing(w) \/ LoseLeaseLocked(w) \/ CommitReport(w)
           \/ CommitEnqueue(w) \/ CrashLocked(w)
  PROVE  Promises'
<1>1. End(w) /\ w \in Sessions
  BY DEF CommitClaim, ClaimNothing, LoseLeaseLocked, CommitReport, CommitEnqueue,
     CrashLocked, Sessions
<1>2. \/ worker' = worker
      \/ \E x : worker' = [worker EXCEPT ![w] = x] \/ worker' = [worker EXCEPT ![w].pc = x]
  BY DEF CommitClaim, ClaimNothing, LoseLeaseLocked, CommitReport, CommitEnqueue,
     CrashLocked, Goto, vars
<1>3. Only(w)
  BY <1>1, <1>2, EndIsOnly DEF SafeInv, LockInv
<1>4. \A s \in Sessions \ {w} : Respects(s)
  <2>1. CASE ClaimNothing(w) \/ LoseLeaseLocked(w) \/ CrashLocked(w)
    <3>1. UNCHANGED storeVars
      BY <2>1 DEF ClaimNothing, LoseLeaseLocked, CrashLocked, vars, storeVars
    <3>2. QED
      BY <1>3, <3>1, RowsUntouched
  <2>2. QED
    BY <1>3, <2>1, ClaimRespects, ReportRespects, EnqueueRespects
<1>5. QED
  BY <1>1, <1>4, EndKeeps

\* What a worker does between two transactions.
LEMMA BetweenKeeps ==
  ASSUME SafeInv, TypeInv', NEW w \in Workers, NothingToEnqueue(w) \/ Between(w)
  PROVE  Promises'
<1>1. /\ tx[w].op = "none" /\ UNCHANGED <<tx, locks>> /\ UNCHANGED storeVars
      /\ \E x : worker' = [worker EXCEPT ![w] = x] \/ worker' = [worker EXCEPT ![w].pc = x]
  BY DEF NothingToEnqueue, Between, Goto, FetchPage, PersistDocument, ExpansionFails,
     Restart
<1>2. w \in Sessions /\ Only(w)
  BY <1>1 DEF Only, Sessions, SafeInv, LockInv
<1>3. Promise(w)'
  <2>1. Promise(w) /\ tx' = tx
    BY <1>1, <1>2 DEF SafeInv, Promises
  <2>2. QED
    BY <1>1, <2>1 DEF Promise
<1>4. \A s \in Sessions \ {w} : Respects(s)
  BY <1>1, <1>2, RowsUntouched
<1>5. QED
  BY <1>1, <1>2, <1>3, <1>4, PromisesKept

\* A worker's step.
LEMMA WorkerKeeps ==
  ASSUME SafeInv, TypeInv', NEW w \in Workers, WorkerLockStep(w)
  PROVE  Promises'
BY BeginClaimKeeps, TryCandidateKeeps, LockHostKeeps, BeginWorkKeeps, LockRowKeeps,
   WorkerEndKeeps, BetweenKeeps DEF WorkerLockStep

\* A cancellation begins: the jobs it must come to are those it has read.
LEMMA BeginCancelKeeps ==
  ASSUME SafeInv, TypeInv', NEW r \in Runs, BeginCancel(r)
  PROVE  Promises'
<1> r \in Sessions
  BY DEF Sessions
<1> DEFINE C == {Seen(j) : j \in {k \in JobsOf(r) : CancelledJob(k)}}
<1>1. /\ UNCHANGED vars /\ locks' = [locks EXCEPT ![r] = {RunRow(r)}]
      /\ tx' = [tx EXCEPT ![r] = [NoTx EXCEPT !.op = "cancel", !.todo = C]]
      /\ Cancellable(r) /\ Free(RunRow(r), r)
  BY DEF BeginCancel, Begin
<1>2. /\ tx'[r].op = "cancel" /\ tx'[r].age = 0
      /\ tx'[r].plan = <<>> /\ tx'[r].todo = C
      /\ locks'[r] = {RunRow(r)}
  BY <1>1 DEF SafeInv, LockInv, NoTx
<1>3. \A c \in C : c[1] \in Jobs /\ RunOf[c[1]] = r
  BY DEF Seen, JobsOf
<1>4. \A k \in Jobs : RunOf[k] = r /\ CancelledJob(k)' => \E c \in C : c[1] = k
  <2>1. \A k \in Jobs : CancelledJob(k)' => CancelledJob(k) /\ Exists(k)
    BY <1>1 DEF CancelledJob, Exists, vars
  <2>2. \A k \in Jobs : RunOf[k] = r /\ CancelledJob(k) /\ Exists(k) => Seen(k) \in C
    BY DEF JobsOf
  <2> HIDE DEF C
  <2>3. QED
    BY <2>1, <2>2 DEF Seen
<1>5. \A k \in Jobs : JobRowOf(k) # RunRow(r)
  BY DEF JobRowOf, RunRow
<1> HIDE DEF C
<1>6. CancelPromise(r)'
  BY <1>1, <1>2, <1>3, <1>4, <1>5 DEF CancelPromise, Cancellable, vars
<1>7. Promise(r)'
  <2>1. tx'[r].op = "cancel" /\ tx'[r].age = 0
    BY <1>2, Zenon
  <2>2. tx'[r].age \in 0..MaxAge
    BY <2>1, AgeAssumption
  <2>3. QED
    BY <1>6, <2>1, <2>2 DEF Promise
<1>8. Only(r)
  BY <1>1 DEF Only, SafeInv, LockInv, vars
<1>9. \A s \in Sessions \ {r} : Respects(s)
  BY <1>1, <1>8, RowsUntouched DEF vars, storeVars
<1>10. \A row \in locks'[r] : row \in locks[r] \/ Free(row, r)
  BY <1>1, <1>2
<1>11. QED
  BY <1>7, <1>8, <1>9, <1>10, PromisesKept

\* A cancellation comes to its next job: what it waits for takes the place of
\* what it had yet to visit.
LEMMA VisitJobKeeps ==
  ASSUME SafeInv, TypeInv', NEW r \in Runs, VisitJob(r)
  PROVE  Promises'
<1> r \in Sessions
  BY DEF Sessions
<1>1. UNCHANGED vars /\ locks' = locks /\ tx[r].op = "cancel" /\ tx[r].plan = <<>>
  BY DEF VisitJob
<1>2. CancelPromise(r) /\ tx[r].age \in 0..MaxAge /\ Shape(tx[r])
  BY <1>1 DEF SafeInv, Promises, Promise, LockInv, SessionInv
<1>3. PICK c \in tx[r].todo :
        tx' = [tx EXCEPT ![r].plan = <<JobRowOf(c[1])>>, ![r].todo = @ \ {c}]
  BY DEF VisitJob
<1>4. /\ tx'[r].op = "cancel" /\ tx'[r].age = tx[r].age
      /\ tx'[r].plan = <<JobRowOf(c[1])>> /\ tx'[r].todo = tx[r].todo \ {c}
  BY <1>1, <1>2, <1>3 DEF SafeInv, LockInv, Shape
<1>5. c[1] \in Jobs /\ RunOf[c[1]] = r
  BY <1>2 DEF CancelPromise
<1>6. \A k \in Jobs : CancelledJob(k)' => CancelledJob(k)
  BY <1>1 DEF CancelledJob, vars
<1>7. CancelPromise(r)'
  BY <1>1, <1>2, <1>4, <1>5, <1>6 DEF CancelPromise, Cancellable, vars
<1>8. Promise(r)'
  BY <1>2, <1>4, <1>7 DEF Promise
<1>9. Only(r)
  BY <1>1, <1>3 DEF Only, SafeInv, LockInv, vars
<1>10. \A s \in Sessions \ {r} : Respects(s)
  BY <1>1, <1>9, RowsUntouched DEF vars, storeVars
<1>11. QED
  BY <1>1, <1>8, <1>9, <1>10, PromisesKept

\* A cancellation is granted the job it waited for.
LEMMA LockJobKeeps ==
  ASSUME SafeInv, TypeInv', NEW r \in Runs, LockJob(r)
  PROVE  Promises'
<1> r \in Sessions
  BY DEF Sessions
<1>1. /\ UNCHANGED vars /\ tx[r].op = "cancel" /\ tx[r].plan # <<>>
      /\ Free(Head(tx[r].plan), r)
      /\ locks' = [locks EXCEPT ![r] = @ \cup {Head(tx[r].plan)}]
      /\ tx' = [tx EXCEPT ![r].plan = <<>>]
  BY DEF LockJob, Lock, Grantable
<1>2. CancelPromise(r) /\ tx[r].age \in 0..MaxAge /\ Shape(tx[r])
  BY <1>1 DEF SafeInv, Promises, Promise, LockInv, SessionInv
<1>3. PICK j \in Jobs : RunOf[j] = r /\ tx[r].plan = <<JobRowOf(j)>>
  BY <1>1, <1>2 DEF CancelPromise
<1>4. Head(tx[r].plan) = JobRowOf(j)
  BY <1>3
<1>5. /\ locks'[r] = locks[r] \cup {JobRowOf(j)}
      /\ tx'[r].op = "cancel" /\ tx'[r].age = tx[r].age
      /\ tx'[r].plan = <<>> /\ tx'[r].todo = tx[r].todo
  BY <1>1, <1>2, <1>4 DEF SafeInv, LockInv, Shape
<1>6. \A k \in Jobs : /\ CancelledJob(k)' => CancelledJob(k)
                      /\ JobRowOf(k) = JobRowOf(j) => k = j
                      /\ <<JobRowOf(k)>> = <<JobRowOf(j)>> => k = j
  BY <1>1 DEF CancelledJob, JobRowOf, vars
<1>7. CancelPromise(r)'
  <2>1. RunRow(r) \in locks'[r] /\ Cancellable(r)'
    BY <1>1, <1>2, <1>5 DEF CancelPromise, Cancellable, vars
  <2>2. \A k \in Jobs : JobRowOf(k) \in locks'[r] => RunOf[k] = r
    BY <1>2, <1>3, <1>5, <1>6 DEF CancelPromise
  <2>3. \A k \in Jobs : RunOf[k] = r /\ CancelledJob(k)' =>
          JobRowOf(k) \in locks'[r] \/ \E c \in tx'[r].todo : c[1] = k
    BY <1>2, <1>3, <1>5, <1>6 DEF CancelPromise
  <2>4. \A c \in tx'[r].todo : c[1] \in Jobs /\ RunOf[c[1]] = r
    BY <1>2, <1>5 DEF CancelPromise
  <2>5. QED
    BY <1>5, <2>1, <2>2, <2>3, <2>4 DEF CancelPromise
<1>8. Promise(r)'
  BY <1>2, <1>5, <1>7 DEF Promise
<1>9. Only(r)
  BY <1>1 DEF Only, SafeInv, LockInv, vars
<1>10. \A s \in Sessions \ {r} : Respects(s)
  BY <1>1, <1>9, RowsUntouched DEF vars, storeVars
<1>11. \A row \in locks'[r] : row \in locks[r] \/ Free(row, r)
  BY <1>1, <1>4, <1>5
<1>12. QED
  BY <1>8, <1>9, <1>10, <1>11, PromisesKept

\* A request's step.
LEMMA ControlKeeps ==
  ASSUME SafeInv, TypeInv', NEW r \in Runs, ControlLockStep(r)
  PROVE  Promises'
<1> r \in Sessions
  BY DEF Sessions
<1>1. CASE CommitCancel(r)
  <2>1. End(r) /\ worker' = worker
    BY <1>1 DEF CommitCancel
  <2>2. Only(r)
    BY <2>1, EndIsOnly
  <2>3. QED
    BY <1>1, <2>1, <2>2, CancelRespects, EndKeeps
<1>2. CASE ShortControl(r)
  <2>1. tx[r].op = "none" /\ UNCHANGED <<worker, tx, locks>>
    BY <1>2 DEF ShortControl
  <2>2. Only(r)
    BY <2>1 DEF Only
  <2>3. Promise(r) /\ tx' = tx
    BY <2>1 DEF SafeInv, Promises
  <2>4. Promise(r)'
    BY <2>1, <2>3 DEF Promise
  <2>5. QED
    BY <1>2, <2>1, <2>2, <2>4, ShortControlRespects, PromisesKept
<1>3. QED
  BY <1>1, <1>2, BeginCancelKeeps, VisitJobKeeps, LockJobKeeps DEF ControlLockStep

\* A transaction the database rolls back.
LEMMA VictimKeeps ==
  ASSUME SafeInv, TypeInv', NEW s \in Sessions, DeadlockVictim(s)
  PROVE  Promises'
<1>1. End(s) /\ worker' = AfterError(s) /\ UNCHANGED storeVars
  BY DEF DeadlockVictim
<1>2. Only(s)
  BY <1>1, EndIsOnly DEF AfterError, SafeInv, LockInv
<1>3. QED
  BY <1>1, <1>2, RowsUntouched, EndKeeps

-----------------------------------------------------------------------------
(* What the clock leaves a session to rely on *)

\* A lease that has run out does not come back.
LEMMA StaysOver ==
  ASSUME NEW left \in Expired..LeaseSeconds, left < 0
  PROVE  Sooner(left) < 0
BY StoreAssumption DEF Sooner, Expired

\* What a tick leaves of the rows.
LEMMA Older ==
  ASSUME SafeInv, TickLocked
  PROVE  /\ UNCHANGED <<run, worker, docs, locks>>
         /\ \A k \in Jobs : /\ job[k] \in JobRow
                            /\ job'[k].status = job[k].status
                            /\ job'[k].depth = job[k].depth
                            /\ job'[k].attempts = job[k].attempts
                            /\ job'[k].drawn = job[k].drawn
                            /\ job'[k].owner = job[k].owner
                            /\ job'[k].token = job[k].token
                            /\ job'[k].left = Sooner(job[k].left)
         /\ \A d \in Domains : /\ policy[d] \in PolicyRow
                               /\ policy'[d].left = Sooner(policy[d].left)
                               /\ policy'[d].pause = Sooner(policy[d].pause)
<1>1. /\ \A k \in Jobs : job[k] \in JobRow
      /\ \A d \in Domains : policy[d] \in PolicyRow
  BY DEF SafeInv, StoreInv, TypeInv, TypeOK, StoreTypeOK
<1>2. \A k \in Jobs : job'[k] = [job[k] EXCEPT !.left = Sooner(@)]
  BY DEF TickLocked
<1>3. \A d \in Domains : /\ policy'[d].left = Sooner(policy[d].left)
                         /\ policy'[d].pause = Sooner(policy[d].pause)
  <2> SUFFICES ASSUME NEW d \in Domains
               PROVE  /\ policy'[d].left = Sooner(policy[d].left)
                      /\ policy'[d].pause = Sooner(policy[d].pause)
    OBVIOUS
  <2> DEFINE one == [policy[d] EXCEPT !.left = Sooner(@)]
             two == [policy[d] EXCEPT !.left = Sooner(@), !.pause = Sooner(@)]
  <2>1. policy'[d] = two
    BY DEF TickLocked
  <2>2. one = [token |-> policy[d].token, left |-> Sooner(policy[d].left),
               pause |-> policy[d].pause]
    BY <1>1 DEF PolicyRow
  <2>3. two = [one EXCEPT !.pause = Sooner(@)]
    OBVIOUS
  <2> HIDE DEF one, two
  <2>4. two = [token |-> policy[d].token, left |-> Sooner(policy[d].left),
               pause |-> Sooner(policy[d].pause)]
    BY <2>2, <2>3
  <2>5. QED
    BY <2>1, <2>4
<1>4. QED
  BY <1>1, <1>2, <1>3 DEF TickLocked, JobRow

\* And of a transaction, which began this tick.
LEMMA OlderToo ==
  ASSUME SafeInv, TickLocked, NEW s \in Sessions
  PROVE  /\ Promise(s)
         /\ tx'[s].op = tx[s].op /\ tx'[s].plan = tx[s].plan /\ tx'[s].todo = tx[s].todo
         /\ tx'[s].links = tx[s].links /\ tx'[s].verdict = tx[s].verdict
         /\ tx[s].op = "none" => tx'[s].age = tx[s].age
         /\ tx[s].op # "none" => tx[s].age = 0 /\ tx'[s].age = 1 /\ 1 \in 0..MaxAge
<1>1. Promise(s) /\ Shape(tx[s]) /\ tx[s].age \in 0..MaxAge
  BY DEF SafeInv, Promises, Promise, LockInv, SessionInv
<1>2. tx'[s] = Aged(tx[s])
  BY DEF TickLocked
<1>3. CASE tx[s].op = "none"
  BY <1>1, <1>2, <1>3 DEF Aged
<1>4. CASE tx[s].op # "none"
  <2>1. tx[s].age < MaxAge
    BY <1>4 DEF TickLocked
  <2>2. tx[s].age = 0 /\ 1 \in 0..MaxAge
    BY <1>1, <2>1, AgeAssumption
  <2>3. tx'[s] = [tx[s] EXCEPT !.age = tx[s].age + 1]
    BY <1>2, <1>4 DEF Aged
  <2>4. /\ tx'[s].op = tx[s].op /\ tx'[s].plan = tx[s].plan /\ tx'[s].todo = tx[s].todo
        /\ tx'[s].links = tx[s].links /\ tx'[s].verdict = tx[s].verdict
        /\ tx'[s].age = tx[s].age + 1
    BY <1>1, <2>3 DEF Shape
  <2>5. QED
    BY <1>1, <1>4, <2>2, <2>4
<1>5. QED
  BY <1>3, <1>4

\* A host that was ready when a transaction began is ready by its clock.
LEMMA HostAges ==
  ASSUME SafeInv, TickLocked, NEW d \in Domains,
         policy[d].left + 0 <= 0, policy[d].pause + 0 <= 0
  PROVE  policy'[d].left + 1 <= 0 /\ policy'[d].pause + 1 <= 0
<1>1. /\ policy[d].left \in Expired..LeaseSeconds
      /\ policy[d].pause \in Expired..CrawlDelay
      /\ policy'[d].left = Sooner(policy[d].left)
      /\ policy'[d].pause = Sooner(policy[d].pause)
  BY Older DEF PolicyRow
<1>2. QED
  BY <1>1, StoreAssumption DEF Sooner, Expired

\* A claim's candidate and host stay what they were by its clock.
LEMMA ClaimAges ==
  ASSUME SafeInv, TickLocked, NEW w \in Sessions, tx[w].op = "claim", ClaimPromise(w)
  PROVE  ClaimPromise(w)'
<1> USE StoreAssumption
<1> DEFINE j == Best(w)[1]
<1>1. /\ tx'[w].plan = tx[w].plan /\ tx'[w].todo = tx[w].todo
      /\ tx'[w].verdict = tx[w].verdict /\ tx[w].age = 0 /\ tx'[w].age = 1
      /\ locks' = locks /\ worker' = worker /\ run' = run
  BY OlderToo, Older
<1>2. Best(w)' = Best(w)
  BY <1>1 DEF Best
<1>3. ASSUME NEW c \in tx[w].todo PROVE Read(c)'
  <2>1. Read(c)
    BY DEF ClaimPromise
  <2>2. c[1] \in Jobs
    BY <2>1 DEF Read
  <2>3. /\ job'[c[1]].status = job[c[1]].status
        /\ job'[c[1]].drawn = job[c[1]].drawn
        /\ job[c[1]].left < 0 => job'[c[1]].left < 0
    <3>1. /\ job[c[1]].left \in Expired..LeaseSeconds
          /\ job'[c[1]].left = Sooner(job[c[1]].left)
      BY <2>2, Older DEF JobRow
    <3>2. QED
      BY <2>2, <3>1, Older, StaysOver
  <2>4. QED
    BY <1>1, <2>1, <2>3 DEF Read, Exists, Seen
<1>4. CASE tx[w].plan # <<>> \/ tx[w].verdict # ""
  <2>1. tx[w].todo # {} /\ JobRowOf(j) \in locks[w] /\ Claimable(j)
    BY <1>4 DEF ClaimPromise
  <2>2. Best(w) \in tx[w].todo
    <3>1. \A c \in tx[w].todo : c[1] \in Jobs
      BY DEF ClaimPromise, Read
    <3>2. QED
      BY <2>1, <3>1, BestLeft
  <2>3. j \in Jobs /\ DomainOf[j] \in Domains
    BY <2>2 DEF ClaimPromise, Read
  <2>4. Claimable(j)'
    <3>1. /\ job[j].left \in Expired..LeaseSeconds
          /\ job'[j].left = Sooner(job[j].left)
      BY <2>3, Older DEF JobRow
    <3>2. job[j].left < 0 => job'[j].left < 0
      BY <3>1, StaysOver
    <3>3. job'[j].status = job[j].status /\ job'[j].attempts = job[j].attempts
      BY <2>3, Older
    <3> HIDE DEF j
    <3>4. j' = j
      BY <1>2 DEF j
    <3>5. QED
      BY <2>1, <3>2, <3>3, <3>4 DEF Claimable
  <2>5. tx[w].verdict # "" => HostReady(w, DomainOf[j])'
    <3> SUFFICES ASSUME tx[w].verdict # "" PROVE HostReady(w, DomainOf[j])'
      OBVIOUS
    <3>1. PICK d \in Domains : d = DomainOf[j]
      BY <2>3
    <3>2. policy[d].left + 0 <= 0 /\ policy[d].pause + 0 <= 0
      BY <1>1, <3>1 DEF ClaimPromise, HostReady
    <3>3. policy'[d].left + 1 <= 0 /\ policy'[d].pause + 1 <= 0
      BY <3>1, <3>2, HostAges
    <3>4. DomainOf[j]' = d
      BY <1>2, <3>1
    <3>5. QED
      BY <1>1, <3>3, <3>4 DEF HostReady
  <2>6. QED
    BY <1>1, <1>2, <1>3, <1>4, <2>1, <2>4, <2>5 DEF ClaimPromise
<1>5. CASE tx[w].plan = <<>> /\ tx[w].verdict = ""
  BY <1>1, <1>3, <1>5 DEF ClaimPromise
<1>6. QED
  BY <1>4, <1>5

\* A report's lease holds by its clock, and no status has changed.
LEMMA ReportAges ==
  ASSUME SafeInv, TickLocked, NEW w \in Sessions, w \in Workers,
         tx[w].op \in {"complete", "fail"}, ReportPromise(w)
  PROVE  ReportPromise(w)'
<1>1. PICK j \in Jobs : j = ClaimedJob(w) /\ RunOf[j] \in Runs
  BY AtWork DEF ReportPromise, Working, SafeInv, StoreInv
<1> DEFINE op == tx[w].op
<1>2. /\ tx'[w].plan = tx[w].plan /\ tx'[w].op = tx[w].op /\ tx'[w].verdict = tx[w].verdict
      /\ tx[w].age = 0 /\ tx'[w].age = 1
      /\ locks' = locks /\ worker' = worker /\ run' = run
  BY OlderToo, Older
<1>3. Claimed(w)' = Claimed(w) /\ ClaimedJob(w)' = j
  BY <1>1, <1>2 DEF Claimed, ClaimedJob
<1>4. OwnedWhenBegun(w) => OwnedWhenBegun(w)'
  <2> SUFFICES ASSUME OwnedWhenBegun(w) PROVE OwnedWhenBegun(w)'
    OBVIOUS
  <2>1. /\ job[j].left \in Expired..LeaseSeconds
        /\ job'[j].left = Sooner(job[j].left)
        /\ job'[j].status = job[j].status
        /\ job'[j].owner = job[j].owner
        /\ job'[j].token = job[j].token
    BY Older DEF JobRow
  <2>2. job[j].left + 0 > 0
    BY <1>1, <1>2 DEF OwnedWhenBegun
  <2>3. job'[j].left + 1 > 0
    BY <2>1, <2>2 DEF Sooner, Expired
  <2>4. QED
    BY <1>1, <1>2, <1>3, <2>1, <2>3 DEF OwnedWhenBegun
<1>5. VerdictOn(op, j)' = VerdictOn(op, j)
  <2>1. \A k \in Jobs : job'[k].status = job[k].status
                        /\ job'[k].attempts = job[k].attempts
    BY Older
  <2>2. JobsOf(RunOf[j])' = JobsOf(RunOf[j])
    BY <2>1 DEF JobsOf, Exists
  <2>3. (LastOpenJob(j)' <=> LastOpenJob(j)) /\ FailureStatus(j)' = FailureStatus(j)
        /\ FailureVerdict(RunOf[j])' = FailureVerdict(RunOf[j])
    <3>1. \A k \in JobsOf(RunOf[j]) : job'[k].status = job[k].status
      BY <2>1 DEF JobsOf
    <3>2. QED
      BY <1>2, <2>1, <2>2, <3>1 DEF LastOpenJob, FailureStatus, FailureVerdict, SomeSucceeded
  <2>4. op' = op /\ run' = run
    BY <1>2
  <2>5. QED
    BY <2>3, <2>4 DEF VerdictOn
<1>6. QED
  BY <1>1, <1>2, <1>3, <1>4, <1>5 DEF ReportPromise

\* An expansion's children and a cancellation's jobs do not depend on the clock.
LEMMA OthersAge ==
  ASSUME SafeInv, TickLocked, NEW s \in Sessions
  PROVE  /\ tx[s].op = "enqueue" /\ s \in Workers /\ EnqueuePromise(s) => EnqueuePromise(s)'
         /\ tx[s].op = "cancel" /\ CancelPromise(s) => CancelPromise(s)'
<1>1. /\ tx'[s].plan = tx[s].plan /\ tx'[s].todo = tx[s].todo /\ tx'[s].links = tx[s].links
      /\ locks' = locks /\ worker' = worker /\ run' = run
  BY OlderToo, Older
<1>2. \A k \in Jobs : job'[k].status = job[k].status /\ job'[k].depth = job[k].depth
  BY Older
<1>3. ASSUME tx[s].op = "enqueue", s \in Workers, EnqueuePromise(s)
      PROVE  EnqueuePromise(s)'
  <2>1. PICK j \in Jobs : j = ClaimedJob(s)
    BY <1>3, AtWork DEF EnqueuePromise, Working, SafeInv, StoreInv
  <2>2. ClaimedJob(s)' = j
    BY <1>1, <2>1 DEF Claimed, ClaimedJob
  <2>3. ASSUME NEW S \in Selections(j) PROVE NewChildren(j, S)' = NewChildren(j, S)
    <3>1. {c \in S : ~Exists(c)}' = {c \in S : ~Exists(c)}
      BY <1>2 DEF Selections, Exists
    <3>2. JobsOf(RunOf[j])' = JobsOf(RunOf[j]) /\ job'[j].depth = job[j].depth
      BY <1>2 DEF JobsOf, Exists
    <3>3. QED
      BY <1>1, <3>1, <3>2 DEF NewChildren, Expandable, RemainingCapacity, FirstByRank
  <2>4. QED
    BY <1>1, <1>3, <2>1, <2>2, <2>3 DEF EnqueuePromise, Selections
<1>4. ASSUME tx[s].op = "cancel", CancelPromise(s) PROVE CancelPromise(s)'
  <2>1. \A k \in Jobs : CancelledJob(k)' <=> CancelledJob(k)
    BY <1>2 DEF CancelledJob
  <2>2. QED
    BY <1>1, <1>4, <2>1 DEF CancelPromise, Cancellable
<1>5. QED
  BY <1>3, <1>4

\* So the clock breaks no promise.
LEMMA TickKeeps ==
  ASSUME SafeInv, TickLocked
  PROVE  Promises'
<1>1. Exclusive'
  BY Older DEF SafeInv, Promises, Exclusive
<1>2. ASSUME NEW s \in Sessions PROVE Promise(s)'
  <2>1. Promise(s) /\ tx'[s].op = tx[s].op
    BY OlderToo
  <2>2. tx'[s].age \in 0..MaxAge
    <3>1. CASE tx[s].op = "none"
      BY <2>1, <3>1, OlderToo DEF Promise
    <3>2. CASE tx[s].op # "none"
      BY <3>2, OlderToo
    <3>3. QED
      BY <3>1, <3>2
  <2>3. QED
    BY <2>1, <2>2, ClaimAges, ReportAges, OthersAge DEF Promise
<1>3. QED
  BY <1>1, <1>2 DEF Promises

-----------------------------------------------------------------------------
(* The invariant of the interleaved transactions *)

\* It holds before the first transaction.
LEMMA SafeInit == LockInit => SafeInv
<1> SUFFICES ASSUME LockInit PROVE SafeInv
  OBVIOUS
<1>1. StoreInv
  BY TypeInit, LeaseInit, TokenInit, StoredInit, VerdictInit, BudgetInit DEF LockInit, StoreInv
<1>2. \A s \in Sessions : tx[s] = NoTx /\ locks[s] = {}
  BY DEF LockInit
<1>3. NoTx.op = "none" /\ NoTx.age = 0
  BY DEF NoTx
<1>4. \A s \in Sessions : Promise(s)
  BY <1>2, <1>3, AgeAssumption DEF Promise
<1>5. Exclusive
  BY <1>2 DEF Exclusive
<1>6. QED
  BY <1>1, <1>4, <1>5, LockInvInit DEF SafeInv, Promises

\* Every step keeps it.
LEMMA SafeStep == SafeInv /\ [LockNext]_lockVars => SafeInv'
<1> SUFFICES ASSUME SafeInv, [LockNext]_lockVars PROVE SafeInv'
  OBVIOUS
<1>1. StoreInv' /\ LockInv' /\ TypeInv'
  BY StoreKept, LockStep DEF SafeInv, StoreInv
<1>2. CASE UNCHANGED lockVars
  <2>1. Exclusive'
    BY <1>2 DEF lockVars, SafeInv, Promises, Exclusive
  <2>2. ASSUME NEW s \in Sessions PROVE Promise(s)'
    <3>1. Respects(s)
      <4>1. \A k \in Jobs : job[k].drawn \in Nat
        BY DEF SafeInv, StoreInv, TypeInv, TypeOK, StoreTypeOK, JobRow
      <4>2. \A k \in Jobs : MovesOn(k) /\ SameForRun(k)
        BY <1>2, <4>1 DEF MovesOn, SameForRun, Exists, CancelledJob, lockVars, vars
      <4>3. QED
        BY <1>2, <4>2 DEF Respects, lockVars, vars
    <3>2. QED
      BY <1>1, <3>1, PromiseKept
  <2>3. QED
    BY <1>1, <2>1, <2>2 DEF SafeInv, Promises
<1>3. LockNext => Promises'
  BY <1>1, WorkerKeeps, ControlKeeps, VictimKeeps, TickKeeps DEF LockNext
<1>4. QED
  BY <1>1, <1>2, <1>3 DEF SafeInv

\* What the crawl keeps safe with its transactions taken as single steps stays
\* safe when they interleave lock by lock: with claims that read their window
\* before a campaign was paused, with clock readings a tick old, with processes
\* that die between two locks and transactions the database rolls back.
THEOREM SafeUnderLocks == LockSpec => []SafeUnderRowLocks
<1>1. SafeInv => SafeUnderRowLocks
  BY LeaseInvSuffices DEF SafeInv, StoreInv, TokenInv, StoredInv, VerdictInv,
     SafeUnderRowLocks
<1>2. QED
  BY SafeInit, SafeStep, <1>1, PTL DEF LockSpec

\* So does the page budget: an expansion counts the campaign's pages under the
\* campaign's lock, and no other adds one before it commits.
THEOREM BudgetUnderLocks == LockSpec => []WithinPageBudget
<1>1. SafeInv => WithinPageBudget
  BY DEF SafeInv, StoreInv
<1>2. QED
  BY SafeInit, SafeStep, <1>1, PTL DEF LockSpec

-----------------------------------------------------------------------------
(* Transactions that no tick overtook are single steps *)

\* A claim that is not late leases what claim_next_job would lease now.
LEMMA ClaimIsAtomic ==
  ASSUME SafeInv, NEW w \in Workers, CommitClaim(w), tx[w].age = 0, ~LateClaim(w)
  PROVE  \E j \in Jobs : Claim(w, j)
<1> USE StoreAssumption
<1> w \in Sessions
  BY DEF Sessions
<1>1. PICK j \in Jobs : j = Best(w)[1]
  BY ClaimCommits
<1> DEFINE d == DomainOf[j]
           token == FreshToken(j)
<1>2. Leases(w, j, LeaseSeconds)
  <2>1. LeaseSeconds - tx[w].age = LeaseSeconds
    OBVIOUS
  <2>2. Leases(w, j, LeaseSeconds - tx[w].age)
    BY <1>1, ClaimCommits
  <2>3. QED
    BY <2>1, <2>2, Zenon
<1>3. worker[w].pc = "idle" /\ Claimable(j) /\ HostReady(w, d) /\ tx[w].op = "claim"
  BY <1>1 DEF SafeInv, Promises, Promise, CommitClaim, ClaimPromise
<1>4. j \in Candidates
  BY <1>1, <1>3 DEF LateClaim, Claimable, Runnable
<1>5. DomainReady(d)
  <2>1. policy[d] \in PolicyRow
    BY DEF SafeInv, StoreInv, TypeInv, TypeOK, StoreTypeOK
  <2>2. QED
    BY <1>3, <2>1 DEF HostReady, DomainReady, PolicyRow, Expired
<1>6. ClaimRow(w, j, token) = [ClaimRow(w, j, token) EXCEPT !.left = LeaseSeconds]
  BY DEF ClaimRow
<1>7. /\ job' = [job EXCEPT ![j] = ClaimRow(w, j, token)]
      /\ policy' = [policy EXCEPT ![d] = [token |-> token, left |-> LeaseSeconds,
                                          pause |-> policy[d].pause]]
      /\ worker' = [worker EXCEPT ![w] = [pc |-> "fetch", token |-> token]]
      /\ UNCHANGED <<run, docs>>
  BY <1>2, <1>6 DEF Leases
<1>8. Claim(w, j)
  BY <1>3, <1>4, <1>5, <1>7 DEF Claim, ClaimNextJob
<1>9. QED
  BY <1>8

\* A report writes what complete_job or fail_job would write now.
LEMMA ReportIsAtomic ==
  ASSUME SafeInv, NEW w \in Workers, CommitReport(w), tx[w].age = 0
  PROVE  Complete(w) \/ Fail(w)
<1> USE StoreAssumption
<1> w \in Sessions
  BY DEF Sessions
<1>1. Settles(w, CrawlDelay)
  <2>1. CrawlDelay - tx[w].age = CrawlDelay
    OBVIOUS
  <2>2. Settles(w, CrawlDelay - tx[w].age)
    BY ReportCommits
  <2>3. QED
    BY <2>1, <2>2, Zenon
<1>2. PICK j \in Jobs : j = ClaimedJob(w)
  BY <1>1, AtWork DEF Settles, Working, SafeInv, StoreInv
<1>3. OwnsLiveLease(w, Claimed(w))
  <2>1. tx[w].op \in {"complete", "fail"} /\ tx[w].plan = <<>>
    BY DEF CommitReport, Reporting
  <2>2. RunRow(RunOf[j]) \in locks[w]
    BY <1>2, <2>1, AllLocked DEF SafeInv, Reports
  <2>3. OwnedWhenBegun(w)
    BY <2>1, <2>2 DEF SafeInv, Promises, Promise, ReportPromise
  <2>4. job[j].left \in Int
    BY DEF SafeInv, StoreInv, TypeInv, TypeOK, StoreTypeOK, JobRow, Expired
  <2>5. QED
    BY <1>2, <2>3, <2>4 DEF OwnedWhenBegun, OwnsLiveLease, ClaimedJob
<1>4. policy' = ReleaseDomainLease(DomainOf[j], Claimed(w))
  BY <1>1, <1>2 DEF Settles, FreedFor, ReleaseDomainLease
<1>5. /\ job' = [job EXCEPT ![j] = Released(j, ReportedStatus(w))]
      /\ run' = [run EXCEPT ![RunOf[j]] = ReportedVerdict(w)]
      /\ worker' = [worker EXCEPT ![w] = Idle] /\ docs' = docs
      /\ worker[w].pc \in {"complete", "fail"}
  BY <1>1, <1>2 DEF Settles
<1>6. CASE worker[w].pc = "complete"
  <2>1. ReportedStatus(w) = "SUCCEEDED"
    BY <1>6 DEF ReportedStatus
  <2>2. ReportedVerdict(w) = IF LastOpenJob(j) /\ run[RunOf[j]] = "RUNNING"
                             THEN "SUCCEEDED" ELSE run[RunOf[j]]
    BY <1>2, <1>6, <2>1 DEF ReportedVerdict
  <2>3. CompleteJob(w, Claimed(w))
    BY <1>2, <1>3, <1>4, <1>5, <2>1, <2>2 DEF CompleteJob, ClaimedJob
  <2>4. QED
    BY <1>5, <1>6, <2>3 DEF Complete
<1>7. CASE worker[w].pc = "fail"
  <2>1. ReportedStatus(w) = FailureStatus(j) /\ FailureStatus(j) # "SUCCEEDED"
    BY <1>2, <1>7 DEF ReportedStatus, FailureStatus
  <2>2. ReportedVerdict(w) = IF /\ FailureStatus(j) = "FAILED"
                                /\ LastOpenJob(j)
                                /\ run[RunOf[j]] = "RUNNING"
                             THEN FailureVerdict(RunOf[j]) ELSE run[RunOf[j]]
    BY <1>2, <1>7, <2>1 DEF ReportedVerdict
  <2>3. FailJob(w, Claimed(w))
    BY <1>2, <1>3, <1>4, <1>5, <2>1, <2>2 DEF FailJob, ClaimedJob
  <2>4. QED
    BY <1>5, <1>7, <2>3 DEF Fail
<1>8. QED
  BY <1>5, <1>6, <1>7

\* Only a session's own commit ends its transaction with something written.
LEMMA CommitIsAtomic ==
  ASSUME SafeInv, LockNext, NEW s \in Sessions,
         tx[s].op # "none", tx'[s].op = "none", tx[s].age = 0,
         storeVars' # storeVars, ~LateClaim(s)
  PROVE  Next
<1> USE DEF SafeInv, LockInv
<1>1. ASSUME NEW w \in Workers, WorkerLockStep(w) PROVE Next
  <2>1. CASE \/ BeginClaim(w) \/ TryCandidate(w) \/ LockHost(w) \/ ClaimNothing(w)
             \/ BeginReport(w) \/ BeginEnqueue(w) \/ NothingToEnqueue(w) \/ LockRow(w)
             \/ LoseLeaseLocked(w) \/ Between(w) \/ CrashLocked(w)
    BY <2>1 DEF BeginClaim, TryCandidate, LockHost, ClaimNothing, BeginReport, BeginEnqueue,
       BeginWork, NothingToEnqueue, LockRow, LoseLeaseLocked, Between, FetchPage,
       PersistDocument, ExpansionFails, Restart, CrashLocked, vars, storeVars
  <2>2. CASE CommitClaim(w) \/ CommitReport(w) \/ CommitEnqueue(w)
    <3>1. s = w
      BY <2>2 DEF CommitClaim, CommitReport, CommitEnqueue, End
    <3>2. QED
      BY <2>2, <3>1, ClaimIsAtomic, ReportIsAtomic, EnqueueCommits DEF Next, WorkerStep
  <2>3. QED
    BY <1>1, <2>1, <2>2 DEF WorkerLockStep
<1>2. ASSUME NEW r \in Runs, ControlLockStep(r) PROVE Next
  <2>1. CASE BeginCancel(r) \/ VisitJob(r) \/ LockJob(r)
    BY <2>1 DEF BeginCancel, VisitJob, LockJob, vars, storeVars
  <2>2. CASE ShortControl(r)
    BY <2>2 DEF ShortControl
  <2>3. CASE CommitCancel(r)
    BY <2>3, CancelCommits DEF Next, Control
  <2>4. QED
    BY <1>2, <2>1, <2>2, <2>3 DEF ControlLockStep
<1>3. ASSUME NEW t \in Sessions, DeadlockVictim(t) PROVE Next
  BY <1>3 DEF DeadlockVictim
<1>4. CASE TickLocked
  BY <1>4, OlderToo
<1>5. QED
  BY <1>1, <1>2, <1>3, <1>4 DEF LockNext

\* Every other module takes a transaction as one step.  Under the locks it is
\* one: what it commits, unless a tick overtook it or its claim came late, is
\* what the whole transaction would have written at the moment it commits.
THEOREM TransactionsAreAtomic == LockSpec => CommitsAreAtomic
<1>1. SafeInv /\ [LockNext]_lockVars =>
        [\A s \in Sessions :
           (/\ tx[s].op # "none" /\ tx'[s].op = "none"
            /\ tx[s].age = 0 /\ storeVars' # storeVars /\ ~LateClaim(s)) => Next]_lockVars
  BY CommitIsAtomic
<1>2. QED
  BY SafeInit, SafeStep, <1>1, PTL DEF LockSpec, CommitsAreAtomic

\* However they interleave, verdicts and job results are never revised.
THEOREM ResultsFinalUnderLocks == LockSpec => ResultsAreFinal
<1>1. SafeInv /\ [LockNext]_lockVars =>
        [/\ \A r \in Runs : run[r] \in CompletedRun => run'[r] = run[r]
         /\ \A j \in Jobs : job[j].status \in TerminalJobStatuses =>
                              job'[j] = job[j]]_vars
  BY LocksAreUntimed, FinalUntimed DEF Final, SafeInv, StoreInv
<1>2. QED
  BY SafeInit, SafeStep, <1>1, PTL DEF LockSpec, ResultsAreFinal

=============================================================================
