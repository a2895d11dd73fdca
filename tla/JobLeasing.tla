----------------------------- MODULE JobLeasing -----------------------------
(***************************************************************************)
(* crawler/job_leasing.py: a claim leases one runnable job to a worker and  *)
(* reserves the job's host; the reservation is released, and the host's     *)
(* cooldown started, when the job is finalized.                             *)
(*                                                                          *)
(* A transaction is one atomic step.  SKIP LOCKED lets a claim pass over a  *)
(* job some concurrent transaction has locked, so the job it ends up with   *)
(* may be any of the candidate window whose host is ready.                  *)
(***************************************************************************)
EXTENDS CampaignStore

CONSTANT MaxCandidates   \* MAX_CANDIDATES_PER_CLAIM, 32 in the code

ASSUME WindowAssumption == MaxCandidates \in Nat \ {0}

\* Mutated form of Runnable: the retry budget is off by one.
RunnablePastBudget(j) ==
  /\ run[RunOf[j]] = "RUNNING"
  /\ job[j].attempts <= MaxAttempts
  /\ \/ job[j].status \in {"PENDING", "RETRY_PENDING"}
     \/ job[j].status = "LEASED" /\ job[j].left < 0

\* The WHERE clause shared by the candidate query and the locking query.
Runnable(j) ==
  /\ run[RunOf[j]] = "RUNNING"
  /\ job[j].attempts < MaxAttempts
  /\ \/ job[j].status \in {"PENDING", "RETRY_PENDING"}
     \/ job[j].status = "LEASED" /\ job[j].left < 0

Candidates == FirstByRank({j \in Jobs : Runnable(j)}, MaxCandidates)

\* Mutated form of DomainReady: only the cooldown is checked.
DomainCooledDown(d) == policy[d].pause <= 0

\* Neither an active request nor a cooldown holds the host back.
DomainReady(d) == policy[d].left <= 0 /\ policy[d].pause <= 0

\* A claim draws a fresh uuid4, whatever the job's attempt count: no claim has
\* drawn this token before.
FreshToken(j) == <<j, job[j].drawn + 1>>

\* Row j leased to w under the token just drawn; the claim spends an attempt.
ClaimRow(w, j, token) ==
  [status |-> "LEASED", depth |-> job[j].depth,
   attempts |-> job[j].attempts + 1, drawn |-> job[j].drawn + 1,
   owner |-> w, token |-> token, left |-> LeaseSeconds]

\* Worker w leases job j and reserves its host.
ClaimNextJob(w, j) ==
  /\ j \in Candidates
  /\ DomainReady(DomainOf[j])
  /\ LET token == FreshToken(j)
     IN  /\ job' = [job EXCEPT ![j] = ClaimRow(w, j, token)]
         /\ policy' = [policy EXCEPT ![DomainOf[j]] =
                         [token |-> token, left |-> LeaseSeconds,
                          pause |-> policy[DomainOf[j]].pause]]
  /\ UNCHANGED run

\* The policy rows after release_domain_lease(d, token).
ReleaseDomainLease(d, token) ==
  IF policy[d].token # token
  THEN policy
  ELSE [policy EXCEPT ![d] =
          [token |-> Null, left |-> Expired, pause |-> CrawlDelay]]

=============================================================================
