------------------------ MODULE FrontierPersistence ------------------------
(***************************************************************************)
(* crawler/frontier_persistence.py: one transaction adds the links a root   *)
(* page discovered to the frontier, within the campaign's page budget.  The *)
(* caller's lease is not checked: a worker whose job was reclaimed may      *)
(* still run it, against whatever the campaign has become meanwhile.        *)
(***************************************************************************)
EXTENDS CampaignStore

\* URLs come from requests and pages of bounded size: there are finitely many.
ASSUME FrontierAssumption == IsFiniteSet(Jobs)

\* Mutated form of Expandable: the campaign's status is not read.
ExpandableInAnyRun(parent) == job[parent].depth < MaxDepth

\* The early returns: a campaign under way, and a page above the depth limit.
Expandable(parent) ==
  /\ run[RunOf[parent]] \in {"RUNNING", "PAUSED"}
  /\ job[parent].depth < MaxDepth

\* Mutated form of RemainingCapacity: the seeds do not count.
RemainingCapacityOfChildren(r) ==
  MaxPages - Cardinality({j \in JobsOf(r) : job[j].depth > 0})

RemainingCapacity(r) == MaxPages - Cardinality(JobsOf(r))

\* The children one enqueue inserts: candidates S that are not in the
\* campaign yet, best first, cut off at the remaining capacity.
NewChildren(parent, S) ==
  IF Expandable(parent)
  THEN FirstByRank({c \in S : ~Exists(c)}, RemainingCapacity(RunOf[parent]))
  ELSE {}

EnqueueDiscoveredLinks(parent, S) ==
  /\ job' = [k \in Jobs |-> IF k \in NewChildren(parent, S)
                            THEN NewJob(job[parent].depth + 1)
                            ELSE job[k]]
  /\ UNCHANGED <<run, policy>>

=============================================================================
