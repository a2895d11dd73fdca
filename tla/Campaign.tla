------------------------------ MODULE Campaign ------------------------------
(***************************************************************************)
(* What OpenRevive promises about a campaign, without workers, leases,      *)
(* hosts, retries or time: a campaign is a phase and the pages it still     *)
(* owes.  Pages are added only while it is under way, each page is settled  *)
(* once, and the settling of the last page of a running campaign is also    *)
(* the verdict on it.                                                       *)
(***************************************************************************)
CONSTANTS Campaigns, Pages

VARIABLES
  phase,   \* phase[c]: the status shown to the client
  owed,    \* owed[c]: the pages not settled yet
  won,     \* won[c]: the pages crawled
  lost     \* lost[c]: the pages given up

campaignVars == <<phase, owed, won, lost>>

Init ==
  /\ phase = [c \in Campaigns |-> "PENDING"]
  /\ owed \in [Campaigns -> (SUBSET Pages) \ {{}}]
  /\ won = [c \in Campaigns |-> {}]
  /\ lost = [c \in Campaigns |-> {}]

\* The verdicts that w crawled and l lost pages justify.  With both, the code
\* may answer either way: it depends on which page was settled last.
Verdicts(w, l) ==
  {v \in {"SUCCEEDED", "PARTIALLY_SUCCEEDED", "FAILED"} :
     /\ v = "SUCCEEDED" => w # {}
     /\ v = "PARTIALLY_SUCCEEDED" => w # {} /\ l # {}
     /\ v = "FAILED" => w = {} /\ l # {}}

Start(c) ==
  /\ phase[c] = "PENDING"
  /\ phase' = [phase EXCEPT ![c] = "RUNNING"]
  /\ UNCHANGED <<owed, won, lost>>

Pause(c) ==
  /\ phase[c] = "RUNNING"
  /\ phase' = [phase EXCEPT ![c] = "PAUSED"]
  /\ UNCHANGED <<owed, won, lost>>

\* A campaign whose last page was settled during the pause resumes to its
\* verdict, any other one to RUNNING.
Resume(c) ==
  /\ phase[c] = "PAUSED"
  /\ \E p \in IF owed[c] = {} THEN Verdicts(won[c], lost[c]) ELSE {"RUNNING"} :
       phase' = [phase EXCEPT ![c] = p]
  /\ UNCHANGED <<owed, won, lost>>

\* Pages in flight stay owed until their worker settles them.
Cancel(c) ==
  /\ phase[c] \in {"PENDING", "RUNNING", "PAUSED"}
  /\ phase' = [phase EXCEPT ![c] = "CANCELLED"]
  /\ \E inFlight \in SUBSET owed[c] : owed' = [owed EXCEPT ![c] = inFlight]
  /\ UNCHANGED <<won, lost>>

Discover(c, S) ==
  /\ phase[c] \in {"RUNNING", "PAUSED"}
  /\ S \cap (owed[c] \cup won[c] \cup lost[c]) = {}
  /\ owed' = [owed EXCEPT ![c] = @ \cup S]
  /\ UNCHANGED <<phase, won, lost>>

\* Page p of c is settled; w and l are the pages of c crawled and lost then.
Settle(c, p, w, l) ==
  /\ p \in owed[c]
  /\ owed' = [owed EXCEPT ![c] = @ \ {p}]
  /\ won' = [won EXCEPT ![c] = w]
  /\ lost' = [lost EXCEPT ![c] = l]
  /\ \E v \in IF phase[c] = "RUNNING" /\ owed[c] = {p}
              THEN Verdicts(w, l) ELSE {phase[c]} :
       phase' = [phase EXCEPT ![c] = v]

Crawled(c, p) == Settle(c, p, won[c] \cup {p}, lost[c])

GivenUp(c, p) ==
  phase[c] # "CANCELLED" /\ Settle(c, p, won[c], lost[c] \cup {p})

\* A page in flight when its campaign was cancelled is dropped if it fails.
Dropped(c, p) == phase[c] = "CANCELLED" /\ Settle(c, p, won[c], lost[c])

Next ==
  \E c \in Campaigns :
    \/ Start(c)
    \/ Pause(c)
    \/ Resume(c)
    \/ Cancel(c)
    \/ \E S \in SUBSET Pages : Discover(c, S)
    \/ \E p \in Pages : Crawled(c, p) \/ GivenUp(c, p) \/ Dropped(c, p)

Spec == Init /\ [][Next]_campaignVars

=============================================================================
