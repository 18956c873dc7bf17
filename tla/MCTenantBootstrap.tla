------------------------- MODULE MCTenantBootstrap -------------------------
(***************************************************************************)
(* A small instance of the Tenant bootstrap in two scenarios: dispatchers  *)
(* that race for the jobs of one operation, and recoveries that race its   *)
(* recipient and each other.                                               *)
(***************************************************************************)
EXTENDS TenantBootstrap, TLC

CONSTANTS ann, w1, r1
VARIABLE part

Requested == {r \in Recoveries : recovery[r].status # "absent"}

\* Two dispatchers, retries, reissues; nobody is replaced.
Dispatching == part = "dispatch" /\ Requested = {}

\* One dispatcher and two recoveries, that of r1 requested first.
Recovering ==
  /\ part = "recovery"
  /\ inv.generation <= 1
  /\ \A j \in Jobs : jobs[j].cycle = 0
  /\ Requested # {} => r1 \in Requested
Running == IF part = "dispatch" THEN Workers ELSE {w1}

Scenario ==
  /\ Dispatching \/ Recovering
  /\ core.email \in {ann, None}
  /\ \A w \in Workers \ Running : worker[w] = Idle

mcVars == <<vars, part>>
MCInit == Init /\ part \in {"dispatch", "recovery"}
MCNext == UNCHANGED part /\ Next /\ Scenario'

\* The scenarios restrict what people do and which dispatchers run; those
\* that run, and the clock, are as fair as in FairSpec.
MCFairness ==
  /\ \A w \in Workers : WF_mcVars(w \in Running /\ DispatchNext(w) /\ UNCHANGED part)
  /\ \A j \in Jobs : WF_mcVars(LeaseElapses(j) /\ UNCHANGED part)

MCSpec == MCInit /\ [][MCNext]_mcVars /\ MCFairness
=============================================================================
