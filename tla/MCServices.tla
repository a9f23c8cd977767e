----------------------------- MODULE MCServices -----------------------------
(***************************************************************************)
(* What the workers owe the users in the end.  A behaviour moves the       *)
(* rankings, their repairs or the registrations; the workers of the other  *)
(* module are off.                                                         *)
(***************************************************************************)
EXTENDS Rankings, Registration, FiniteSetsExt

CONSTANT MaxEvents  \* bound on failures, results and repairs together

VARIABLE focus      \* what the behaviour moves

Events == faults + MapThenSumSet(LAMBDA p : results[p], Periods)
                 + Cardinality({j \in Jobs : job[j].status # "NONE"})

\* The repairs and the workers alone, in the first hour, and nothing published of what
\* they build: more repairs and claims, of any metric.
Repairs == INSTANCE Rankings WITH
    MaxHours <- PeriodHours, MaxResults <- 0, MaxFaults <- 0,
    AttemptLimit <- AttemptLimit + 1, Repairable <- Metrics
RepairsNext == Repairs!RankingsNext /\ hour' = 1 /\ gate' = gate /\ repaired' = {}

NoRankings ==
    /\ hour = 1 /\ gate = TRUE /\ faults = 0
    /\ results = [p \in Periods |-> 0] /\ routine = [p \in Periods |-> NoSnapshot]
    /\ pointer = [p \in Periods |-> [m \in Metrics |-> NoSnapshot]]
    /\ shadow = {} /\ repaired = {} /\ job = [j \in Jobs |-> NoJob]
    /\ worker = [w \in Workers |-> [AtStart EXCEPT !.step = "OFF"]]

NoRegistrations ==
    /\ receipts = <<>> /\ suspended = TRUE /\ cursor = 0 /\ inbox = <<>> /\ lost = 0
    /\ grant = [o \in Ordinals |-> "NONE"] /\ due = {} /\ issued = {}
    /\ registrar = [w \in Registrars |-> [CycleStart EXCEPT !.step = "OFF"]]

MCInit ==
    /\ focus \in {"rankings", "rebuilds", "registration"}
    /\ IF focus = "registration" THEN NoRankings ELSE RankingsInit /\ ~gate
    /\ IF focus = "registration" THEN RegistrationInit ELSE NoRegistrations

MCNext ==
    \/ focus = "rankings" /\ RankingsNext /\ Events' <= MaxEvents /\ job'[2] = NoJob
       /\ UNCHANGED <<focus, registrationVars>>
    \/ focus = "rebuilds" /\ RepairsNext /\ UNCHANGED <<focus, registrationVars>>
    \/ focus = "registration" /\ RegistrationNext /\ UNCHANGED <<focus, rankingVars>>

\* RankingsFairness, of what the behaviour moves.
WorkOf(w) == IF focus = "rebuilds" THEN Repairs!WorkerStep(w) ELSE WorkerStep(w)

MCSpec ==
    /\ MCInit /\ [][MCNext]_<<focus, rankingVars, registrationVars>>
    /\ RegistrationFairness
    /\ \A w \in Workers : WF_rankingVars(WorkOf(w))
    /\ \A j \in Jobs : WF_rankingVars(ClaimOverdue(j))
=============================================================================
