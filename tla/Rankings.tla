------------------------------ MODULE Rankings ------------------------------
(***************************************************************************)
(* Building and publishing leaderboards (internal/rankings).  Workers of   *)
(* several processes pass over a repair queue, the snapshot of the hour    *)
(* and the closed periods; an administrator orders and publishes repairs.  *)
(* What the workers share is the database: immutable snapshots, one        *)
(* pointer per period and metric, and the repair jobs.                     *)
(*                                                                         *)
(* One transaction is one step; between the steps of a pass the hour, the  *)
(* period, the maintenance gate, the results, the pointers and the jobs    *)
(* may change.  A snapshot is told by its kind, the hour it was built in   *)
(* and how many results of its period it has seen: entries are not         *)
(* modelled.  One domain at a time, and one kind of period.                *)
(***************************************************************************)
EXTENDS Naturals

CONSTANTS Domain,        \* "GAMES" or "RP"
          Metrics,       \* the metrics of the domain
          Workers,       \* the processes that run the worker
          PeriodHours,   \* hours of a period (24 or 168 in the code)
          MaxHours,      \* bound on the hours that pass
          MaxResults,    \* bound on the results of a period
          MaxJobs,       \* bound on the repairs that are ordered
          AttemptLimit,  \* claims of a job before it fails (10 in the code)
          MaxFaults,     \* bound on the failures of the routine work and on
                         \* how often maintenance begins
          Repairable     \* the metrics of which repairs are ordered

VARIABLES hour, gate,    \* the clock; RANKINGS_PUBLISHING maintenance
          results,       \* per period the settled results or imported requests
          routine,       \* per period its newest routine snapshot
          pointer,       \* per period and metric the published snapshot
          job,           \* rankings.rebuild_jobs
          shadow,        \* the jobs that have a snapshot
          repaired,      \* the jobs whose snapshot was published
          worker,        \* where each worker is
          faults         \* those failures and beginnings so far
rankingVars == <<hour, gate, results, routine, pointer, job, shadow, repaired,
                 worker, faults>>

Jobs == 1..MaxJobs
\* periodBounds: the period an hour lies in.
PeriodOf(h) == (h - 1) \div PeriodHours + 1
Periods == 1..PeriodOf(MaxHours)
Closed == {p \in Periods : p < PeriodOf(hour)}

Snapshot(kind, p) == [kind |-> kind, at |-> hour, seen |-> results[p]]
NoSnapshot == [kind |-> "NONE", at |-> 0, seen |-> 0]
NoJob == [status |-> "NONE", metric |-> "NONE", period |-> 0, attempts |-> 0, old |-> FALSE,
          snap |-> NoSnapshot]
AtStart == [step |-> "CLAIM", job |-> 0, attempt |-> 0, at |-> 0, period |-> 0, snap |-> NoSnapshot]

RankingsInit ==
    /\ hour = 1 /\ gate \in BOOLEAN /\ faults = 0
    /\ results = [p \in Periods |-> 0]
    /\ routine = [p \in Periods |-> NoSnapshot]
    /\ pointer = [p \in Periods |-> [m \in Metrics |-> NoSnapshot]]
    /\ shadow = {} /\ repaired = {}
    /\ job = [j \in Jobs |-> NoJob]
    /\ worker = [w \in Workers |-> AtStart]

\* The next part of a pass, which keeps nothing of the one before.
NextPart(w, step) == worker' = [worker EXCEPT ![w] = [AtStart EXCEPT !.step = step]]
ActiveJob(j) == job[j].status \in {"PENDING", "RUNNING"}
world == <<hour, gate, results, faults>>
-----------------------------------------------------------------------------
(* Repairs. *)

\* createRebuild takes any period that has begun, published or not, and refuses a
\* second active job of the slice.
CreateRebuild(j, p, m) ==
    /\ job[j].status = "NONE" /\ \A i \in Jobs : i < j => job[i].status # "NONE"
    /\ p <= PeriodOf(hour)
    /\ \A i \in Jobs : job[i].metric = m /\ job[i].period = p => ~ActiveJob(i)
    /\ job' = [job EXCEPT ![j] = [NoJob EXCEPT !.status = "PENDING", !.metric = m, !.period = p]]
    /\ UNCHANGED <<world, routine, pointer, shadow, repaired, worker>>

\* Two minutes without an update: the worker of a running job is taken for dead.
ClaimOverdue(j) ==
    /\ job[j].status = "RUNNING" /\ ~job[j].old
    /\ job' = [job EXCEPT ![j].old = TRUE]
    /\ UNCHANGED <<world, routine, pointer, shadow, repaired, worker>>

\* claimRebuildJob: pending, or running and overdue.
claimable(j) == job[j].status = "PENDING" \/ (job[j].status = "RUNNING" /\ job[j].old)
\* The oldest first; a job claimed too often fails.
claimRebuildJob(w) ==
    /\ worker[w].step = "CLAIM"
    /\ \/ /\ \A j \in Jobs : ~claimable(j)
          /\ NextPart(w, "CHECK") /\ UNCHANGED job
       \/ \E j \in Jobs :
             /\ claimable(j) /\ \A i \in Jobs : i < j => ~claimable(i)
             /\ IF job[j].attempts >= AttemptLimit
                THEN job' = [job EXCEPT ![j].status = "FAILED"] /\ NextPart(w, "CHECK")
                ELSE /\ job' = [job EXCEPT ![j] = [@ EXCEPT !.status = "RUNNING", !.old = FALSE,
                                                            !.attempts = @ + 1]]
                     /\ worker' = [worker EXCEPT ![w] = [@ EXCEPT !.step = "REPAIR", !.job = j,
                                                     !.attempt = job[j].attempts + 1]]
    /\ UNCHANGED <<world, routine, pointer, shadow, repaired>>

\* RunRebuildStep: the claim is checked again under the lock of the row, the
\* snapshot is built (or found, by its operation) and the job becomes a shadow.
BuildRepair(w) ==
    LET j == worker[w].job
        mine == job[j].status = "RUNNING" /\ job[j].attempts = worker[w].attempt
    IN  /\ worker[w].step = "REPAIR"
        /\ IF mine
           THEN /\ shadow' = shadow \cup {j}
                /\ job' = [job EXCEPT ![j] = [@ EXCEPT !.status = "SHADOW",
                                                 !.snap = Snapshot("REPAIR", job[j].period)]]
                /\ NextPart(w, "CHECK")
           ELSE worker' = [worker EXCEPT ![w].step = "RECORD"] /\ UNCHANGED <<shadow, job>>
        /\ UNCHANGED <<world, routine, pointer, repaired>>
\* The inputs cannot be read, or the transaction fails.
RepairFails(w) ==
    /\ worker[w].step = "REPAIR" /\ worker' = [worker EXCEPT ![w].step = "RECORD"]
    /\ UNCHANGED <<world, routine, pointer, job, shadow, repaired>>

\* Mutant: the failure is recorded whoever has the job now.
recordableAnyway(w) == job[worker[w].job].status # "NONE"
\* The failure counts only while the job is running under this claim.
recordable(w) ==
    job[worker[w].job].status = "RUNNING" /\ job[worker[w].job].attempts = worker[w].attempt
\* recordRebuildFailure: an input that is not valid, or the last attempt, is final.
recordRebuildFailure(w) ==
    /\ worker[w].step = "RECORD"
    /\ \/ /\ recordable(w)
          /\ \E final \in BOOLEAN :
                job' = [job EXCEPT ![worker[w].job].status =
                           IF final \/ worker[w].attempt >= AttemptLimit THEN "FAILED" ELSE "PENDING"]
       \/ UNCHANGED job
    /\ NextPart(w, "CHECK")
    /\ UNCHANGED <<world, routine, pointer, shadow, repaired>>

\* publishRepair: once per shadow, not in maintenance.  One metric's pointer is
\* replaced, or inserted when the period has none.
publishRepair(j) ==
    /\ job[j].status = "SHADOW" /\ j \notin repaired /\ ~gate
    /\ pointer' = [pointer EXCEPT ![job[j].period][job[j].metric] = job[j].snap]
    /\ repaired' = repaired \cup {j}
    /\ UNCHANGED <<world, routine, job, shadow, worker>>
-----------------------------------------------------------------------------
(* The snapshot of the hour. *)

\* scheduledSnapshot: every pointer of the period is at a snapshot of the hour.
fresh(p, at) == \A m \in Metrics : pointer[p][m].kind # "NONE" /\ pointer[p][m].at >= at
\* A routine snapshot of the hour, not published yet; its source check may be older
\* than five minutes.
reusable(p, at) == {s \in {routine[p]} : s.kind = "READY" /\ s.at >= at}

\* buildScheduled takes the hour and the period of its start through the pass.
CheckScheduled(w) ==
    LET p == PeriodOf(hour)
    IN  /\ worker[w].step = "CHECK"
        /\ IF fresh(p, hour) THEN NextPart(w, "BACKFILL")
           ELSE \/ \E s \in reusable(p, hour) :
                      worker' = [worker EXCEPT ![w] = [@ EXCEPT !.step = "PUBLISH", !.period = p, !.snap = s]]
                \/ worker' = [worker EXCEPT ![w] = [@ EXCEPT !.step = "BUILD", !.period = p, !.at = hour]]
        /\ UNCHANGED <<world, routine, pointer, job, shadow, repaired>>
\* Under the lock of the hour, after the inputs were read: checked again, built.
BuildScheduled(w) ==
    LET p == worker[w].period
    IN  /\ worker[w].step = "BUILD"
        /\ IF fresh(p, worker[w].at) THEN NextPart(w, "BACKFILL") /\ UNCHANGED routine
           ELSE /\ \/ reusable(p, worker[w].at) # {} /\ UNCHANGED routine
                   \/ routine' = [routine EXCEPT ![p] = Snapshot("READY", p)]
                /\ worker' = [worker EXCEPT ![w] = [@ EXCEPT !.step = "PUBLISH", !.at = 0,
                                                             !.snap = routine'[p]]]
        /\ UNCHANGED <<world, pointer, job, shadow, repaired>>

\* publishRoutine: all metrics in one transaction, whatever they show now;
\* maintenance keeps the build.
publishRoutine(w) ==
    /\ worker[w].step \in {"PUBLISH", "PUBLISH_PAST"}
    /\ pointer' = IF gate THEN pointer
                  ELSE [pointer EXCEPT ![worker[w].period] =
                            [m \in Metrics |-> [worker[w].snap EXCEPT !.kind = "ROUTINE"]]]
    /\ NextPart(w, IF worker[w].step = "PUBLISH" THEN "BACKFILL" ELSE "CLAIM")
    /\ UNCHANGED <<world, routine, job, shadow, repaired>>
-----------------------------------------------------------------------------
(* The closed periods. *)

Published(p) == {m \in Metrics : pointer[p][m].kind # "NONE"}
\* A request that was imported after the oldest published snapshot was built.
ImportedLate(p) == Domain = "RP" /\ \E m \in Published(p) : pointer[p][m].seen < results[p]
missing(p) == Published(p) = {} \/ ImportedLate(p)
\* repairMissingPeriod: the oldest closed period that has no pointer at all or,
\* for requests, was published before its last import.
repairMissingPeriod(w) ==
    /\ worker[w].step = "BACKFILL"
    /\ \/ (\A p \in Closed : ~missing(p)) /\ worker' = [worker EXCEPT ![w] = AtStart]
       \/ \E p \in Closed :
             /\ missing(p) /\ \A q \in Closed : missing(q) => p <= q
             /\ worker' = [worker EXCEPT ![w].step = "BUILD_PAST", ![w].period = p]
    /\ UNCHANGED <<world, routine, pointer, job, shadow, repaired>>
\* Build: always a snapshot of its own.
Build(w) ==
    LET p == worker[w].period
    IN  /\ worker[w].step = "BUILD_PAST"
        /\ routine' = [routine EXCEPT ![p] = Snapshot("READY", p)]
        /\ worker' = [worker EXCEPT ![w] = [@ EXCEPT !.step = "PUBLISH_PAST", !.snap = routine'[p]]]
        /\ UNCHANGED <<world, pointer, job, shadow, repaired>>

\* A source that does not answer, an error of the database or the end of the
\* process: the next pass starts over.
PassFails(w) ==
    /\ worker[w].step \in {"BUILD", "PUBLISH", "BUILD_PAST", "PUBLISH_PAST"}
    /\ faults < MaxFaults /\ faults' = faults + 1
    /\ worker' = [worker EXCEPT ![w] = AtStart]
    /\ UNCHANGED <<hour, gate, results, routine, pointer, job, shadow, repaired>>
-----------------------------------------------------------------------------
(* The world. *)

records == <<pointer, job, shadow, repaired, worker, faults>>
NextHour ==
    /\ hour < MaxHours /\ hour' = hour + 1
    /\ UNCHANGED <<records, gate, results, routine>>
\* A game settles within the period; a request may be imported long after it.
NewResult(p) ==
    /\ p = PeriodOf(hour) \/ (Domain = "RP" /\ p \in Closed)
    /\ results[p] < MaxResults /\ results' = [results EXCEPT ![p] = @ + 1]
    /\ UNCHANGED <<records, hour, gate, routine>>
SetGate ==
    /\ gate' = ~gate
    /\ IF gate THEN UNCHANGED faults ELSE faults < MaxFaults /\ faults' = faults + 1
    /\ UNCHANGED <<hour, results, routine, pointer, job, shadow, repaired, worker>>

WorkerStep(w) ==
    \/ claimRebuildJob(w) \/ BuildRepair(w) \/ RepairFails(w) \/ recordRebuildFailure(w)
    \/ CheckScheduled(w) \/ BuildScheduled(w) \/ publishRoutine(w)
    \/ repairMissingPeriod(w) \/ Build(w)

RankingsNext ==
    \/ \E j \in Jobs : \/ \E p \in Periods, m \in Repairable : CreateRebuild(j, p, m)
                       \/ ClaimOverdue(j) \/ publishRepair(j)
    \/ \E w \in Workers : WorkerStep(w) \/ PassFails(w)
    \/ NextHour \/ SetGate
    \/ \E p \in Periods : NewResult(p)

\* Every worker wakes each minute, and the two minutes of a claim pass.
RankingsFairness ==
    /\ \A w \in Workers : WF_rankingVars(WorkerStep(w))
    /\ \A j \in Jobs : WF_rankingVars(ClaimOverdue(j))

RankingsSpec == RankingsInit /\ [][RankingsNext]_rankingVars /\ RankingsFairness
-----------------------------------------------------------------------------
\* A repair is built once and its job tells so: the job is a shadow exactly when its
\* snapshot exists, although a claim was lost to a second worker which finished, and
\* the first comes back with a build or a failure; and every job ends, a shadow or
\* failed, however often its worker dies.
RebuildSettles ==
    /\ [](\A j \in Jobs : job[j].status = "SHADOW" <=> j \in shadow)
    /\ \A j \in Jobs : []<>(~ActiveJob(j))

\* What is promised of a closed period: it is published, all its metrics unless a
\* repair of some of them was; what is published of requests has seen every import.
ClosedServed(p) ==
    /\ \/ Published(p) = Metrics
       \/ \E m \in Metrics : pointer[p][m].kind = "REPAIR"
    /\ Domain = "RP" => \A m \in Published(p) : pointer[p][m].seen = results[p]

=============================================================================
