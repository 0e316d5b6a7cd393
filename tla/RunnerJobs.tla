----------------------------- MODULE RunnerJobs -----------------------------
(***************************************************************************)
(* Jobs delegated to remote runners: the dispatcher and the receiver       *)
(* (runner/dispatcher.go, runner/receiver.go), their statements            *)
(* (store/runner_sqlite.go), the delegation and the ingestion of results   *)
(* (tryDelegateScan and ingestRunnerResult, main.go), the enqueue and      *)
(* cancel handlers (api/runner_handler.go), the worker loop                *)
(* (runner/worker.go) and the clean-up at startup.                         *)
(*                                                                         *)
(* A request is identified with the job it asks for and with its scan row. *)
(* Every SQL statement is an action, except the two of a claim: whatever   *)
(* comes between them can as well come before both.  Jobs share one        *)
(* lifetime, so they pass their expiry in the order they were created in.  *)
(***************************************************************************)
EXTENDS Naturals, FiniteSets, Sequences

CONSTANTS
    Jobs,       \* requests, each for one job
    KindOf,     \* the kind of each request, see Kinds
    Workers,    \* bound: jobs that runners hold, and results being handled, at once
    NoJob,      \* what an idle worker holds
    MaxJobs,    \* runner_max_concurrent_jobs
    Conditions  \* what may happen, see ConditionKinds

(* "auto"      a full scan, runner_policy auto: core scans when refused    *)
(* "strict"    a full scan, any other delegating policy: fails when refused*)
(* "typed"     EnqueueDelegatedJob: its row is created by the handler      *)
(* "container" EnqueueScan of an image: not limited, and without scan row  *)
Kinds == {"auto", "strict", "typed", "container"}

(* "overlap"  a request is dispatched while another is being dispatched    *)
(* "named"    a worker is started on a job by its id, without claiming it  *)
(* "refuse"   a runner submits a failed result                             *)
(* "lapse"    a job outlives expires_at                                    *)
(* "cancel"   an operator cancels a job                                    *)
(* "crash"    a worker dies, times out, or loses the answer to a claim     *)
(* "restart"  the core process restarts                                    *)
(* "store"    an insert or the persistence of findings fails               *)
ConditionKinds ==
    {"overlap", "named", "refuse", "lapse", "cancel", "crash", "restart", "store"}

ASSUME JobsAssumption == NoJob \notin Jobs /\ KindOf \in [Jobs -> Kinds]
ASSUME MaxJobsAssumption == MaxJobs \in Nat \ {0}
ASSUME ConditionsAssumption == Conditions \subseteq ConditionKinds

VARIABLES
    disp,    \* how far each request's dispatch is
    job,     \* status of the job's row, "none" before the insert
    scan,    \* status of the scan's row
    order,   \* jobs by created_at
    lapsed,  \* how many jobs of order are past expires_at
    work,    \* the job each worker holds, and the handling of its result
    crowded, \* history: requests counted against the limit while another that
             \* had been counted was not inserted yet
    raced    \* history: jobs a result of which was accepted while another
             \* result of the job was being handled

vars == <<disp, job, scan, order, lapsed, work, crowded, raced>>
rows == <<job, scan>>
clock == <<order, lapsed>>
history == <<crowded, raced>>

ActiveStatus == {"queued", "running"}
FinalStatus == {"completed", "failed", "cancelled", "expired"}
Idle == [at |-> "idle", job |-> NoJob, claim |-> FALSE, ok |-> TRUE, gone |-> FALSE]

Active == {j \in Jobs : job[j] \in ActiveStatus}
Limited == {j \in Jobs : KindOf[j] # "container"}
Past(j) == \E i \in 1..lapsed : order[i] = j

Init ==
    /\ disp = [j \in Jobs |-> "idle"]
    /\ job = [j \in Jobs |-> "none"]
    /\ scan = [j \in Jobs |-> "none"]
    /\ order = <<>>
    /\ lapsed = 0
    /\ work = [w \in Workers |-> Idle]
    /\ crowded = {}
    /\ raced = {}

(***************************************************************************)
(* Dispatch.                                                               *)
(***************************************************************************)
Dispatching == {j \in Jobs : disp[j] \in {"begun", "counted"}}

\* The request's row is started; an image scan has none, and goes straight
\* to its insert.
Begin(j) ==
    /\ disp[j] = "idle"
    /\ "overlap" \in Conditions \/ Dispatching = {}
    /\ IF j \in Limited
       THEN /\ disp' = [disp EXCEPT ![j] = "begun"]
            /\ scan' = [scan EXCEPT ![j] = "started"]
            /\ UNCHANGED order
       ELSE /\ disp' = [disp EXCEPT ![j] = "counted"]
            /\ order' = Append(order, j)
            /\ UNCHANGED scan
    /\ UNCHANGED <<job, lapsed, work, history>>

\* Mutant: a failed delegation leaves the row to the runner.
Refused_LeavesRow(j) ==
    /\ disp' = [disp EXCEPT ![j] = IF KindOf[j] = "auto" THEN "core" ELSE "done"]
    /\ UNCHANGED scan

\* Mutant: a refused scan is recorded as skipped.
Refused_Skips(j) ==
    /\ disp' = [disp EXCEPT ![j] = IF KindOf[j] = "auto" THEN "core" ELSE "done"]
    /\ scan' = [scan EXCEPT ![j] = IF KindOf[j] # "auto" THEN "skipped" ELSE @]

\* The dispatcher returned an error.
Refused(j) ==
    /\ disp' = [disp EXCEPT ![j] = IF KindOf[j] = "auto" THEN "core" ELSE "done"]
    /\ scan' = [scan EXCEPT ![j] = IF KindOf[j] = "strict" THEN "failed" ELSE @]

\* Mutant: one job too many.
Full_OffByOne == Cardinality(Active) > MaxJobs

Full == Cardinality(Active) >= MaxJobs

\* CountRunningRunnerJobs; a job that is let through gets its created_at.
Count(j) ==
    /\ disp[j] = "begun"
    /\ \/ Full /\ Refused(j) /\ UNCHANGED <<order, crowded>>
       \/ /\ ~Full
          /\ disp' = [disp EXCEPT ![j] = "counted"]
          /\ order' = Append(order, j)
          /\ crowded' = IF \E i \in Limited : disp[i] = "counted"
                        THEN crowded \union {j} ELSE crowded
          /\ UNCHANGED scan
    /\ UNCHANGED <<job, lapsed, work, raced>>

\* Mutant: an error after the insert is a failed delegation too.
CreateRunnerJob_Inserted(j) ==
    /\ disp[j] = "counted"
    /\ job' = [job EXCEPT ![j] = "queued"]
    /\ \/ disp' = [disp EXCEPT ![j] = "done"] /\ UNCHANGED scan
       \/ "store" \in Conditions /\ Refused(j)
    /\ UNCHANGED <<clock, work, history>>

\* The insert of the job's row.
CreateRunnerJob(j) ==
    /\ disp[j] = "counted"
    /\ \/ /\ job' = [job EXCEPT ![j] = "queued"]
          /\ disp' = [disp EXCEPT ![j] = "done"]
          /\ UNCHANGED scan
       \/ "store" \in Conditions /\ Refused(j) /\ UNCHANGED job
    /\ UNCHANGED <<clock, work, history>>

\* The analysis on core, when it falls back.
CoreScan(j) ==
    /\ disp[j] = "core"
    /\ disp' = [disp EXCEPT ![j] = "done"]
    /\ \E s \in {"completed", "failed"} : scan' = [scan EXCEPT ![j] = s]
    /\ UNCHANGED <<job, clock, work, history>>

(***************************************************************************)
(* Claims, expiry and cancellation.                                        *)
(***************************************************************************)
\* Mutant: only jobs that a runner holds expire.
Expired_RunningOnly(status) ==
    [j \in Jobs |-> IF status[j] = "running" /\ Past(j) THEN "expired" ELSE status[j]]

\* ExpireStaleRunnerJobs.
Expired(status) ==
    [j \in Jobs |->
        IF status[j] \in ActiveStatus /\ Past(j) THEN "expired" ELSE status[j]]

\* Mutant: a job in the hands of a runner is handed out again.
Ready_AlsoRunning(status) ==
    {j \in Jobs : status[j] \in ActiveStatus /\ ~Past(j)}

Ready(status) == {j \in Jobs : status[j] = "queued" /\ ~Past(j)}

IsOldest(j, S) ==
    \E i \in 1..Len(order) :
        order[i] = j /\ \A k \in 1..(i - 1) : order[k] \notin S

Holding(j, claimed) == [Idle EXCEPT !.at = "holds", !.job = j, !.claim = claimed]

\* Jobs past their expiry are expired, then the oldest queued one is taken.
Claim(w) ==
    /\ work[w].at = "idle"
    /\ LET now == Expired(job) IN
       \/ /\ Ready(now) = {}
          /\ job' = now /\ UNCHANGED work
       \/ \E j \in Ready(now) :
          /\ IsOldest(j, Ready(now))
          /\ job' = [now EXCEPT ![j] = "running"]
          /\ \/ work' = [work EXCEPT ![w] = Holding(j, TRUE)]
             \/ "crash" \in Conditions /\ UNCHANGED work
    /\ UNCHANGED <<disp, scan, clock, history>>

\* The spec of a job, in whatever state its row is: nothing is claimed.
GetJobSpec(w, j) ==
    /\ "named" \in Conditions
    /\ work[w].at = "idle" /\ job[j] # "none" /\ ~Past(j)
    /\ work' = [work EXCEPT ![w] = Holding(j, FALSE)]
    /\ UNCHANGED <<disp, rows, clock, history>>

Lapse ==
    /\ "lapse" \in Conditions /\ lapsed < Len(order)
    /\ lapsed' = lapsed + 1
    /\ UNCHANGED <<disp, rows, order, work, history>>

\* Mutant: any job may be cancelled.
Cancellable_Any(j) == job[j] # "none"

Cancellable(j) == job[j] \in ActiveStatus

CancelRunnerJob(j) ==
    /\ "cancel" \in Conditions /\ Cancellable(j)
    /\ job' = [job EXCEPT ![j] = "cancelled"]
    /\ UNCHANGED <<disp, scan, clock, work, history>>

(***************************************************************************)
(* A worker submits once for each time it got the job; SubmitResult asks   *)
(* neither who claimed the job nor whether a result failed before.  It     *)
(* works on the request's context, which is cancelled when the worker goes *)
(* away; what it has begun goes on.                                        *)
(***************************************************************************)
Stage(w, at) == work' = [work EXCEPT ![w].at = at]

\* The handler returns, and the worker that waits for it polls again.
Reply(w) == work' = [work EXCEPT ![w] = Idle]

Handling(j) == {w \in Workers : work[w].job = j /\ work[w].at \in {"checked", "written", "finished"}}

Rejects(j) == job[j] \in {"completed", "cancelled"} \/ Past(j)

\* SubmitResult up to and including its checks.
Submit(w) ==
    /\ work[w].at = "holds"
    /\ LET j == work[w].job IN
       \/ Rejects(j) /\ Reply(w) /\ UNCHANGED raced
       \/ /\ ~Rejects(j)
          /\ \E ok \in BOOLEAN :
               /\ ok \/ "refuse" \in Conditions
               /\ work' = [work EXCEPT ![w].at = "checked", ![w].ok = ok]
          /\ raced' = IF Handling(j) = {} THEN raced ELSE raced \union {j}
    /\ UNCHANGED <<disp, rows, clock, crowded>>

\* The update of the job's row asks for no status.
UpdateRunnerJob(w) ==
    /\ work[w].at = "checked"
    /\ \/ work[w].gone /\ Reply(w) /\ UNCHANGED job
       \/ /\ ~work[w].gone
          /\ job' = [job EXCEPT ![work[w].job] = IF work[w].ok THEN "completed" ELSE "failed"]
          /\ Stage(w, "written")
    /\ UNCHANGED <<disp, scan, clock, history>>

\* Mutant: what the result says of itself is not looked at.
IngestedScan_AnyResult(w) ==
    IF work[w].gone THEN scan[work[w].job] ELSE "analysis_complete"

IngestedScan(w) ==
    IF work[w].gone THEN scan[work[w].job]
    ELSE IF work[w].ok THEN "analysis_complete" ELSE "failed"

\* ingestRunnerResult: finishPersistedScan, whose errors are only logged.
FinishScan(w) ==
    /\ work[w].at = "written"
    /\ LET j == work[w].job IN
       \/ /\ j \in Limited
          /\ scan' = [scan EXCEPT ![j] = IngestedScan(w)]
          /\ IF work[w].ok THEN Stage(w, "finished") ELSE Reply(w)
       \/ j \notin Limited /\ Reply(w) /\ UNCHANGED scan
    /\ UNCHANGED <<disp, job, clock, history>>

\* createIssuesFromResult: RecordFindings, which outlives the request.
RecordFindings(w) ==
    /\ work[w].at = "finished"
    /\ \E s \in {"completed", "persistence_incomplete"} :
         /\ s = "completed" \/ "store" \in Conditions
         /\ scan' = [scan EXCEPT ![work[w].job] = s]
    /\ Reply(w)
    /\ UNCHANGED <<disp, job, clock, history>>

\* The worker dies or stops waiting.
GiveUp(w) ==
    /\ "crash" \in Conditions /\ work[w].at # "idle" /\ ~work[w].gone
    /\ IF work[w].at = "holds" THEN Reply(w) ELSE work' = [work EXCEPT ![w].gone = TRUE]
    /\ UNCHANGED <<disp, rows, clock, history>>

(***************************************************************************)
(* The core restarts.  Requests and handlers die with it; started rows     *)
(* older than two minutes are failed, then stale jobs expired.             *)
(***************************************************************************)
\* Mutant: every unfinished row is reaped.
Reapable_Any(j) == scan[j] # "none"

Reapable(j) == scan[j] = "started"

Restart ==
    /\ "restart" \in Conditions
    /\ disp' = [j \in Jobs |-> IF disp[j] = "idle" THEN "idle" ELSE "done"]
    /\ \E old \in SUBSET {j \in Jobs : Reapable(j)} :
         scan' = [j \in Jobs |-> IF j \in old THEN "failed" ELSE scan[j]]
    /\ job' = Expired(job)
    /\ work' = [w \in Workers |-> IF work[w].at = "holds" THEN work[w] ELSE Idle]
    /\ UNCHANGED <<clock, history>>

DispatchStep(j) == Begin(j) \/ Count(j) \/ CreateRunnerJob(j) \/ CoreScan(j)
HandlerStep(w) == UpdateRunnerJob(w) \/ FinishScan(w) \/ RecordFindings(w)

Next ==
    \/ \E j \in Jobs : DispatchStep(j) \/ CancelRunnerJob(j)
    \/ \E w \in Workers : Claim(w) \/ Submit(w) \/ HandlerStep(w) \/ GiveUp(w)
    \/ \E w \in Workers, j \in Jobs : GetJobSpec(w, j)
    \/ Lapse
    \/ Restart

Spec == Init /\ [][Next]_vars

(***************************************************************************)
(* Fairness: requests come and the core serves them; time passes.  Only    *)
(* FairRunners adds that workers poll and submit.                          *)
(***************************************************************************)
FairSpec ==
    /\ Spec
    /\ \A j \in Jobs : WF_vars(DispatchStep(j))
    /\ \A w \in Workers : WF_vars(HandlerStep(w))
    /\ WF_vars(Lapse)

FairRunners ==
    /\ FairSpec
    /\ \A w \in Workers : WF_vars(Claim(w)) /\ WF_vars(Submit(w))

-----------------------------------------------------------------------------
(***************************************************************************)
(* Properties.                                                             *)
(***************************************************************************)
JobStatus == {"none"} \union ActiveStatus \union FinalStatus
ScanStatus == {"none", "started", "analysis_complete", "completed",
               "persistence_incomplete", "failed"}
Busy == [at : {"holds", "checked", "written", "finished"}, job : Jobs,
         claim : BOOLEAN, ok : BOOLEAN, gone : BOOLEAN]

\* Type invariant: statuses are those of store/models.go that these handlers
\* write, expiry runs along the creation order, a job is created once.
TypeOK ==
    /\ disp \in [Jobs -> {"idle", "begun", "counted", "core", "done"}]
    /\ job \in [Jobs -> JobStatus]
    /\ scan \in [Jobs -> ScanStatus]
    /\ order \in Seq(Jobs)
    /\ lapsed \in 0..Len(order)
    /\ work \in [Workers -> {Idle} \union Busy]
    /\ crowded \subseteq Jobs /\ raced \subseteq Jobs

\* A job is claimed by one worker at most: the select and the update of a
\* claim, lost answers, expiry, cancellation, restarts, and the results of
\* workers that were given the job by its id, never bring a claimed job back to
\* the queue.
OneClaimant ==
    \A v, w \in Workers :
        work[v].claim /\ work[w].claim /\ work[v].job = work[w].job => v = w

\* At most runner_max_concurrent_jobs of the jobs that are counted against the
\* limit are queued or running, apart from those whose count missed a request
\* that had been counted and was not inserted yet; container jobs, clean-ups and
\* results that come twice add nothing to it.
WithinCapacity == Cardinality((Active \intersect Limited) \ crowded) <= MaxJobs

\* A scan is analysed by core or by a runner, never by both: the fallback is
\* taken only when no job was created, and no job is created after it.
CoreOrRunner ==
    \A j \in Jobs :
        disp[j] \in {"core", "begun", "counted"} =>
            job[j] = "none" /\ \A w \in Workers : work[w].job # j

\* A job that has ended is changed by nothing but a result, whoever sends it;
\* one that is completed not even by that, unless two results of it met.
EndedJobStays ==
    [][\A j \in Jobs :
         /\ job[j] \in FinalStatus => job'[j] \in {job[j], "completed", "failed"}
         /\ job[j] = "completed" /\ j \notin raced => job'[j] = "completed"]_vars

\* A scan whose findings are stored is never reopened or failed, by a late
\* result, by the fallback to core or by the clean-up of a restart, unless two
\* results of its job met.
CompletedScanStays ==
    [][\A j \in Jobs \ raced : scan[j] = "completed" => scan'[j] = "completed"]_vars

\* What is answered stays answered: neither the row of a completed job nor a
\* scan whose findings are stored changes again (SubmitResult,
\* ClaimNextRunnerJob, ReapStaleScans).
AnswersStay == EndedJobStays /\ CompletedScanStays

\* A scan that shows an analysis was analysed by core, or its job says
\* completed: no result reaches the scan that the job's row does not show,
\* unless two results met.
AnalysisIsAnswered ==
    \A j \in Jobs \ raced :
        scan[j] \in {"analysis_complete", "completed", "persistence_incomplete"} =>
            job[j] \in {"none", "completed"}

\* With workers that poll, every queued or running job ends: time and again there
\* is none left.
JobEnds == []<>(Active = {})

\* With workers that poll, every started scan ends, whether it is delegated,
\* refused, or falls back to core, unless its job has ended without it:
\* cancelled, expired, or answered by a worker that went away.  Requests of
\* the API are left out: EnqueueDelegatedJob leaves the row of a refused one.
ScanEnds ==
    []<>(\A j \in Jobs : KindOf[j] \in {"auto", "strict"} /\ scan[j] = "started"
                             => job[j] \in FinalStatus)

\* Delegated work comes to an end, for the job and for its scan, when workers
\* are lost, the queue is full and the core falls back (ExpireStaleRunnerJobs,
\* tryDelegateScan).
WorkEnds == JobEnds /\ ScanEnds
=============================================================================
