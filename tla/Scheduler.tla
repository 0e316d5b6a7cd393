----------------------------- MODULE Scheduler -----------------------------
(***************************************************************************)
(* The scheduler of full-repository scans (orch/scheduler.go) and the part *)
(* of runScheduledRepositoryScan (main.go) that it depends on: the         *)
(* analysis limiter, the scan row and the finishing of the scan.           *)
(*                                                                         *)
(* The polling loop is one goroutine; each due repository it launches is   *)
(* another, a task.  The loop's semaphore is made anew by every tick.      *)
(* Time is counted in the finest cron period; a repository's schedule      *)
(* fires at the multiples of its own period.                               *)
(***************************************************************************)
EXTENDS Integers, FiniteSets

CONSTANTS
    Repos,          \* repositories with a schedule
    Tasks,          \* bound: tryRunScheduled goroutines alive at once
    NoRepo,         \* the repository of a free task
    Period,         \* the cron period of each repository
    MaxConcurrent,  \* scheduler_max_concurrent_scans
    Slots,          \* capacity of the analysis limiter
    MaxTime,        \* bound: the clock stops here
    Conditions      \* what may happen, see ConditionKinds

(* "other"   scans that the scheduler did not start                        *)
(* "denied"  analyses of others fill the limiter when a task asks for room *)
(* "abandon" a scheduled scan ends with its row started: it was delegated  *)
(*           to a runner, or the repository had just been disabled         *)
(* "unsched" schedules are switched off and on                             *)
(* "restart" the process stops and starts again                            *)
(* Time goes on and ticks come whatever the goroutines are waiting for.    *)
ConditionKinds == {"other", "denied", "abandon", "unsched", "restart"}

ASSUME ReposAssumption == NoRepo \notin Repos /\ Period \in [Repos -> Nat \ {0}]
ASSUME LimitsAssumption ==
    MaxConcurrent \in Nat \ {0} /\ Slots \in Nat \ {0} /\ MaxTime \in Nat \ {0}
ASSUME ConditionsAssumption == Conditions \subseteq ConditionKinds

VARIABLES
    now,        \* the clock
    up,         \* the process is running
    listed,     \* repositories ListScheduledRepositories returns
    lastRun,    \* states[r].lastRun; Never when states has no entry for r
    finishedAt, \* GetLastScheduledScanFinishedAt; Never when there is none
    others,     \* repositories with a started scan row of no live task
    todo,       \* due items the current tick has still to consider
    task,       \* the goroutines
    inTick,     \* tasks that hold a place in the current tick's semaphore
    crossed     \* history: tasks whose repository got a started row after
                \* they had asked whether it has one

vars == <<now, up, listed, lastRun, finishedAt, others, todo, task, inTick, crossed>>
clockVars == <<now, up, listed>>

Never == 0
Time == 1..MaxTime
Stages == {"free", "check", "mark", "wait", "begin", "scan"}
Free == [repo |-> NoRepo, due |-> Never, at |-> "free"]

\* cron.Schedule.Next: the first firing strictly after t.
NextRun(r, t) == (t \div Period[r] + 1) * Period[r]

At(stages) == {t \in Tasks : task[t].at \in stages}
Scanning == At({"scan"})
StartedRow(r) == r \in others \/ \E t \in Scanning : task[t].repo = r
LimiterInUse == Cardinality(At({"begin", "scan"}))

\* The tasks that have found no started row of r and have yet to insert theirs.
Between(r) == {t \in At({"mark", "wait", "begin"}) : task[t].repo = r}

Init ==
    /\ now = 1
    /\ up = FALSE
    /\ listed \in SUBSET Repos
    /\ lastRun = [r \in Repos |-> Never]
    /\ finishedAt = [r \in Repos |-> Never]
    /\ others = {}
    /\ todo = {}
    /\ task = [t \in Tasks |-> Free]
    /\ inTick = {}
    /\ crossed = {}

(***************************************************************************)
(* The polling loop.                                                       *)
(***************************************************************************)

\* Loaded schedules keep their last run; a new one starts from the last
\* scheduled scan that finished, or from now.
Refreshed(loaded, finished) ==
    [r \in Repos |->
        IF r \notin listed THEN Never
        ELSE IF loaded[r] # Never THEN loaded[r]
        ELSE IF finished[r] # Never THEN finished[r] ELSE now]

\* Mutant: a run that is exactly due waits for the next poll.
Due_Strict(r, t, last) == NextRun(r, last) < t

Due(r, t, last) == NextRun(r, last) <= t

\* refreshSchedules and collectDue; the items are copies.
Tick ==
    /\ up /\ todo = {}
    /\ lastRun' = Refreshed(lastRun, finishedAt)
    /\ todo' = {[repo |-> r, due |-> NextRun(r, lastRun'[r])] :
                    r \in {q \in listed : Due(q, now, lastRun'[q])}}
    /\ inTick' = {}
    /\ UNCHANGED <<clockVars, finishedAt, others, task, crossed>>

\* The loop takes a place of the tick's semaphore for the item ...
Launch(item) ==
    /\ up /\ item \in todo
    /\ Cardinality(inTick) < MaxConcurrent
    /\ todo' = todo \ {item}
    /\ \E t \in At({"free"}) :
         /\ task' = [task EXCEPT ![t] =
                        [repo |-> item.repo, due |-> item.due, at |-> "check"]]
         /\ inTick' = inTick \union {t}
    /\ UNCHANGED <<clockVars, lastRun, finishedAt, others, crossed>>

\* ... or leaves the item to a later tick.
Skip(item) ==
    /\ up /\ item \in todo
    /\ Cardinality(inTick) >= MaxConcurrent
    /\ todo' = todo \ {item}
    /\ UNCHANGED <<clockVars, lastRun, finishedAt, others, task, inTick, crossed>>

(***************************************************************************)
(* A task: tryRunScheduled and runScheduledRepositoryScan.                 *)
(***************************************************************************)
Move(t, stage) == task' = [task EXCEPT ![t].at = stage] /\ UNCHANGED <<inTick, crossed>>

\* Mutant: the task's place in the semaphore is not given back.
End_KeepsPlace(t) ==
    task' = [task EXCEPT ![t] = Free] /\ crossed' = crossed \ {t} /\ UNCHANGED inTick

\* The goroutine returns; its place in its own tick's semaphore is free again.
End(t) ==
    /\ task' = [task EXCEPT ![t] = Free]
    /\ inTick' = inTick \ {t}
    /\ crossed' = crossed \ {t}

\* Mutant: HasRunningScanForRepository is not asked.
Blocked_Never(t) == FALSE

\* Mutant: only rows of live tasks count as running.
Blocked_LiveOnly(t) == \E u \in Scanning : task[u].repo = task[t].repo

Blocked(t) == StartedRow(task[t].repo)

HasRunningScan(t) ==
    /\ task[t].at = "check"
    /\ IF Blocked(t) THEN End(t) ELSE Move(t, "mark")
    /\ UNCHANGED <<clockVars, lastRun, finishedAt, others, todo>>

Advanced(t) ==
    LET r == task[t].repo
    IN  IF lastRun[r] = Never THEN lastRun ELSE [lastRun EXCEPT ![r] = task[t].due]

\* With a free place in the limiter, the run counts as done for its due time.
MarkRun(t) ==
    /\ task[t].at = "mark"
    /\ \/ /\ LimiterInUse >= Slots \/ "denied" \in Conditions
          /\ End(t)
          /\ UNCHANGED lastRun
       \/ /\ LimiterInUse < Slots
          /\ lastRun' = Advanced(t)
          /\ Move(t, "wait")
    /\ UNCHANGED <<clockVars, finishedAt, others, todo>>

\* Mutant: the limiter admits one analysis too many.
LimiterFull_OffByOne == LimiterInUse > Slots

LimiterFull == LimiterInUse >= Slots

LimiterRun(t) ==
    /\ task[t].at = "wait"
    /\ ~LimiterFull
    /\ Move(t, "begin")
    /\ UNCHANGED <<clockVars, lastRun, finishedAt, others, todo>>

\* The wait for the limiter outlived the analysis timeout.
LimiterTimeout(t) ==
    /\ task[t].at = "wait"
    /\ LimiterFull
    /\ End(t)
    /\ UNCHANGED <<clockVars, lastRun, finishedAt, others, todo>>

\* The tip is that of the last completed scan: a finished row is written.
recordTipUnchangedSkip(t) ==
    /\ task[t].at = "begin"
    /\ End(t)
    /\ finishedAt' = [finishedAt EXCEPT ![task[t].repo] = now]
    /\ UNCHANGED <<clockVars, lastRun, others, todo>>

BeginScan(t) ==
    /\ task[t].at = "begin"
    /\ task' = [task EXCEPT ![t].at = "scan"]
    /\ crossed' = crossed \union (Between(task[t].repo) \ {t})
    /\ UNCHANGED <<clockVars, lastRun, finishedAt, others, todo, inTick>>

FinishScan(t) ==
    /\ task[t].at = "scan"
    /\ End(t)
    /\ finishedAt' = [finishedAt EXCEPT ![task[t].repo] = now]
    /\ UNCHANGED <<clockVars, lastRun, others, todo>>

\* The task returns and leaves the row started.
LeaveStarted(t) ==
    /\ "abandon" \in Conditions
    /\ task[t].at = "scan"
    /\ End(t)
    /\ others' = others \union {task[t].repo}
    /\ UNCHANGED <<clockVars, lastRun, finishedAt, todo>>

(***************************************************************************)
(* The rest of the system.                                                 *)
(***************************************************************************)
Advance ==
    /\ now < MaxTime
    /\ now' = now + 1
    /\ UNCHANGED <<up, listed, lastRun, finishedAt, others, todo, task, inTick, crossed>>

OtherScanStarts(r) ==
    /\ up /\ "other" \in Conditions
    /\ others' = others \union {r}
    /\ crossed' = crossed \union Between(r)
    /\ UNCHANGED <<clockVars, lastRun, finishedAt, todo, task, inTick>>

\* A manual scan, or the runner's result of a delegated scheduled one.
OtherScanEnds(r) ==
    /\ up /\ r \in others
    /\ {"other", "abandon"} \intersect Conditions # {}
    /\ others' = others \ {r}
    /\ finishedAt' \in {finishedAt, [finishedAt EXCEPT ![r] = now]}
    /\ UNCHANGED <<clockVars, lastRun, todo, task, inTick, crossed>>

SetSchedule(r) ==
    /\ "unsched" \in Conditions
    /\ listed' = IF r \in listed THEN listed \ {r} ELSE listed \union {r}
    /\ UNCHANGED <<now, up, lastRun, finishedAt, others, todo, task, inTick, crossed>>

\* The process stops; the rows of the scans it was running stay started.
Crash ==
    /\ "restart" \in Conditions /\ up
    /\ up' = FALSE
    /\ lastRun' = [r \in Repos |-> Never]
    /\ others' = others \union {task[t].repo : t \in Scanning}
    /\ todo' = {} /\ inTick' = {} /\ crossed' = {}
    /\ task' = [t \in Tasks |-> Free]
    /\ UNCHANGED <<now, listed, finishedAt>>

\* Start launches the loop, whose first refresh runs beside ReapStaleScans;
\* started rows of the last two minutes survive the reaping.
Start ==
    /\ ~up
    /\ up' = TRUE
    /\ \E reaped \in SUBSET others :
         /\ others' = others \ reaped
         /\ finishedAt' \in [Repos -> {Never} \union Time]
         /\ \A r \in Repos :
              \/ finishedAt'[r] = finishedAt[r]
              \/ r \in reaped /\ finishedAt'[r] = now
    /\ \E seen \in {finishedAt, finishedAt'} : lastRun' = Refreshed(lastRun, seen)
    /\ UNCHANGED <<now, listed, todo, task, inTick, crossed>>

TaskStep(t) ==
    \/ HasRunningScan(t) \/ MarkRun(t) \/ LimiterRun(t) \/ LimiterTimeout(t)
    \/ recordTipUnchangedSkip(t) \/ BeginScan(t)
    \/ FinishScan(t) \/ LeaveStarted(t)

Next ==
    \/ Tick \/ \E item \in todo : Launch(item) \/ Skip(item)
    \/ \E t \in Tasks : TaskStep(t)
    \/ \E r \in Repos : OtherScanStarts(r) \/ OtherScanEnds(r) \/ SetSchedule(r)
    \/ Advance \/ Crash \/ Start

Spec == Init /\ [][Next]_vars

\* The process is started again, the loop goes on ticking through its items, and
\* a goroutine that can move does.  A tick takes its items in the order of a Go
\* map, which is random, so no repository is passed over for ever: its launch is
\* strongly fair.  Nothing says that time goes on or that a started row of
\* someone else ends.
FairSpec ==
    /\ Spec
    /\ WF_vars(Start) /\ WF_vars(Tick)
    /\ WF_vars(\E item \in todo : Launch(item) \/ Skip(item))
    /\ \A r \in Repos : SF_vars(\E item \in todo : item.repo = r /\ Launch(item))
    /\ \A t \in Tasks : WF_vars(TaskStep(t))

(***************************************************************************)
(* Properties.                                                             *)
(***************************************************************************)
Item == [repo : Repos, due : Nat \ {0}]

\* The type invariant; only live tasks hold a place in the semaphore.
TypeOK ==
    /\ now \in Time /\ up \in BOOLEAN
    /\ listed \subseteq Repos /\ others \subseteq Repos
    /\ lastRun \in [Repos -> Nat] /\ finishedAt \in [Repos -> Nat]
    /\ todo \subseteq Item
    /\ task \in [Tasks -> {Free} \union
                   [repo : Repos, due : Nat \ {0}, at : Stages \ {"free"}]]
    /\ inTick \subseteq Tasks \ At({"free"}) /\ crossed \subseteq Tasks \ At({"free"})

\* The analysis limiter bounds the scheduled analyses that run at once,
\* however many ticks have launched tasks and whatever HasCapacity said.
LimiterBounds == Cardinality(At({"begin", "scan"})) <= Slots

\* A scheduled scan comes to run beside another scan of its repository only
\* when that one's row came after the scheduler's own check: a row that is there
\* to be seen, whoever left it, holds the repository back for however long the
\* task then waits.  Of two scheduled scans of a repository one has been crossed.
OverlapsAreCrossings ==
    /\ \A t \in At({"mark", "wait", "begin"}) : StartedRow(task[t].repo) => t \in crossed
    /\ \A t, u \in Scanning :
         t # u /\ task[t].repo = task[u].repo => t \in crossed \/ u \in crossed

\* docs/SCHEDULER.md: "No scan if the repo already has a started scan row".
NoScanBesideStartedRow ==
    [][\A t \in Tasks : BeginScan(t) => ~StartedRow(task[t].repo)]_vars

\* A due run of a scheduled repository is taken up, unless a started row of
\* the repository holds it back or its schedule is switched off.
Waiting(r, d) == up /\ lastRun[r] # Never /\ NextRun(r, lastRun[r]) = d /\ d <= now
TakenUp(r, d) == ~up \/ lastRun[r] = Never \/ lastRun[r] >= d \/ StartedRow(r)

DueIsServed == \A r \in Repos, d \in Time : Waiting(r, d) ~> TakenUp(r, d)
=============================================================================
