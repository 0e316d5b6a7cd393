-------------------------- MODULE SchedulerProofs --------------------------
(***************************************************************************)
(* Theorems about Scheduler, for every set of repositories and of tasks,   *)
(* all periods and limits, and any clock.                                  *)
(*                                                                         *)
(* They hold in all conditions: with polls, other scans and restarts       *)
(* coming between the check of a task and its scan row.  Two scans of a    *)
(* repository may then overlap; what is proved is that every such overlap  *)
(* is a race across that check.                                            *)
(***************************************************************************)
EXTENDS Scheduler, FiniteSetTheorems, TLAPS

Busy == Stages \ {"free"}
BusyTask == [repo : Repos, due : Nat \ {0}, at : Busy]

USE ReposAssumption, LimitsAssumption DEF Never

-----------------------------------------------------------------------------
(***************************************************************************)
(* The helpers.                                                            *)
(***************************************************************************)

(* Rounding up to the next multiple goes strictly up.                      *)
LEMMA NextMultiple ==
    ASSUME NEW t \in Nat, NEW P \in Nat \ {0}
    PROVE  (t \div P + 1) * P \in Nat \ {0} /\ (t \div P + 1) * P > t
<1>1. t \div P \in Nat
  BY SMT
<1>2. (t \div P + 1) * P > t
  BY SMTT(20)
<1> QED
  BY <1>1, <1>2

(* A schedule fires strictly after the time it is asked for.               *)
LEMMA NextRunIsLater ==
    ASSUME NEW r \in Repos, NEW t \in Nat
    PROVE  NextRun(r, t) \in Nat \ {0} /\ NextRun(r, t) > t
BY NextMultiple DEF NextRun

(* A refresh leaves a last run for every listed repository and no other.   *)
LEMMA RefreshedType ==
    ASSUME TypeOK, NEW finished \in [Repos -> Nat]
    PROVE  Refreshed(lastRun, finished) \in [Repos -> Nat]
BY DEF Refreshed, TypeOK, Time

(* Moving a task changes its stage and nothing else.                       *)
LEMMA MoveFacts ==
    ASSUME TypeOK, NEW t \in Tasks, task[t].at # "free", NEW s \in Busy, Move(t, s)
    PROVE  /\ task' \in [Tasks -> {Free} \union BusyTask]
           /\ task'[t].repo = task[t].repo /\ task'[t].due = task[t].due
           /\ task'[t].at = s
           /\ \A u \in Tasks \ {t} : task'[u] = task[u]
           /\ inTick' = inTick /\ crossed' = crossed
<1>1. task[t] \in BusyTask
  BY DEF TypeOK, Free, BusyTask, Busy
<1>2. task' = [task EXCEPT ![t] = [task[t] EXCEPT !.at = s]]
  BY DEF Move
<1>3. [task[t] EXCEPT !.at = s] = [repo |-> task[t].repo, due |-> task[t].due, at |-> s]
  BY <1>1 DEF BusyTask
<1> QED
  BY <1>1, <1>2, <1>3 DEF TypeOK, BusyTask, Busy, Move

(* A task that ends is free, and holds no place in the semaphore.          *)
LEMMA EndFacts ==
    ASSUME TypeOK, NEW t \in Tasks, End(t)
    PROVE  /\ task' \in [Tasks -> {Free} \union BusyTask]
           /\ task'[t] = Free
           /\ \A u \in Tasks \ {t} : task'[u] = task[u]
           /\ inTick' = inTick \ {t} /\ crossed' = crossed \ {t}
BY DEF End, TypeOK, BusyTask, Busy

(* A task that inserts its row moves like the others.                      *)
LEMMA BeginFacts ==
    ASSUME TypeOK, NEW t \in Tasks, BeginScan(t)
    PROVE  /\ task' \in [Tasks -> {Free} \union BusyTask]
           /\ task'[t].repo = task[t].repo /\ task'[t].due = task[t].due
           /\ task'[t].at = "scan"
           /\ \A u \in Tasks : task'[u].repo = task[u].repo
           /\ \A u \in Tasks \ {t} : task'[u] = task[u]
           /\ inTick' = inTick
<1>1. task[t] \in BusyTask
  BY DEF BeginScan, TypeOK, Free, BusyTask, Busy
<1>2. task' = [task EXCEPT ![t] = [task[t] EXCEPT !.at = "scan"]]
  BY DEF BeginScan
<1>3. [task[t] EXCEPT !.at = "scan"] = [repo |-> task[t].repo, due |-> task[t].due, at |-> "scan"]
  BY <1>1 DEF BusyTask
<1>4. "scan" \in Busy
  BY DEF Busy, Stages
<1> QED
  BY <1>1, <1>2, <1>3, <1>4 DEF TypeOK, BusyTask, Busy, BeginScan

-----------------------------------------------------------------------------
(***************************************************************************)
(* Types.                                                                  *)
(***************************************************************************)
LEMMA InitType == Init => TypeOK
<1> SUFFICES ASSUME Init PROVE TypeOK
  OBVIOUS
<1>1. now \in Time /\ up \in BOOLEAN
  <2>1. 1 \in Time
    BY DEF Time
  <2> QED
    BY <2>1, Zenon DEF Init
<1>4. listed \subseteq Repos /\ others \subseteq Repos
  BY DEF Init
<1>2. lastRun \in [Repos -> Nat] /\ finishedAt \in [Repos -> Nat] /\ todo \subseteq Item
  BY DEF Init
<1>3. task \in [Tasks -> {Free} \union BusyTask] /\ inTick \subseteq Tasks \ At({"free"})
      /\ crossed \subseteq Tasks \ At({"free"})
  BY DEF Init
<1> QED
  BY <1>1, <1>2, <1>3, <1>4 DEF TypeOK, BusyTask, Busy

(* The places in the semaphore are held by tasks that are not free.        *)
LEMMA TaskType ==
    ASSUME TypeOK, NEW t \in Tasks, task[t].at # "free",
           End(t) \/ BeginScan(t) \/ \E s \in Busy : Move(t, s)
    PROVE  /\ task' \in [Tasks -> {Free} \union BusyTask]
           /\ inTick' \subseteq Tasks \ At({"free"})'
           /\ crossed' \subseteq Tasks \ At({"free"})'
<1>1. CASE End(t)
  <2>1. /\ inTick' = inTick \ {t} /\ crossed' = crossed \ {t}
        /\ \A u \in Tasks \ {t} : task'[u] = task[u]
    BY <1>1, EndFacts
  <2> QED
    BY <1>1, <2>1, EndFacts DEF TypeOK, At
<1>2. ASSUME NEW s \in Busy, Move(t, s)
      PROVE  /\ task' \in [Tasks -> {Free} \union BusyTask]
             /\ inTick' \subseteq Tasks \ At({"free"})'
             /\ crossed' \subseteq Tasks \ At({"free"})'
  <2>1. /\ inTick' = inTick /\ crossed' = crossed /\ task'[t].at = s
        /\ \A u \in Tasks \ {t} : task'[u] = task[u]
    BY <1>2, MoveFacts
  <2> QED
    BY <1>2, <2>1, MoveFacts DEF TypeOK, At, Busy
<1>3. CASE BeginScan(t)
  <2>1. /\ inTick' = inTick /\ task'[t].at = "scan"
        /\ \A u \in Tasks \ {t} : task'[u] = task[u]
    BY <1>3, BeginFacts
  <2>2. crossed' \subseteq crossed \union (Tasks \ At({"free"})) /\ \A u \in crossed' : u \in Tasks
    BY <1>3 DEF BeginScan, Between, At, TypeOK
  <2> QED
    BY <1>3, <2>1, <2>2, BeginFacts DEF TypeOK, At
<1> QED
  BY <1>1, <1>2, <1>3

LEMMA TypeNext == TypeOK /\ [Next]_vars => TypeOK'
<1> SUFFICES ASSUME TypeOK, [Next]_vars PROVE TypeOK'
  OBVIOUS
<1>1. CASE Tick
  <2>1. Refreshed(lastRun, finishedAt) \in [Repos -> Nat]
    BY RefreshedType DEF TypeOK
  <2>2. todo' \subseteq Item
    BY <1>1, <2>1, NextRunIsLater DEF Tick, Item, TypeOK
  <2> QED
    BY <1>1, <2>1, <2>2 DEF Tick, TypeOK, clockVars, At
<1>2. ASSUME NEW item \in todo, Launch(item) PROVE TypeOK'
  <2>1. PICK t \in At({"free"}) :
          /\ task' = [task EXCEPT ![t] =
                        [repo |-> item.repo, due |-> item.due, at |-> "check"]]
          /\ inTick' = inTick \union {t}
    BY <1>2 DEF Launch
  <2>2. item \in Item
    BY DEF TypeOK
  <2>3. [repo |-> item.repo, due |-> item.due, at |-> "check"] \in BusyTask
    BY <2>2 DEF Item, BusyTask, Busy, Stages
  <2>4. /\ task' \in [Tasks -> {Free} \union BusyTask]
        /\ inTick' \subseteq Tasks \ At({"free"})'
    BY <2>1, <2>3 DEF TypeOK, At, BusyTask, Busy
  <2>5. crossed' \subseteq Tasks \ At({"free"})'
    BY <1>2, <2>1 DEF Launch, TypeOK, At
  <2> QED
    BY <1>2, <2>4, <2>5 DEF Launch, TypeOK, clockVars, BusyTask, Busy
<1>3. ASSUME NEW item \in todo, Skip(item) PROVE TypeOK'
  BY <1>3 DEF Skip, TypeOK, clockVars, At
<1>4. ASSUME NEW t \in Tasks, TaskStep(t) PROVE TypeOK'
  <2>1. /\ task[t].at # "free"
        /\ End(t) \/ BeginScan(t) \/ \E s \in Busy : Move(t, s)
    BY <1>4 DEF TaskStep, HasRunningScan, MarkRun, LimiterRun, LimiterTimeout,
                recordTipUnchangedSkip, BeginScan, FinishScan, LeaveStarted, Busy, Stages
  <2>2. task[t].repo \in Repos /\ task[t].due \in Nat
    BY <2>1 DEF TypeOK, Free
  <2>3. /\ lastRun' \in [Repos -> Nat] /\ finishedAt' \in [Repos -> Nat]
        /\ others' \subseteq Repos /\ UNCHANGED <<clockVars, todo>>
    BY <1>4, <2>2 DEF TaskStep, HasRunningScan, MarkRun, LimiterRun, LimiterTimeout,
                recordTipUnchangedSkip, BeginScan, FinishScan, LeaveStarted, Advanced,
                TypeOK, Time, clockVars
  <2> QED
    BY <2>1, <2>3, TaskType DEF TypeOK, clockVars, BusyTask, Busy
<1>5. CASE Advance
  BY <1>5 DEF Advance, TypeOK, Time, At
<1>6. ASSUME NEW r \in Repos, OtherScanStarts(r) \/ OtherScanEnds(r) \/ SetSchedule(r)
      PROVE  TypeOK'
  BY <1>6 DEF OtherScanStarts, OtherScanEnds, SetSchedule, TypeOK, clockVars, Time, At, Between
<1>7. CASE Crash
  <2>1. \A t \in Scanning : task[t].repo \in Repos
    BY DEF Scanning, At, TypeOK, Free
  <2> QED
    BY <1>7, <2>1 DEF Crash, TypeOK, At
<1>8. CASE Start
  <2>1. /\ finishedAt' \in [Repos -> Nat] /\ others' \subseteq Repos
        /\ \E seen \in {finishedAt, finishedAt'} : lastRun' = Refreshed(lastRun, seen)
    BY <1>8 DEF Start, TypeOK, Time
  <2>2. lastRun' \in [Repos -> Nat]
    BY <2>1, RefreshedType DEF TypeOK
  <2> QED
    BY <1>8, <2>1, <2>2 DEF Start, TypeOK, At
<1>9. CASE UNCHANGED vars
  BY <1>9 DEF vars, TypeOK, At
<1> QED
  BY <1>1, <1>2, <1>3, <1>4, <1>5, <1>6, <1>7, <1>8, <1>9 DEF Next

(* The clock, the due times and the goroutines keep to their ranges, and   *)
(* only goroutines that are alive hold a place in a tick's semaphore       *)
(* (tick, orch/scheduler.go).                                              *)
THEOREM TypeCorrect == Spec => []TypeOK
BY InitType, TypeNext, PTL DEF Spec

-----------------------------------------------------------------------------
(***************************************************************************)
(* Overlapping scans.                                                      *)
(***************************************************************************)
Apart == TypeOK /\ OverlapsAreCrossings

(* While the tasks stay where they are and no row is added, nothing is     *)
(* crossed that was not.                                                   *)
LEMMA RestApart ==
    ASSUME Apart, TypeOK', UNCHANGED <<task, crossed>>, others' \subseteq others
    PROVE  OverlapsAreCrossings'
<1>1. Scanning' = Scanning /\ \A S \in SUBSET Stages : At(S)' = At(S)
  BY DEF Scanning, At
<1>2. At({"mark", "wait", "begin"})' = At({"mark", "wait", "begin"})
  BY DEF At
<1>3. \A r : StartedRow(r)' => StartedRow(r)
  BY <1>1 DEF StartedRow
<1> QED
  BY <1>1, <1>2, <1>3 DEF Apart, OverlapsAreCrossings

(* A new task has asked nothing yet.                                       *)
LEMMA LaunchApart ==
    ASSUME Apart, TypeOK', NEW item \in todo, Launch(item)
    PROVE  OverlapsAreCrossings'
<1>1. PICK t \in At({"free"}) :
        task' = [task EXCEPT ![t] =
                    [repo |-> item.repo, due |-> item.due, at |-> "check"]]
  BY DEF Launch
<1>2. task'[t].at = "check" /\ \A u \in Tasks \ {t} : task'[u] = task[u]
  BY <1>1 DEF Apart, TypeOK, At
<1>3. Scanning' = Scanning /\ t \notin Scanning
  BY <1>1, <1>2 DEF Scanning, At
<1>4. At({"mark", "wait", "begin"})' = At({"mark", "wait", "begin"})
      /\ t \notin At({"mark", "wait", "begin"})
  BY <1>1, <1>2 DEF At
<1>5. others' = others /\ crossed' = crossed
  BY DEF Launch
<1>6. \A u \in Tasks \ {t} : StartedRow(task[u].repo)' => StartedRow(task[u].repo)
  BY <1>2, <1>3, <1>5 DEF StartedRow, Scanning, At
<1> QED
  BY <1>2, <1>3, <1>4, <1>5, <1>6 DEF Apart, OverlapsAreCrossings, Scanning, At

(* A task that ends takes nothing from the others; a row it leaves started *)
(* was a started row before.                                               *)
LEMMA EndApart ==
    ASSUME Apart, TypeOK', NEW t \in Tasks, task[t].at # "free", End(t),
           \/ others' = others
           \/ t \in Scanning /\ others' = others \union {task[t].repo}
    PROVE  OverlapsAreCrossings'
<1>1. task'[t].at = "free" /\ \A u \in Tasks \ {t} : task'[u] = task[u]
  BY EndFacts DEF Apart, Free
<1>2. Scanning' = Scanning \ {t}
  BY <1>1 DEF Scanning, At
<1>3. At({"mark", "wait", "begin"})' = At({"mark", "wait", "begin"}) \ {t}
  BY <1>1 DEF At
<1>4. crossed' = crossed \ {t}
  BY DEF End
<1>5. \A u \in Tasks \ {t} : StartedRow(task[u].repo)' => StartedRow(task[u].repo)
  BY <1>1, <1>2 DEF StartedRow, Scanning, At
<1>6. \A u \in At({"mark", "wait", "begin"}) \ {t} :
        u \in Tasks \ {t} /\ task'[u] = task[u]
  BY <1>1 DEF At
<1>7. \A u \in Scanning \ {t} : u \in Tasks \ {t} /\ task'[u] = task[u]
  BY <1>1 DEF Scanning, At
<1> QED
  BY <1>2, <1>3, <1>4, <1>5, <1>6, <1>7 DEF Apart, OverlapsAreCrossings, StartedRow

(* A task that goes on short of its row: the first stage after the check   *)
(* is entered with no row to be seen.                                      *)
LEMMA MoveApart ==
    ASSUME Apart, TypeOK', NEW t \in Tasks, others' = others,
           \/ HasRunningScan(t) /\ ~Blocked(t) /\ Move(t, "mark")
           \/ MarkRun(t) /\ Move(t, "wait")
           \/ LimiterRun(t) /\ Move(t, "begin")
    PROVE  OverlapsAreCrossings'
<1>1. task[t].at \in {"check", "mark", "wait"}
  BY DEF HasRunningScan, MarkRun, LimiterRun
<1>2. PICK s \in {"mark", "wait", "begin"} : Move(t, s)
  OBVIOUS
<1>3. /\ task'[t].at = s /\ task'[t].repo = task[t].repo
      /\ \A u \in Tasks \ {t} : task'[u] = task[u]
  BY <1>1, <1>2, MoveFacts DEF Apart, Busy, Stages
<1>4. crossed' = crossed
  BY <1>2 DEF Move
<1>5. Scanning' = Scanning /\ t \notin Scanning
  BY <1>1, <1>2, <1>3 DEF Scanning, At
<1>6. \A u \in Tasks : task'[u].repo = task[u].repo
  BY <1>3
<1>7. \A r : StartedRow(r)' <=> StartedRow(r)
  BY <1>3, <1>5 DEF StartedRow, Scanning, At
<1>8. task[t].at = "check" => ~StartedRow(task[t].repo)
  BY DEF HasRunningScan, MarkRun, LimiterRun, Blocked
<1>9. \A u \in At({"mark", "wait", "begin"})' :
        u \in At({"mark", "wait", "begin"}) \/ (u = t /\ task[t].at = "check")
  <2>1. ASSUME NEW u \in Tasks \ {t}, task'[u].at \in {"mark", "wait", "begin"}
        PROVE  u \in At({"mark", "wait", "begin"})
    BY <1>3, <2>1 DEF At
  <2>2. t \in At({"mark", "wait", "begin"}) \/ task[t].at = "check"
    BY <1>1 DEF At
  <2> QED
    BY <2>1, <2>2 DEF At
<1>10. \A u \in At({"mark", "wait", "begin"})' : u \in Tasks
  BY DEF At
<1>11. \A u \in Scanning : u \in Tasks
  BY DEF Scanning, At
<1>12. \A u \in At({"mark", "wait", "begin"})' :
        StartedRow(task[u].repo)' => u \in crossed'
  BY <1>4, <1>6, <1>7, <1>8, <1>9, <1>10 DEF Apart, OverlapsAreCrossings, StartedRow
<1>13. \A v, u \in Scanning' :
        v # u /\ task'[v].repo = task'[u].repo => v \in crossed' \/ u \in crossed'
  BY <1>4, <1>5, <1>6, <1>11 DEF Apart, OverlapsAreCrossings
<1> QED
  BY <1>12, <1>13 DEF OverlapsAreCrossings

(* The new row crosses whoever has asked before it; the task that inserts  *)
(* it was crossed by any row that is there.                                *)
LEMMA BeginApart ==
    ASSUME Apart, TypeOK', NEW t \in Tasks, BeginScan(t)
    PROVE  OverlapsAreCrossings'
<1>1. /\ task[t].at = "begin" /\ others' = others
      /\ crossed' = crossed \union (Between(task[t].repo) \ {t})
  BY DEF BeginScan
<1>2. /\ task'[t].at = "scan"
      /\ \A u \in Tasks : task'[u].repo = task[u].repo
      /\ \A u \in Tasks \ {t} : task'[u] = task[u]
  BY <1>1, BeginFacts DEF Apart
<1>3. Scanning' = Scanning \union {t} /\ t \notin Scanning
  BY <1>1, <1>2 DEF Scanning, At
<1>4. At({"mark", "wait", "begin"})' = At({"mark", "wait", "begin"}) \ {t}
  BY <1>1, <1>2 DEF At
<1>5. \A r : StartedRow(r)' <=> StartedRow(r) \/ r = task[t].repo
  BY <1>1, <1>2, <1>3 DEF StartedRow, Scanning, At
<1>6. ASSUME NEW u \in At({"mark", "wait", "begin"})', StartedRow(task[u].repo)'
      PROVE  u \in crossed'
  <2>1. u \in Tasks /\ u \in At({"mark", "wait", "begin"}) /\ u # t
    BY <1>4, <1>6 DEF At
  <2>2. task'[u].repo = task[u].repo
    BY <1>2, <2>1
  <2>3. CASE task[u].repo = task[t].repo
    BY <1>1, <2>1, <2>3 DEF Between
  <2>4. CASE task[u].repo # task[t].repo
    <3>1. StartedRow(task[u].repo)
      BY <1>5, <1>6, <2>2, <2>4 DEF StartedRow
    <3> QED
      BY <1>1, <2>1, <3>1 DEF Apart, OverlapsAreCrossings
  <2> QED
    BY <2>3, <2>4
<1>7. ASSUME NEW v \in Scanning', NEW u \in Scanning',
             v # u, task'[v].repo = task'[u].repo
      PROVE  v \in crossed' \/ u \in crossed'
  <2>1. v \in Tasks /\ u \in Tasks
    BY DEF Scanning, At
  <2>2. task[v].repo = task[u].repo
    BY <1>2, <1>7, <2>1
  <2>3. CASE v # t /\ u # t
    BY <1>1, <1>3, <1>7, <2>2, <2>3 DEF Apart, OverlapsAreCrossings
  <2>4. CASE v = t \/ u = t
    <3>1. StartedRow(task[t].repo)
      BY <1>3, <1>7, <2>2, <2>4 DEF StartedRow
    <3>2. t \in crossed
      BY <1>1, <3>1 DEF Apart, OverlapsAreCrossings, At
    <3> QED
      BY <1>1, <2>4, <3>2
  <2> QED
    BY <2>3, <2>4
<1> QED
  BY <1>6, <1>7 DEF OverlapsAreCrossings

(* A row that somebody else inserts crosses whoever has asked before it.   *)
LEMMA OtherApart ==
    ASSUME Apart, TypeOK', NEW r \in Repos, OtherScanStarts(r)
    PROVE  OverlapsAreCrossings'
<1>1. /\ others' = others \union {r} /\ crossed' = crossed \union Between(r)
      /\ task' = task
  BY DEF OtherScanStarts
<1>2. Scanning' = Scanning /\ At({"mark", "wait", "begin"})' = At({"mark", "wait", "begin"})
  BY <1>1 DEF Scanning, At
<1>3. \A q : StartedRow(q)' => StartedRow(q) \/ q = r
  BY <1>1, <1>2 DEF StartedRow
<1> QED
  BY <1>1, <1>2, <1>3 DEF Apart, OverlapsAreCrossings, Between

LEMMA ApartNext == Apart /\ [Next]_vars => Apart'
<1> SUFFICES ASSUME Apart, [Next]_vars PROVE OverlapsAreCrossings' /\ TypeOK'
  BY DEF Apart
<1>0. TypeOK'
  BY TypeNext DEF Apart
<1>1. CASE Tick
  BY <1>0, <1>1, RestApart DEF Tick
<1>2. ASSUME NEW item \in todo, Launch(item) PROVE OverlapsAreCrossings'
  BY <1>0, <1>2, LaunchApart
<1>3. ASSUME NEW item \in todo, Skip(item) PROVE OverlapsAreCrossings'
  BY <1>0, <1>3, RestApart DEF Skip
<1>4. ASSUME NEW t \in Tasks, TaskStep(t) PROVE OverlapsAreCrossings'
  <2>1. CASE HasRunningScan(t)
    BY <1>0, <2>1, MoveApart, EndApart DEF HasRunningScan
  <2>2. CASE MarkRun(t)
    BY <1>0, <2>2, MoveApart, EndApart DEF MarkRun
  <2>3. CASE LimiterRun(t)
    BY <1>0, <2>3, MoveApart DEF LimiterRun
  <2>4. CASE BeginScan(t)
    BY <1>0, <2>4, BeginApart
  <2>5. CASE LimiterTimeout(t) \/ recordTipUnchangedSkip(t) \/ FinishScan(t)
    BY <1>0, <2>5, EndApart DEF LimiterTimeout, recordTipUnchangedSkip, FinishScan
  <2>6. CASE LeaveStarted(t)
    <3>1. t \in Scanning
      BY <2>6 DEF LeaveStarted, Scanning, At
    <3> QED
      BY <1>0, <2>6, <3>1, EndApart DEF LeaveStarted
  <2> QED
    BY <1>4, <2>1, <2>2, <2>3, <2>4, <2>5, <2>6 DEF TaskStep
<1>5. CASE Advance
  BY <1>0, <1>5, RestApart DEF Advance
<1>6. ASSUME NEW r \in Repos, OtherScanStarts(r) PROVE OverlapsAreCrossings'
  BY <1>0, <1>6, OtherApart
<1>7. ASSUME NEW r \in Repos, OtherScanEnds(r) \/ SetSchedule(r) PROVE OverlapsAreCrossings'
  BY <1>0, <1>7, RestApart DEF OtherScanEnds, SetSchedule
<1>8. CASE Crash
  <2>1. \A t \in Tasks : task'[t].at = "free"
    BY <1>8 DEF Crash, Free
  <2> QED
    BY <1>0, <2>1 DEF OverlapsAreCrossings, Scanning, At
<1>9. CASE Start
  <2>1. UNCHANGED <<task, crossed>> /\ others' \subseteq others
    BY <1>9 DEF Start
  <2> QED
    BY <1>0, <2>1, RestApart
<1>10. CASE UNCHANGED vars
  BY <1>0, <1>10, RestApart DEF vars
<1> QED
  BY <1>0, <1>1, <1>2, <1>3, <1>4, <1>5, <1>6, <1>7, <1>8, <1>9, <1>10 DEF Next

(* However ticks, other scans, restarts and the tasks interleave, a        *)
(* scheduled scan runs beside another scan of its repository only when the *)
(* row of one of them came between the other's check (tryRunScheduled,     *)
(* orch/scheduler.go) and its own row (runScheduledRepositoryScan,         *)
(* main.go): a row that was there to be seen is never overlooked.          *)
THEOREM OverlapsCrossed == Spec => []OverlapsAreCrossings
<1>1. Init => Apart
  <2> SUFFICES ASSUME Init PROVE OverlapsAreCrossings
    BY InitType DEF Apart
  <2>1. Scanning = {} /\ At({"mark", "wait", "begin"}) = {}
    BY DEF Init, Scanning, At, Free
  <2> QED
    BY <2>1 DEF OverlapsAreCrossings
<1>2. Apart => OverlapsAreCrossings
  BY DEF Apart
<1> QED
  BY <1>1, <1>2, ApartNext, PTL DEF Spec

-----------------------------------------------------------------------------
(***************************************************************************)
(* The limiter.                                                            *)
(***************************************************************************)
InLimiter == At({"begin", "scan"})

(* Whoever moves, the limiter gains at most one task, and only when it has *)
(* room.                                                                   *)
LEMMA LimiterStep ==
    ASSUME TypeOK, [Next]_vars
    PROVE  \/ InLimiter' \subseteq InLimiter
           \/ \E t \in Tasks : ~LimiterFull /\ InLimiter' = InLimiter \union {t}
<1>0. Free.at = "free"
  BY DEF Free
<1>1. CASE UNCHANGED task
  BY <1>1 DEF InLimiter, At
<1>2. ASSUME NEW item \in todo, Launch(item) PROVE InLimiter' \subseteq InLimiter
  BY <1>2 DEF Launch, InLimiter, At, TypeOK
<1>3. CASE Crash
  BY <1>0, <1>3 DEF Crash, InLimiter, At
<1>4. ASSUME NEW t \in Tasks, TaskStep(t)
      PROVE  \/ InLimiter' \subseteq InLimiter
             \/ ~LimiterFull /\ InLimiter' = InLimiter \union {t}
  <2>1. task[t].at # "free"
    BY <1>4 DEF TaskStep, HasRunningScan, MarkRun, LimiterRun, LimiterTimeout,
                recordTipUnchangedSkip, BeginScan, FinishScan, LeaveStarted
  <2>2. CASE End(t)
    <3>1. task'[t].at = "free" /\ \A u \in Tasks \ {t} : task'[u] = task[u]
      BY <1>0, <2>2, EndFacts
    <3> QED
      BY <3>1 DEF InLimiter, At
  <2>3. CASE LimiterRun(t)
    <3>1. ~LimiterFull /\ task'[t].at = "begin"
          /\ \A u \in Tasks \ {t} : task'[u] = task[u]
      BY <2>1, <2>3, MoveFacts DEF LimiterRun, Busy, Stages
    <3>2. InLimiter' = InLimiter \union {t}
      BY <3>1 DEF InLimiter, At
    <3> QED
      BY <3>1, <3>2
  <2>4. CASE BeginScan(t)
    <3>1. task[t].at = "begin" /\ \A u \in Tasks \ {t} : task'[u] = task[u]
      BY <2>4, BeginFacts DEF BeginScan
    <3> QED
      BY <3>1 DEF InLimiter, At
  <2>5. CASE \E s \in {"mark", "wait"} : Move(t, s)
    <3>1. task'[t].at \in {"mark", "wait"} /\ \A u \in Tasks \ {t} : task'[u] = task[u]
      BY <2>1, <2>5, MoveFacts DEF Busy, Stages
    <3> QED
      BY <3>1 DEF InLimiter, At
  <2> QED
    BY <1>4, <2>2, <2>3, <2>4, <2>5 DEF TaskStep, HasRunningScan, MarkRun,
         LimiterTimeout, recordTipUnchangedSkip, FinishScan, LeaveStarted
<1> QED
  BY <1>1, <1>2, <1>3, <1>4 DEF Next, vars, Tick, Skip, Advance, OtherScanStarts,
       OtherScanEnds, SetSchedule, Start

(* However slow the polls and whatever else happens, the scheduled         *)
(* analyses that run at once are never more than the analysis limiter has  *)
(* places (limiter/limiter.go), though each tick of the scheduler has a    *)
(* semaphore of its own.                                                   *)
THEOREM LimiterBound ==
    ASSUME IsFiniteSet(Tasks)
    PROVE  Spec => []LimiterBounds
<1>1. Init => LimiterBounds
  <2> SUFFICES ASSUME Init PROVE LimiterBounds
    OBVIOUS
  <2>1. At({"begin", "scan"}) = {}
    BY DEF Init, At, Free
  <2> QED
    BY <2>1, FS_EmptySet DEF LimiterBounds
<1>2. TypeOK /\ LimiterBounds /\ [Next]_vars => LimiterBounds'
  <2> SUFFICES ASSUME TypeOK, LimiterBounds, [Next]_vars PROVE LimiterBounds'
    OBVIOUS
  <2>1. InLimiter \in SUBSET Tasks
    BY DEF InLimiter, At
  <2>2. IsFiniteSet(InLimiter)
    BY <2>1, FS_Subset
  <2>3. Cardinality(InLimiter) \in Nat /\ Cardinality(InLimiter) <= Slots
    BY <2>2, FS_CardinalityType DEF InLimiter, LimiterBounds
  <2>4. Cardinality(InLimiter') <= Slots
    <3>1. CASE InLimiter' \subseteq InLimiter
      <4>1. Cardinality(InLimiter') <= Cardinality(InLimiter) /\ IsFiniteSet(InLimiter')
        BY <2>2, <3>1, FS_Subset
      <4>2. Cardinality(InLimiter') \in Nat
        BY <4>1, FS_CardinalityType
      <4> QED
        BY <2>3, <4>1, <4>2
    <3>2. ASSUME NEW t \in Tasks, ~LimiterFull, InLimiter' = InLimiter \union {t}
          PROVE  Cardinality(InLimiter') <= Slots
      <4>1. Cardinality(InLimiter) < Slots
        BY <2>3, <3>2 DEF LimiterFull, LimiterInUse, InLimiter
      <4>2. Cardinality(InLimiter') \in {Cardinality(InLimiter), Cardinality(InLimiter) + 1}
        BY <2>2, <3>2, FS_AddElement
      <4> QED
        BY <2>3, <4>1, <4>2
    <3> QED
      BY <3>1, <3>2, LimiterStep
  <2> QED
    BY <2>4 DEF InLimiter, LimiterBounds
<1> QED
  BY <1>1, <1>2, TypeCorrect, PTL DEF Spec
=============================================================================
