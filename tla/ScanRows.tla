------------------------------ MODULE ScanRows ------------------------------
(***************************************************************************)
(* The row of a scan from its admission to the end of issue filing:        *)
(* checkScanAdmission, Recorder.BeginScan, FinishScan, RecordFindings and  *)
(* the issue-sync marks, called by the goroutines of manual scans, pushes  *)
(* and tip-unchanged skips, beside readers that heal rows in               *)
(* GetLatestReconcilableScanForRepository, for one repository.             *)
(*                                                                         *)
(* A row keeps its status and, in summary_json, the state of persistence   *)
(* and of issue sync with the numbers of findings found and expected.      *)
(* Every mark but FinishScan goes through UpdateScanPipelineState, which   *)
(* reads the row and writes all of it back in two statements.              *)
(***************************************************************************)
EXTENDS Integers, FiniteSets, Sequences

CONSTANTS
    Scans,          \* scan identifiers
    NoScan,         \* the answer of a reader that finds none
    Handlers,       \* goroutines that carry a scan through
    Readers,        \* callers of GetLatestReconcilableScanForRepository
    Setups,         \* the environments: what handlers are called for, what may fail
    MaxFound        \* most findings one analysis reports

Kinds == {"manual", "push", "tip"}
Modes == {"none", "file", "skip", "dry", "failed"}

ASSUME ScanRowsAssumptions ==
    /\ NoScan \notin Scans /\ Handlers \cap Readers = {}
    /\ \A e \in Setups : /\ e.job \in [Handlers -> [kind : Kinds, scan : Scans]]
                         /\ e.modes \subseteq Modes /\ e.found \subseteq 0..MaxFound
                         /\ e.readers \subseteq Readers /\ e.budget \in Nat
                         /\ e.tunes \in BOOLEAN /\ e.sbom \in BOOLEAN
    /\ MaxFound \in Nat

VARIABLES
    setup,          \* the environment: the handlers' jobs, modes, numbers of
                    \* findings, readers, and a budget of faults
    row,            \* the table scans
    inst,           \* finding_instances rows of each scan
    begun,          \* scans in the order of started_at
    pc,             \* where each handler or reader is
    my,             \* each handler's repository id, settings and result
    held,           \* the row UpdateScanPipelineState has read, or NoRow
    target,         \* the scan a reader has found
    faults,         \* failures so far
    late,           \* history: rows inserted since a manual scan was admitted
    stray           \* history: rows whose handler left them started

tables == <<row, inst, begun>>
scanVars == <<setup, row, inst, begun, pc, my, held, target, faults, late, stray>>

Actors == Handlers \cup Readers
Statuses == {"none", "started", "analysis_complete", "completed",
             "persistence_incomplete", "failed"}
Rows == [status : Statuses, pers : {"none", "pending", "complete", "failed"},
         sync : {"none", "pending", "complete", "skipped"},
         issues : 0..MaxFound, expected : 0..MaxFound]
NoRow == [status |-> "none", pers |-> "none", sync |-> "none",
          issues |-> 0, expected |-> 0]
StartedRow == [NoRow EXCEPT !.status = "started"]

Locals == [known : BOOLEAN, mode : Modes, found : 0..MaxFound]
Fresh == [known |-> FALSE, mode |-> "none", found |-> 0]

HandlerSteps == {"idle", "visible", "begin", "analyze", "sbom", "dry", "review", "persist",
                 "persisted", "spoil", "respoil", "check", "file", "skipsync",
                 "synced", "done", "refused", "dead"}
ReaderSteps == {"idle", "heal", "dead"}

Scan(h) == setup.job[h].scan
Kind(h) == setup.job[h].kind
Found(h) == my[h].found

ScanInit ==
    /\ setup \in Setups
    /\ row = [s \in Scans |-> NoRow] /\ inst = [s \in Scans |-> 0] /\ begun = <<>>
    /\ pc = [a \in Actors |-> "idle"]
    /\ my = [h \in Handlers |-> Fresh]
    /\ held = [a \in Actors |-> NoRow] /\ target = [r \in Readers |-> NoScan]
    /\ faults = 0 /\ late = [h \in Handlers |-> {}] /\ stray = {}

\* A handler that returns forgets what it had in its variables.
Goto(a, s) ==
    /\ pc' = [pc EXCEPT ![a] = s]
    /\ my' = IF s \in {"done", "refused"} THEN [my EXCEPT ![a] = Fresh] ELSE my

Fault(kind) == kind \in setup.faults /\ faults < setup.budget /\ faults' = faults + 1

(***************************************************************************)
(* What the store answers.                                                 *)
(***************************************************************************)

IsReconcilable(r, n) ==
    IF r.pers = "complete" /\ r.expected > 0 THEN n >= r.expected
    ELSE IF r.pers = "complete" THEN n > 0 \/ r.issues = 0
    ELSE r.pers = "none" /\ n >= r.issues

Reconcilable(s) ==
    /\ row[s].status \in {"completed", "analysis_complete", "persistence_incomplete"}
    /\ IsReconcilable(row[s], inst[s])

\* The newest scan that GetLatestReconcilableScanForRepository would return.
LatestReconcilable ==
    LET at == {i \in DOMAIN begun : Reconcilable(begun[i])}
    IN  IF at = {} THEN NoScan ELSE begun[CHOOSE i \in at : \A j \in at : j <= i]

HasRunningScan == \E s \in Scans : row[s].status = "started"

CompletedScans == Cardinality({s \in Scans : row[s].status = "completed"})

(***************************************************************************)
(* UpdateScanPipelineState: the read, the write of the whole row with the  *)
(* merged fields, or an error of either, after which the caller goes on.   *)
(***************************************************************************)
UpdateScanPipelineState(a, s, merged, next, failed) ==
    /\ \/ /\ held[a] = NoRow /\ row[s] # NoRow
          /\ held' = [held EXCEPT ![a] = row[s]]
          /\ UNCHANGED <<row, pc, my, faults>>
       \/ /\ held[a] # NoRow
          /\ row' = [row EXCEPT ![s] = merged]
          /\ held' = [held EXCEPT ![a] = NoRow] /\ Goto(a, next)
          /\ UNCHANGED faults
       \/ /\ IF row[s] = NoRow THEN UNCHANGED faults ELSE Fault("state")
          /\ held' = [held EXCEPT ![a] = NoRow] /\ Goto(a, failed)
          /\ UNCHANGED row
    /\ UNCHANGED <<setup, inst, begun, late, stray>>

(***************************************************************************)
(* Admission and the start of a scan.                                      *)
(***************************************************************************)

\* A mutant: only the cooldown is checked.
CheckScanAdmission_NoRunning(h) ==
    /\ Kind(h) = "manual" /\ pc[h] = "idle"
    /\ Goto(h, "visible")
    /\ UNCHANGED <<setup, tables, held, target, faults, late, stray>>

\* The cooldown may refuse any scan that is not the repository's first.
CheckScanAdmission(h) ==
    /\ Kind(h) = "manual" /\ pc[h] = "idle"
    /\ \/ /\ HasRunningScan \/ begun # <<>>
          /\ Goto(h, "refused") /\ UNCHANGED <<late, faults>>
       \/ /\ ~HasRunningScan
          /\ Goto(h, "visible") /\ UNCHANGED <<late, faults>>
       \/ /\ Fault("admission")
          /\ Goto(h, "visible") /\ late' = [late EXCEPT ![h] = Scans]
    /\ UNCHANGED <<setup, tables, held, target, stray>>

\* BeginScan leaves a row that exists as it is.
BeginScan(h) ==
    IF row[Scan(h)] # NoRow THEN UNCHANGED <<row, begun, late>>
    ELSE /\ row' = [row EXCEPT ![Scan(h)] = StartedRow]
         /\ begun' = Append(begun, Scan(h))
         /\ late' = [g \in Handlers |-> IF pc[g] # "visible" \/ g = h THEN {}
                                        ELSE late[g] \cup {Scan(h)}]

EnsureManualScanVisible(h) ==
    /\ pc[h] = "visible"
    /\ \/ BeginScan(h) /\ Goto(h, "begin") /\ UNCHANGED faults
       \/ Fault("begin") /\ Goto(h, "refused") /\ UNCHANGED <<row, begun, late>>
    /\ UNCHANGED <<setup, inst, held, target, stray>>

\* A scan whose row could not be begun is run all the same, with no repository.
BeginPersistedScan(h) ==
    /\ pc[h] = IF Kind(h) = "manual" THEN "begin" ELSE "idle"
    /\ \/ /\ BeginScan(h) /\ UNCHANGED faults
          /\ my' = [my EXCEPT ![h] = [@ EXCEPT !.known = TRUE]] /\ pc' = [pc EXCEPT ![h] = "analyze"]
       \/ /\ Fault("begin") /\ UNCHANGED <<row, begun, late>>
          /\ Goto(h, IF Kind(h) = "tip" THEN "done" ELSE "analyze")
    /\ UNCHANGED <<setup, inst, held, target, stray>>

\* A row its handler leaves behind.
Strayed(s) == stray' = IF row[s].status = "started" THEN stray \cup {s} ELSE stray

(***************************************************************************)
(* Settings, analysis and FinishScan.                                      *)
(***************************************************************************)

\* A disabled repository ends a manual scan as failed, and a push with nothing.
SkipDisabledPush(h) ==
    /\ pc[h] = "analyze" /\ Kind(h) = "push"
    /\ Goto(h, "done") /\ Strayed(Scan(h))
    /\ UNCHANGED <<setup, tables, held, target, faults, late>>

\* What settings, request and analysis may decide; only manual scans are dry runs,
\* and an analysis that fails reports nothing.
Outcomes(kind) ==
    IF kind = "tip" THEN {[mode |-> "none", found |-> 0]}
    ELSE [mode : setup.modes \cap (IF kind = "manual" THEN {"file", "skip", "dry"}
                                  ELSE {"file", "skip"}), found : setup.found]
         \cup [mode : setup.modes \cap {"failed"}, found : {0}]

\* A mutant: the status is misspelt.
FinishedRow_Misspelt(kind, o) ==
    [status |-> "analysis-complete", pers |-> "pending", sync |-> "pending",
     issues |-> o.found, expected |-> o.found]

FinishedRow(kind, o) ==
    [status |-> IF kind = "tip" THEN "completed"
                ELSE IF o.mode = "failed" THEN "failed" ELSE "analysis_complete",
     pers |-> IF kind = "tip" THEN "none" ELSE "pending",
     sync |-> IF kind = "tip" THEN "none" ELSE "pending",
     issues |-> o.found, expected |-> o.found]

ReviewStep(mode) == IF mode = "dry" THEN "dry" ELSE "review"

\* A mutant: an analysis that fails returns before FinishScan.
FinishScan_NotOnError(h) ==
    /\ pc[h] = "analyze"
    /\ \E o \in Outcomes(Kind(h)) :
         IF o.mode = "failed" THEN Goto(h, "done") /\ UNCHANGED row
         ELSE /\ my' = [my EXCEPT ![h] = [@ EXCEPT !.mode = o.mode, !.found = o.found]]
              /\ pc' = [pc EXCEPT ![h] = ReviewStep(o.mode)]
              /\ row' = [row EXCEPT ![Scan(h)] = FinishedRow(Kind(h), o)]
    /\ UNCHANGED <<setup, inst, begun, held, target, faults, late, stray>>

\* An error of FinishScan is logged, and the handler goes on.
FinishScan(h) ==
    /\ pc[h] = "analyze"
    /\ \E o \in Outcomes(Kind(h)) :
         /\ \/ /\ row' = IF row[Scan(h)] = NoRow THEN row
                         ELSE [row EXCEPT ![Scan(h)] = FinishedRow(Kind(h), o)]
               /\ UNCHANGED <<faults, stray>>
            \/ Fault("finish") /\ Strayed(Scan(h)) /\ UNCHANGED row
         /\ \/ o.mode \in {"none", "failed"} /\ Goto(h, "done")
            \/ /\ o.mode \notin {"none", "failed"}
               /\ my' = [my EXCEPT ![h] = [known |-> @.known, mode |-> o.mode,
                                           found |-> o.found]]
               /\ \/ pc' = [pc EXCEPT ![h] = ReviewStep(o.mode)]
                  \/ setup.sbom /\ my[h].known /\ pc' = [pc EXCEPT ![h] = "sbom"]
    /\ UNCHANGED <<setup, inst, begun, held, target, late>>

\* With no status to set, the row goes back as it was read.
RecordSBOM(h) ==
    /\ pc[h] = "sbom" /\ UNCHANGED target
    /\ UpdateScanPipelineState(h, Scan(h), held[h],
                               ReviewStep(my[h].mode), ReviewStep(my[h].mode))

MarkDryRun(h) ==
    /\ pc[h] = "dry" /\ UNCHANGED target
    /\ UpdateScanPipelineState(h, Scan(h), [held[h] EXCEPT !.status = "completed"],
                               "review", "review")

\* Where issue filing starts once findings are persisted, or need not be.
SyncStep(h) == IF my[h].mode = "file" THEN "file" ELSE "skipsync"

\* maybeEnqueueOpenClawReview, which never changes the row.
AfterReview(h) ==
    /\ pc[h] = "review"
    /\ Goto(h, IF my[h].known THEN "persist" ELSE SyncStep(h))
    /\ UNCHANGED <<setup, tables, held, target, faults, late, stray>>

(***************************************************************************)
(* Persistence, filing and issue sync: createIssuesFromResult.             *)
(***************************************************************************)

\* A mutant: the error of the transaction is ignored.
PersistScanFindings_IgnoreError(h) ==
    /\ pc[h] = "persist" /\ Goto(h, "persisted")
    /\ \/ inst' = [inst EXCEPT ![Scan(h)] = @ + Found(h)] /\ UNCHANGED faults
       \/ Fault("persist") /\ UNCHANGED inst
    /\ UNCHANGED <<setup, row, begun, held, target, late, stray>>

\* One transaction: all findings of the scan, or none.
PersistScanFindings(h) ==
    /\ pc[h] = "persist"
    /\ \/ /\ inst' = [inst EXCEPT ![Scan(h)] = @ + Found(h)]
          /\ Goto(h, "persisted") /\ UNCHANGED faults
       \/ Fault("persist") /\ Goto(h, "spoil") /\ UNCHANGED inst
    /\ UNCHANGED <<setup, row, begun, held, target, late, stray>>

\* A mutant: the summary is updated and the status left.
MarkPersisted_SummaryOnly(h) ==
    /\ pc[h] = "persisted" /\ UNCHANGED target
    /\ UpdateScanPipelineState(h, Scan(h),
         [held[h] EXCEPT !.pers = "complete", !.expected = Found(h)], "check", "respoil")

MarkPersisted(h) ==
    /\ pc[h] = "persisted" /\ UNCHANGED target
    /\ UpdateScanPipelineState(h, Scan(h),
         [held[h] EXCEPT !.status = "completed", !.pers = "complete", !.expected = Found(h)],
         "check", "respoil")

\* A mutant: the failure is marked, and filing goes on.
MarkPersistenceFailed_GoOn(h) ==
    /\ pc[h] \in {"spoil", "respoil"} /\ UNCHANGED target
    /\ UpdateScanPipelineState(h, Scan(h),
         [held[h] EXCEPT !.status = "persistence_incomplete", !.pers = "failed"],
         SyncStep(h), SyncStep(h))

\* By RecordFindings, and again by its caller in MarkPersistenceFailed.
MarkPersistenceFailed(h) ==
    /\ pc[h] \in {"spoil", "respoil"} /\ UNCHANGED target
    /\ LET next == IF pc[h] = "spoil" THEN "respoil" ELSE "done" IN
       UpdateScanPipelineState(h, Scan(h),
         [held[h] EXCEPT !.status = "persistence_incomplete", !.pers = "failed",
                         !.sync = "skipped", !.expected = Found(h)], next, next)

IsPersistenceComplete(h) ==
    /\ pc[h] = "check"
    /\ \/ /\ IsReconcilable(row[Scan(h)], inst[Scan(h)])
          /\ Goto(h, SyncStep(h)) /\ UNCHANGED faults
       \/ /\ ~IsReconcilable(row[Scan(h)], inst[Scan(h)])
          /\ Goto(h, "done") /\ UNCHANGED faults
       \/ Fault("state") /\ Goto(h, "done")
    /\ UNCHANGED <<setup, tables, held, target, late, stray>>

\* A mutant: issues that cannot be recorded mark the persistence as failed.
FileIssues_SpoilOnError(h) ==
    /\ pc[h] = "file"
    /\ \/ Goto(h, IF my[h].known THEN "synced" ELSE "done") /\ UNCHANGED faults
       \/ my[h].known /\ Fault("link") /\ Goto(h, "respoil")
    /\ UNCHANGED <<setup, tables, held, target, late, stray>>

\* BackfillMissingMappings, CreateIssuesFromAnalysis and RecordExternalIssues.
FileIssues(h) ==
    /\ pc[h] = "file"
    /\ \/ Goto(h, IF my[h].known THEN "synced" ELSE "done") /\ UNCHANGED faults
       \/ my[h].known /\ Fault("link") /\ Goto(h, "done")
    /\ UNCHANGED <<setup, tables, held, target, late, stray>>

MarkIssueSyncComplete(h) ==
    /\ pc[h] = "synced" /\ UNCHANGED target
    /\ UpdateScanPipelineState(h, Scan(h),
         [held[h] EXCEPT !.status = "completed", !.sync = "complete"], "done", "done")

MarkIssueSyncSkipped(h) ==
    /\ pc[h] = "skipsync" /\ UNCHANGED target
    /\ UpdateScanPipelineState(h, Scan(h),
         [held[h] EXCEPT !.status = "completed", !.sync = "skipped"], "done", "done")

(***************************************************************************)
(* Readers.  The other healing of the code, of a reconcilable row whose    *)
(* status is not completed, is left out: ReconcilableIsCompleted shows     *)
(* that there is no such row.                                              *)
(***************************************************************************)

\* A mutant: only rows that are not completed are healed.
FindReconcilable_NotCompleted(r) ==
    /\ pc[r] = "idle" /\ r \in setup.readers
    /\ \E s \in Scans : /\ s = LatestReconcilable
                       /\ row[s].pers = "complete" /\ row[s].sync = "pending"
                       /\ row[s].status # "completed"
                       /\ target' = [target EXCEPT ![r] = s]
    /\ Goto(r, "heal") /\ UNCHANGED <<setup, tables, held, faults, late, stray>>

FindReconcilable(r) ==
    /\ pc[r] = "idle" /\ r \in setup.readers
    /\ \E s \in Scans : /\ s = LatestReconcilable
                       /\ row[s].pers = "complete" /\ row[s].sync = "pending"
                       /\ target' = [target EXCEPT ![r] = s]
    /\ Goto(r, "heal") /\ UNCHANGED <<setup, tables, held, faults, late, stray>>

HealIssueSync(r) ==
    /\ pc[r] = "heal"
    /\ UpdateScanPipelineState(r, target[r],
         [held[r] EXCEPT !.status = "completed", !.sync = "complete"], "idle", "idle")
    /\ target' = IF pc'[r] = "idle" THEN [target EXCEPT ![r] = NoScan] ELSE target

(***************************************************************************)
(* A restart ends every handler.  Rows that were started more than two     *)
(* minutes before are reaped: those of the first n scans.                  *)
(***************************************************************************)
Restart ==
    /\ Fault("crash")
    /\ pc' = [a \in Actors |-> IF a \in Readers THEN "idle"
                               ELSE IF pc[a] \in {"idle", "done", "refused"} THEN pc[a]
                               ELSE "dead"]
    /\ \E n \in 0..Len(begun) :
         LET reaped == {s \in Scans : /\ row[s].status = "started"
                                      /\ \E i \in 1..n : begun[i] = s}
         IN  /\ row' = [s \in Scans |-> IF s \in reaped
                                        THEN [row[s] EXCEPT !.status = "failed"] ELSE row[s]]
             /\ stray' = stray \cup {s \in Scans \ reaped : row[s].status = "started"}
    /\ my' = [h \in Handlers |-> Fresh] /\ late' = [h \in Handlers |-> {}]
    /\ held' = [a \in Actors |-> NoRow] /\ target' = [r \in Readers |-> NoScan]
    /\ UNCHANGED <<setup, inst, begun>>

HandlerStep(h) ==
    \/ CheckScanAdmission(h)
    \/ EnsureManualScanVisible(h)
    \/ BeginPersistedScan(h)
    \/ SkipDisabledPush(h)
    \/ FinishScan(h)
    \/ RecordSBOM(h)
    \/ MarkDryRun(h)
    \/ PersistScanFindings(h)
    \/ MarkPersisted(h)
    \/ MarkPersistenceFailed(h)
    \/ IsPersistenceComplete(h)
    \/ FileIssues(h)
    \/ MarkIssueSyncComplete(h)
    \/ MarkIssueSyncSkipped(h)

ReaderStep(r) == FindReconcilable(r) \/ HealIssueSync(r)

ScanNext ==
    \/ \E h \in Handlers : HandlerStep(h) \/ AfterReview(h)
    \/ \E r \in Readers : ReaderStep(r)
    \/ Restart

ScanSpec == ScanInit /\ [][ScanNext]_scanVars

(***************************************************************************)
(* Properties.                                                             *)
(***************************************************************************)

RowsTypeOK ==
    /\ setup \in Setups
    /\ row \in [Scans -> Rows] /\ inst \in [Scans -> Nat] /\ begun \in Seq(Scans)
    /\ pc \in [Actors -> HandlerSteps \cup ReaderSteps]
    /\ my \in [Handlers -> Locals]
    /\ held \in [Actors -> Rows] /\ target \in [Readers -> Scans \cup {NoScan}]
    /\ faults \in 0..setup.budget /\ late \in [Handlers -> SUBSET Scans]
    /\ stray \subseteq Scans

\* No row claims more than the table finding_instances holds: a scan whose
\* persistence is complete has all the instances it expected, whoever wrote its
\* row back last.
CompleteIsStored ==
    \A s \in Scans : row[s].pers = "complete" => inst[s] >= row[s].expected

\* The upgrade of a reconcilable row that is not completed, which
\* GetLatestReconcilableScanForRepository still has, finds nothing to do.
ReconcilableIsCompleted ==
    \A s \in Scans : Reconcilable(s) => row[s].status = "completed"

\* Phase 1 of createIssuesFromResult: no forge issue is filed for a repository
\* scan before all its findings are in the database.
FiledAfterPersisted ==
    \A h \in Handlers :
        pc[h] = "file" /\ my[h].known => inst[Scan(h)] >= Found(h)

(* What the store holds is what rows claim and issues are filed from, through   *)
(* whole-row writes of handlers and readers, failing statements and restarts:   *)
(* a complete persistence has its instances, a scan that reconciliation may use *)
(* is completed, and no finding is filed before it is stored (RecordFindings,   *)
(* GetLatestReconcilableScanForRepository, createIssuesFromResult).             *)
PersistedAsClaimed == CompleteIsStored /\ ReconcilableIsCompleted /\ FiledAfterPersisted

\* checkScanAdmission refuses a manual scan beside a running one: of the other
\* started rows, a manual scan's new row joins only those that were inserted after
\* the scan was admitted (or that the failed check could not see).
RefusedBesideRunning ==
    [][\A h \in Handlers :
         pc[h] = "visible" /\ row[Scan(h)] = NoRow /\ row'[Scan(h)] # NoRow
             => {s \in Scans : row[s].status = "started"} \subseteq late[h]]_scanVars

\* The handlers of a scan: more than one only if a client reuses its identifier.
Alone(s) == \A g, h \in Handlers : Scan(g) = s /\ Scan(h) = s => g = h

\* A completed persistence, and an issue sync that was completed or skipped, are
\* never undone while one handler works on the scan.
MarksStay ==
    [][\A s \in Scans : Alone(s) =>
         /\ row[s].pers = "complete" => row'[s].pers = "complete"
         /\ row[s].sync \in {"complete", "skipped"}
                => row'[s].sync \in {"complete", "skipped"}]_scanVars

(* Rows are neither inserted where the guard should have refused nor written    *)
(* back without the marks that others made, although admission and whole-row    *)
(* writes each take two statements (checkScanAdmission, UpdateScanPipelineState). *)
RowsAreGuarded == RefusedBesideRunning /\ MarksStay

\* No row stays started for ever, unless its handler left it behind: a push to
\* a disabled repository, a FinishScan that failed, or a crash less than two
\* minutes after the scan began.
StartedEnds == \A s \in Scans : []<>(row[s].status # "started" \/ s \in stray)

\* An issue sync left pending, by a crash or a failed link, does not stay so
\* while the scan is the newest that reconciliation may use: a reader settles
\* it.
SyncSettles ==
    \A s \in Scans :
        []<>~(setup.readers # {} /\ LatestReconcilable = s /\ row[s].sync = "pending")

(* Rows come to an end: no scan stays started but those their handlers leave    *)
(* behind, and no issue sync pending that a reader looks at (ReapStaleScans,    *)
(* finishPersistedScan, GetLatestReconcilableScanForRepository).                *)
RowsSettle == StartedEnds /\ SyncSettles
==============================================================================
