# Verification of Repository Detective

TLA+ specifications of the parts of Repository Detective where several scans,
requests, processes or machines meet, model-checked with TLC on small instances
and, for the results named below, proved with TLAPS for every value of the
constants. File names without a directory are modules of this directory; the
others are relative to the root of the repository.

1. [The system](#1-the-system)
2. [Modules and how they correspond to the code](#2-modules-and-how-they-correspond-to-the-code)
3. [Runs](#3-runs)
4. [Fairness](#4-fairness)
5. [Proofs](#5-proofs)
6. [Where code and documents disagree](#6-where-code-and-documents-disagree)
7. [What is not modelled](#7-what-is-not-modelled)
8. [Plan](#8-plan)

## 1. The system

Repository Detective scans repositories on Gitea (or GitHub) when a webhook, a
schedule or an operator asks for it. A scan checks the repository out, runs
external scanners and optional AI auditors, stores the findings in SQLite, files
one forge issue for each finding, and later decides whether a remediation has
made the finding go away. One process runs everything in goroutines; a second
process may share the store (a restart that overlaps, or a second container), and
remote runner workers may take scans over.

### Components

| Component | State | Operations | Module |
|---|---|---|---|
| **Issue filing** (`issues`, `issuelink`, `store/issue_filing_claims.go`) | claim rows, `external_issues`, a mutex per process, issues on the forge | repair of mappings, lookup, search, claim, poll, create, mark, link, release, record | `IssueFiling` |
| **Updates of filed issues** (`issues/lifecycle.go`) | the issue's body with its aging marker, comments | find, comment, age, report as not reproduced | `IssueUpdates` |
| **Issue labels** (`gitea/issue_labels.go`) | an issue's labels, exclusive scopes | attach, reread, verify, ensure, create with labels | `IssueLabels` |
| **Reporting routes** (`profile`, `calibration/knownsafe.go`) | none of its own: confidence, severity and action of a finding | normalize, calm, rule, filter, gate | `ReportingRoutes` |
| **Scheduler** (`orch/scheduler.go`, `limiter`) | last run per repository, semaphore of a tick, analysis limiter | poll, collect, launch, admit, scan | `Scheduler` |
| **Scan rows and admission** (`store/recorder.go`, `store/persistence_sqlite.go`, `main_scan_guard.go`) | scan rows with their JSON summary | admit, begin, finish, record, mark, heal | `ScanRows` |
| **First-run rule tuning** (`main_openclaw.go`) | a claim in `operator_evidence` | claim, take over when stale, review, release | `RuleTuning` |
| **Settings and filing policy** (`store/profile_resolve.go`, `store/policy.go`) | a row of overrides per repository | resolve, save, toggle, dry run | `ScanSettings` |
| **AI auditors and analysis engine** (`analyzers`, `ai`) | results of concurrent auditors, one slot, failure budget, cancellation | audit, collect, validate, prove | `AuditRun` |
| **Runner delegation** (`runner`, `store/runner_sqlite.go`) | job rows, capacity, expiry | dispatch, fall back, claim, submit, ingest, cancel, expire | `RunnerJobs` |
| **Webhook replay protection** (`store/webhook_deliveries.go`, `handlers/webhook.go`) | delivery rows, time of the last pruning | claim, prune, dispatch, complete | `WebhookDelivery`, `ReplayGuard` |
| **Pull request scans and commit status** (`main.go`, `gitea`, `issues/pr_summary.go`) | statuses of commits, the summary comment | pend, analyse, report, comment, deduplicate | `PullGate` |
| **Evidence closure and reconciliation** (`closure`, `reconcile`) | evidence rows, patch attempts, finding status | check merge, verify, close, reconcile | `EvidenceClosure` |
| **Remediation plans** (`remediation`, `patcher/eligibility.go`) | plan rows | recipe, supersede, save, decide, request | `RemediationPlans` |
| **Patch attempts** (`patcher`, `main_remediation_pr.go`) | branches, pull requests, attempt rows | prepare, patch, push, open, comment, save | `PatchAttempts` |
| **Suppressions** (`main_suppressions.go`, `calibration/matcher.go`) | rules in the store, the matcher's lists, finding status | write, load, invalidate, filter, expire | `Suppressions` |
| **Learning and calibration** (`store/learning_sqlite.go`, `main_calibration.go`) | events, statistics, recommendations, rules | mark, recompute, propose, accept, revert, expire | `RuleLearning` |
| **Tools cache** (`operator/scanners.go`) | a cached answer, its key, two locks and a flag | look up, probe, save, invalidate | `ToolsCache` |
| **Pre-install audit** (`preinstall`) | an audit row, findings, reports | start, clone, scan, conclude, fail | `PreinstallAudit` |
| Scanners, code graph, health, SBOM, containers, prompts, REST API, UI, authentication, notifications, MCP bridge | see section 7 | | |

### What is hard

* **Interleaving.** Two processes both find no issue and both file one; two scans
  of a repository overlap and finish in the other order; two workers claim at
  once; a task that was checked long ago is only now about to start its scan; two
  attempts push one branch; a mark, a recompute and an operator touch one rule.
* **Check, then act, in separate statements.** A capacity is counted and a job
  inserted; a mapping looked up and another inserted; a status read and the row
  updated without asking again; a JSON summary read, merged and written back whole.
* **State that is stale when used.** Settings looked up at the start of a scan and
  again at its end; a list of rules loaded before a lock and stored under it; a plan
  made from a finding that has changed; a head that moved; a probe of old settings.
* **Partial failure.** Every forge call and SQL statement may fail, most errors
  are only logged, and the next step runs all the same.
* **Crash and restart.** What the process held in memory is gone, what it wrote
  stays: claim rows, started scan rows, processing deliveries, running jobs, pull
  requests whose attempt was never saved.
* **Time.** Leases, expiries, poll windows, request contexts, deadlines and cron
  periods race with slow answers.
* **Liveness.** A claim whose holder died, a job whose worker died, a repository
  that always finds the semaphore full, an evidence row whose update failed, an
  auditor's slot that is never given back.

### What makes each component correct

* *Issue filing*: one open issue per fingerprint, with the claim as exclusion and
  as record of an issue that is not linked yet; the finding is filed in the end.
* *Updates and labels*: an interval of aging is told once however many passes run;
  a call that says the labels are on the issue has seen them there.
* *Reporting routes*: no layer undoes what an earlier one kept quiet, a secret is
  silenced by nothing else, a stricter mode and a surer scanner never file less.
* *Scheduler*: scans of one repository overlap only when the row of one comes between
  the check and the row of the other; a due time is not for ever put off; the limiter
  bounds analyses.
* *Scan rows*: a scan shown as stored is stored, issues are filed after their
  findings, admission refuses beside a running scan, marks are not lost.
* *Tuning*: one tuning owns the claim, and who lost it changes nothing.
* *Settings*: a scan files and audits as the row stored while it was under way allows.
* *Auditors*: an answer that came is counted, failures abort only when they must,
  the slot comes back, every analysis reports.
* *Runner*: one claimant per job, core or a runner but not both, final answers stay
  and are those the scan shows, the limit is passed only by counts that crossed,
  everything ends.
* *Webhook*: a delivery is dispatched at most once while it is remembered, and
  nothing is called a duplicate or processed that nobody took.
* *Pull requests*: a success stands for a verdict about that commit, and for clean code
  where all of it was read; there is one summary comment, and every head gets its
  final status.
* *Closure*: a finding is resolved only on a scan at whose start it was gone; a
  merge is noticed and every pending row decided.
* *Remediation*: one proposal at a time, a pull request only for an approved small
  fix that was validated, and none that the store does not know of.
* *Suppressions, learning*: the matcher tells what the table holds; a disposition
  counts once; a rule can be reverted by whoever it came from.
* *Tools cache*: an answer belongs to the settings of its key, one probe at a time.
* *Pre-install audit*: "safe" is recommended on what the scanners found, and the
  audit ends.

## 2. Modules and how they correspond to the code

Each component is one module: its state, `Init`, one action per handler, statement
or call, `Next`, `Spec`, and its properties. Definitions keep the names of Go
functions where one corresponds to the other. `MC*.tla` name the functions that a
`.cfg` file gives to constants, and `MCServices`, `MCBackground` and `MCDeferred`
put components side by side. Eight `*Proofs.tla` hold the theorems: one for each of
`IssueFiling`, `Scheduler`, `RunnerJobs`, `WebhookDelivery` and `EvidenceClosure`, and
`ServicesProofs`, `BackgroundProofs` and `DeferredProofs` for the other parts of those
three modules and for the modules themselves. Definitions named
`X_Something`, above `X`, are bugs planted on purpose: replacing `X` by one of them
must make TLC find the property violated that guards against it (`PROJECT.json`,
"mutants").

What may go wrong is a constant (`Faults`, `Conditions`, `Circumstances`): a set of
named kinds of event. A property that needs an assumption ("leases outlast their users") is
checked and proved without the kind that breaks it, and with all those that do
not. Every assumption of this sort is therefore visible in a `.cfg` file or in the
statement of a theorem.

Three modules check several components in one run. Their behaviours are those of
one component each, chosen by `part` in the first state; the parts share no state,
so that this is neither a composition nor a restriction of any of them (each of the three
proof modules shows that a behaviour of the whole is one of every part). Where
components do interact they are in one module (`RuleTuning` extends `ScanRows`;
`RunnerJobs` has the scan row; `EvidenceClosure` has attempts, scans and
reconciliation), or a module takes what the other promises as its environment
(`PatchAttempts` starts where `RemediationPlans` grants a request; `PullGate` starts
where a delivery was dispatched; the lost answers of `IssueFiling` include the
issues that `IssueLabels` creates and reports as failed).

### IssueFiling

One (repository, forge, fingerprint) slot. A *worker* is one scan's post-analysis
pass; workers of one process share a claim holder id and `issueCreateMu`. The pass
in the code and in the model:

| Step (`pc`) | Action | Code |
|---|---|---|
| idle | `RefreshExternalIssueStates` | `issuelink/refresh.go` |
| backfill | `BackfillExternalIssueMappings` | `issuelink/backfill.go` |
| link, linkput | `LinkForgeIssue`, `UpsertExternalIssue` | `issuelink/backfill.go`, two statements |
| lookup | `MappedIssueNumber` (takes the mutex) | `store/external_issue_lookup.go` |
| search | `FindIssueByFingerprint` | `issues/tracker.go` |
| acquire, readrow | `AcquireIssueFilingClaim`, `ReadClaimRow` | `store/issue_filing_claims.go`: upsert, then select |
| poll, pollrow | `PollSearch`, `PollRow`, `PollDeadline`, `PollCancelled` | the convergence poll of `issues/manager.go` |
| reacquire, rereadrow | `ReacquireIssueFilingClaim`, `RereadClaimRow` | the second attempt after the poll |
| create | `createIssueForProblem` | the forge call: success, refusal, or an answer that is lost |
| mark | `MarkIssueFilingClaimFiled` | `UPDATE ... WHERE holder = ?` |
| update | `updateExistingIssue` | the comment on an existing issue |
| release | `ReleaseIssueFilingClaim` | deletes the row of the holder, or any filed row |
| record | `RecordExternalIssuesBatch` | one transaction; the lowest number stays open |

The environment: `LeaseLapses`, `Crash` (a restarted process has a new holder id,
so a crashed one never comes back), `CloseOnForge`. Claims have a holder, a state,
an issue and whether the lease has lapsed; issue numbers are creation order.

### IssueUpdates and IssueLabels

`IssueUpdates` is what passes over one finding do to its issue: `SkipFaint` and
`StopAtMaximum` (the gates), `FindIssue`, `CreateIssue`, `Comment` (which of the
comments of `buildUpdateComment` is due), `EditIssueBody` (the aging marker), and
`ListOpenIssues` with `ReportNotReproduced`. Bodies are what the next pass reads off
them: severity, place, days. `DayPasses` moves the clock between the thresholds of
`issues/lifecycle.go`.

`IssueLabels` is one issue's labels under Gitea's exclusive scopes and the calls that
attach them: `FilterLabelsNotOnIssue`, `Attach`, `Reread`, `VerifyRequestedLabels`,
`Ensure`, `Retry` and `FinalCheck`, and `ResolveForIssue` with `CreateWithLabels` for
new issues. The forge may drop labels, answer with nothing or fail; people relabel.

### ReportingRoutes

One finding from its scanner to the forge: `NormalizeIssues` (`AdjustConfidence`,
`DecideAction`), `ApplyKnownSafeRouting`, `ToAnalysisResult` where a runner scanned,
`ApplyRepoRoutingForForge`, `FilterIssuesForForge` and `ProcessIssue`. The module is
the chain as pure operators plus the steps that apply them; the properties compare
the outcome with that of another mode or another confidence. Confidences are in
hundredths, and findings whose adjusted confidence meets a threshold exactly are
not enumerated: `0.7 - 0.2` is less than `0.5` in Go.

### Scheduler

`Tick` is `refreshSchedules` with `collectDue`: it copies due times out of the
states, as the code does, and begins with an empty semaphore (the channel is made
anew in every tick). `Launch` and `Skip` are the loop over the due items; a task
then goes through `HasRunningScan`, `MarkRun` (the capacity check and the advance
of `lastRun`), `LimiterRun` or `LimiterTimeout`, and one of
`recordTipUnchangedSkip`, `BeginScan` and `FinishScan`, or `LeaveStarted` (the row
is left to a runner, or the repository had been disabled). `OtherScanStarts` and
`OtherScanEnds` are manual and delegated scans; `Crash` and `Start` are the restart
with the reaping of rows that runs beside the first refresh. A cron expression is
reduced to a period.

Time goes on, ticks come and other scans start whatever a task is waiting for: between
its check and its row there are the capacity check, `lastRun` and the wait for the
limiter, which may last as long as the analysis timeout, while polls are sixty seconds
apart. `Between(r)` are the tasks in that window, and the history variable `crossed`
holds those whose repository got a started row there. `OverlapsAreCrossings` says that
nothing else makes scans overlap: neither rows left started, restarts, schedules switched
off and on, nor the slots of several ticks. That they do overlap, against the document,
is the run `SchedOverlap`.

### ScanRows and RuleTuning

`ScanRows` has the rows of one repository and the handlers that run scans: manual
ones (`CheckScanAdmission`, `EnsureManualScanVisible`), webhooks (`SkipDisabledPush`)
and core scans (`BeginScan`, `BeginPersistedScan`), then `FinishScan`, `RecordSBOM`,
`MarkDryRun`, `PersistScanFindings`, `MarkPersisted` or `MarkPersistenceFailed`,
`IsPersistenceComplete`, `FileIssues` and the two marks of issue sync, with readers
that find reconcilable scans and heal (`FindReconcilable`, `HealIssueSync`) and
`Restart`. `UpdateScanPipelineState` is two steps, the read of the summary and the
write of the whole row. A client may supply a scan id, so that two handlers share a
row. The healing that depends on `heal1` is left out: the run shows its condition
never to hold.

`RuleTuning` extends it with the tuning that a finishing scan may start: the claim
in `operator_evidence` (`TryInsertOperatorEvidence`, `ReplaceOperatorEvidenceIfStale`,
`LoseClaim`), the review (`StartReview`, `LookForReview`, `BuildPacket`,
`ModelAnswers`, `ApplyRules`, `PutTuned`) and the three ways out (`EarlyRelease`,
`ReadForRelease` with `DeleteIfInProgress`, `GiveBackClaim`); `BecomeStale` and
`Expire` are the clock.

### ScanSettings

The row of overrides as operators save it (`UpdateRepoSettings`) and toggle it
(`SetRepoScanEnabled`), and the layers of `Effective`: platform, profile, overrides,
the kill switch, what was asked, the dry run. A scan looks the settings up
(`LookUp`), is analysed by core or by a runner (`Delegate`, `Analyze`), and its result
is ingested (`Ingest`), which looks them up again. The read may fail.

### AuditRun

Analyses and their auditors: `StartBatch`, `AcquireAuditorSlot` (the gate of one
for the process), `CallAnswers`, `CallErrs`, `CallAborts`, `EndCall`, `Collect` (the
collector that counts failures and cancels), then `Validate` and `Prove` over the
candidates. `ContextEnds` is the caller's deadline.

### RunnerJobs

A request, its job row and its scan row share one name. `Begin`, `Count` and
`CreateRunnerJob` are the dispatch of the three kinds of job, with `Refused` and
`CoreScan` as what follows an error; dispatches overlap. A worker gets a job in two ways.
`Claim` is `ExpireStaleRunnerJobs` and the claim of the oldest queued job; a claim whose
answer is lost leaves the job running with no holder. `GetJobSpec` is the worker started
with `-job-id`: it is given any job that is not past its expiry, queued, running or
failed, and claims nothing. `Submit`, `UpdateRunnerJob`, `FinishScan` and
`RecordFindings` are the four steps of a result. `Submit` asks what the code asks: the job
is neither completed nor cancelled nor past its expiry; not who sends the result, and
not whether another failed before or is being handled. The steps run on the request's
context, so a worker that goes away (`GiveUp`) makes the later ones fail, except the
last, which outlives the request. `CancelRunnerJob`, `Lapse` and `Restart` come in
between. A worker submits once each time it got the job: its client does not retry.

Two history variables name what the code leaves open. `crowded` has the requests that
were counted against the limit while another was counted and not inserted; `raced` has
the jobs a result of which was accepted while another result of the job was being
handled. Of a job that is not `raced` the properties claim all there is to claim.

### ReplayGuard and WebhookDelivery

`ReplayGuard` is the abstract promise: a claim of a delivery that is not remembered,
its launch, the loss of unlaunched claims, and forgetting. `WebhookDelivery` is the
handler over the table: `Receive`, `ClaimWebhookDelivery` (fails closed),
`MaybePrune`, `DeleteAged`, `DeleteExcess`, `Dispatch` (the analysis goroutine
detaches), `CompleteWebhookDelivery` (completes the row of the key, whoever
inserted it), `Age` and `Crash`. The refinement mapping takes the insert of the row
as the claim and reads the stage of a claim off the request's progress; `KeepsPromise`
is `ReplayGuard`'s specification under it.

### PullGate

Jobs for the commits of one pull request whose head moves (`HeadMoves`): the pending
status (`ReportPending`), the two looks at the forge (`GetPullRequest`,
`GetChangedFiles`), the analysis, the outcome of the policy (`ReportFinal`), and the
summary comment under a lock per pull request (`LoadOrStore`, `TakeLock`,
`ListComments`, `CreateComment` or `EditComment`, `DeleteDuplicates`). `CommentLands`
is a comment whose answer was lost; `GateDies` is the end of the process.

A scan need not see all that the pull request changes. The list of files is one page
(`gitea/client.go:419`); files that are too large or cannot be fetched are skipped
(`analyzers/engine.go:766`), and neither the findings nor the coverage know of them; and
the list may be that of a later head. `worst` is the worst finding in *all* the files
changed at each commit, a scan judges that or some part of it (`PartOf`), and the history
variable `unseen` holds the commits that were judged on a part. `PassedIsClean` is about
the others; `PassedIsJudged` is about all of them.

### EvidenceClosure

One finding with its remediation PR. Agents run scans and requests in the roles
they are given. A scan (`Analyse`) fixes what it saw of the branch when it started
and is completed by `RecordScan`; `earlier` (the running scans that started before
each), `outdated` and `last` keep which scan is the newest completed one by start, as
the queries order them. Then
`ListOpenAttempts`, `DetectMerge`, `UpdatePatchAttemptMerged`, `SaveClosureEvidence`
and `onPRMerged` notice the merge, `ListPending`, `UpdateClosureEvidence`,
`applyOutcome` and `CloseIssue` verify it. `RecordDirectRemediation`,
`VerifyFindingClosure` and `EnsureClosureEvidenceRow` are the operator's requests;
`Classify`, `ReconcileClose`, `ReconcileMap`, `ReconcileStatus` are
reconciliation. `Verify` is `closure/verify.go`, `AlreadyFixed` is the class of
`reconcile/engine.go` that closes issues. `gone` in a scan is what really was the
case: the code never sees it, `ClosedOnEvidence` compares with it.

### RemediationPlans and PatchAttempts

`RemediationPlans`: `Recipe`, `AssessRisk`, `Generate` and `CheckPREligibility` are the
pure decisions of `remediation` and `patcher/eligibility.go`; planners go through
`LoadFinding`, `SupersedeRemediationPlans` and `SavePlan`, operators through
`UpdatePlanStatus`, a request through `CheckRequest` and `GrantRequest`, while the
finding changes (`FindingChanges`). `PatchAttempts` is what granted requests do:
`StartAttempt`, `PrepareWorkspace`, `PatchAndValidate`, `PushBranch`,
`CreatePullRequest`, `CreateIssueComment` and `SavePatchAttempt`, with people who close
pull requests and delete branches, and the process dying.

### Suppressions and RuleLearning

`Suppressions` has the rules in the store, the lists of the matcher (per repository
and global) and the operators' four ways of writing them (`SuppressFinding`,
`UpdateFindingStatus`, `CreateSuppression`, `DisableSuppression`), each followed by
what it tells the matcher (`CalibrationChanged`, `Invalidate`); scans load
(`ListActiveSuppressions`, `LoadRepository`) and filter (`FilterIssues`).

`RuleLearning` has the events, statistics and recommendations of one rule:
`ApplyFindingSuppression` with `EmitFalsePositiveMarked`, `EmitClosureVerified`,
`Advise`; a recompute (`StartRecompute`, `Backfill`, `Cluster`, `Insert`, `ListPending`,
`Ingest`, `Rate`, `ListProposed`, `ApplyNext`); and decisions (`OperatorDecides`, `Look`,
`CreateRule`, `ExpireRules`, `UpdateStatus`), any of which may be given up.

### ToolsCache and PreinstallAudit

`ToolsCache`: `LookUp` under the read lock, `TakeInflight`, `Recheck`, `Probe` and
`TakeAnswer` under `toolsInflight`, the refresh in the background with its flag, and
the two steps of a save, the settings and `InvalidateToolsCache`.

`PreinstallAudit`: `MarkRunning`, `ShallowClone`, `ListWorkspaceFiles`, `RunScanners`,
`Conclude`, `AddAuditFindings`, `AddDisclosureReports` or `FailInstall`, all under the
audit's `Deadline`; `InstallDies` is the end of the process. What scanners and checks
find is a sequence of weights (grave, secret, minor), and the score is the code's: 35,
20 and 3 points, 5 for a scanner that failed, and a secret is never "safe". The
sequence is cut to `MaxFindings` before what lies in skipped paths is left out.

## 3. Runs

Distinct states and seconds are those of a run with two workers.

| Run | Properties | States | What it shows |
|---|---|---|---|
| `FilingRetry` | `OneOpenIssue` | 235 k, 9 s | three processes one after the other, with lost answers, refused creates, failing comments, claims, links and writes, crashes, slow holders, backlog control and people closing issues: at most one issue is ever open |
| `FilingLive` | `TypeOK` `ClaimExclusive` `NoProcessFilesTwice` `OneOpenMappingAtRest` `RecoveryRowOutlivesLinking` `FilingEnds` | 29 k, 17 s | two processes with three passes that overlap, with failing searches, comments and writes and with crashes: no two reach `CreateIssue` with the claim, no process files twice, a filed row goes only when a mapping exists, double mappings are undone, and the finding is filed in the end |
| `FilingRace` | `OneOpenIssue` (violated) |  | two processes that overlap file two issues (section 6) |
| `SchedOverlap` | `NoScanBesideStartedRow` (violated) |  | a scan starts beside a started row of its repository (section 6) |
| `Background` | `BackgroundTypeOK` `LimiterBounds` `OverlapsAreCrossings` `AgedOnce` `LabelsAreProven` `ToolsAreTrue` `LearningIsAccountable` `BackgroundSettles` | 193 k, 147 s | work that goes on behind scans: the scheduler beside other scans, with ticks whenever they come; updates and labels of issues, the tools cache, the learning of rules; what is due is served, callers are answered and marks are learned |
| `RunnerFaults` | `OneClaimant` `WithinCapacity` `CoreOrRunner` `AnalysisIsAnswered` `AnswersStay` | 1.8 M, 30 s | overlapping dispatches, workers started on a job by its id, results that fail, come twice or come for queued and failed jobs, refused inserts, lapses, cancellations, lost workers, restarts and failed statements |
| `Deferred` | `DeferredTypeOK` `ScansObeySettings` `SuppressionsAreTold` `PlansAreAccounted` `FindingsAreRouted` `DeferredSettles` | 906 k, 81 s | work that is done later than it was asked for: runner jobs and evidence rows end; settings, suppressions, plans and routes are what they should be when they are used |
| `ClosureEvidence` | `ClosedOnEvidence` | 3.4 M, 59 s | scans beside every kind of request, with pushes, a scanner that may be missing, and a failing call |
| `ClosurePartial` | `ClosedOnEvidence` (violated) |  | scans of changed files only resolve a finding they did not look for (section 6) |
| `Services` | `ServicesTypeOK` `PersistedAsClaimed` `ClaimsAreTrue` `AuditorsAreHeard` `PullsAreAccounted` `GateIsTrue` `RecommendedOnEvidence` `RowsAreGuarded` `TuningIsOwned` `KeepsPromise` `ServicesSettle` | 775 k, 167 s | what a process does for one scan or request: rows and tuning, the analysis, deliveries against `ReplayGuard`, patch attempts, the gate of a pull request, the audit before an install |
| `SummaryBehind` | `SummaryIsLatest` (violated) |  | the summary comment tells of an older commit (section 6) |
| `DryRunAway` | `DryRunFilesNothing` (violated) |  | a delegated dry run files issues (section 6) |

Some properties are conjunctions of what used to be asked separately; each conjunct
has its own definition and comment in its module. `PersistedAsClaimed` is
`CompleteIsStored`, `ReconcilableIsCompleted` and `FiledAfterPersisted`;
`RowsAreGuarded` is `RefusedBesideRunning` and `MarksStay`; `PullsAreAccounted` is
`OpenPullIsValidated` and `PullIsKnown`; `GateIsTrue` is `PassedIsClean`, `PassedIsJudged` and
`OneSummary`; `AnswersStay` is `EndedJobStays` and `CompletedScanStays`; `ToolsAreTrue` is `AnswersFit`, `NoStampede` and the flag;
`LearningIsAccountable` is `CountedOnce` and `RuleIsRevertible`; `SuppressionsAreTold` is
`EntryIsCurrent` and `FilterIsTrue`; `PlansAreAccounted` is `OneProposal` and
`GrantIsDue`; `FindingsAreRouted` is `QuietIsQuiet`, `SecretsAreTold`,
`StricterFilesMore` and `SurerNeverLoses`; the liveness properties `FilingEnds`,
`WorkEnds`, `ServicesSettle`, `BackgroundSettles` and `DeferredSettles` name theirs.

### Bounds, and why they are enough

* *IssueFiling*: two processes with three passes are the least in which the mutex
  (inside a process) and the claim (between processes) both matter; `FilingRetry`
  has three processes because a retry of a retry can find traces of both.
  `MaxIssues` caps issue creation, the one counter that grows. It is three, more than
  the properties allow two processes to file, so that the bound hides no violation.
  `OneOpenMappingAtRest` is checked without people closing issues, with which it fails:
  a closed mapping is opened again by nobody.
* *Scheduler*: two repositories, one of which fires twice as often, compete for one
  place in the semaphore and two tasks for one limiter place, with scans of others beside
  them; time goes to three, so that three ticks may each launch a task of the same
  repository. Two tasks and a scan of others are the least that can cross, and the
  theorems hold for any number. That analyses of others fill the limiter (`"denied"`) is
  in the theorems and not in the run, whose liveness it would make void.
* *RunnerJobs*: a limit of one is reached by the first job. In `RunnerFaults` two
  requests, a full scan that core may take back and one of the API, let two counts cross
  and one be refused while the other is held, and two workers meet at one job, with one
  claim, two, or none. `Deferred` has three requests, one of them an unlimited image
  scan. Jobs share a lifetime, so expiry runs along creation.
* *WebhookDelivery*: three requests over two deliveries give a duplicate and an
  unrelated delivery that pushes the first out of a table of one row.
* *EvidenceClosure*: two agents overlap in every way two scans or a scan and a
  request can. An operator adds rows up to `MaxRows`; one failure, at any
  statement or call, is enough to reach every error path once. In `Deferred` there are no pushes, and
  two failures.
* *ScanRows, RuleTuning*: two handlers and a reader, which is what a lost update of the
  summary takes; one restart. *AuditRun*: two contended analyses only where the first
  failure aborts, one otherwise. *PatchAttempts*: two attempts at one branch. *PullGate*:
  three jobs and one move of the head. *PreinstallAudit*: one audit, every scanner outcome.
* *IssueUpdates*: one finding, two passes at once and three in all, the days 0, 14 and
  30, three observations. *IssueLabels*: two calls with labels of a common scope and one
  new issue; one drop or failure and one change by people.
* *ToolsCache*: two callers and the refresher, two configurations, one save.
* *RuleLearning*: one finding in two courses, marks beside two recomputes that may be
  given up, and a recompute that applies by itself beside an operator's decisions.
  Two dispositions and one advice make a recommendation; two recommendations at most.
* *ScanSettings*: one scan, two edits out of five kinds, three platforms. Edits after
  all scans have ended are left out. *Suppressions*: two findings, a repository's rule for
  one and a global one for both, one scan, two operators, one failing call.
  *RemediationPlans*: nineteen findings, one in a behaviour, two planners, one request,
  one change or failure. *ReportingRoutes*: 702 findings, every mode, no counters.

`CHECK_DEADLOCK FALSE` stands where everything may be over: processes that have crashed
stay down (`IssueFiling`), and requests, audits and passes are handled once (`Services`,
`Background`, `Deferred`). The other runs check for deadlock.

## 4. Fairness

Fairness is assumed only of what the Go runtime or the clock guarantees.

* *IssueFiling*: a pass that runs goes on (`WF` on its steps). `PollDeadline` is
  strongly fair: the window is five seconds of wall clock, so it ends however often
  the poll goes round. A lease lapses with time. Nobody has to crash or close.
  `FilingEnds` assumes in its statement that some process keeps scanning.
* *Scheduler*: the restarted loop, its ticks, and tasks that can move are weakly
  fair. The launch for each repository is strongly fair: due items are kept in a Go
  map, whose iteration order is random, so no repository is always considered
  after another. Neither the end of someone else's scan nor the passing of time is
  assumed; `DueIsServed` therefore names the started row as excuse.
* *RunnerJobs*: `FairSpec` has the core serve and time pass. `FairRunners` adds that
  workers poll; without any worker polling a job stays queued until one does, since
  expiry happens in a claim or at a restart only.
* *EvidenceClosure*: scans are started again and again, and what has begun goes on;
  requests need never be sent (`Goes`).
* *ScanRows*: handlers go on, and readers keep coming (`FindReconcilable` is what a
  page or a request triggers). *AuditRun*: auditors that hold the slot end their
  call (the HTTP client has a timeout), who waits for the slot gets it in the end.
  *PullGate*, *PreinstallAudit*: what has begun goes on, unless the process died.
* *ToolsCache*: strong fairness for each caller, because Go's mutex hands over to
  whoever waited long (its starvation mode); weak for the step that clears the flag.
* *RuleLearning*: recomputes are started again and go on; some step of a backfill is
  strongly fair, for marks may come in between.
* *IssueUpdates*, *IssueLabels*, *PatchAttempts*, *ScanSettings*, *Suppressions*,
  *RemediationPlans*, *ReportingRoutes*: none; their properties are about safety.

In the runs that check several components a fairness condition is that of its part,
restricted to the behaviours of the part. `FairBackground` writes the strong conditions
of several parts as one, which in a behaviour of one part is the condition of it.

## 5. Proofs

The theorems hold for any sets of processes, workers, repositories, jobs, keys,
labels, callers or agents, all bounds and periods, and every set of faults their
statement does not exclude. They rest on the named `ASSUME`s of the modules, which
say that the constants have their types, and which TLC evaluates in the runs. Three
of these say more than that: a finding of trivy under a policy rule is a
misconfiguration (`PlanAssumptions`), as `scanners/trivy.go` reports them; confidences
are at most 100 hundredths (`RouteAssumptions`); an override is of a known field and
one of its values (`SettingsAssumptions`), as the handlers validate.

Every invariant and action property that a passing run checks is stated by a theorem.

| Theorem | States, for every instance | Excluded |
|---|---|---|
| *IssueFilingProofs* | | |
| `TypeCorrect` | `[]TypeOK` | nothing |
| `OneIssueOpen` | `[]OneOpenIssue` | passes of different processes that overlap, failing searches |
| `OneMapping` | `[]OneOpenMappingAtRest` | slow lease holders, failing links, claims and creates, lost answers, backlog control, people closing issues |
| `ClaimExclusion` | `[]ClaimExclusive` | slow lease holders, failing links |
| `RecoveryRow` | `RecoveryRowOutlivesLinking` | the same |
| `OneIssuePerProcess` | `[]NoProcessFilesTwice` | failing links, claims and creates, lost answers, backlog control |
| *SchedulerProofs* | | |
| `TypeCorrect` | `[]TypeOK` | nothing |
| `LimiterBound` | `[]LimiterBounds` | nothing (finitely many tasks) |
| `OverlapsCrossed` | `[]OverlapsAreCrossings` | nothing |
| *RunnerJobsProofs* | | |
| `TypeCorrect` | `[]TypeOK` | nothing |
| `JobExclusion`, `CoreAlone` | `[]OneClaimant`, `[]CoreOrRunner` | nothing |
| `AnalysisAnswered`, `AnswersAreFinal` | `[]AnalysisIsAnswered`, `AnswersStay` | what the properties name (results that met) |
| `CapacityHeld` | `[]WithinCapacity` | what the property names (counts that crossed) |
| *WebhookDeliveryProofs* | | |
| `DeliveryTypeCorrect` | `[]TypeOK`, with it that no delivery has two rows | nothing |
| `Implements` | `Spec => Guard!Spec` | nothing |
| `TableTellsTruth` | `[]ClaimsAreTrue` | nothing |
| *EvidenceClosureProofs* | | |
| `EvidenceTypeCorrect` | `[]ClosureTypeOK` | nothing |
| `ResolvedOnEvidence` | `ClosedOnEvidence` | partial scans, failed scanners, unreadable fingerprints, `require_scanner_success` switched off |
| *ServicesProofs* | | |
| `PathTypeCorrect` | types of `ScanRows` and `RuleTuning` | nothing |
| `RowsPersisted` | `[]PersistedAsClaimed` | nothing |
| `RowsGuarded` | `RowsAreGuarded` | scans with a bill of material that share an identifier (`Apart`) |
| `TuningOwned` | `TuningIsOwned` | a tuning that outlives its twenty minutes (`Prompt`) |
| `AuditTypeCorrect`, `AuditorsHeard`, `StaticReported` | types, `[]AuditorsAreHeard`, `StaticLeadReported` | nothing |
| `PatchTypeCorrect`, `PullsAccounted` | types, `[]PullsAreAccounted` | what the property names |
| `GateTypeCorrect`, `GateTrue` | types, `[]GateIsTrue` | what the property names |
| `InstallTypeCorrect`, `RecommendedRightly` | types, `[]RecommendedOnEvidence` | what the property names (what is cut off) |
| `ServicesTypeCorrect` | `ServicesSpec => []ServicesTypeOK` | nothing |
| *BackgroundProofs* | | |
| `UpdatesTypeCorrect`, `AgesAnnouncedOnce` | types, `[]AgedOnce` | nothing |
| `LabelsTypeCorrect`, `LabelsProven` | types, `[]LabelsAreProven` | nothing |
| `ToolsTypeCorrect`, `CacheIsTrue` | types, `[]ToolsAreTrue` | nothing |
| `LearningTypeCorrect`, `LearningAccounted` | types, `[]LearningIsAccountable` | what the property names (decisions that cross) |
| `BackgroundTypeCorrect` | `BackgroundSpec => []BackgroundTypeOK` | nothing |
| *DeferredProofs* | | |
| `SettingsTypeCorrect`, `SettingsObeyed` | types, `[]ScansObeySettings` | nothing |
| `SuppressionsTypeCorrect`, `SuppressionsTold` | types, `[]SuppressionsAreTold` | what the property names |
| `PlansTypeCorrect`, `PlansAccounted` | types, `[]PlansAreAccounted` | what the property names |
| `RoutesTypeCorrect`, `FindingsRouted` | types, `[]FindingsAreRouted` | nothing |
| `DeferredTypeCorrect` | `DeferredSpec => []DeferredTypeOK` | nothing (a finding and a course to route) |

### The inductive invariants

* **IssueFiling.** `TypeInv` adds to the types that a pass about to use an issue
  number has one. `LockInv` ties the steps of a pass to the mutex and to the claim
  it believes to hold. The exclusion needs more (`ClaimInv`): a row a pass relies
  on is its own and live (`ReliedRowLive`); a filed row is *tended*: a mapping
  exists, or its holder is on the way to one, or died (`FiledRowAccounted`); and a
  pass that has found nothing yet does not own a filed row (`OwnRowUnfiled`),
  which is what keeps `ReleaseIssueFilingClaim`, whose statement deletes *any*
  filed row, from freeing a row that someone relies on. `AuthorInv` accounts for the
  issues themselves: a process that created one is tended in the same way, so a
  pass still empty-handed belongs to a process that has created none.
  `OneByOne`, for `OneIssueOpen`: between a search that found nothing and
  `CreateIssue` no issue is open. It needs no claim at all, only the mutex and that
  no other process is at it, which is how much of the guarantee the search carries
  when nothing overlaps. `OneMapping` adds three things to `AuthorInv`: until there is
  a mapping, who is on the way to one has the claim (`LinkerHolds`); every issue has a
  pass as its author (`Authored`); and as long as no process died, the first issue is
  the one that is mapped (`FirstMapped`).
* **Scheduler.** `Apart`: `OverlapsAreCrossings` is inductive with the types. Its first
  part, that a task between its check and its row whose repository has a started row was
  crossed by it, is what makes the second one, about scans that run, survive `BeginScan`;
  and a task that ends takes its mark with it only once it cannot run any more.
  `LimiterBounds` is inductive with the types: a step adds at most one task to the
  limiter, and only below its capacity.
* **RunnerJobs.** `IInv`: a request whose dispatch is not over has no job row
  (`Undispatched`), which is why the fallback to core is safe; and a claimed job has left
  the queue (`HeldJobs`), so no claim can hand it out again, whatever workers that never
  claimed it do. `ScansInvariance` adds, for jobs that are not `raced`: one result is
  handled at a time (`OneResult`), its handler knows what the two rows say (`HandlersKnow`),
  and a scan shows no more than its job (`ScansShow`). Nothing in the statements enforces
  this, only their order does, and two results that meet undo it. `Capped`, for the limit:
  of the requests that are counted and not inserted one found no other such request, and
  for that one there is a place.
* **WebhookDelivery.** `IInv` says which stages of a request come after its launch
  and which have a key. With it every step is, under the refinement mapping, a step
  of `ReplayGuard` or a stutter. That a claim is on record until it is forgotten is
  shown of the steps of `ReplayGuard` alone and carried over by the refinement.
  `KeysUnique` is kept by each statement on the table.
* **EvidenceClosure.** `EvidenceInv`: a scan that does not show the finding though
  its scanner worked was started when the finding was gone (`Honest`), and an agent
  in a step that may resolve or close works on a scan of that kind. Nothing is
  claimed of statuses in the store: the code does not read them before it resolves.
* **ScanRows, RuleTuning.** `RowInv` says of the row *and of every copy that a write will
  put back* that they claim no more than is stored; a lost update cannot break this,
  because what was true of the row when it was read stays true of the copy.
  `Guarded` says how far a row and the copy may have got at each step while the
  handler is alone with the identifier, and that a handler records a bill of material
  only where one is asked for. `Admitted` is about the rows that started since an
  admission looked. `TuningInv`: a claim has one goroutine behind it and is stale only
  when that one is gone; who read the row in order to release it has read what it
  still is, and who read it in order to take it over has read a stale claim.
* **AuditRun.** `AuditorInv`: the slot is held by the one caller (`SlotInv`); an
  auditor sends one result (`ChannelOK`); what an auditor that went through has found is
  kept or in the channel (`HeardOK`); and before anything is cancelled, errors in the
  channel are timeouts of the auditor's own and the collector has counted no more of
  them than have left the channel (`CauseOK`), so that a cancellation has its cause in
  the same analysis.
* **PullGate.** `GateInv`: a success that a scan of the pull request is about to post is of
  a clean commit or of one that was judged on a part of its files (`JudgedOK`); who is in the
  summary has the lock, and what it listed is what is there, unless an answer was lost
  (`SummaryOK`). `VerdictInv`: a verdict is reached once, and neither it nor the commit
  it is about changes afterwards, so that a posted success still has its verdict.
* **PreinstallAudit.** `InstallInv`: the deadline was live at the conclusion, and "safe"
  stands for evidence that cannot change any more. `NoSecretCounted` takes the rest
  from the score: one secret in what was considered is 20 points and never "safe".
* **PatchAttempts.** `PInv`: an attempt past a step has what the step left, and a pull
  request has an attempt that is about to be saved, was saved, or whose process died.
* **IssueUpdates.** `UpdateInv`: the pass with the mutex is the only one past its look,
  and an announced stage is in the issue's body unless exactly the last one awaits its
  edit; the copy that a pass is about to write carries the stage announced last.
* **IssueLabels.** `LabelsInv`: a call under way has behind it every label it no
  longer asks for, knows of no label that the issue never had, and has been shown
  what it says the issue has.
* **ToolsCache.** `ToolsInv`: who holds `toolsInflight` is who is between its lock and
  unlock, the cache holds the answer of its key, answers that are carried fit the
  settings they are for, nobody comes to probe while the key is fresh, and the flag
  stands for the goroutine.
* **RuleLearning.** `LearnInv`: what a backfill feeds in, or has fed in, is of findings
  whose own event came later (`Counted`); a worker has a recommendation exactly while it
  decides on it, two workers on one are noted as crossed, and who reverts has left no
  rule of it active (`Decided`).
* **Suppressions.** `SuppressionsInv`: the list that an overtaken load holds is not
  stored without somebody still to drop it (`ListsAreTrue`, `EntryIsCurrent`), and what an
  undisturbed scan filters with lies between the rules in force all the time and those
  in force at some time since its load.
* **RemediationPlans.** `PlansInv`: a planner has read the finding as it was at some time
  since, a draft is one of those `Generate` makes of that reading, planners that are both
  under way are noted as having met, and a request for a plan that is approved has seen
  it approved.
* **ScanSettings.** `SettingsInv`: a scan under way has been shown the row that is
  stored, and what it goes by is allowed by some row it was shown. The work lies in the
  layers: `LayersUnder` and `LetsFileAnyway` say that what `Effective` lets through, the
  documented order lets through.
* **ReportingRoutes.** `RoutedSoFar` says at each layer what the finding is in terms of
  what its scanner reported; the comparison of modes and confidences then follows from
  the operators being monotone (`SurerReaches`, `StricterReaches`).
* **The instances.** `ServicesAreParts`, `BackgroundIsParts` and `DeferredIsParts` show
  that a behaviour of an instance is a behaviour of each part: a part that is not on
  stays in an initial state. So the theorems above hold of the very specifications the
  runs check.

### Only model-checked

The liveness properties `FilingEnds`, `ServicesSettle`, `BackgroundSettles` and
`DeferredSettles`, since the prover does not reason about fairness and `ENABLED`; and the
five properties that are expected to be violated, which are false. Where a theorem
excludes a fault, the property fails or is not known to hold with it: section 6 has
the counterexamples for overlapping processes, partial scans and summaries that are
overtaken.

## 6. Where code and documents disagree

Five have a run whose counterexample shows them.

* **Two issues for one fingerprint** (`FilingRace`). `main_issueclaims.go:54`
  promises that independent processes "converge on exactly one forge issue per
  fingerprint". The remote search (`issues/manager.go:335`) comes before the claim
  (`:355`) and is not repeated once the claim is held, and a holder deletes its row
  when it is done (`:448`). A process that searched before that issue existed then
  gets a fresh claim and files a second one. Searching again with the claim in hand
  would close the gap.
* **A partial scan resolves a finding** (`ClosurePartial`).
  `docs/FINDING_RESOLUTION_SEMANTICS.md:13` says that partial scope cannot prove a
  finding gone. `closure/verify.go:48` asks for the fingerprint and the scanner,
  never for what the scan covered, and `main.go:2479` calls it after every scan.
* **A scheduled scan starts beside a started row** (`SchedOverlap`). `docs/SCHEDULER.md:74`
  promises "No scan if the repo already has a `started` scan row". The check
  (`orch/scheduler.go:231`) comes before the wait for the limiter, and the row is inserted
  after it (`main.go:1893`) without asking again. In the counterexample a manual scan
  starts in between.
* **The summary comment tells of an older commit** (`SummaryBehind`), against
  `docs/PR_SUMMARY_IDEMPOTENCY.md:22`. The scan of the newer head meets the one of the
  older head at the comment and leaves at once (`issues/pr_summary.go:102`), and nothing
  tries again.
* **A dry run that a runner takes files issues** (`DryRunAway`): `main.go:2548`
  resolves the settings again in a new context, which knows nothing of the dry run.

The following were met while modelling and can be seen by changing a constant or
in the code; none has a run of its own.

*Filing, mappings and updates.* `store/external_issue_lookup.go:9` speaks of an open
mapping, the query (`:22`) falls back to a closed one. `issuelink/backfill.go:134` looks
a mapping up and inserts it in two statements. A linked issue is matched with an
empty body (`issues/manager.go:325`), so that severity, place and aging never show a
change there, and a finding of confidence below 0.65 is commented on in every scan
(`lifecycle.go:67` means otherwise). `ReportNotReproduced` also comments on findings
that *were* in the scan but were skipped, and after scans of some files only. Without
a mapping a changed severity never reaches the body, so that the comment is repeated
and hides the aging. Backlog control's `MaxOpenIssues` is compared with a count that is
always zero (`manager.go:509`). A posture summary is a new issue each time.

*Labels.* `CreateIssue` returns an error when labels cannot be attached although the
issue exists; labels that could not all be resolved are lost silently, the source
label among them, by which `ReportNotReproduced` and reconciliation list issues. Two
calls for labels of one scope displace each other's after both have verified. An empty
answer with a reread lets a call attach its own over a newer one.

*Routes* (`profile/reporting.go`). A high or critical finding of a confidence between
0.5 and 0.7 stays on the dashboard while a medium one of the same confidence is filed,
because `manual_review` creates issues by default; strict mode therefore files fewer
medium findings below 0.7 than high_signal does, against `docs/REPORTING.md:28`.
`docs/REPORTING.md:68-71` has issues only for `auto_issue` and above the gates: the code
files `manual_review`, and the categories secret and dependency without any gate; low
findings in configuration files are filed as well. `standard` is `high_signal`. The
override for `ai_risk` never applies: the category is `ai_generated_risk`. Agreement
between scanners is never given (`ScannerAgreement`) and would come after the action.
Results of runners lose the action (`runner/result.go:79`), so that `monitor_only`,
known-safe patterns and paths do not hold for them, against `docs/REPORTING.md:25`.
Compliance mode's overrides for tests, documents and examples are dead while the
reduction of false positives is on, and a secret found there loses 0.2 or 0.25 of its
confidence and with it, perhaps, the manager's gate. Of findings with one fingerprint the
first decides the route.

*Scheduler.* `docs/SCHEDULER.md:30` has `scheduler_max_concurrent_scans` bound the scheduled
scans at once; the semaphore is made anew by each tick (`orch/scheduler.go:192`), so that
only the analysis limiter bounds several ticks. `:76` has no pile-up of missed runs; a
last run that is behind by several periods is caught up one period at each tick. A task
that is slow to get from its tick to its mark sets the last run back to its own due time
(`:246`), and the due times after it are served again.

*Scan rows and tuning.* A reader heals issue sync to complete while filing is still
under way. A handler without a repository id files issues without storing findings.
Skipped scans of an unchanged tip count as the latest reconcilable ones. The comment at
`main_openclaw.go:368` says that the scan is stored when the tuning runs; it need not
be, and the tuning then finds nothing and is over.

*Settings.* The toggle of a repository wipes its other overrides and makes its profile
custom. A requested profile hardly changes anything, since the platform's values are laid
over it, and goes round the kill switch (against `store/profile_resolve.go:30`). A read
that fails is a row without overrides. Closure also runs after a dry run.
`filterIssuesForForge` ignores the repository's severity gate for findings that have an
action. `ApplyReportingMode` writes to maps that scans share.

*Auditors.* A static finding that is grouped with a surer candidate of an auditor is
dropped when its proof fails and another's does not, against
`docs/HEALTH_CHECKS.md:62`. One call usually starts after the failure that cancels.

*Runners.* `docs/RUNNERS.md:322` and the table at `:385-386` have results of expired,
cancelled and completed jobs rejected. The status is checked at the start
(`runner/receiver.go:86`) and the row updated later without asking again (`:130`): a result
that was checked before the expiry, the cancellation or another result is written over
it. Of two results that meet the job may show one and the scan the other. A job that
failed takes another result until it expires, and so does one that nobody claimed; with
`-job-id` a worker works on a job beside the one that claimed it.
Requests whose counts cross pass `runner_max_concurrent_jobs`. `docs/RUNNERS.md:321` has
expiry run periodically; it runs in a claim and at startup. `main.go:1580-1583` fails
every started row older than two minutes at startup, delegated scans among them.

*Webhooks and pull requests.* A delivery claimed by a process that dies before the
dispatch stays claimed (`handlers/webhook.go:298`). `docs/GITEA_STATUS.md:31` says that
observing never blocks: a failed analysis posts `error`, a failed optional scanner a
`failure`; the non-blocking warning of `docs/POLICY.md:28` is posted as `failure` too.
A pending status on a commit that was replaced before its analysis stays pending. Pushes
and pull requests share a status context. An enforcing gate passes a commit whose findings
lie in files beyond the first page of the list, or in files that were skipped.
`ListIssueComments` reads one page.

*Closure.* Reconciliation counts a scanner that failed among those that ran
(`reconcile/engine.go:149`), and verify-closure takes a list of fingerprints it could
not read for an empty one (`main_closure.go:308`): `ClosedOnEvidence` is violated with
`"failed"` and with `"unread"`. If the insert of the evidence row fails after the attempt
was marked merged (`closure/engine.go:264`), nothing adds the row later.

*Remediation.* `isStaticcheckPatchable` lower-cases the rule and compares it with
capitals. Rejected and superseded plans can be approved. A finding suppressed after the
approval still gets its pull request. `remediation_pr_use_runner_verification` is never
read. A failed `CreatePullRequest` after a push keeps later attempts out until somebody
deletes the branch.

*Suppressions and learning.* `docs/beta/CALIBRATION_BETA_POLICY.md:7` promises that a
disabled rule stops applying at once; disabling a global one does not tell the matcher
(`main_suppressions.go:75`). After a restart or an `Invalidate` the gates apply no rules
until a scan loads them. A stale list may overwrite a newer one. Disabling leaves the
finding suppressed. An expired calibration rule stays active in the table, so that a new
acceptance does nothing; a rejection after an acceptance leaves the rule without a way
to revert it. Duplicate events still change the statistics (`learning_sqlite.go:13`
says idempotent); accepted risks are backfilled as false positives; a mark and its
backfill have different keys, so that one finding may count twice; a concurrent
recompute may apply what `docs/AI_RECOMMENDATIONS.md:59` says cannot be.

*Pre-install audit.* The failure of an audit is written under the deadline that caused
it, so that the row stays running. It is shown completed before its findings are
stored. Findings are cut to the maximum before those in skipped paths are left out.
When every scanner fails the score rises by ten, which is still "safe".

## 7. What is not modelled

*Scanners* are external programs and parsers of their output; the fan-out joins results
in the order of the registry and keeps nothing between scans. *Prompts, providers and
parsers of answers* appear as calls that answer or fail. *Code graph, health, SBOM and
containers* are computations on one workspace. *Persistence queries* that no modelled
component needs are reports and lists of a store with one writer at a time; the cache of
the dashboard's summary (`store/sqlite_queries.go:644`) can be overwritten by an older
rebuild that took longer, which shows for its lifetime. *Migrations*
(`store/migrations.go`) run before anything else; of two processes that open a new store
at once the second fails to start. *REST API, UI, MCP bridge and commands* validate and
forward; handlers that change modelled state are actions of the component.
*Authentication* is password checks, sessions and one transaction. *Forge clients* appear
as calls that succeed, fail or lose their answer. *Notifications* are sent afterwards
with a cooldown in memory, which a failed send uses up; nothing depends on them. *Status
and doctor reports* but for the tools cache, *onboarding* and the limiter of webhooks have
no state that others use.

Inside the modelled components the following is left out: wording, summary issues
(filing); cron expressions beyond a period (scheduler); signatures, nonces, the heartbeat
display and the Actions backend (runner); signature check and payload classification
(webhook); comments, labels, duplicates, false positives and the preview (closure);
fields of settings that only choose scanners and thresholds (settings); which text a
known-safe pattern matches (routes); the text of patches (attempts); scores of a
statistic beyond its thresholds (learning). Unsynchronised accesses are left out where
their outcome is another process-wide value of the same kind (the platform snapshot, the
maps of `ApplyReportingMode`).

## 8. Plan

Done, in this order because of what a mistake would cost: issue filing, scheduler,
runner jobs, webhook deliveries against their abstract guard, evidence closure, scan
rows with tuning, auditors, patch attempts, pull request gate, pre-install audit,
updates, labels, tools cache, learning, settings, suppressions, plans, routes.

Every safety property of these is proved. Left: an abstract ledger of jobs that
`RunnerJobs` implements, as `WebhookDelivery` implements `ReplayGuard`, and one of issues
for `IssueFiling`; weaker hypotheses for `OneMapping`, where a failing claim or a refused
create should do no harm; and the theorems of properties that hold only of a part of the
conditions, stated for each condition that breaks them.
