----------------------------- MODULE MCServices -----------------------------
(* The parts of the service that share no state with one another, each one by   *)
(* itself: a behaviour is one of the part that its first state chooses, and the *)
(* others stay in an initial state.                                             *)
EXTENDS RuleTuning, WebhookDelivery, AuditRun, PatchAttempts, PullGate, PreinstallAudit

VARIABLE part

services == <<part, pathVars, vars, auditVars, patchVars, gateVars, installVars>>

(* Scans: a manual one beside one of each kind, the modes and the failures that *)
(* matter shared out between the setups; two pushes that may both tune; and a   *)
(* client that sends the same manual scan twice.                                *)
TwoJobs(k1, s1, k2, s2) ==
    [h1 |-> [kind |-> k1, scan |-> s1], h2 |-> [kind |-> k2, scan |-> s2]]

RowSetup(kind, modes, readers, failing) ==
    [job |-> TwoJobs("manual", "s1", kind, "s2"), modes |-> modes,
     found |-> 0..MaxFound, sbom |-> TRUE, readers |-> readers, tunes |-> FALSE, faults |-> failing, budget |-> 1]

TuningSetup(jobs, found, failing) ==
    [job |-> jobs, modes |-> {"skip"}, found |-> found, sbom |-> FALSE, readers |-> {},
     tunes |-> TRUE, faults |-> failing, budget |-> 1]

AllSetups ==
    {RowSetup("manual", {"skip", "dry"}, {}, {"admission", "begin", "finish"}),
     RowSetup("push", {"file", "failed"}, {"r"},
              {"begin", "state", "persist", "link", "crash"}),
     RowSetup("tip", {"file", "skip", "dry", "failed"}, {"r"},
              {"finish", "state", "persist", "link", "crash"}),
     TuningSetup(TwoJobs("push", "s1", "push", "s2"), 0..MaxFound, {"put"}),
     TuningSetup(TwoJobs("push", "s1", "push", "s2"), {MaxFound}, {"crash"}),
     TuningSetup(TwoJobs("manual", "s1", "manual", "s1"), {MaxFound}, {})}

(* Analyses: two side by side, which stop at the first timeout, and one, under  *)
(* either setting, beside another that has no file for its auditors.            *)
Load(batches, finds) == [batches |-> batches, finds |-> finds]

AllLoads == {[x1 |-> Load(1, TRUE), x2 |-> Load(1, FALSE)],
             [x1 |-> Load(2, TRUE), x2 |-> Load(0, FALSE)]}

(* Pull requests: each mode, a push beside the pull request's own scan, and     *)
(* three scans of one head whose comments go astray.                            *)
PullWith(mode, posts, kinds, commits, hitch) ==
    [mode |-> mode, include |-> mode # "warn", status |-> posts,
     kind |-> [j1 |-> kinds[1], j2 |-> kinds[2], j3 |-> kinds[3]],
     heads |-> commits, hitches |-> hitch]

AllSituations ==
    {PullWith("observe", TRUE, <<"pr", "pr", "none">>, 1, {"list"}),
     PullWith("warn", TRUE, <<"push", "pr", "none">>, 1, {"status"}),
     PullWith("enforce", TRUE, <<"push", "pr", "none">>, 2, {"death"}),
     PullWith("enforce", TRUE, <<"pr", "pr", "none">>, 2, {}),
     PullWith("enforce", FALSE, <<"pr", "pr", "pr">>, 1, {"lost", "delete", "edit"})}

AScan == setup = CHOOSE e \in Setups : TRUE
AnAudit == abortOnFirst = FALSE /\ load = CHOOSE e \in Loads : TRUE
APull == policy = (CHOOSE e \in Situations : TRUE) /\ worst = [c \in Heads |-> "none"]
Contended == load.x2.batches # 0
AnInstall == stop = [error |-> FALSE, death |-> FALSE, retain |-> FALSE]

ServicesInit ==
    /\ part \in {"scan", "webhook", "audit", "patch", "pull", "install"}
    /\ PathInit /\ Init /\ AuditInit /\ PatchInit /\ GateInit /\ InstallInit
    /\ part # "scan" => AScan
    /\ IF part = "audit" THEN Contended => abortOnFirst ELSE AnAudit
    /\ part # "pull" => APull
    /\ part # "install" => AnInstall

ServicesNext ==
    /\ UNCHANGED part
    /\ \/ /\ part = "scan" /\ PathNext
          /\ UNCHANGED <<vars, auditVars, patchVars, gateVars, installVars>>
       \/ /\ part = "webhook" /\ Next
          /\ UNCHANGED <<pathVars, auditVars, patchVars, gateVars, installVars>>
       \/ /\ part = "audit" /\ AuditNext
          /\ UNCHANGED <<pathVars, vars, patchVars, gateVars, installVars>>
       \/ /\ part = "patch" /\ PatchNext
          /\ UNCHANGED <<pathVars, vars, auditVars, gateVars, installVars>>
       \/ /\ part = "pull" /\ GateNext
          /\ UNCHANGED <<pathVars, vars, auditVars, patchVars, installVars>>
       \/ /\ part = "install" /\ InstallNext
          /\ UNCHANGED <<pathVars, vars, auditVars, patchVars, gateVars>>

\* The fairness of each part, of its steps in behaviours that are its own.
FairServices ==
    /\ \A h \in Handlers :
         /\ WF_pathVars(/\ part = "scan" /\ pc[h] # "idle"
                        /\ HandlerStep(h) /\ UNCHANGED tuneVars)
         /\ WF_pathVars(part = "scan" /\ TuneStep(h))
    /\ \A r \in Readers :
         WF_pathVars(part = "scan" /\ ReaderStep(r) /\ UNCHANGED tuneVars)
    /\ \A s \in Audits : WF_auditVars(part = "audit" /\ SureStep(s))
    /\ \A s \in Jobs : WF_gateVars(part = "pull" /\ JobStep(s))
    /\ WF_installVars(part = "install" /\ InstallStep)

\* The type invariants of the parts.
ServicesTypeOK ==
    PathTypeOK /\ TypeOK /\ AuditTypeOK /\ PatchTypeOK /\ GateTypeOK /\ InstallTypeOK

(* What was begun ends, or tells why not: a scan row leaves "started", an       *)
(* analysis reports, the head of a pull request gets its status, and a          *)
(* pre-install audit concludes.                                                 *)
ServicesSettle == RowsSettle /\ AnalysesReport /\ HeadIsSettled /\ AuditConcludes

ServicesSpec == ServicesInit /\ [][ServicesNext]_services /\ FairServices
==============================================================================
