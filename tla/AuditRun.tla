------------------------------ MODULE AuditRun ------------------------------
(***************************************************************************)
(* The model-backed stages of an analysis: the auditors that Engine.Scan   *)
(* starts side by side and collects, the debate of Validate, Dedup, and    *)
(* the proofs of concept of Prove (analyzers/engine.go), for several       *)
(* analyses that share one AI client and its gate (ai/client.go).          *)
(*                                                                         *)
(* Besides what the auditors find, each analysis has one finding of the    *)
(* static rules.  The finding of an auditor whose class the static rules   *)
(* know may meet it, with its file, block of lines and class, and with a   *)
(* confidence under or over its own; every other finding is apart.         *)
(***************************************************************************)
EXTENDS Naturals, FiniteSets, Sequences

CONSTANTS
    Audits,         \* analyses under way
    Auditors,       \* auditors of each
    Meeting,        \* auditors whose class is one of the static rules' (xss)
    Loads,          \* what analyses may have to do: batches of files for their
                    \* auditors, and whether there is something to find
    MaxFailures,    \* MaxAuditorFailuresPerScan
    Static          \* the finding of the static rules

ASSUME AuditAssumptions ==
    /\ IsFiniteSet(Auditors) /\ Meeting \subseteq Auditors
    /\ Loads \subseteq [Audits -> [batches : Nat, finds : BOOLEAN]]
    /\ MaxFailures \in Nat \ {0} /\ Static \notin Auditors

VARIABLES
    abortOnFirst,   \* AbortAuditorsOnFirstTimeout
    load,           \* what each analysis has to do
    ctx,            \* the context of each analysis: live or done
    cancelled,      \* cancelAuditors was called
    gate,           \* tokens in auditorGate
    step,           \* where each auditor is
    batch,          \* the batch it is at
    cand,           \* the candidates it has
    results,        \* the channel of each analysis
    failures,       \* failed auditors collected
    kept,           \* allCandidates
    stage,          \* the stage of each analysis
    report,         \* findings that were reported
    timedOut        \* history: auditors that a call of their own timed out

settings == <<abortOnFirst, load>>
auditVars == <<settings, ctx, cancelled, gate, step, batch, cand, results,
               failures, kept, stage, report, timedOut>>
auditorVars == <<step, batch, cand>>

Places == {"apart", "under", "over"}
Candidates == [by : Auditors, batch : Nat, place : Places]
Results == [by : Auditors, err : BOOLEAN, found : SUBSET Candidates]

\* Without a file for the auditors none is started.
AuditInit ==
    /\ abortOnFirst \in BOOLEAN /\ load \in Loads
    /\ ctx = [s \in Audits |-> "live"] /\ cancelled = [s \in Audits |-> FALSE]
    /\ gate = 0
    /\ step = [s \in Audits |->
                  [a \in Auditors |-> IF load[s].batches = 0 THEN "sent" ELSE "loop"]]
    /\ batch = [s \in Audits |-> [a \in Auditors |-> 1]]
    /\ cand = [s \in Audits |-> [a \in Auditors |-> {}]]
    /\ results = [s \in Audits |-> <<>>] /\ failures = [s \in Audits |-> 0]
    /\ kept = [s \in Audits |-> {}] /\ stage = [s \in Audits |->
                                             IF load[s].batches = 0 THEN "validate" ELSE "audit"]
    /\ report = [s \in Audits |-> {}] /\ timedOut = [s \in Audits |-> {}]

\* auditorCtx is done.
Stopped(s) == cancelled[s] \/ ctx[s] = "done"

(***************************************************************************)
(* runAuditor.                                                             *)
(***************************************************************************)

Reaches(s, a, to) == step' = [step EXCEPT ![s] = [@ EXCEPT ![a] = to]]

\* The result goes to the channel, which has room for all.
Return(s, a, err) ==
    /\ Reaches(s, a, "sent")
    /\ results' = [results EXCEPT ![s] = Append(@,
                     [by |-> a, err |-> err, found |-> IF err THEN {} ELSE cand[s][a]])]
    /\ UNCHANGED <<batch, cand>>

NextBatch(s, a) ==
    /\ Reaches(s, a, "loop")
    /\ batch' = [batch EXCEPT ![s] = [@ EXCEPT ![a] = batch[s][a] + 1]]
    /\ UNCHANGED results

\* The top of the loop, and the first look of RunAuditor at its context.
StartBatch(s, a) ==
    /\ step[s][a] = "loop"
    /\ \/ batch[s][a] > load[s].batches /\ Return(s, a, FALSE)
       \/ batch[s][a] <= load[s].batches /\ Stopped(s) /\ Return(s, a, TRUE)
       \/ /\ batch[s][a] <= load[s].batches /\ ~Stopped(s)
          /\ Reaches(s, a, "queue") /\ UNCHANGED <<batch, cand, results>>
    /\ UNCHANGED <<settings, ctx, cancelled, gate, failures, kept, stage, report, timedOut>>

\* A mutant: calls do not wait for one another.
AcquireAuditorSlot_NoWait(s, a) ==
    /\ step[s][a] = "queue"
    /\ \/ /\ ~Stopped(s) /\ gate' = gate + 1
          /\ Reaches(s, a, "call") /\ UNCHANGED <<batch, cand, results>>
       \/ Stopped(s) /\ Return(s, a, TRUE) /\ UNCHANGED gate
    /\ UNCHANGED <<settings, ctx, cancelled, failures, kept, stage, report, timedOut>>

\* A mutant: the slot is waited for, whatever the context says.
AcquireAuditorSlot_NoDone(s, a) ==
    /\ step[s][a] = "queue" /\ gate = 0
    /\ \/ /\ ~Stopped(s) /\ gate' = 1
          /\ Reaches(s, a, "call") /\ UNCHANGED <<batch, cand, results>>
       \/ Stopped(s) /\ Return(s, a, TRUE) /\ UNCHANGED gate
    /\ UNCHANGED <<settings, ctx, cancelled, failures, kept, stage, report, timedOut>>

\* The select, and the look at the context that follows it: a slot that comes
\* with the end of the context is given back at once.
AcquireAuditorSlot(s, a) ==
    /\ step[s][a] = "queue"
    /\ \/ /\ gate = 0 /\ ~Stopped(s) /\ gate' = 1
          /\ Reaches(s, a, "call") /\ UNCHANGED <<batch, cand, results>>
       \/ Stopped(s) /\ Return(s, a, TRUE) /\ UNCHANGED gate
    /\ UNCHANGED <<settings, ctx, cancelled, failures, kept, stage, report, timedOut>>

\* The answer, with or without a finding.
CallAnswers(s, a) ==
    /\ \/ UNCHANGED cand
       \/ load[s].finds /\ \E p \in IF a \in Meeting THEN Places ELSE {"apart"} :
            cand' = [cand EXCEPT ![s] = [@ EXCEPT ![a] =
                       cand[s][a] \cup {[by |-> a, batch |-> batch[s][a], place |-> p]}]]
    /\ NextBatch(s, a) /\ UNCHANGED timedOut

\* A mutant: any error ends the auditor, be it a timeout or not.
CallErrs_Aborts(s, a) == Return(s, a, TRUE) /\ UNCHANGED timedOut

\* Under a context that is done every error is the context's; another error
\* leaves the batch out.
CallErrs(s, a) ==
    ~Stopped(s) /\ NextBatch(s, a) /\ UNCHANGED <<cand, timedOut>>

CallAborts(s, a) ==
    /\ Return(s, a, TRUE)
    /\ timedOut' = IF Stopped(s) THEN timedOut ELSE [timedOut EXCEPT ![s] = @ \cup {a}]

\* A mutant: an auditor that gives up does not give the slot back.
EndCall_KeepsSlot(s, a) ==
    /\ step[s][a] = "call"
    /\ CallAnswers(s, a) \/ CallErrs(s, a) \/ CallAborts(s, a)
    /\ gate' = IF step'[s][a] = "sent" THEN gate ELSE 0
    /\ UNCHANGED <<settings, ctx, cancelled, failures, kept, stage, report>>

EndCall(s, a) ==
    /\ step[s][a] = "call"
    /\ CallAnswers(s, a) \/ CallErrs(s, a) \/ CallAborts(s, a)
    /\ gate' = 0
    /\ UNCHANGED <<settings, ctx, cancelled, failures, kept, stage, report>>

(***************************************************************************)
(* The collector of Scan.                                                  *)
(***************************************************************************)

Received(s) == Cardinality({a \in Auditors : step[s][a] = "sent"}) - Len(results[s])

\* A mutant: the stage ends when the auditors are cancelled.
Collect_StopsAtCancel(s) ==
    /\ stage[s] = "audit" /\ results[s] # <<>>
    /\ LET r == Head(results[s]) IN
         /\ results' = [results EXCEPT ![s] = Tail(@)]
         /\ failures' = [failures EXCEPT ![s] = IF r.err THEN @ + 1 ELSE @]
         /\ kept' = [kept EXCEPT ![s] = @ \cup r.found]
         /\ cancelled' = [cancelled EXCEPT ![s] =
                            @ \/ (r.err /\ (abortOnFirst \/ failures'[s] >= MaxFailures))]
         /\ stage' = [stage EXCEPT ![s] =
                        IF cancelled'[s] \/ Received(s) + 1 = Cardinality(Auditors)
                        THEN "validate" ELSE @]
    /\ UNCHANGED <<settings, ctx, gate, auditorVars, report, timedOut>>

\* Every error that reaches the collector is one of isAuditorAbortError's.
Collect(s) ==
    /\ stage[s] = "audit" /\ results[s] # <<>>
    /\ LET r == Head(results[s]) IN
         /\ results' = [results EXCEPT ![s] = Tail(@)]
         /\ failures' = [failures EXCEPT ![s] = IF r.err THEN @ + 1 ELSE @]
         /\ kept' = [kept EXCEPT ![s] = @ \cup r.found]
         /\ cancelled' = [cancelled EXCEPT ![s] =
                            @ \/ (r.err /\ (abortOnFirst \/ failures'[s] >= MaxFailures))]
         /\ stage' = [stage EXCEPT ![s] =
                        IF Received(s) + 1 = Cardinality(Auditors) THEN "validate" ELSE @]
    /\ UNCHANGED <<settings, ctx, gate, auditorVars, report, timedOut>>

(***************************************************************************)
(* Validate, Dedup and Prove.                                              *)
(***************************************************************************)

\* What an error leaves behind: no confidence on either side, which downgrades.
Debated(s) == IF ctx[s] = "done" THEN {{}} ELSE SUBSET kept[s]

\* Scan has returned, and its auditors are cancelled and gone.  The static
\* finding is validated without a debate.
Validate(s) ==
    /\ stage[s] = "validate"
    /\ \E validated \in Debated(s) : kept' = [kept EXCEPT ![s] = validated]
    /\ stage' = [stage EXCEPT ![s] = "prove"]
    /\ cancelled' = [cancelled EXCEPT ![s] = TRUE]
    /\ cand' = [cand EXCEPT ![s] = [a \in Auditors |-> {}]]
    /\ batch' = [batch EXCEPT ![s] = [a \in Auditors |-> 1]]
    /\ failures' = [failures EXCEPT ![s] = 0] /\ timedOut' = [timedOut EXCEPT ![s] = {}]
    /\ UNCHANGED <<settings, ctx, gate, step, results, report>>

\* The group of the static finding, and what leads it: the surest.
Grouped(s) == {c \in kept[s] : c.place # "apart"}
LedByModel(s) == \E c \in kept[s] : c.place = "over"

\* A mutant: a static finding is proved like any other.
ProvedStatic_Asked(s) == {{}, {Static}}

\* The findings of the static finding's group that reach the report: a group
\* that a candidate leads needs a proof of concept, which may fail.
ProvedStatic(s) ==
    IF LedByModel(s) THEN (IF ctx[s] = "done" THEN {{}} ELSE {{}, Grouped(s) \cup {Static}})
    ELSE {Grouped(s) \cup {Static}}

\* analysisResultFromReport: when nothing was proved, all that was validated.
Issues(s, proved) == IF proved = {} THEN kept[s] \cup {Static} ELSE proved

Prove(s) ==
    /\ stage[s] = "prove"
    /\ \E group \in ProvedStatic(s),
          alone \in IF ctx[s] = "done" THEN {{}} ELSE SUBSET (kept[s] \ Grouped(s)) :
         report' = [report EXCEPT ![s] = Issues(s, group \cup alone)]
    /\ stage' = [stage EXCEPT ![s] = "reported"] /\ kept' = [kept EXCEPT ![s] = {}]
    /\ UNCHANGED <<settings, ctx, cancelled, gate, auditorVars, results, failures,
                   timedOut>>

\* The timeout of the scan, or the end of its caller.
ContextEnds(s) ==
    /\ ctx[s] = "live" /\ ctx' = [ctx EXCEPT ![s] = "done"]
    /\ UNCHANGED <<settings, cancelled, gate, auditorVars, results, failures, kept, stage,
                   report, timedOut>>

AuditorStep(s, a) == StartBatch(s, a) \/ AcquireAuditorSlot(s, a)

StageStep(s) == Collect(s) \/ Validate(s) \/ Prove(s)

AuditNext ==
    \E s \in Audits :
        \/ \E a \in Auditors : AuditorStep(s, a) \/ EndCall(s, a)
        \/ StageStep(s) \/ ContextEnds(s)

AuditSpec == AuditInit /\ [][AuditNext]_auditVars

(***************************************************************************)
(* The goroutines of an analysis go on.  Of its calls, only those under a  *)
(* context that is done are sure to end: the transport ends them.          *)
(***************************************************************************)
SureStep(s) ==
    \/ StageStep(s)
    \/ \E a \in Auditors : AuditorStep(s, a) \/ (Stopped(s) /\ EndCall(s, a))

FairAudit == \A s \in Audits : WF_auditVars(SureStep(s))

FairAuditSpec == AuditSpec /\ FairAudit

(***************************************************************************)
(* Properties.                                                             *)
(***************************************************************************)

AuditTypeOK ==
    /\ abortOnFirst \in BOOLEAN /\ load \in Loads
    /\ ctx \in [Audits -> {"live", "done"}] /\ cancelled \in [Audits -> BOOLEAN]
    /\ gate \in 0..1
    /\ step \in [Audits -> [Auditors -> {"loop", "queue", "call", "sent"}]]
    /\ batch \in [Audits -> [Auditors -> Nat \ {0}]]
    /\ cand \in [Audits -> [Auditors -> SUBSET Candidates]]
    /\ results \in [Audits -> Seq(Results)] /\ failures \in [Audits -> Nat]
    /\ kept \in [Audits -> SUBSET Candidates]
    /\ stage \in [Audits -> {"audit", "validate", "prove", "reported"}]
    /\ report \in [Audits -> SUBSET (Candidates \cup {Static})]
    /\ timedOut \in [Audits -> SUBSET Auditors]

Calling == {x \in Audits \X Auditors : step[x[1]][x[2]] = "call"}

\* acquireAuditorSlot: one auditor call is in flight, over all analyses of the
\* process, and the slot is given back on every way out of the call.
SlotHeldByCaller == Cardinality(Calling) = gate

\* An auditor that went through its batches is heard, even if its answer comes
\* after the others were cancelled: the collector reads every result.
AnswersKept ==
    \A s \in Audits, a \in Auditors :
        stage[s] = "validate" /\ batch[s][a] > load[s].batches => cand[s][a] \subseteq kept[s]

\* The auditors of a live analysis are cancelled only because enough of them
\* timed out by themselves: failures that the cancellation itself causes, and
\* batches that failed, do not count.
CancelledForCause ==
    \A s \in Audits :
        stage[s] \in {"audit", "validate"} /\ cancelled[s] /\ ctx[s] = "live"
            => Cardinality(timedOut[s]) >= IF abortOnFirst THEN 1 ELSE MaxFailures

(* The shared slot and the cancellation of siblings cost no answers: one call   *)
(* at a time holds the slot and gives it back, an analysis is cancelled for its *)
(* own timeouts only, and what an auditor has found is kept (acquireAuditorSlot *)
(* and the collector of Engine.Scan).                                           *)
AuditorsAreHeard == SlotHeldByCaller /\ AnswersKept /\ CancelledForCause

\* No failing or ended model loses the static finding, as long as it leads its
\* group: it needs neither a debate nor a proof of concept.
StaticLeadReported ==
    [][\A s \in Audits :
         stage[s] = "prove" /\ stage'[s] = "reported" /\ ~LedByModel(s)
             => Static \in report'[s]]_auditVars

\* An analysis whose context ends reports what it has, even if the call of
\* another one holds the slot and never ends.
EndedIsReported == \A s \in Audits : []<>(ctx[s] = "done" => stage[s] = "reported")

(* Models that fail, hang or take their time keep no analysis from its report,  *)
(* nor the scanners' findings out of it (Engine.Scan, Validate and Prove).      *)
AnalysesReport == StaticLeadReported /\ EndedIsReported
==============================================================================
