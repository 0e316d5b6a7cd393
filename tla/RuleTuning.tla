----------------------------- MODULE RuleTuning -----------------------------
(***************************************************************************)
(* The one-shot rule tuning after the first scan of a repository           *)
(* (main_openclaw.go), composed with the life of scan rows.  A handler     *)
(* that has finished its row considers the tuning in                       *)
(* maybeEnqueueOpenClawReview, claims it in an evidence row, and starts a  *)
(* goroutine that reviews the findings, applies rules and records the      *)
(* tuning, or releases the claim, while the handler goes on to persist     *)
(* the findings.                                                           *)
(*                                                                         *)
(* The goroutine works under a timeout of ai_recommendations_timeout       *)
(* seconds, far below the twenty minutes after which a claim counts as     *)
(* stale, unless "slow" is among the faults.                               *)
(***************************************************************************)
EXTENDS ScanRows

CONSTANTS NoTuner

ASSUME RuleTuningAssumptions == NoTuner \notin Handlers

VARIABLES
    claim,          \* the evidence row: none, claimed by a handler, or tuned
    tpc,            \* where each handler's tuning is
    seen,           \* the evidence row as read before a compare-and-set
    reviewed        \* scans with an AI advisory review

tuneVars == <<claim, tpc, seen, reviewed>>
pathVars == <<scanVars, tuneVars>>

Claims == [state : {"none", "claimed", "tuned"}, by : Handlers \cup {NoTuner},
           stale : BOOLEAN]
NoClaim == [state |-> "none", by |-> NoTuner, stale |-> FALSE]
ClaimBy(h) == [state |-> "claimed", by |-> h, stale |-> FALSE]

TuneInit ==
    /\ claim = NoClaim /\ tpc = [h \in Handlers |-> "none"]
    /\ seen = [h \in Handlers |-> NoClaim]
    /\ reviewed = {}

TuneGoto(h, s) == tpc' = [tpc EXCEPT ![h] = s]

\* firstRunEvidenceBlocksRetune.
Blocked == claim.state = "tuned" \/ (claim.state = "claimed" /\ ~claim.stale)

(***************************************************************************)
(* On the handler's own path, before its findings are persisted.           *)
(***************************************************************************)

ShouldRunFirstRunAIRuleTuning(h) ==
    /\ pc[h] = "review" /\ tpc[h] = "none" /\ setup.tunes /\ my[h].known
    /\ ~Blocked /\ CompletedScans <= 1
    /\ TuneGoto(h, "claim")
    /\ UNCHANGED <<scanVars, claim, seen, reviewed>>

\* No tuning for this scan: the handler goes on.
PassReview(h) ==
    /\ tpc[h] = "none" /\ (~setup.tunes \/ ~my[h].known \/ Blocked \/ CompletedScans > 1)
    /\ AfterReview(h) /\ UNCHANGED tuneVars

\* A mutant: an upsert, that a claim already there does not stop.
TryInsertOperatorEvidence_Upsert(h) ==
    /\ tpc[h] = "claim"
    /\ claim' = ClaimBy(h) /\ TuneGoto(h, "gate")
    /\ UNCHANGED <<scanVars, seen, reviewed>>

TryInsertOperatorEvidence(h) ==
    /\ tpc[h] = "claim"
    /\ IF claim = NoClaim
       THEN claim' = ClaimBy(h) /\ TuneGoto(h, "gate") /\ UNCHANGED seen
       ELSE /\ UNCHANGED claim
            /\ IF claim.state = "claimed" /\ claim.stale
               THEN TuneGoto(h, "replace") /\ seen' = [seen EXCEPT ![h] = claim]
               ELSE TuneGoto(h, "lost") /\ UNCHANGED seen
    /\ UNCHANGED <<scanVars, reviewed>>

ReplaceOperatorEvidenceIfStale(h) ==
    /\ tpc[h] = "replace"
    /\ IF claim = seen[h]
       THEN claim' = ClaimBy(h) /\ TuneGoto(h, "gate")
       ELSE TuneGoto(h, "lost") /\ UNCHANGED claim
    /\ seen' = [seen EXCEPT ![h] = NoClaim]
    /\ UNCHANGED <<scanVars, reviewed>>

LoseClaim(h) ==
    /\ tpc[h] = "lost"
    /\ TuneGoto(h, "end") /\ AfterReview(h)
    /\ UNCHANGED <<claim, seen, reviewed>>

\* A mutant: the handler goes on and keeps the claim.
EarlyRelease_Forgotten(h) ==
    /\ tpc[h] = "gate" /\ TuneGoto(h, "end") /\ AfterReview(h)
    /\ UNCHANGED <<claim, seen, reviewed>>

\* Nothing to review, or the preflight advises against it: release, then go on.
EarlyRelease(h) ==
    /\ tpc[h] = "gate" /\ TuneGoto(h, "giveback")
    /\ UNCHANGED <<scanVars, claim, seen, reviewed>>

StartReview(h) ==
    /\ tpc[h] = "gate" /\ Found(h) > 0
    /\ TuneGoto(h, "go") /\ AfterReview(h)
    /\ UNCHANGED <<claim, seen, reviewed>>

(***************************************************************************)
(* The goroutine.                                                          *)
(***************************************************************************)

\* A review of this scan that exists is used; else one is asked for.
LookForReview(h) ==
    /\ tpc[h] = "go"
    /\ TuneGoto(h, IF Scan(h) \in reviewed THEN "apply" ELSE "packet")
    /\ UNCHANGED <<scanVars, claim, seen, reviewed>>

\* The packet holds the findings persisted so far; without any there is no review.
BuildPacket(h) ==
    /\ tpc[h] = "packet"
    /\ IF inst[Scan(h)] = 0
       THEN TuneGoto(h, "apply") /\ UNCHANGED reviewed
       ELSE TuneGoto(h, "model") /\ reviewed' = reviewed \cup {Scan(h)}
    /\ UNCHANGED <<scanVars, claim, seen>>

\* The model answers, or the review ends as failed or timed out.
ModelAnswers(h) ==
    /\ tpc[h] = "model" /\ \E s \in {"apply", "release"} : TuneGoto(h, s)
    /\ UNCHANGED <<scanVars, claim, seen, reviewed>>

\* Without a review nothing is applied and the claim is released.
ApplyRules(h) ==
    /\ tpc[h] = "apply"
    /\ TuneGoto(h, IF Scan(h) \in reviewed THEN "put" ELSE "release")
    /\ UNCHANGED <<scanVars, claim, seen, reviewed>>

\* An error of PutOperatorEvidence is logged, and the claim is released.
PutTuned(h) ==
    /\ tpc[h] = "put"
    /\ \/ /\ claim' = [state |-> "tuned", by |-> h, stale |-> FALSE]
          /\ UNCHANGED scanVars
       \/ /\ Fault("put") /\ UNCHANGED <<claim, setup, tables, pc, my, held, target, late, stray>>
    /\ TuneGoto(h, "release") /\ UNCHANGED <<seen, reviewed>>

\* DeleteOperatorEvidenceIfStatus: read the row, and delete what was read.
ReadForRelease(h) ==
    /\ tpc[h] \in {"release", "giveback"}
    /\ seen' = [seen EXCEPT ![h] = claim]
    /\ TuneGoto(h, IF tpc[h] = "giveback" THEN "givenback" ELSE "delete")
    /\ UNCHANGED <<scanVars, claim, reviewed>>

\* A mutant: the status that was read is not compared.
DeleteIfInProgress_AnyStatus(h) ==
    /\ claim' = IF claim = seen[h] THEN NoClaim ELSE claim
    /\ seen' = [seen EXCEPT ![h] = NoClaim]
    /\ TuneGoto(h, "end")

DeleteIfInProgress(h) ==
    /\ claim' = IF seen[h].state = "claimed" /\ claim = seen[h] THEN NoClaim ELSE claim
    /\ seen' = [seen EXCEPT ![h] = NoClaim]
    /\ TuneGoto(h, "end")

ReleaseClaim(h) ==
    /\ tpc[h] = "delete"
    /\ DeleteIfInProgress(h) /\ UNCHANGED <<scanVars, reviewed>>

GiveBackClaim(h) ==
    /\ tpc[h] = "givenback"
    /\ DeleteIfInProgress(h) /\ AfterReview(h) /\ UNCHANGED reviewed

(***************************************************************************)
(* Time and crashes.                                                       *)
(***************************************************************************)

Background == {"go", "packet", "model", "apply", "put", "release", "delete"}

\* The context of the goroutine ends: its next statement fails, the release too.
Expire(h) ==
    /\ tpc[h] \in Background /\ TuneGoto(h, "quit")
    /\ seen' = [seen EXCEPT ![h] = NoClaim]
    /\ UNCHANGED <<scanVars, claim, reviewed>>

\* A mutant: the window of staleness is shorter than the tuning may last.
BecomeStale_Early ==
    /\ claim.state = "claimed" /\ ~claim.stale
    /\ tpc[claim.by] \in Background \cup {"quit"}
    /\ claim' = [claim EXCEPT !.stale = TRUE]
    /\ UNCHANGED <<scanVars, tpc, seen, reviewed>>

\* firstRunClaimStaleAfter: by then the goroutine that claimed has long ended.
BecomeStale ==
    /\ claim.state = "claimed" /\ ~claim.stale
    /\ tpc[claim.by] = "quit" \/ ("slow" \in setup.faults /\ tpc[claim.by] \in Background)
    /\ claim' = [claim EXCEPT !.stale = TRUE]
    /\ UNCHANGED <<scanVars, tpc, seen, reviewed>>

RestartAll ==
    /\ Restart
    /\ tpc' = [h \in Handlers |-> IF tpc[h] \in {"none", "end"} THEN tpc[h] ELSE "quit"]
    /\ seen' = [h \in Handlers |-> NoClaim]
    /\ UNCHANGED <<claim, reviewed>>

TuneStep(h) ==
    \/ ShouldRunFirstRunAIRuleTuning(h)
    \/ PassReview(h)
    \/ TryInsertOperatorEvidence(h)
    \/ ReplaceOperatorEvidenceIfStale(h)
    \/ LoseClaim(h)
    \/ EarlyRelease(h)
    \/ StartReview(h)
    \/ LookForReview(h)
    \/ BuildPacket(h)
    \/ ModelAnswers(h)
    \/ ApplyRules(h)
    \/ PutTuned(h)
    \/ ReadForRelease(h)
    \/ ReleaseClaim(h)
    \/ GiveBackClaim(h)

PathNext ==
    \/ \E h \in Handlers : (HandlerStep(h) /\ UNCHANGED tuneVars) \/ TuneStep(h) \/ Expire(h)
    \/ \E r \in Readers : ReaderStep(r) /\ UNCHANGED tuneVars
    \/ BecomeStale
    \/ RestartAll

PathInit == ScanInit /\ TuneInit
PathSpec == PathInit /\ [][PathNext]_pathVars

(***************************************************************************)
(* A handler that was called goes on, its analysis and its review ending   *)
(* by their timeouts; readers keep coming.                                 *)
(***************************************************************************)
FairPath ==
    /\ \A h \in Handlers :
         /\ WF_pathVars(pc[h] # "idle" /\ HandlerStep(h) /\ UNCHANGED tuneVars)
         /\ WF_pathVars(TuneStep(h))
    /\ \A r \in Readers : WF_pathVars(ReaderStep(r) /\ UNCHANGED tuneVars)

FairPathSpec == PathSpec /\ FairPath

(***************************************************************************)
(* Properties.                                                             *)
(***************************************************************************)

TuneSteps == {"none", "claim", "replace", "lost", "gate", "giveback", "givenback",
              "end", "quit"} \cup Background

TuningTypeOK ==
    /\ claim \in Claims /\ seen \in [Handlers -> Claims]
    /\ tpc \in [Handlers -> TuneSteps]
    /\ reviewed \subseteq Scans

PathTypeOK == RowsTypeOK /\ TuningTypeOK

\* Rules are applied, and the tuning is recorded, only by a goroutine that
\* holds the claim.
ApplierHoldsClaim ==
    \A h \in Handlers :
        tpc[h] \in {"apply", "put"} => claim = ClaimBy(h)

\* The release names the status of the row and not its holder: still it deletes
\* no claim but the releaser's own.
ReleasesOwnClaim ==
    [][\A h \in Handlers :
         claim.state = "claimed" /\ claim.by = h /\ claim' = NoClaim
             => tpc'[h] # tpc[h]]_pathVars

\* A repository that was tuned stays so.
TunedStays == [][claim.state = "tuned" => claim'.state = "tuned"]_pathVars

\* Releases and takeovers that are still under way take nothing that is not
\* theirs (DeleteOperatorEvidenceIfStatus compares before it deletes).
ReleasesOnlyOwn == ReleasesOwnClaim /\ TunedStays

\* A claim without its goroutine is one whose context ended, or whose process
\* died.
ClaimIsTended ==
    claim.state = "claimed" => tpc[claim.by] \in {"gate", "giveback", "givenback", "quit"}
                                                   \cup Background

(* The claim of a first-run tuning has one goroutine behind it: who applies and *)
(* records rules holds it, as it is taken over only from one that can no longer *)
(* write; every way out after it gives it back or records the tuning; and no    *)
(* one takes another's claim, or a tuning that is done                          *)
(* (maybeEnqueueOpenClawReview).                                                *)
TuningIsOwned == [](ApplierHoldsClaim /\ ClaimIsTended) /\ ReleasesOnlyOwn
==============================================================================
