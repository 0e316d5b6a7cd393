---------------------------- MODULE MCBackground ----------------------------
(* The work of the process that nobody waits for: scheduled scans, what scans   *)
(* say on open issues and how they label them, the refresh of the tools cache,  *)
(* and the recomputes.  The parts share no state: a behaviour is one of the     *)
(* part that its first state chooses, and the others stay in an initial state.  *)
EXTENDS MCScheduler, IssueUpdates, IssueLabels, ToolsCache, RuleLearning

VARIABLE part

background == <<part, vars, updateVars, labelVars, toolsVars, learnVars>>

(* Sightings of one finding: as it was, elsewhere, and less surely.             *)
AllObservations ==
    {[sev |-> "high", loc |-> "here", conf |-> 80],
     [sev |-> "high", loc |-> "there", conf |-> 80],
     [sev |-> "high", loc |-> "here", conf |-> 60]}

(* A closure that was verified, and a merged one that waits for its rescan.     *)
OneStateEach == [c \in Labellers |-> IF c = "v" THEN "resolved-verified" ELSE "pending-rescan"]

(* Recomputes: two that may be given up beside an operator's marks, and one     *)
(* that applies what is proposed beside an operator's decisions.                *)
AllCourses ==
    {[jobs |-> Recomputes, auto |-> FALSE, advised |-> {}, marked |-> RuleFindings,
      decides |-> FALSE, dies |-> TRUE],
     [jobs |-> {"c1"}, auto |-> TRUE, advised |-> RuleFindings, marked |-> {},
      decides |-> TRUE, dies |-> TRUE]}

(* The scheduler is looked at twice: through restarts, with nobody else's scans *)
(* and no schedule switched off, and with one repository in a crowd of both     *)
(* while the process lives.  What is promised in time is promised in the first. *)
Undisturbed == listed' = listed /\ ~\E r \in Repos : OtherScanStarts(r)
Crowded == (up => up') /\ listed' \union others' \subseteq {Quick}
Surroundings == IF part = "schedule" THEN Undisturbed ELSE Crowded

BackgroundInit ==
    /\ part \in {"schedule", "crowd", "update", "label", "tools", "learn"}
    /\ Init /\ UpdateInit /\ LabelsInit /\ ToolsInit /\ LearnInit
    /\ listed = IF part = "crowd" THEN {Quick} ELSE Repos
    /\ part # "update" => database
    /\ part # "label" => defined = {}
    /\ part # "tools" => switches = CHOOSE w \in Switches : TRUE
    /\ part # "learn" => course = CHOOSE c \in Courses : TRUE

BackgroundNext ==
    /\ UNCHANGED part
    /\ \/ /\ part \in {"schedule", "crowd"} /\ Next /\ Surroundings
          /\ UNCHANGED <<updateVars, labelVars, toolsVars, learnVars>>
       \/ part = "update" /\ UpdateNext /\ UNCHANGED <<vars, labelVars, toolsVars, learnVars>>
       \/ part = "label" /\ LabelsNext /\ UNCHANGED <<vars, updateVars, toolsVars, learnVars>>
       \/ part = "tools" /\ ToolsNext /\ UNCHANGED <<vars, updateVars, labelVars, learnVars>>
       \/ part = "learn" /\ LearnNext /\ UNCHANGED <<vars, updateVars, labelVars, toolsVars>>

\* The fairness of each part, of its steps in behaviours that are its own.  A
\* behaviour has one part, so steps of several parts can share a formula, which
\* spares TLC most of their combinations.
Served(r) ==
    /\ part = "schedule" /\ \E item \in todo : item.repo = r /\ Launch(item)
    /\ UNCHANGED <<part, updateVars, labelVars, toolsVars, learnVars>>
Asked(c) ==
    /\ part = "tools" /\ AskerStep(c)
    /\ UNCHANGED <<part, vars, updateVars, labelVars, learnVars>>
Learnt ==
    /\ part = "learn" /\ \E j \in Recomputes : Backfill(j)
    /\ UNCHANGED <<part, vars, updateVars, labelVars, toolsVars>>

FairBackground ==
    /\ WF_vars(part = "schedule" /\ Start) /\ WF_vars(part = "schedule" /\ Tick)
    /\ WF_vars(part = "schedule" /\ \E item \in todo : Launch(item) \/ Skip(item))
    /\ \A t \in Tasks : WF_vars(part = "schedule" /\ TaskStep(t))
    /\ WF_toolsVars(part = "tools" /\ ClearFlag)
    /\ \A j \in Recomputes :
         /\ WF_learnVars(part = "learn" /\ StartRecompute(j))
         /\ WF_learnVars(part = "learn" /\ RecomputeStep(j))
    /\ SF_background(Served("r1") \/ Asked("d1") \/ Learnt)
    /\ SF_background(Served("r2") \/ Asked("d2"))
    /\ SF_background(Asked(Refresher))

BackgroundSpec == BackgroundInit /\ [][BackgroundNext]_background /\ FairBackground

\* The type invariants of the parts.
BackgroundTypeOK ==
    TypeOK /\ UpdateTypeOK /\ LabelsTypeOK /\ ToolsTypeOK /\ LearnTypeOK

(* What the background owes is done: a scheduled run that is due is served or   *)
(* held back by a started row, callers of the tools cache get an answer, and a  *)
(* mark as false positive is learnt.                                            *)
BackgroundSettles == (part = "schedule" => DueIsServed) /\ CallsAreAnswered /\ MarksAreLearned
=============================================================================
