---------------------------- MODULE ScanSettings ----------------------------
(***************************************************************************)
(* The settings a scan goes by (store/profile_resolve.go, store/policy.go, *)
(* store/profiles.go, and from main.go resolveEffectiveSettingsForRepo,    *)
(* manual scans, delegation and the ingestion of what runners send): the   *)
(* settings row of a repository, which operators save and toggle while     *)
(* scans are queued or away on a runner, and what a scan does on the forge.*)
(*                                                                         *)
(* Fields that only choose scanners and thresholds are left out, and so    *)
(* are values that validation refuses: nothing is left to sanitize.        *)
(***************************************************************************)
EXTENDS Integers

CONSTANTS
    Inherit,        \* no profile: in a row, or in a request
    AskedScans,     \* scans that are asked for
    Platforms,      \* bound: configurations of the process
    Updates,        \* bound: what operators save
    MaxEdits        \* bound: saves and toggles in all

Profiles == {"light", "standard", "deep", "custom"}
Values == [enabled : BOOLEAN, policy : {"monitor_only", "issue_only"}, issues : {"off", "all"},
           ai : {"allowed", "disabled"}, depth : {2, 3}, llm : BOOLEAN,
           runner : {"core", "gitea_actions", "auto"}]

DefaultGlobalSettings ==
    [enabled |-> TRUE, policy |-> "issue_only", issues |-> "all", ai |-> "disabled",
     depth |-> 3, llm |-> FALSE, runner |-> "core"]

ProfileDefaults ==
    [light    |-> [DefaultGlobalSettings EXCEPT !.policy = "monitor_only", !.issues = "off", !.depth = 2],
     standard |-> [DefaultGlobalSettings EXCEPT !.depth = 2],
     deep     |-> [DefaultGlobalSettings EXCEPT !.ai = "allowed", !.llm = TRUE, !.runner = "auto"],
     custom   |-> DefaultGlobalSettings]

ASSUME SettingsAssumptions ==
    /\ Inherit \notin Profiles /\ MaxEdits \in Nat
    /\ \A p \in Platforms : p.profile \in Profiles /\ p.set \in Values /\ p.runners \in BOOLEAN
    /\ \A u \in Updates : /\ u.profile \in Profiles \union {Inherit}
                          /\ DOMAIN u.over \subseteq DOMAIN DefaultGlobalSettings
                          /\ \E v \in Values : \A f \in DOMAIN u.over : u.over[f] = v[f]

VARIABLES
    platform,   \* the configuration: a profile, values, and whether runners take scans
    row,        \* what is stored for the repository: a profile, and values of some fields
    edits,
    going       \* scan -> where it is, what was asked, what it went by, what it did

settingsVars == <<platform, row, edits, going>>

Unset == [profile |-> Inherit, over |-> <<>>]
Unasked ==
    [at |-> "idle", via |-> "api", dry |-> FALSE, asked |-> Inherit, goes |-> DefaultGlobalSettings,
     did |-> {}, blind |-> FALSE, seen |-> {}]

SettingsInit ==
    /\ platform \in Platforms /\ row = Unset /\ edits = 0
    /\ going = [s \in AskedScans |-> Unasked]

------------------------------------------------------------------------------
\* What a scan goes by.

\* mergeEffectiveSettings: profiles say nothing of whether a repository is enabled.
Merged(base, overlay) == [overlay EXCEPT !.enabled = base.enabled]

\* effectiveFromGlobalSnapshot
Global == platform.set

\* applyRepoOverrides
Overridden(base, r) ==
    [f \in DOMAIN base |-> IF f \in DOMAIN r.over THEN r.over[f] ELSE base[f]]

ProfileLayer(base, p) == IF p \in {Inherit, "custom"} THEN base ELSE Merged(base, ProfileDefaults[p])

\* preserveGlobalAIPreferences
PreserveAI(e) ==
    IF ~Global.llm \/ platform.profile = "light" THEN e
    ELSE [e EXCEPT !.llm = TRUE, !.ai = Global.ai,
                   !.depth = IF Global.depth >= 3 THEN Global.depth ELSE @]

\* Mutant: a profile's auditors are not switched off with the platform's.
KillSwitch_Off(e) == e

\* enforceGlobalLLMAuditorKillSwitch
KillSwitch(e) == [e EXCEPT !.llm = @ /\ Global.llm]

Resolved(r) ==
    LET profile == IF r.profile = Inherit THEN platform.profile ELSE r.profile
    IN KillSwitch(Overridden(PreserveAI(ProfileLayer(Global, profile)), r))

\* Mutant: the settings for an asked profile forget the row.
Requested_NoRow(p, r) == Merged(ProfileDefaults[p], Global)

\* A scan for which a profile was asked: the configuration goes over the profile.
Requested(p, r) == Overridden(Merged(ProfileDefaults[p], Global), r)

\* Mutant: a dry run keeps the auditors.
DryRun_Auditors(e) == [e EXCEPT !.policy = "monitor_only", !.issues = "off"]

DryRun(e) == [e EXCEPT !.policy = "monitor_only", !.issues = "off", !.ai = "disabled", !.llm = FALSE]

\* resolveEffectiveSettingsForRepo; auditors are held back unless calm.
Effective(asked, dry, r, calm) ==
    LET e == IF asked \in {Inherit, "custom"} THEN Resolved(r) ELSE Requested(asked, r)
        held == IF calm THEN e ELSE [e EXCEPT !.llm = FALSE]
    IN IF dry THEN DryRun(held) ELSE held

ShouldCreateForgeIssues(e) == e.enabled /\ e.policy # "monitor_only" /\ e.issues # "off"
LLMEnabled(e) == e.ai # "disabled" /\ e.llm /\ e.depth >= 3

\* The row as a reader gets it: a failed read leaves nothing set.
Read(ok) == IF ok THEN row ELSE Unset

------------------------------------------------------------------------------
\* Operators.

\* Mutant: values are laid over those stored before, whose profile stays.
Updated_Keeps(u) ==
    [profile |-> row.profile,
     over |-> [f \in DOMAIN u.over \union DOMAIN row.over |->
                 IF f \in DOMAIN u.over THEN u.over[f] ELSE row.over[f]]]

HasAdvancedFields(u) == DOMAIN u.over # {}

\* ApplySettingsUpdate: what the update does not say is cleared.
Applied(u) == [profile |-> u.profile, over |-> u.over]

\* A profile alone leaves no values, and values make the profile custom.
Updated(u) ==
    IF HasAdvancedFields(u) THEN Applied([profile |-> "custom", over |-> u.over]) ELSE Applied(u)

Store(u) ==
    /\ edits < MaxEdits /\ edits' = edits + 1
    /\ \E s \in AskedScans : going[s].at # "done"  \* bound: later edits concern no scan
    /\ row' = Updated(u)
    /\ going' = [s \in AskedScans |-> IF going[s].at \in {"idle", "done"} THEN going[s]
                                 ELSE [going[s] EXCEPT !.seen = @ \union {row'}]]
    /\ UNCHANGED platform

UpdateRepoSettings == \E u \in Updates : Store(u)

SetRepoScanEnabled == \E b \in BOOLEAN : Store([profile |-> Inherit, over |-> [enabled |-> b]])

------------------------------------------------------------------------------
\* Scans.

\* ResolveScanFilingPolicy: the UI asks for a dry run, too, when issues would not be
\* filed at present.
ReportOnly(dry, e) == dry \/ ~ShouldCreateForgeIssues(e)

Asked(via, dry, asked, ok) ==
    [at |-> "queued", via |-> via, asked |-> asked,
     dry |-> IF via = "ui" THEN ReportOnly(dry, Resolved(Read(ok))) ELSE dry,
     goes |-> DefaultGlobalSettings, did |-> {}, blind |-> ~ok, seen |-> {row}]

AskScan(s) ==
    /\ going[s].at = "idle"
    /\ \E via \in {"ui", "api", "pr", "scheduled", "webhook"}, dry, ok \in BOOLEAN,
          asked \in Profiles \union {Inherit} :
         /\ via \in {"scheduled", "webhook"} => ~dry /\ asked = Inherit
         /\ via # "ui" => ok
         /\ going' = [going EXCEPT ![s] = Asked(via, dry, asked, ok)]
    /\ UNCHANGED <<platform, row, edits>>

\* The scan has its place in the limiter, and looks its settings up.
LookUp(s) ==
    /\ going[s].at = "queued"
    /\ \E ok, calm \in BOOLEAN :
         LET e == Effective(going[s].asked, going[s].dry, Read(ok), calm)
         IN going' = [going EXCEPT ![s] = [@ EXCEPT !.at = IF e.enabled THEN "begun" ELSE "done",
                                                  !.goes = e, !.blind = going[s].blind \/ ~ok]]
    /\ UNCHANGED <<platform, row, edits>>

ShouldDelegate(s) ==
    platform.runners /\ going[s].via \notin {"pr", "webhook"} /\ going[s].goes.runner # "core"

\* A scan that no runner can take falls back to the process when runners are optional.
Delegate(s) ==
    /\ going[s].at = "begun" /\ ShouldDelegate(s)
    /\ \E at \in {"away", IF going[s].goes.runner = "auto" THEN "here" ELSE "done"} :
         going' = [going EXCEPT ![s] = [@ EXCEPT !.at = at]]
    /\ UNCHANGED <<platform, row, edits>>

Filed(e) == IF ShouldCreateForgeIssues(e) THEN {"filed"} ELSE {}
Audited(e) == IF LLMEnabled(e) THEN {"audited"} ELSE {}

\* Analysis in the process, and, unless it failed, filing by the same settings.
Analyze(s) ==
    /\ going[s].at = "here" \/ (going[s].at = "begun" /\ ~ShouldDelegate(s))
    /\ \E filed \in {{}, Filed(going[s].goes)} :
         going' = [going EXCEPT ![s] =
              [@ EXCEPT !.at = "done", !.did = Audited(going[s].goes) \union filed]]
    /\ UNCHANGED <<platform, row, edits>>

\* ingestRunnerResult: settings are looked up again, for the job has no memory
\* of what was asked.  A job that failed files nothing.
Ingest(s) ==
    /\ going[s].at = "away"
    /\ \E ok, calm, failed \in BOOLEAN :
         LET e == Effective(Inherit, FALSE, Read(ok), calm)
         IN going' = [going EXCEPT ![s] =
              [@ EXCEPT !.at = "done", !.blind = going[s].blind \/ ~ok, !.goes = e,
                        !.did = IF failed THEN {} ELSE Filed(e)]]
    /\ UNCHANGED <<platform, row, edits>>

ScanStep(s) == LookUp(s) \/ Delegate(s) \/ Analyze(s) \/ Ingest(s)

SettingsNext ==
    \/ UpdateRepoSettings \/ SetRepoScanEnabled
    \/ \E s \in AskedScans : AskScan(s) \/ ScanStep(s)

SettingsSpec == SettingsInit /\ [][SettingsNext]_settingsVars

------------------------------------------------------------------------------
\* Properties.

Rows == [profile : Profiles \union {Inherit}, over : {u.over : u \in Updates} \union
            {<<>>, [enabled |-> TRUE], [enabled |-> FALSE]}]

\* The platform, the row and the scans are what they should be.
SettingsTypeOK ==
    /\ platform \in Platforms /\ row \in Rows /\ edits \in 0..MaxEdits
    /\ \A s \in AskedScans :
         /\ going[s].at \in {"idle", "queued", "begun", "here", "away", "done"}
         /\ going[s].via \in {"ui", "api", "pr", "scheduled", "webhook"}
         /\ going[s].asked \in Profiles \union {Inherit} /\ going[s].goes \in Values
         /\ going[s].did \subseteq {"filed", "audited"} /\ going[s].seen \subseteq Rows
         /\ {going[s].dry, going[s].blind} \subseteq BOOLEAN

\* The documented order of the layers (docs and the comment of
\* ResolveEffectiveSettingsWithMeta): the row's own values, the repository's
\* profile, the platform's profile when the repository has none, the configuration.
Ruling(r, f) ==
    IF f \in DOMAIN r.over THEN r.over[f]
    ELSE IF f # "enabled" /\ r.profile \in Profiles \ {"custom"} THEN ProfileDefaults[r.profile][f]
    ELSE IF f # "enabled" /\ r.profile = Inherit /\ platform.profile # "custom"
         THEN ProfileDefaults[platform.profile][f]
    ELSE platform.set[f]

MayFile(r) ==
    Ruling(r, "enabled") /\ Ruling(r, "policy") # "monitor_only" /\ Ruling(r, "issues") # "off"

\* A value the row states itself, where it states one.
States(r, f, v) == f \in DOMAIN r.over /\ r.over[f] = v

\* A scan that saw a row filed issues only if a row stored while it was under
\* way let it: by the documented layers, or, when a profile was asked, by not
\* forbidding it.  Auditors never ran in a dry run, nor against the row; and,
\* unless a profile was asked, never with the platform's auditors switched off.
ScansObeySettings ==
    \A s \in AskedScans : LET x == going[s] IN ~x.blind =>
      /\ "filed" \in x.did => \E r \in x.seen :
           IF x.asked \in {Inherit, "custom"} THEN MayFile(r)
           ELSE ~States(r, "enabled", FALSE) /\ ~States(r, "policy", "monitor_only")
                /\ ~States(r, "issues", "off")
      /\ "audited" \in x.did =>
           /\ ~x.dry
           /\ x.asked \in {Inherit, "custom"} => platform.set.llm
           /\ \E r \in x.seen : ~States(r, "llm", FALSE) /\ ~States(r, "ai", "disabled")

\* A scan asked for as a dry run, or that the UI made one, files "0 issues"
\* (docs/SCAN_POLICY.md:11), whoever runs it; reads that fail aside.
DryRunFilesNothing == \A s \in AskedScans : going[s].dry /\ ~going[s].blind => "filed" \notin going[s].did

=============================================================================
