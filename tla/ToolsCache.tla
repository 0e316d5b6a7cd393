----------------------------- MODULE ToolsCache -----------------------------
(***************************************************************************)
(* The cache of scanner versions behind the health and status endpoints    *)
(* (operator/scanners.go, main_platform_settings.go): callers of           *)
(* CheckTools, the refresh in the background, and an operator who saves    *)
(* settings.                                                               *)
(*                                                                         *)
(* A configuration is the ten switches of the cache's key, and what a      *)
(* probe answers is a function of them.  toolsCacheMu is held for one      *)
(* action at a time; toolsInflight across several.                         *)
(***************************************************************************)
EXTENDS Naturals

CONSTANTS
    Callers,
    Refresher,     \* the goroutine of startToolsRefresh
    NoCaller,
    Switches,       \* bound: configurations
    NoSwitches,
    MaxSaves        \* bound: saves of settings

ASSUME ToolsAssumptions ==
    /\ Refresher \notin Callers /\ NoCaller \notin Callers \cup {Refresher}
    /\ NoSwitches \notin Switches /\ MaxSaves \in Nat

VARIABLES
    switches,   \* the scanner configuration in force
    cache,      \* toolsCacheKey, toolsCacheOut (as the switches it is of), and its age
    inflight,   \* holder of toolsInflight
    refreshing, \* toolsRefreshing
    ask,        \* caller or goroutine -> where it is, its key, its answer
    saving,     \* settings are being saved
    saves       \* bound: saves so far

toolsVars == <<switches, cache, inflight, refreshing, ask, saving, saves>>

Askers == Callers \cup {Refresher}
Cleared == [key |-> NoSwitches, out |-> NoSwitches, age |-> "none"]
Asks(place, key) == [at |-> place, key |-> key, out |-> NoSwitches]
AtRest == Asks("idle", NoSwitches)

ToolsInit ==
    /\ switches \in Switches /\ cache = Cleared
    /\ inflight = NoCaller /\ refreshing = FALSE
    /\ ask = [c \in Askers |-> AtRest] /\ saving = FALSE /\ saves = 0

\* The settings change one by one, under the eyes of the callers, and the cache
\* is cleared after the last.
SaveSettings ==
    /\ ~saving /\ saves < MaxSaves /\ saves' = saves + 1 /\ saving' = TRUE
    /\ UNCHANGED <<switches, cache, inflight, refreshing, ask>>

ApplySetting ==
    /\ saving /\ \E w \in Switches \ {switches} : switches' = w
    /\ UNCHANGED <<cache, inflight, refreshing, ask, saving, saves>>

InvalidateToolsCache ==
    /\ saving /\ cache' = Cleared /\ saving' = FALSE
    /\ UNCHANGED <<switches, inflight, refreshing, ask, saves>>

\* toolsCacheTTL.
CacheAges ==
    /\ cache.age = "fresh" /\ cache' = [cache EXCEPT !.age = "stale"]
    /\ UNCHANGED <<switches, inflight, refreshing, ask, saving, saves>>

Moves(c, place, out) == ask' = [ask EXCEPT ![c] = [at |-> place, key |-> ask[c].key, out |-> out]]
Answered(c, out) == Moves(c, "answered", out)

CheckTools(c) ==
    /\ ask[c].at = "idle" /\ ask' = [ask EXCEPT ![c] = Asks("look", switches)]
    /\ UNCHANGED <<switches, cache, inflight, refreshing, saving, saves>>

\* A mutant: the key of the cache is not compared.
Cached_AnyKey(key) == cache.key # NoSwitches

Cached(key) == cache.key = key

\* A fresh answer is given; a stale one too, after a refresh is asked for.
LookUp(c) ==
    /\ ask[c].at = "look"
    /\ \/ Cached(ask[c].key) /\ cache.age = "fresh" /\ Answered(c, cache.out)
       \/ /\ Cached(ask[c].key) /\ cache.age = "stale"
          /\ Moves(c, "start", cache.out)
       \/ ~Cached(ask[c].key) /\ Moves(c, "wait", NoSwitches)
    /\ UNCHANGED <<switches, cache, inflight, refreshing, saving, saves>>

StartToolsRefresh(c) ==
    /\ ask[c].at = "start"
    /\ IF ~refreshing
       THEN /\ refreshing' = TRUE
            /\ ask' = [ask EXCEPT ![c] = [at |-> "answered", key |-> ask[c].key, out |-> ask[c].out],
                                  ![Refresher] = Asks("wait", ask[c].key)]
       ELSE Answered(c, ask[c].out) /\ UNCHANGED refreshing
    /\ UNCHANGED <<switches, cache, inflight, saving, saves>>

\* refreshTools.
TakeInflight(c) ==
    /\ ask[c].at = "wait" /\ inflight = NoCaller /\ inflight' = c
    /\ Moves(c, "recheck", NoSwitches)
    /\ UNCHANGED <<switches, cache, refreshing, saving, saves>>

\* A mutant: whoever has waited probes.
IsFresh_NotAsked(key) == FALSE

IsFresh(key) == cache.key = key /\ cache.age = "fresh"

\* The lock is released, and the goroutine's flag cleared, on return.
Done(c, out) == Moves(c, IF c = Refresher THEN "flag" ELSE "answered", out)

Recheck(c) ==
    /\ ask[c].at = "recheck"
    /\ IF IsFresh(ask[c].key)
       THEN Done(c, cache.out) /\ inflight' = NoCaller
       ELSE Moves(c, "probe", NoSwitches) /\ UNCHANGED inflight
    /\ UNCHANGED <<switches, cache, refreshing, saving, saves>>

\* checkToolsUncached, and the store of what it returns under the caller's key.
Probe(c) ==
    /\ ask[c].at = "probe" /\ Done(c, ask[c].key) /\ inflight' = NoCaller
    /\ cache' = [key |-> ask[c].key, out |-> ask[c].key, age |-> "fresh"]
    /\ UNCHANGED <<switches, refreshing, saving, saves>>

\* A mutant: the flag is left as it is.
Flag_Left == refreshing

Flag == FALSE

ClearFlag ==
    /\ ask[Refresher].at = "flag" /\ refreshing' = Flag
    /\ ask' = [ask EXCEPT ![Refresher] = AtRest]
    /\ UNCHANGED <<switches, cache, inflight, saving, saves>>

TakeAnswer(c) ==
    /\ c \in Callers /\ ask[c].at = "answered" /\ ask' = [ask EXCEPT ![c] = AtRest]
    /\ UNCHANGED <<switches, cache, inflight, refreshing, saving, saves>>

AskerStep(c) ==
    LookUp(c) \/ StartToolsRefresh(c) \/ TakeInflight(c) \/ Recheck(c) \/ Probe(c) \/ TakeAnswer(c)

ToolsNext ==
    \/ SaveSettings \/ ApplySetting \/ InvalidateToolsCache \/ CacheAges \/ ClearFlag
    \/ \E c \in Callers : CheckTools(c)
    \/ \E c \in Askers : AskerStep(c)

\* Goroutines go on, a mutex is not kept from a waiter for ever, a probe has a
\* timeout.
FairTools ==
    /\ \A c \in Askers : SF_toolsVars(AskerStep(c))
    /\ WF_toolsVars(ClearFlag)

ToolsSpec == ToolsInit /\ [][ToolsNext]_toolsVars
FairToolsSpec == ToolsSpec /\ FairTools

(***************************************************************************)
(* Properties.                                                             *)
(***************************************************************************)

ToolsTypeOK ==
    /\ switches \in Switches /\ saving \in BOOLEAN /\ saves \in 0..MaxSaves
    /\ cache \in [key : Switches, out : Switches, age : {"fresh", "stale"}] \cup {Cleared}
    /\ inflight \in Askers \cup {NoCaller} /\ refreshing \in BOOLEAN
    /\ ask \in [Askers -> [at : {"idle", "look", "start", "wait", "recheck", "probe", "flag",
                                 "answered"},
                           key : Switches \cup {NoSwitches}, out : Switches \cup {NoSwitches}]]

\* Saves and refreshes of other keys notwithstanding, an answer is of the
\* switches that the caller had in hand.
AnswersFit == \A c \in Callers : ask[c].at = "answered" => ask[c].out = ask[c].key

\* "Others wait then reuse the fresh cache" (refreshTools): no one probes what
\* the cache has fresh, and no two probe at once.
NoStampede ==
    /\ \A c \in Askers : ask[c].at = "probe" => ~(cache.key = ask[c].key /\ cache.age = "fresh")
    /\ \A c, d \in Askers : ask[c].at = "probe" /\ ask[d].at = "probe" => c = d

(* What the cache promises to its callers (CheckTools, refreshTools): answers   *)
(* that fit, one probe at a time and none for what is fresh, and one refresh in *)
(* the background, which the flag stands for.                                   *)
ToolsAreTrue ==
    AnswersFit /\ NoStampede /\ (refreshing <=> ask[Refresher].at # "idle")

(* Every call is answered, and every refresh ends, so that another can start.   *)
CallsAreAnswered ==
    /\ \A c \in Callers : []<>(ask[c].at = "idle")
    /\ []<>~refreshing
==============================================================================
