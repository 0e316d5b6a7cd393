--------------------------- MODULE MCScanSettings ---------------------------
(* Instances of ScanSettings for TLC. *)
EXTENDS ScanSettings

WithAuditors == [DefaultGlobalSettings EXCEPT !.ai = "allowed", !.llm = TRUE]

(* Processes: with no profile, filing or not; with auditors, under a profile that *)
(* only reads and no runners, or under one that files.                          *)
AllPlatforms ==
    {[profile |-> "custom", set |-> [DefaultGlobalSettings EXCEPT !.issues = "off"], runners |-> TRUE],
     [profile |-> "light", set |-> WithAuditors, runners |-> FALSE],
     [profile |-> "standard", set |-> WithAuditors, runners |-> TRUE]}

(* What operators save: a profile, or values of their own.                      *)
AllUpdates ==
    {[profile |-> p, over |-> <<>>] : p \in {Inherit, "light", "deep"}} \union
    {[profile |-> Inherit, over |-> [issues |-> "off"]],
     [profile |-> Inherit, over |-> [issues |-> "all", llm |-> TRUE, ai |-> "allowed", depth |-> 3,
                                     runner |-> "gitea_actions"]]}
=============================================================================
