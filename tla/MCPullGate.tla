----------------------------- MODULE MCPullGate -----------------------------
EXTENDS PullGate

(* Two scans of one pull request, whose head moves once; nothing else happens. *)
TwoHeads ==
    {[mode |-> "enforce", include |-> TRUE, status |-> TRUE, kind |-> [s \in Jobs |-> "pr"],
      heads |-> 2, hitches |-> {}]}
==============================================================================
