-------------------------- MODULE MCShimLifecycle --------------------------
(* The instances of ShimLifecycle that TLC checks. *)
EXTENDS ShimLifecycle

(* A shim of a TUI adapter in a tmux pane, and an echo shim with no pane to *)
(* watch, each with both endpoint pairs.                                    *)
MCConfigs ==
  {[slug |-> TRUE, dualPublish |-> TRUE, tmux |-> TRUE, echo |-> FALSE],
   [slug |-> TRUE, dualPublish |-> TRUE, tmux |-> FALSE, echo |-> TRUE]}
=============================================================================
