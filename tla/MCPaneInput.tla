----------------------------- MODULE MCPaneInput -----------------------------
(* A small instance of PaneInput for TLC. *)
EXTENDS PaneInputProperties, TLC

CONSTANTS p1, p2,  \* prompts
          d1,      \* a redirect
          e1, e2   \* endpoints

SymmetricEndpoints == Permutations({e1, e2})
SymmetricPrompts == Permutations({p1, p2})
Symmetric == SymmetricEndpoints \cup SymmetricPrompts
=============================================================================
