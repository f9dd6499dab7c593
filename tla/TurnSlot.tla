------------------------------ MODULE TurnSlot ------------------------------
(***************************************************************************)
(* What the shim promises about turns, and nothing of how: the agent runs  *)
(* one turn at a time, a turn starts only when no other is in flight, and  *)
(* a turn that ended never starts again.  ShimTurn.tla (the mutex, the     *)
(* atomics and the goroutines of shim/shim.go) and PaneInput.tla (the      *)
(* slot seen from the pane) are shown to implement this.                   *)
(***************************************************************************)
CONSTANTS Turns,   \* the prompts that may become a turn
          NoTurn   \* the idle slot

VARIABLES holder,   \* the turn in flight, or NoTurn
          finished  \* the turns that ended: their context is cancelled

slotSpecVars == <<holder, finished>>

Init == /\ holder = NoTurn
        /\ finished = {}

Claim(t) ==
  /\ holder = NoTurn
  /\ t \notin finished
  /\ holder' = t
  /\ UNCHANGED finished

Release ==
  /\ holder # NoTurn
  /\ holder' = NoTurn
  /\ finished' = finished \cup {holder}

Next == (\E t \in Turns : Claim(t)) \/ Release

Spec == Init /\ [][Next]_slotSpecVars

=============================================================================
