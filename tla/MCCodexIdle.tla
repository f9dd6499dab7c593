---------------------------- MODULE MCCodexIdle ----------------------------
(* The instances of CodexIdle that TLC checks. *)
EXTENDS CodexIdle

CONSTANTS busy, ask, askScrolled, confirm, log, bottom, yesNo

(* ask and askScrolled differ above the part that is hashed. *)
MCScreens == {busy, ask, askScrolled, confirm}
MCHasPrompt == {ask, askScrolled, confirm}
MCTailOf ==
  [s \in MCScreens |->
     IF s = busy THEN log ELSE IF s = confirm THEN yesNo ELSE bottom]
=============================================================================
