------------------------- MODULE PaneInputProperties -------------------------
(***************************************************************************)
(* What must hold of the pane's input line, although two commands that     *)
(* may fail type a prompt and nothing but the slot orders the typists.     *)
(***************************************************************************)
EXTENDS PaneInput

Places == {"idle", "dispatch", "interrupt", "cancel", "abort", "arm"} \cup Unsent

(* The type invariant. *)
TypeOK ==
  /\ engine \in Engines
  /\ slot \in Turns \cup {NoTurn}
  /\ cancelled \subseteq Turns
  /\ cut \subseteq Turns
  /\ pending \subseteq Turns
  /\ interrupts \in Nat
  /\ pc \in [Handlers -> Places]
  /\ turn \in [Handlers -> Turns \cup {NoTurn}]
  /\ victim \in Turns \cup {NoTurn}
  /\ armed \subseteq Turns
  /\ terminators \in Nat
  /\ line \in Seq(Turns)
  /\ lines \in Seq(Seq(Turns))
  /\ reading \in Nat
  /\ generating \in BOOLEAN
  /\ wiped \subseteq Turns
  /\ aborts \in Seq(Turns)

(* The lines the agent was given hold one prompt each, as the callers sent *)
(* them.  Only tmux can run two prompts together, and only when one of     *)
(* them was out of the slot before its Enter: its command failed, or an    *)
(* interrupt or the end of an earlier turn came while it was being typed.  *)
LinesMixOnlyAfterACut ==
  \A i \in 1..Len(lines) : Len(lines[i]) > 1 =>
    /\ engine = "tmux"
    /\ \E j \in 1..Len(lines[i]) : lines[i][j] \in cut

(* Where the text of a turn is. *)
OnLine(t) == \E i \in 1..Len(line) : line[i] = t
Given(t) == \E i \in 1..Len(lines) : \E j \in 1..Len(lines[i]) : lines[i][j] = t

(* The adapter accepted the prompt: OnPrompt returned no error. *)
Accepted(t) ==
  t \in armed \/ \E h \in Handlers : turn[h] = t /\ pc[h] = "arm"

(* A prompt reaches the agent at most once, whatever is typed around it;   *)
(* and when OnPrompt reports success the agent has it: its text is not     *)
(* left on the input line, unless a Ctrl-C took it away.                   *)
AcceptedIsSubmittedOnce ==
  /\ \A i, j \in 1..Len(line) : line[i] = line[j] => i = j
  /\ \A i, k \in 1..Len(lines) : \A j \in 1..Len(lines[i]), l \in 1..Len(lines[k]) :
       lines[i][j] = lines[k][l] => i = k /\ j = l
  /\ \A t \in Turns :
       /\ ~(OnLine(t) /\ Given(t))
       /\ Accepted(t) => Given(t) \/ t \in wiped

(* Interrupts that come together type one Ctrl-C for the turn they stop,   *)
(* and none when there is no turn: in an agent at rest a second Ctrl-C     *)
(* would leave the program.                                                *)
OneCtrlCPerTurn ==
  /\ \A i, j \in 1..Len(aborts) : aborts[i] = aborts[j] => i = j
  /\ \A i \in 1..Len(aborts) : aborts[i] \in cancelled /\ aborts[i] # slot

(* The slot PaneInput takes over from ShimTurn, in a coarser form, is still*)
(* TurnSlot's: what the other properties say of the typists rests on it.   *)
Ended == cancelled \cup (IF pc[Sig] = "cancel" THEN {victim} ELSE {})
Slot == INSTANCE TurnSlot WITH holder <- slot, finished <- Ended
SlotSpec == Slot!Spec
=============================================================================
