------------------------------ MODULE PaneInput ------------------------------
(***************************************************************************)
(* What the shim types into the agent's pane.                              *)
(*                                                                         *)
(* A prompt that took the slot (dispatchPrompt of shim/shim.go) is typed   *)
(* by the adapter's OnPrompt: with tmux the text and the Enter are two     *)
(* commands, and either may fail; with cmux and zmx one command carries    *)
(* both (locatorSend of shim/engine.go and the adapters' realSendKeys).    *)
(* An interrupt types Ctrl-C (Abort, locatorInterrupt) after it released   *)
(* the slot, so that the next prompt, or the one still being typed, may be *)
(* on the input line already.  The handlers of the prompt endpoints and of *)
(* the signal subscription share the pane; only the slot keeps them apart. *)
(*                                                                         *)
(* The streams are left out: ShimTurn.tla has them.  Of the event pump and *)
(* the watchdog only the release of the slot is left.                      *)
(*                                                                         *)
(* An operator commented "Fault:" is no part of the model: it is a variant *)
(* of the definition after it, with a mistake the code could have made.    *)
(***************************************************************************)
EXTENDS Naturals, Sequences, FiniteSets

CONSTANTS
  Prompts,       \* requests on a prompt endpoint
  Redirects,     \* redirect signals
  Endpoints,     \* the prompt subscriptions
  Sig,           \* the signal subscription
  NoTurn,        \* the idle slot
  Engines,       \* the engines a shim may be bound to
  MaxInterrupts  \* bound: interrupt signals delivered

Turns == Prompts \cup Redirects
Handlers == Endpoints \cup {Sig}

ASSUME PaneInputAssumption ==
  /\ Prompts \cap Redirects = {} /\ NoTurn \notin Turns
  /\ Sig \notin Endpoints
  /\ Engines \subseteq {"tmux", "cmux", "zmx"}
  /\ MaxInterrupts \in Nat

(* A turn stands for its reply subject, its cancel function and its text.  *)
VARIABLES
  engine,      \* the engine of the bound surface
  slot,        \* the turn in flight, or NoTurn
  cancelled,   \* turns whose context was cancelled
  pending,     \* requests not delivered yet
  interrupts,  \* interrupt signals delivered
  pc,          \* where each callback goroutine is
  turn,        \* the request each callback goroutine works on
  victim,      \* the turn handleInterrupt took out of the slot
  armed,       \* turns whose watchdog is armed
  terminators, \* turn ends the adapter reported and the pump did not see yet
  line,        \* the pane's input line: the texts typed since the last Enter
  lines,       \* the lines the agent was given
  reading,     \* how many of them the agent took up
  generating,  \* the agent works on the last of these
  cut,         \* history: turns out of the slot before their text was sent
  wiped,       \* history: turns whose text a Ctrl-C took off the input line
  aborts       \* history: the turns a Ctrl-C was sent for

slotVars == <<slot, cancelled, cut>>
handlerVars == <<pending, interrupts, pc, turn, victim>>
agentVars == <<line, lines, reading, generating, wiped>>
vars == <<engine, slotVars, handlerVars, armed, terminators, agentVars, aborts>>

Init ==
  /\ engine \in Engines
  /\ slot = NoTurn /\ cancelled = {} /\ cut = {}
  /\ pending = Turns /\ interrupts = 0
  /\ pc = [h \in Handlers |-> "idle"]
  /\ turn = [h \in Handlers |-> NoTurn]
  /\ victim = NoTurn
  /\ armed = {} /\ terminators = 0
  /\ line = << >> /\ lines = << >>
  /\ reading = 0 /\ generating = FALSE
  /\ wiped = {} /\ aborts = << >>

Goto(h, place) == pc' = [pc EXCEPT ![h] = place]

Finish(h) ==
  /\ Goto(h, "idle")
  /\ turn' = [turn EXCEPT ![h] = NoTurn]

(* Where a handler is before the adapter has sent all of its text. *)
Unsent == {"ack", "onPrompt", "type", "enter", "fail"}

Sending(t) == \E h \in Handlers : turn[h] = t /\ pc[h] \in Unsent

-----------------------------------------------------------------------------
(* The slot, under activeMu. *)

Leave(t) ==
  /\ slot' = NoTurn
  /\ cut' = IF Sending(t) THEN cut \cup {t} ELSE cut

(* clearActive and finishStream: only the turn in the slot is released. *)
clearActive(t) ==
  IF slot = t /\ t # NoTurn
  THEN Leave(t) /\ cancelled' = cancelled \cup {t}
  ELSE UNCHANGED slotVars

-----------------------------------------------------------------------------
(* The pane's input line. *)

(* Enter gives the agent whatever is on the line, an empty line excepted. *)
Submit(text) ==
  /\ lines' = IF text = << >> THEN lines ELSE Append(lines, text)
  /\ line' = << >>

-----------------------------------------------------------------------------
(* dispatchPrompt *)

Deliver(h, t, place) ==
  /\ pc[h] = "idle"
  /\ t \in pending
  /\ pending' = pending \ {t}
  /\ Goto(h, place)
  /\ turn' = [turn EXCEPT ![h] = t]
  /\ UNCHANGED <<engine, slotVars, interrupts, victim, armed, terminators,
                 agentVars, aborts>>

HandlePrompt(h, t) == t \in Prompts /\ Deliver(h, t, "dispatch")

(* Fault: the slot is taken without looking whether it is free. *)
ClaimSlotBlindly(h) ==
  /\ pc[h] = "dispatch"
  /\ slot' = turn[h]
  /\ Goto(h, "ack")
  /\ UNCHANGED <<engine, cancelled, cut, pending, interrupts, turn, victim,
                 armed, terminators, agentVars, aborts>>

ClaimSlot(h) ==
  /\ pc[h] = "dispatch"
  /\ slot = NoTurn
  /\ slot' = turn[h]
  /\ Goto(h, "ack")
  /\ UNCHANGED <<engine, cancelled, cut, pending, interrupts, turn, victim,
                 armed, terminators, agentVars, aborts>>

AgentBusy(h) ==
  /\ pc[h] = "dispatch"
  /\ slot # NoTurn
  /\ Finish(h)
  /\ UNCHANGED <<engine, slotVars, pending, interrupts, victim, armed,
                 terminators, agentVars, aborts>>

PublishAck(h) ==
  /\ pc[h] = "ack"
  /\ Goto(h, "onPrompt")
  /\ UNCHANGED <<engine, slotVars, pending, interrupts, turn, victim, armed,
                 terminators, agentVars, aborts>>

AckFails(h) ==
  /\ pc[h] = "ack"
  /\ clearActive(turn[h])
  /\ Finish(h)
  /\ UNCHANGED <<engine, pending, interrupts, victim, armed, terminators,
                 agentVars, aborts>>

(* OnPrompt looks at its context once, before the first command. *)
OnPrompt(h) ==
  /\ pc[h] = "onPrompt"
  /\ Goto(h, IF turn[h] \in cancelled THEN "fail" ELSE "type")
  /\ UNCHANGED <<engine, slotVars, pending, interrupts, turn, victim, armed,
                 terminators, agentVars, aborts>>

(* A command that fails types nothing; OnPrompt returns its error at once. *)
CommandFails(h) ==
  /\ pc[h] \in {"type", "enter"}
  /\ Goto(h, "fail")
  /\ UNCHANGED <<engine, slotVars, pending, interrupts, turn, victim, armed,
                 terminators, agentVars, aborts>>

(* tmux send-keys -l: the text, behind what is on the line already. *)
TypeText(h) ==
  /\ pc[h] = "type"
  /\ engine = "tmux"
  /\ line' = Append(line, turn[h])
  /\ Goto(h, "enter")
  /\ UNCHANGED <<engine, slotVars, pending, interrupts, turn, victim, armed,
                 terminators, lines, reading, generating, wiped, aborts>>

(* Fault: the text is sent again, with its Enter. *)
PressEnterAgain(h) ==
  /\ pc[h] = "enter"
  /\ Submit(Append(line, turn[h]))
  /\ Goto(h, "arm")
  /\ UNCHANGED <<engine, slotVars, pending, interrupts, turn, victim, armed,
                 terminators, reading, generating, wiped, aborts>>

(* tmux send-keys Enter. *)
PressEnter(h) ==
  /\ pc[h] = "enter"
  /\ Submit(line)
  /\ Goto(h, "arm")
  /\ UNCHANGED <<engine, slotVars, pending, interrupts, turn, victim, armed,
                 terminators, reading, generating, wiped, aborts>>

(* cmux send, zmx send: the text and its Enter. *)
SendLine(h) ==
  /\ pc[h] = "type"
  /\ engine # "tmux"
  /\ Submit(Append(line, turn[h]))
  /\ Goto(h, "arm")
  /\ UNCHANGED <<engine, slotVars, pending, interrupts, turn, victim, armed,
                 terminators, reading, generating, wiped, aborts>>

(* The 500, its terminator and clearActive. *)
FailClear(h) ==
  /\ pc[h] = "fail"
  /\ clearActive(turn[h])
  /\ Finish(h)
  /\ UNCHANGED <<engine, pending, interrupts, victim, armed, terminators,
                 agentVars, aborts>>

ArmWatchdog(h) ==
  /\ pc[h] = "arm"
  /\ armed' = armed \cup {turn[h]}
  /\ Finish(h)
  /\ UNCHANGED <<engine, slotVars, pending, interrupts, victim, terminators,
                 agentVars, aborts>>

-----------------------------------------------------------------------------
(* handleInterrupt, handleRedirect *)

HandleInterrupt ==
  /\ pc[Sig] = "idle"
  /\ interrupts < MaxInterrupts
  /\ interrupts' = interrupts + 1
  /\ Goto(Sig, "interrupt")
  /\ UNCHANGED <<engine, slotVars, pending, turn, victim, armed, terminators,
                 agentVars, aborts>>

HandleRedirect(t) == t \in Redirects /\ Deliver(Sig, t, "interrupt")

(* handleInterrupt returned: a redirect goes on to dispatchPrompt. *)
AfterInterrupt == Goto(Sig, IF turn[Sig] = NoTurn THEN "idle" ELSE "dispatch")

InterruptIdle ==
  /\ pc[Sig] = "interrupt"
  /\ slot = NoTurn
  /\ AfterInterrupt
  /\ UNCHANGED <<engine, slotVars, pending, interrupts, turn, victim, armed,
                 terminators, agentVars, aborts>>

(* Fault: the slot is not released under the mutex. *)
InterruptReleaseLate ==
  /\ pc[Sig] = "interrupt"
  /\ slot # NoTurn
  /\ victim' = slot
  /\ Goto(Sig, "cancel")
  /\ UNCHANGED <<engine, slotVars, pending, interrupts, turn, armed,
                 terminators, agentVars, aborts>>

InterruptRelease ==
  /\ pc[Sig] = "interrupt"
  /\ slot # NoTurn
  /\ victim' = slot
  /\ Leave(slot)
  /\ Goto(Sig, "cancel")
  /\ UNCHANGED <<engine, cancelled, pending, interrupts, turn, armed,
                 terminators, agentVars, aborts>>

InterruptCancel ==
  /\ pc[Sig] = "cancel"
  /\ cancelled' = cancelled \cup {victim}
  /\ Goto(Sig, "abort")
  /\ UNCHANGED <<engine, slot, cut, pending, interrupts, turn, victim, armed,
                 terminators, agentVars, aborts>>

(* Ctrl-C, to whatever runs in the pane: it stops the line the agent works *)
(* on, whosever that is, and may take what is typed off the input line.    *)
(* The adapter may or may not see an end of the turn that was stopped.     *)
CtrlC ==
  /\ generating' = FALSE
  /\ \/ UNCHANGED <<line, wiped>>
     \/ line' = << >> /\ wiped' = wiped \cup {line[i] : i \in DOMAIN line}
  /\ \/ UNCHANGED terminators
     \/ generating /\ terminators' = terminators + 1
  /\ UNCHANGED <<lines, reading>>

InterruptAbort ==
  /\ pc[Sig] = "abort"
  /\ CtrlC
  /\ aborts' = Append(aborts, victim)
  /\ victim' = NoTurn
  /\ AfterInterrupt
  /\ UNCHANGED <<engine, slotVars, pending, interrupts, turn, armed>>

(* A command that fails is ignored. *)
InterruptAbortFails ==
  /\ pc[Sig] = "abort"
  /\ victim' = NoTurn
  /\ AfterInterrupt
  /\ UNCHANGED <<engine, slotVars, pending, interrupts, turn, armed,
                 terminators, agentVars, aborts>>

-----------------------------------------------------------------------------
(* The watchdog, the pump, and the agent in the pane. *)

Watchdog(t) ==
  /\ t \in armed
  /\ armed' = armed \ {t}
  /\ clearActive(t)
  /\ UNCHANGED <<engine, handlerVars, terminators, agentVars, aborts>>

(* The pump ends the stream it finds in the slot: a turn's end that comes  *)
(* late ends the turn after it.  The slot may be another's by the time the *)
(* pump gets to clear it: then it stays.                                   *)
PumpEndsStream ==
  /\ terminators > 0
  /\ terminators' = terminators - 1
  /\ clearActive(slot) \/ UNCHANGED slotVars
  /\ UNCHANGED <<engine, handlerVars, armed, agentVars, aborts>>

AgentTakesLine ==
  /\ ~generating
  /\ reading < Len(lines)
  /\ reading' = reading + 1
  /\ generating' = TRUE
  /\ UNCHANGED <<engine, slotVars, handlerVars, armed, terminators, line,
                 lines, wiped, aborts>>

AgentFinishes ==
  /\ generating
  /\ generating' = FALSE
  /\ terminators' = terminators + 1
  /\ UNCHANGED <<engine, slotVars, handlerVars, armed, line, lines, reading,
                 wiped, aborts>>

-----------------------------------------------------------------------------
DispatchStep(h) ==
  \/ ClaimSlot(h) \/ AgentBusy(h) \/ PublishAck(h) \/ AckFails(h)
  \/ OnPrompt(h) \/ TypeText(h) \/ PressEnter(h) \/ SendLine(h)
  \/ CommandFails(h) \/ FailClear(h) \/ ArmWatchdog(h)

InterruptStep ==
  \/ InterruptIdle \/ InterruptRelease \/ InterruptCancel
  \/ InterruptAbort \/ InterruptAbortFails

Next ==
  \/ \E h \in Handlers : DispatchStep(h)
  \/ InterruptStep
  \/ \E h \in Endpoints, t \in Prompts : HandlePrompt(h, t)
  \/ HandleInterrupt
  \/ \E t \in Redirects : HandleRedirect(t)
  \/ \E t \in Turns : Watchdog(t)
  \/ PumpEndsStream
  \/ AgentTakesLine \/ AgentFinishes

Spec == Init /\ [][Next]_vars
=============================================================================
