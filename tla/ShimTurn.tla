------------------------------ MODULE ShimTurn ------------------------------
(***************************************************************************)
(* One turn at a time: the core of shim/shim.go.                           *)
(*                                                                         *)
(* The goroutines that share the active-turn slot are the actors:          *)
(*   - one NATS callback goroutine per prompt endpoint (legacy and slug),  *)
(*     running handlePrompt to its end before it takes the next message;   *)
(*   - the callback goroutine of the signal subscription (Sig), running    *)
(*     handleInterrupt and handleRedirect;                                 *)
(*   - the event pump, which publishes the adapter's chunks and reads the  *)
(*     slot without the mutex;                                             *)
(*   - one watchdog goroutine per dispatched turn.                         *)
(* A section under activeMu is one step: only the pump reads the slot      *)
(* outside the mutex, and its two loads are two steps.  Every publish,     *)
(* call into the adapter and cancel outside the mutex is a step too.       *)
(*                                                                         *)
(* The adapter and its agent are what adapter.go's contract allows:        *)
(* OnPrompt succeeds or fails, and an accepted turn then emits chunks.     *)
(*                                                                         *)
(* An operator commented "Fault:" is no part of the model: it is a variant *)
(* of the definition after it, with a mistake the code could have made. It *)
(* takes that definition's place when a property is tried against it.      *)
(***************************************************************************)
EXTENDS Naturals, Sequences, FiniteSets

CONSTANTS
  Prompts,        \* requests on a prompt endpoint; each is delivered once
  Redirects,      \* redirect signals; each is delivered once
  Endpoints,      \* the prompt subscriptions
  Sig,            \* the signal subscription
  Replies,        \* reply subjects
  NoReply,        \* the empty subject ""
  ReplyOf,        \* the reply subject a request carries
  NoTurn,         \* no turn, no cancel function, no trace
  Malformed,      \* requests whose body is refused: no envelope, attachments
  ChanCap,        \* capacity of the adapter's Events() channel
  MaxChunks,      \* bound: response chunks an agent writes in one turn
  MaxInterrupts,  \* bound: interrupt signals delivered
  ClosingAdapter, \* TRUE: the adapter may close Events() by itself
  RepeatingAdapter, \* TRUE: the adapter may send a second Terminator
  MayShutdown     \* TRUE: runCtx may be cancelled

Turns == Prompts \cup Redirects
Handlers == Endpoints \cup {Sig}

(* A redirect without a reply subject gets a fresh inbox, so only a prompt *)
(* can be without one.                                                     *)
ASSUME ShimTurnAssumption ==
  /\ Prompts \cap Redirects = {}
  /\ NoTurn \notin Turns
  /\ Sig \notin Endpoints
  /\ NoReply \notin Replies
  /\ ReplyOf \in [Turns -> Replies \cup {NoReply}]
  /\ \A r \in Redirects : ReplyOf[r] \in Replies
  /\ ChanCap \in Nat /\ MaxChunks \in Nat /\ MaxInterrupts \in Nat
  /\ Malformed \subseteq Turns
  /\ ClosingAdapter \in BOOLEAN /\ MayShutdown \in BOOLEAN
  /\ RepeatingAdapter \in BOOLEAN

(* A turn stands for its trace and for its cancel function: each turn has  *)
(* one of its own.                                                         *)
VARIABLES
  activeReply,   \* reply subject of the turn in flight, or NoReply
  activeTrace,   \* its trace
  activeCancel,  \* its cancel function
  cancelled,     \* turns whose context was cancelled
  running,       \* runCtx is not done
  pending,       \* requests not delivered yet
  interrupts,    \* interrupt signals delivered
  pc,            \* where each callback goroutine is
  turn,          \* the request each callback goroutine works on
  victim,        \* what handleInterrupt read under the mutex
  pump,          \* the event pump: its place, chunk, reply and trace
  watchdog,      \* the watchdog goroutine of each turn
  agent,         \* what the agent does with each turn
  emitted,       \* response chunks emitted for each turn
  events,        \* the adapter's Events() channel
  closed,        \* the channel is closed
  out            \* what was published on each reply subject

slotVars == <<activeReply, activeTrace, activeCancel>>
handlerVars == <<pending, interrupts, pc, turn, victim>>
adapterVars == <<agent, emitted, events, closed>>
vars == <<slotVars, cancelled, running, handlerVars, pump, watchdog,
          adapterVars, out>>

NoVictim == [reply |-> NoReply, trace |-> NoTurn, cancel |-> NoTurn]
NoChunk == [kind |-> "none", turn |-> NoTurn]
Pump(at, chunk, reply, trace) ==
  [at |-> at, chunk |-> chunk, reply |-> reply, trace |-> trace]
PumpAt(at) == Pump(at, NoChunk, NoReply, NoTurn)

Init ==
  /\ activeReply = NoReply /\ activeTrace = NoTurn /\ activeCancel = NoTurn
  /\ cancelled = {}
  /\ running = TRUE
  /\ pending = Turns /\ interrupts = 0
  /\ pc = [h \in Handlers |-> "idle"]
  /\ turn = [h \in Handlers |-> NoTurn]
  /\ victim = NoVictim
  /\ pump = PumpAt("recv")
  /\ watchdog = [t \in Turns |-> "off"]
  /\ agent = [t \in Turns |-> "none"]
  /\ emitted = [t \in Turns |-> 0]
  /\ events = << >> /\ closed = FALSE
  /\ out = [r \in Replies |-> << >>]

-----------------------------------------------------------------------------
(* Publishing.  A message records its type, the turn it was produced for,  *)
(* the trace in its headers and the goroutine that published it.           *)

Message(type, t, trace, by) ==
  [type |-> type, turn |-> t, trace |-> trace, by |-> by]

publishChunk(reply, type, t, trace, by) ==
  out' = [out EXCEPT ![reply] = Append(@, Message(type, t, trace, by))]

(* The terminator is headerless: it carries no trace. *)
publishTerminator(reply, t, by) ==
  out' = [out EXCEPT ![reply] = Append(@, Message("term", t, NoTurn, by))]

(* A message with the Nats-Service-Error headers: "reject" when the prompt *)
(* was never accepted (400, 503), "error" in the middle of a stream.       *)
publishErrorOnReply(reply, type, t, trace, by) ==
  out' = [out EXCEPT ![reply] = Append(@, Message(type, t, trace, by))]

Goto(h, place) == pc' = [pc EXCEPT ![h] = place]

Finish(h) ==
  /\ Goto(h, "idle")
  /\ turn' = [turn EXCEPT ![h] = NoTurn]

-----------------------------------------------------------------------------
(* The slot, under activeMu. *)

(* Fault: the trace of the turn that ended is left behind. *)
ReleaseSlotKeepsTrace ==
  /\ activeReply' = NoReply
  /\ activeCancel' = NoTurn
  /\ UNCHANGED activeTrace

ReleaseSlot ==
  /\ activeReply' = NoReply
  /\ activeTrace' = NoTurn
  /\ activeCancel' = NoTurn

(* Fault: the slot is released and the context is not cancelled. *)
CancelActiveLost == UNCHANGED cancelled

CancelActive == cancelled' = cancelled \cup ({activeCancel} \ {NoTurn})

clearActive(reply) ==
  IF activeReply = reply
  THEN ReleaseSlot /\ CancelActive
  ELSE UNCHANGED <<slotVars, cancelled>>

-----------------------------------------------------------------------------
(* handlePrompt *)

Deliver(h, t, place) ==
  /\ pc[h] = "idle"
  /\ t \in pending
  /\ pending' = pending \ {t}
  /\ Goto(h, place)
  /\ turn' = [turn EXCEPT ![h] = t]
  /\ UNCHANGED <<slotVars, cancelled, running, interrupts, victim, pump,
                 watchdog, adapterVars, out>>

(* A prompt published without a reply subject is dropped. *)
HandlePubPrompt(h, t) ==
  /\ pc[h] = "idle"
  /\ t \in pending \cap Prompts
  /\ ReplyOf[t] = NoReply
  /\ pending' = pending \ {t}
  /\ UNCHANGED <<slotVars, cancelled, running, interrupts, pc, turn, victim,
                 pump, watchdog, adapterVars, out>>

(* Any other prompt is refused, or goes on to dispatchPrompt. *)
HandlePrompt(h, t) ==
  /\ t \in Prompts
  /\ ReplyOf[t] # NoReply
  /\ Deliver(h, t, IF t \in Malformed THEN "reject" ELSE "dispatch")

(* Fault: no return after the error, the prompt is dispatched as well. *)
RejectErrorFallsThrough(h) ==
  /\ pc[h] = "reject"
  /\ publishErrorOnReply(ReplyOf[turn[h]], "reject", turn[h], turn[h], "handler")
  /\ Goto(h, "dispatch")
  /\ UNCHANGED <<slotVars, cancelled, running, pending, interrupts, turn,
                 victim, pump, watchdog, adapterVars>>

(* handlePrompt's 400 and 503, and handleRedirect's 503: the error and     *)
(* then the terminator.  A redirect's 503 carries no trace of the turn.    *)
RejectError(h) ==
  /\ pc[h] = "reject"
  /\ publishErrorOnReply(ReplyOf[turn[h]], "reject", turn[h],
                         IF h = Sig THEN NoTurn ELSE turn[h], "handler")
  /\ Goto(h, "rejectTerm")
  /\ UNCHANGED <<slotVars, cancelled, running, pending, interrupts, turn,
                 victim, pump, watchdog, adapterVars>>

RejectTerminator(h) ==
  /\ pc[h] = "rejectTerm"
  /\ publishTerminator(ReplyOf[turn[h]], turn[h], "handler")
  /\ Finish(h)
  /\ UNCHANGED <<slotVars, cancelled, running, pending, interrupts, victim,
                 pump, watchdog, adapterVars>>

-----------------------------------------------------------------------------
(* dispatchPrompt *)

(* Fault: the slot is taken without looking whether it is free. *)
ClaimSlotBlindly(h) ==
  /\ pc[h] = "dispatch"
  /\ activeReply' = ReplyOf[turn[h]]
  /\ activeTrace' = turn[h]
  /\ activeCancel' = turn[h]
  /\ Goto(h, "ack")
  /\ UNCHANGED <<cancelled, running, pending, interrupts, turn, victim, pump,
                 watchdog, adapterVars, out>>

(* Fault: the adapter is called without the ack. *)
ClaimSlotSkipsAck(h) ==
  /\ pc[h] = "dispatch"
  /\ activeReply = NoReply
  /\ activeReply' = ReplyOf[turn[h]]
  /\ activeTrace' = turn[h]
  /\ activeCancel' = turn[h]
  /\ Goto(h, "onPrompt")
  /\ UNCHANGED <<cancelled, running, pending, interrupts, turn, victim, pump,
                 watchdog, adapterVars, out>>

ClaimSlot(h) ==
  /\ pc[h] = "dispatch"
  /\ activeReply = NoReply
  /\ activeReply' = ReplyOf[turn[h]]
  /\ activeTrace' = turn[h]
  /\ activeCancel' = turn[h]
  /\ Goto(h, "ack")
  /\ UNCHANGED <<cancelled, running, pending, interrupts, turn, victim, pump,
                 watchdog, adapterVars, out>>

AgentBusy(h) ==
  /\ pc[h] = "dispatch"
  /\ activeReply # NoReply
  /\ Goto(h, "reject")
  /\ UNCHANGED <<slotVars, cancelled, running, pending, interrupts, turn,
                 victim, pump, watchdog, adapterVars, out>>

PublishAck(h) ==
  /\ pc[h] = "ack"
  /\ publishChunk(ReplyOf[turn[h]], "ack", turn[h], turn[h], "handler")
  /\ Goto(h, "onPrompt")
  /\ UNCHANGED <<slotVars, cancelled, running, pending, interrupts, turn,
                 victim, pump, watchdog, adapterVars>>

(* Fault: the slot is kept when the ack cannot be published. *)
AckFailsKeepsSlot(h) ==
  /\ pc[h] = "ack"
  /\ Finish(h)
  /\ UNCHANGED <<slotVars, cancelled, running, pending, interrupts, victim,
                 pump, watchdog, adapterVars, out>>

(* The ack could not be published: the slot is released and the stream is  *)
(* left as it is, without a terminator.                                    *)
AckFails(h) ==
  /\ pc[h] = "ack"
  /\ clearActive(ReplyOf[turn[h]])
  /\ Finish(h)
  /\ UNCHANGED <<running, pending, interrupts, victim, pump, watchdog,
                 adapterVars, out>>

OnPrompt(h) ==
  /\ pc[h] = "onPrompt"
  /\ agent' = [agent EXCEPT ![turn[h]] = "working"]
  /\ Goto(h, "arm")
  /\ UNCHANGED <<slotVars, cancelled, running, pending, interrupts, turn,
                 victim, pump, watchdog, emitted, events, closed, out>>

OnPromptFails(h) ==
  /\ pc[h] = "onPrompt"
  /\ Goto(h, "fail")
  /\ UNCHANGED <<slotVars, cancelled, running, pending, interrupts, turn,
                 victim, pump, watchdog, adapterVars, out>>

FailError(h) ==
  /\ pc[h] = "fail"
  /\ publishErrorOnReply(ReplyOf[turn[h]], "error", turn[h], turn[h], "handler")
  /\ Goto(h, "failTerm")
  /\ UNCHANGED <<slotVars, cancelled, running, pending, interrupts, turn,
                 victim, pump, watchdog, adapterVars>>

FailTerminator(h) ==
  /\ pc[h] = "failTerm"
  /\ publishTerminator(ReplyOf[turn[h]], turn[h], "handler")
  /\ Goto(h, "failClear")
  /\ UNCHANGED <<slotVars, cancelled, running, pending, interrupts, turn,
                 victim, pump, watchdog, adapterVars>>

FailClear(h) ==
  /\ pc[h] = "failClear"
  /\ clearActive(ReplyOf[turn[h]])
  /\ Finish(h)
  /\ UNCHANGED <<running, pending, interrupts, victim, pump, watchdog,
                 adapterVars, out>>

(* Fault: the handler returns without a watchdog. *)
ArmWatchdogForgotten(h) ==
  /\ pc[h] = "arm"
  /\ Finish(h)
  /\ UNCHANGED <<slotVars, cancelled, running, pending, interrupts, victim,
                 pump, watchdog, adapterVars, out>>

ArmWatchdog(h) ==
  /\ pc[h] = "arm"
  /\ watchdog' = [watchdog EXCEPT ![turn[h]] = "armed"]
  /\ Finish(h)
  /\ UNCHANGED <<slotVars, cancelled, running, pending, interrupts, victim,
                 pump, adapterVars, out>>

-----------------------------------------------------------------------------
(* handleSignal, handleInterrupt, handleRedirect *)

HandleInterrupt ==
  /\ pc[Sig] = "idle"
  /\ interrupts < MaxInterrupts
  /\ interrupts' = interrupts + 1
  /\ Goto(Sig, "interrupt")
  /\ UNCHANGED <<slotVars, cancelled, running, pending, turn, victim, pump,
                 watchdog, adapterVars, out>>

HandleRedirect(t) ==
  /\ t \in Redirects \ Malformed
  /\ Deliver(Sig, t, "interrupt")

(* A body that does not parse, or without a prompt, has nobody to answer. *)
DropRedirect(t) ==
  /\ pc[Sig] = "idle"
  /\ t \in pending \cap Redirects \cap Malformed
  /\ pending' = pending \ {t}
  /\ UNCHANGED <<slotVars, cancelled, running, interrupts, pc, turn, victim,
                 pump, watchdog, adapterVars, out>>

(* handleInterrupt returned: a redirect goes on to dispatchPrompt. *)
AfterInterrupt == Goto(Sig, IF turn[Sig] = NoTurn THEN "idle" ELSE "dispatch")

InterruptIdle ==
  /\ pc[Sig] = "interrupt"
  /\ activeReply = NoReply
  /\ AfterInterrupt
  /\ UNCHANGED <<slotVars, cancelled, running, pending, interrupts, turn,
                 victim, pump, watchdog, adapterVars, out>>

(* Fault: the slot is not released under the mutex. *)
InterruptReleaseLate ==
  /\ pc[Sig] = "interrupt"
  /\ activeReply # NoReply
  /\ victim' = [reply |-> activeReply, trace |-> activeTrace,
                cancel |-> activeCancel]
  /\ Goto(Sig, "cancel")
  /\ UNCHANGED <<slotVars, cancelled, running, pending, interrupts, turn, pump,
                 watchdog, adapterVars, out>>

InterruptRelease ==
  /\ pc[Sig] = "interrupt"
  /\ activeReply # NoReply
  /\ victim' = [reply |-> activeReply, trace |-> activeTrace,
                cancel |-> activeCancel]
  /\ ReleaseSlot
  /\ Goto(Sig, "cancel")
  /\ UNCHANGED <<cancelled, running, pending, interrupts, turn, pump,
                 watchdog, adapterVars, out>>

InterruptCancel ==
  /\ pc[Sig] = "cancel"
  /\ cancelled' = cancelled \cup ({victim.cancel} \ {NoTurn})
  /\ Goto(Sig, "abort")
  /\ UNCHANGED <<slotVars, running, pending, interrupts, turn, victim, pump,
                 watchdog, adapterVars, out>>

(* Adapter.Abort has no turn to name: it stops whatever the agent runs. *)
InterruptAbort ==
  /\ pc[Sig] = "abort"
  /\ agent' = [t \in Turns |-> IF agent[t] = "working" THEN "killed"
                                                       ELSE agent[t]]
  /\ Goto(Sig, "note")
  /\ UNCHANGED <<slotVars, cancelled, running, pending, interrupts, turn,
                 victim, pump, watchdog, emitted, events, closed, out>>

(* Fault: the aborted stream gets its status chunk and no terminator. *)
InterruptNoteOnly ==
  /\ pc[Sig] = "note"
  /\ publishChunk(victim.reply, "aborted", victim.cancel, victim.trace, "signal")
  /\ AfterInterrupt
  /\ UNCHANGED <<slotVars, cancelled, running, pending, interrupts, turn,
                 victim, pump, watchdog, adapterVars>>

InterruptNote ==
  /\ pc[Sig] = "note"
  /\ publishChunk(victim.reply, "aborted", victim.cancel, victim.trace, "signal")
  /\ Goto(Sig, "noteTerm")
  /\ UNCHANGED <<slotVars, cancelled, running, pending, interrupts, turn,
                 victim, pump, watchdog, adapterVars>>

InterruptTerminator ==
  /\ pc[Sig] = "noteTerm"
  /\ publishTerminator(victim.reply, victim.cancel, "signal")
  /\ victim' = NoVictim
  /\ AfterInterrupt
  /\ UNCHANGED <<slotVars, cancelled, running, pending, interrupts, turn,
                 pump, watchdog, adapterVars>>

-----------------------------------------------------------------------------
(* watchdogTerminator and finishStream.  The timer may expire at any time  *)
(* after it is armed.                                                      *)

(* Fault: the watchdog does not compare the reply subject. *)
WatchdogFiresOnAny(t) ==
  /\ watchdog[t] = "armed"
  /\ activeReply # NoReply
  /\ ReleaseSlot
  /\ CancelActive
  /\ watchdog' = [watchdog EXCEPT ![t] = "closing"]
  /\ UNCHANGED <<running, handlerVars, pump, adapterVars, out>>

WatchdogFires(t) ==
  /\ watchdog[t] = "armed"
  /\ activeReply = ReplyOf[t]
  /\ ReleaseSlot
  /\ CancelActive
  /\ watchdog' = [watchdog EXCEPT ![t] = "closing"]
  /\ UNCHANGED <<running, handlerVars, pump, adapterVars, out>>

WatchdogMismatch(t) ==
  /\ watchdog[t] = "armed"
  /\ activeReply # ReplyOf[t]
  /\ watchdog' = [watchdog EXCEPT ![t] = "done"]
  /\ UNCHANGED <<slotVars, cancelled, running, handlerVars, pump,
                 adapterVars, out>>

WatchdogTerminator(t) ==
  /\ watchdog[t] = "closing"
  /\ publishTerminator(ReplyOf[t], t, "watchdog")
  /\ watchdog' = [watchdog EXCEPT ![t] = "done"]
  /\ UNCHANGED <<slotVars, cancelled, running, handlerVars, pump, adapterVars>>

WatchdogShutdown(t) ==
  /\ watchdog[t] = "armed"
  /\ ~running
  /\ watchdog' = [watchdog EXCEPT ![t] = "done"]
  /\ UNCHANGED <<slotVars, cancelled, running, handlerVars, pump,
                 adapterVars, out>>

-----------------------------------------------------------------------------
(* eventPump.  The receive and the load of activeReply are one step: what  *)
(* happens between them could as well happen before the receive.           *)

PumpExit ==
  /\ pump.at = "recv"
  /\ ~running \/ (closed /\ events = << >>)
  /\ pump' = PumpAt("exit")
  /\ UNCHANGED <<slotVars, cancelled, running, handlerVars, watchdog,
                 adapterVars, out>>

PumpDrop ==
  /\ pump.at = "recv"
  /\ events # << >>
  /\ activeReply = NoReply
  /\ events' = Tail(events)
  /\ UNCHANGED <<slotVars, cancelled, running, handlerVars, pump, watchdog,
                 agent, emitted, closed, out>>

PumpReceive ==
  /\ pump.at = "recv"
  /\ events # << >>
  /\ activeReply # NoReply
  /\ events' = Tail(events)
  /\ pump' = Pump("trace", Head(events), activeReply, NoTurn)
  /\ UNCHANGED <<slotVars, cancelled, running, handlerVars, watchdog,
                 agent, emitted, closed, out>>

PumpLoadTrace ==
  /\ pump.at = "trace"
  /\ pump' = Pump(IF pump.chunk.kind = "term" THEN "term" ELSE "publish",
                  pump.chunk, pump.reply, activeTrace)
  /\ UNCHANGED <<slotVars, cancelled, running, handlerVars, watchdog,
                 adapterVars, out>>

PumpPublish ==
  /\ pump.at = "publish"
  /\ pump.chunk.kind = "response"
  /\ publishChunk(pump.reply, "response", pump.chunk.turn, pump.trace, "pump")
  /\ pump' = PumpAt("recv")
  /\ UNCHANGED <<slotVars, cancelled, running, handlerVars, watchdog,
                 adapterVars>>

(* Fault: an error chunk is published without a terminator. *)
PumpErrorOnly ==
  /\ pump.at = "publish"
  /\ pump.chunk.kind = "error"
  /\ publishErrorOnReply(pump.reply, "error", pump.chunk.turn, pump.trace, "pump")
  /\ pump' = Pump("clear", pump.chunk, pump.reply, pump.trace)
  /\ UNCHANGED <<slotVars, cancelled, running, handlerVars, watchdog,
                 adapterVars>>

PumpError ==
  /\ pump.at = "publish"
  /\ pump.chunk.kind = "error"
  /\ publishErrorOnReply(pump.reply, "error", pump.chunk.turn, pump.trace, "pump")
  /\ pump' = Pump("term", pump.chunk, pump.reply, pump.trace)
  /\ UNCHANGED <<slotVars, cancelled, running, handlerVars, watchdog,
                 adapterVars>>

PumpTerminator ==
  /\ pump.at = "term"
  /\ publishTerminator(pump.reply, pump.chunk.turn, "pump")
  /\ pump' = Pump("clear", pump.chunk, pump.reply, pump.trace)
  /\ UNCHANGED <<slotVars, cancelled, running, handlerVars, watchdog,
                 adapterVars>>

PumpClear ==
  /\ pump.at = "clear"
  /\ clearActive(pump.reply)
  /\ pump' = PumpAt("recv")
  /\ UNCHANGED <<running, handlerVars, watchdog, adapterVars, out>>

-----------------------------------------------------------------------------
(* The adapter's watchers, and the context that ends the shim.  A turn     *)
(* that was aborted can still have output on its way through the watchers. *)

Send(kind, t) ==
  /\ ~closed
  /\ Len(events) < ChanCap
  /\ events' = Append(events, [kind |-> kind, turn |-> t])

AdapterResponse(t) ==
  /\ agent[t] \in {"working", "killed"}
  /\ emitted[t] < MaxChunks
  /\ Send("response", t)
  /\ emitted' = [emitted EXCEPT ![t] = @ + 1]
  /\ UNCHANGED <<slotVars, cancelled, running, handlerVars, pump, watchdog,
                 agent, closed, out>>

AdapterEnds(t) ==
  /\ agent[t] \in {"working", "killed"}
  /\ \E kind \in {"term", "error"} : Send(kind, t)
  /\ agent' = [agent EXCEPT ![t] = "done"]
  /\ UNCHANGED <<slotVars, cancelled, running, handlerVars, pump, watchdog,
                 emitted, closed, out>>

AdapterRepeats(t) ==
  /\ RepeatingAdapter
  /\ agent[t] = "done"
  /\ Send("term", t)
  /\ agent' = [agent EXCEPT ![t] = "repeated"]
  /\ UNCHANGED <<slotVars, cancelled, running, handlerVars, pump, watchdog,
                 emitted, closed, out>>

AdapterCloses ==
  /\ ClosingAdapter
  /\ ~closed
  /\ closed' = TRUE
  /\ UNCHANGED <<slotVars, cancelled, running, handlerVars, pump, watchdog,
                 agent, emitted, events, out>>

Shutdown ==
  /\ MayShutdown
  /\ running
  /\ running' = FALSE
  /\ UNCHANGED <<slotVars, cancelled, handlerVars, pump, watchdog,
                 adapterVars, out>>

-----------------------------------------------------------------------------
DispatchStep(h) ==
  \/ RejectError(h) \/ RejectTerminator(h)
  \/ ClaimSlot(h) \/ AgentBusy(h)
  \/ PublishAck(h) \/ AckFails(h)
  \/ OnPrompt(h) \/ OnPromptFails(h)
  \/ FailError(h) \/ FailTerminator(h) \/ FailClear(h)
  \/ ArmWatchdog(h)

InterruptStep ==
  \/ InterruptIdle \/ InterruptRelease \/ InterruptCancel \/ InterruptAbort
  \/ InterruptNote \/ InterruptTerminator

WatchdogStep(t) ==
  \/ WatchdogFires(t) \/ WatchdogMismatch(t)
  \/ WatchdogTerminator(t) \/ WatchdogShutdown(t)

PumpStep ==
  \/ PumpExit \/ PumpDrop \/ PumpReceive \/ PumpLoadTrace
  \/ PumpPublish \/ PumpError \/ PumpTerminator \/ PumpClear

Environment ==
  \/ \E h \in Endpoints, t \in Prompts : HandlePubPrompt(h, t) \/ HandlePrompt(h, t)
  \/ HandleInterrupt
  \/ \E t \in Redirects : HandleRedirect(t) \/ DropRedirect(t)
  \/ \E t \in Turns : AdapterResponse(t) \/ AdapterEnds(t) \/ AdapterRepeats(t)
  \/ AdapterCloses
  \/ Shutdown

Next ==
  \/ \E h \in Handlers : DispatchStep(h)
  \/ InterruptStep
  \/ \E t \in Turns : WatchdogStep(t)
  \/ PumpStep
  \/ Environment

Spec == Init /\ [][Next]_vars

(* Go runs every goroutine that can run, and a timer that is armed expires. *)
(* Nothing is assumed of the callers, of the agent or of the shutdown.      *)
Fairness ==
  /\ \A h \in Handlers : WF_vars(DispatchStep(h))
  /\ WF_vars(InterruptStep)
  /\ \A t \in Turns : WF_vars(WatchdogStep(t))
  /\ WF_vars(PumpStep)

FairSpec == Spec /\ Fairness

=============================================================================
