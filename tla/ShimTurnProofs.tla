--------------------------- MODULE ShimTurnProofs ---------------------------
(***************************************************************************)
(* Proofs about the slot, for any prompts, redirects, endpoints and chunks. *)
(* The slot's three fields agree because whoever may change them is known: *)
(* HandlerTurns says who works on which request, TurnsAccounted that each  *)
(* turn a watchdog or the agent knows is in the slot or over.              *)
(***************************************************************************)
EXTENDS ShimTurnProperties, TLAPS

LEMMA InitType == Init => TypeOK
<1> SUFFICES ASSUME Init PROVE TypeOK OBVIOUS
<1> USE DEF Init
<1>1. pump \in PumpState
  BY DEF PumpState, PumpAt, Pump, NoChunk, Chunk
<1>2. victim \in Victim
  BY DEF Victim, NoVictim
<1>3. out \in [Replies -> Seq(Published)] /\ events \in Seq(Chunk)
  BY DEF Published
<1> QED
  BY <1>1, <1>2, <1>3 DEF TypeOK, Places

(* Publishing a message keeps the history of every stream well typed. *)
LEMMA PublishType ==
  ASSUME TypeOK, NEW r,
         NEW type \in {"ack", "response", "aborted", "error", "reject", "term"},
         NEW t \in Turns \cup {NoTurn}, NEW trace \in Turns \cup {NoTurn},
         NEW by \in {"handler", "signal", "watchdog", "pump"},
         out' = [out EXCEPT ![r] = Append(@, Message(type, t, trace, by))]
  PROVE  out' \in [Replies -> Seq(Published)]
<1>1. Message(type, t, trace, by) \in Published
  BY DEF Message, Published
<1> DEFINE m == Message(type, t, trace, by)
<1> HIDE DEF m
<1>2. m \in Published /\ out' = [out EXCEPT ![r] = Append(@, m)]
  BY <1>1 DEF m
<1>3. out \in [Replies -> Seq(Published)]
  BY DEF TypeOK
<1>4. \A s \in Replies : Append(out[s], m) \in Seq(Published)
  BY <1>2, <1>3
<1> QED
  BY <1>2, <1>3, <1>4

LEMMA DispatchType ==
  ASSUME TypeOK, HandlerTurns, NEW h \in Handlers, DispatchStep(h)
  PROVE  TypeOK'
<1>0. turn[h] \in Turns \cup {NoTurn}
  BY DEF TypeOK
<1> USE DEF slotVars, handlerVars, adapterVars, Goto, Finish, Places
<1>1. CASE RejectError(h)
  <2>1. out' \in [Replies -> Seq(Published)]
    BY <1>0, <1>1, PublishType DEF RejectError, publishErrorOnReply
  <2> QED
    BY <2>1, <1>1 DEF RejectError, TypeOK
<1>2. CASE RejectTerminator(h)
  <2>1. out' \in [Replies -> Seq(Published)]
    BY <1>0, <1>2, PublishType DEF RejectTerminator, publishTerminator
  <2> QED
    BY <2>1, <1>2 DEF RejectTerminator, TypeOK
<1>3. CASE ClaimSlot(h)
  BY <1>3, ShimTurnAssumption DEF ClaimSlot, HandlerTurns, TypeOK
<1>4. CASE AgentBusy(h)
  BY <1>4 DEF AgentBusy, TypeOK
<1>5. CASE PublishAck(h)
  <2>1. out' \in [Replies -> Seq(Published)]
    BY <1>0, <1>5, PublishType DEF PublishAck, publishChunk
  <2> QED
    BY <2>1, <1>5 DEF PublishAck, TypeOK
<1>6. CASE AckFails(h)
  BY <1>6 DEF AckFails, clearActive, ReleaseSlot, CancelActive, TypeOK
<1>7. CASE OnPrompt(h)
  BY <1>7 DEF OnPrompt, TypeOK
<1>8. CASE OnPromptFails(h)
  BY <1>8 DEF OnPromptFails, TypeOK
<1>9. CASE FailError(h)
  <2>1. out' \in [Replies -> Seq(Published)]
    BY <1>0, <1>9, PublishType DEF FailError, publishErrorOnReply
  <2> QED
    BY <2>1, <1>9 DEF FailError, TypeOK
<1>10. CASE FailTerminator(h)
  <2>1. out' \in [Replies -> Seq(Published)]
    BY <1>0, <1>10, PublishType DEF FailTerminator, publishTerminator
  <2> QED
    BY <2>1, <1>10 DEF FailTerminator, TypeOK
<1>11. CASE FailClear(h)
  BY <1>11 DEF FailClear, clearActive, ReleaseSlot, CancelActive, TypeOK
<1>12. CASE ArmWatchdog(h)
  BY <1>12 DEF ArmWatchdog, TypeOK
<1> QED
  BY <1>1, <1>2, <1>3, <1>4, <1>5, <1>6, <1>7, <1>8, <1>9, <1>10, <1>11, <1>12
  DEF DispatchStep

LEMMA InterruptType ==
  ASSUME TypeOK, InterruptStep
  PROVE  TypeOK'
<1>0. victim \in Victim /\ Sig \in Handlers
  BY DEF TypeOK, Handlers
<1> USE <1>0 DEF slotVars, handlerVars, adapterVars, Goto, AfterInterrupt, Places
<1>1. CASE InterruptIdle
  BY <1>1 DEF InterruptIdle, TypeOK
<1>2. CASE InterruptRelease
  BY <1>2 DEF InterruptRelease, ReleaseSlot, TypeOK, Victim
<1>3. CASE InterruptCancel
  BY <1>3 DEF InterruptCancel, TypeOK, Victim
<1>4. CASE InterruptAbort
  BY <1>4 DEF InterruptAbort, TypeOK
<1>5. CASE InterruptNote
  <2>1. out' \in [Replies -> Seq(Published)]
    BY <1>5, PublishType DEF InterruptNote, publishChunk, Victim
  <2> QED
    BY <2>1, <1>5 DEF InterruptNote, TypeOK
<1>6. CASE InterruptTerminator
  <2>1. out' \in [Replies -> Seq(Published)]
    BY <1>6, PublishType DEF InterruptTerminator, publishTerminator, Victim
  <2> QED
    BY <2>1, <1>6 DEF InterruptTerminator, TypeOK, NoVictim, Victim
<1> QED
  BY <1>1, <1>2, <1>3, <1>4, <1>5, <1>6 DEF InterruptStep

LEMMA WatchdogType ==
  ASSUME TypeOK, NEW t \in Turns, WatchdogStep(t)
  PROVE  TypeOK'
<1> USE DEF slotVars, handlerVars, adapterVars
<1>1. CASE WatchdogFires(t)
  BY <1>1 DEF WatchdogFires, ReleaseSlot, CancelActive, TypeOK
<1>2. CASE WatchdogMismatch(t)
  BY <1>2 DEF WatchdogMismatch, TypeOK
<1>3. CASE WatchdogTerminator(t)
  <2>1. out' \in [Replies -> Seq(Published)]
    BY <1>3, PublishType DEF WatchdogTerminator, publishTerminator
  <2> QED
    BY <2>1, <1>3 DEF WatchdogTerminator, TypeOK
<1>4. CASE WatchdogShutdown(t)
  BY <1>4 DEF WatchdogShutdown, TypeOK
<1> QED
  BY <1>1, <1>2, <1>3, <1>4 DEF WatchdogStep

LEMMA PumpType ==
  ASSUME TypeOK, PumpStep
  PROVE  TypeOK'
<1>0. /\ pump.chunk \in Chunk /\ pump.reply \in Replies \cup {NoReply}
      /\ pump.trace \in Turns \cup {NoTurn}
      /\ pump.chunk.turn \in Turns \cup {NoTurn}
  BY DEF TypeOK, PumpState, Chunk
<1>a. ASSUME NEW at \in {"recv", "trace", "publish", "term", "clear", "exit"},
             NEW c \in Chunk, NEW r \in Replies \cup {NoReply},
             NEW trace \in Turns \cup {NoTurn}
      PROVE  Pump(at, c, r, trace) \in PumpState
  BY <1>a DEF Pump, PumpState
<1>b. NoChunk \in Chunk
  BY DEF NoChunk, Chunk
<1>c. \A at \in {"recv", "exit"} : PumpAt(at) \in PumpState
  BY <1>a, <1>b DEF PumpAt
<1> USE DEF slotVars, handlerVars, adapterVars
<1>1. CASE PumpExit
  BY <1>1, <1>c DEF PumpExit, TypeOK
<1>2. CASE PumpDrop
  BY <1>2 DEF PumpDrop, TypeOK
<1>3. CASE PumpReceive
  <2>1. pump' \in PumpState
    BY <1>3, <1>a DEF PumpReceive, TypeOK
  <2> QED
    BY <2>1, <1>3 DEF PumpReceive, TypeOK
<1>4. CASE PumpLoadTrace
  <2>1. pump' \in PumpState
    BY <1>4, <1>a, <1>0 DEF PumpLoadTrace, TypeOK
  <2> QED
    BY <2>1, <1>4 DEF PumpLoadTrace, TypeOK
<1>5. CASE PumpPublish
  <2>1. out' \in [Replies -> Seq(Published)]
    BY <1>5, <1>0, PublishType DEF PumpPublish, publishChunk
  <2> QED
    BY <2>1, <1>5, <1>c DEF PumpPublish, TypeOK
<1>6. CASE PumpError
  <2>1. out' \in [Replies -> Seq(Published)]
    BY <1>6, <1>0, PublishType DEF PumpError, publishErrorOnReply
  <2>2. pump' \in PumpState
    BY <1>6, <1>a, <1>0 DEF PumpError
  <2> QED
    BY <2>1, <2>2, <1>6 DEF PumpError, TypeOK
<1>7. CASE PumpTerminator
  <2>1. out' \in [Replies -> Seq(Published)]
    BY <1>7, <1>0, PublishType DEF PumpTerminator, publishTerminator
  <2>2. pump' \in PumpState
    BY <1>7, <1>a, <1>0 DEF PumpTerminator
  <2> QED
    BY <2>1, <2>2, <1>7 DEF PumpTerminator, TypeOK
<1>8. CASE PumpClear
  BY <1>8, <1>c DEF PumpClear, clearActive, ReleaseSlot, CancelActive, TypeOK
<1> QED
  BY <1>1, <1>2, <1>3, <1>4, <1>5, <1>6, <1>7, <1>8 DEF PumpStep

LEMMA EnvironmentType ==
  ASSUME TypeOK, Environment
  PROVE  TypeOK'
<1>0. Sig \in Handlers /\ Endpoints \subseteq Handlers /\ Prompts \subseteq Turns
      /\ Redirects \subseteq Turns
  BY DEF Handlers, Turns
<1> USE <1>0 DEF slotVars, handlerVars, adapterVars
<1>1. ASSUME NEW h \in Endpoints, NEW t \in Prompts, HandlePubPrompt(h, t)
      PROVE  TypeOK'
  BY <1>1 DEF HandlePubPrompt, TypeOK
<1>2. ASSUME NEW h \in Endpoints, NEW t \in Prompts, HandlePrompt(h, t)
      PROVE  TypeOK'
  BY <1>2 DEF HandlePrompt, Deliver, Goto, Places, TypeOK
<1>3. CASE HandleInterrupt
  BY <1>3 DEF HandleInterrupt, Goto, Places, TypeOK
<1>4. ASSUME NEW t \in Redirects, HandleRedirect(t)
      PROVE  TypeOK'
  BY <1>4 DEF HandleRedirect, Deliver, Goto, Places, TypeOK
<1>5. ASSUME NEW t \in Redirects, DropRedirect(t)
      PROVE  TypeOK'
  BY <1>5 DEF DropRedirect, TypeOK
<1>6. ASSUME NEW t \in Turns, NEW kind \in {"response", "term", "error"}, Send(kind, t)
      PROVE  events' \in Seq(Chunk)
  <2>1. [kind |-> kind, turn |-> t] \in Chunk
    BY DEF Chunk
  <2> QED
    BY <2>1, <1>6 DEF Send, TypeOK
<1>7. ASSUME NEW t \in Turns, AdapterResponse(t)
      PROVE  TypeOK'
  <2>1. events' \in Seq(Chunk)
    BY <1>6, <1>7 DEF AdapterResponse
  <2> QED
    BY <2>1, <1>7 DEF AdapterResponse, TypeOK
<1>8. ASSUME NEW t \in Turns, AdapterEnds(t) \/ AdapterRepeats(t)
      PROVE  TypeOK'
  <2>1. events' \in Seq(Chunk)
    BY <1>6, <1>8 DEF AdapterEnds, AdapterRepeats
  <2> QED
    BY <2>1, <1>8 DEF AdapterEnds, AdapterRepeats, TypeOK
<1>9. CASE AdapterCloses
  BY <1>9 DEF AdapterCloses, TypeOK
<1>10. CASE Shutdown
  BY <1>10 DEF Shutdown, TypeOK
<1> QED
  BY <1>1, <1>2, <1>3, <1>4, <1>5, <1>7, <1>8, <1>9, <1>10 DEF Environment

LEMMA HandlerTurnsInit == Init => HandlerTurns
  BY DEF Init, HandlerTurns, Handlers, Dispatching

(* What a step of a dispatching handler does to the handlers: it moves to  *)
(* another place of its own, or it is done with its request.               *)
LEMMA DispatchFrame ==
  ASSUME NEW h \in Handlers, DispatchStep(h)
  PROVE  /\ pending' = pending /\ victim' = victim /\ interrupts' = interrupts
         /\ pc[h] \in Dispatching \cup {"reject", "rejectTerm", "dispatch"}
         /\ \/ \E place \in Dispatching \cup {"reject", "rejectTerm"} :
                 pc' = [pc EXCEPT ![h] = place] /\ turn' = turn
                 /\ (pc[h] \in Dispatching => place \in Dispatching)
            \/ pc' = [pc EXCEPT ![h] = "idle"] /\ turn' = [turn EXCEPT ![h] = NoTurn]
  BY DEF DispatchStep, Goto, Finish, Dispatching, RejectError, RejectTerminator,
     ClaimSlot, AgentBusy, PublishAck, AckFails, OnPrompt, OnPromptFails, FailError, FailTerminator,
     FailClear, ArmWatchdog

LEMMA DispatchHandlerTurns ==
  ASSUME TypeOK, HandlerTurns, NEW h \in Handlers, DispatchStep(h)
  PROVE  HandlerTurns'
<1>1. pc \in [Handlers -> Places] /\ turn \in [Handlers -> Turns \cup {NoTurn}]
  BY DEF TypeOK
<1>2. pending' = pending
  BY DispatchFrame
<1>3. pc[h] \in Dispatching \cup {"reject", "rejectTerm", "dispatch"}
  BY DispatchFrame
<1>4. CASE \E place \in Dispatching \cup {"reject", "rejectTerm"} :
            pc' = [pc EXCEPT ![h] = place] /\ turn' = turn
  <2>1. PICK place \in Dispatching \cup {"reject", "rejectTerm"} :
          pc' = [pc EXCEPT ![h] = place] /\ turn' = turn
    BY <1>4
  <2> QED
    BY <1>1, <1>2, <1>3, <2>1 DEF HandlerTurns, Dispatching
<1>5. CASE pc' = [pc EXCEPT ![h] = "idle"] /\ turn' = [turn EXCEPT ![h] = NoTurn]
  BY <1>1, <1>2, <1>3, <1>5 DEF HandlerTurns, Dispatching
<1> QED
  BY <1>4, <1>5, DispatchFrame

(* The steps of the watchdogs, of the pump, of the adapter and of the      *)
(* shutdown leave the handlers alone.                                      *)
LEMMA HandlersUnchanged ==
  ASSUME UNCHANGED handlerVars
  PROVE  HandlerTurns => HandlerTurns'
  BY DEF handlerVars, HandlerTurns

LEMMA InterruptHandlerTurns ==
  ASSUME TypeOK, HandlerTurns, InterruptStep
  PROVE  HandlerTurns'
<1>1. pc \in [Handlers -> Places] /\ turn \in [Handlers -> Turns \cup {NoTurn}]
      /\ Sig \in Handlers /\ Sig \notin Endpoints
  BY ShimTurnAssumption DEF TypeOK, Handlers
<1>2. /\ pending' = pending /\ turn' = turn
      /\ pc[Sig] \in {"interrupt", "cancel", "abort", "note", "noteTerm"}
      /\ \/ \E place \in {"cancel", "abort", "note", "noteTerm"} :
              pc' = [pc EXCEPT ![Sig] = place]
         \/ AfterInterrupt
  BY DEF InterruptStep, Goto, InterruptIdle, InterruptRelease, InterruptCancel, InterruptAbort,
     InterruptNote, InterruptTerminator
<1>3. ASSUME NEW place \in Places, pc' = [pc EXCEPT ![Sig] = place],
             place \in Dispatching \cup {"reject", "rejectTerm", "dispatch"} =>
               turn[Sig] # NoTurn,
             place = "idle" => turn[Sig] = NoTurn
      PROVE  HandlerTurns'
  BY <1>1, <1>2, <1>3 DEF HandlerTurns
<1>4. CASE \E place \in {"cancel", "abort", "note", "noteTerm"} :
            pc' = [pc EXCEPT ![Sig] = place]
  BY <1>3, <1>4 DEF Places, Dispatching
<1>5. CASE AfterInterrupt
  BY <1>3, <1>5 DEF AfterInterrupt, Goto, Places, Dispatching
<1> QED
  BY <1>2, <1>4, <1>5

LEMMA EnvironmentHandlerTurns ==
  ASSUME TypeOK, HandlerTurns, Environment
  PROVE  HandlerTurns'
<1>1. /\ pc \in [Handlers -> Places] /\ turn \in [Handlers -> Turns \cup {NoTurn}]
      /\ Sig \in Handlers /\ Sig \notin Endpoints /\ NoTurn \notin Turns
      /\ Endpoints \subseteq Handlers /\ Prompts \cup Redirects = Turns
      /\ \A t \in Turns : ReplyOf[t] \in Replies \cup {NoReply}
      /\ \A t \in Redirects : ReplyOf[t] \in Replies
      /\ pending \subseteq Turns
  BY ShimTurnAssumption DEF TypeOK, Handlers, Turns
<1>2. ASSUME NEW h \in Handlers, NEW t \in Turns, NEW place \in Places,
             Deliver(h, t, place), ReplyOf[t] \in Replies,
             IF h \in Endpoints THEN place \in {"reject", "dispatch"}
                                ELSE place = "interrupt"
      PROVE  HandlerTurns'
  <2>1. /\ pending' = pending \ {t} /\ t \in pending
        /\ pc' = [pc EXCEPT ![h] = place]
        /\ turn' = [turn EXCEPT ![h] = t]
    BY <1>2 DEF Deliver, Goto
  <2>2. \A g \in Handlers : turn[g] # t
    BY <2>1, <1>1, <1>2 DEF HandlerTurns
  <2> QED
    BY <1>1, <1>2, <2>1, <2>2 DEF HandlerTurns, Dispatching
<1>3. ASSUME NEW h \in Endpoints, NEW t \in Prompts, HandlePrompt(h, t)
      PROVE  HandlerTurns'
  <2>1. PICK place \in {"reject", "dispatch"} : Deliver(h, t, place)
    BY <1>3 DEF HandlePrompt
  <2> QED
    BY <1>1, <1>2, <1>3, <2>1 DEF HandlePrompt, Places
<1>4. ASSUME NEW t \in Redirects, HandleRedirect(t)
      PROVE  HandlerTurns'
  BY <1>1, <1>2, <1>4 DEF HandleRedirect, Places
<1>5. ASSUME pc' = pc, turn' = turn, pending' \subseteq pending
      PROVE  HandlerTurns'
  BY <1>5 DEF HandlerTurns
<1>6. CASE HandleInterrupt
  <2>1. pc' = [pc EXCEPT ![Sig] = "interrupt"] /\ turn' = turn /\ pending' = pending
    BY <1>6 DEF HandleInterrupt, Goto
  <2> QED
    BY <1>1, <2>1 DEF HandlerTurns, Dispatching
<1> QED
  BY <1>3, <1>4, <1>5, <1>6 DEF Environment, HandlePubPrompt, DropRedirect, AdapterResponse,
     AdapterEnds, AdapterRepeats, AdapterCloses, Shutdown, handlerVars

THEOREM TypeCorrect == Spec => [](TypeOK /\ HandlerTurns)
<1>1. Init => TypeOK /\ HandlerTurns
  BY InitType, HandlerTurnsInit
<1>2. TypeOK /\ HandlerTurns /\ [Next]_vars => (TypeOK /\ HandlerTurns)'
  <2> SUFFICES ASSUME TypeOK, HandlerTurns, [Next]_vars PROVE (TypeOK /\ HandlerTurns)'
    OBVIOUS
  <2>1. CASE \E h \in Handlers : DispatchStep(h)
    BY <2>1, DispatchType, DispatchHandlerTurns
  <2>2. CASE InterruptStep
    BY <2>2, InterruptType, InterruptHandlerTurns
  <2>3. CASE \E t \in Turns : WatchdogStep(t)
    BY <2>3, WatchdogType, HandlersUnchanged
    DEF WatchdogStep, WatchdogFires, WatchdogMismatch, WatchdogTerminator, WatchdogShutdown
  <2>4. CASE PumpStep
    BY <2>4, PumpType, HandlersUnchanged
    DEF PumpStep, PumpExit, PumpDrop, PumpReceive, PumpLoadTrace, PumpPublish, PumpError,
        PumpTerminator, PumpClear
  <2>5. CASE Environment
    BY <2>5, EnvironmentType, EnvironmentHandlerTurns
  <2>6. CASE UNCHANGED vars
    BY <2>6 DEF vars, slotVars, handlerVars, adapterVars, TypeOK, HandlerTurns
  <2> QED
    BY <2>1, <2>2, <2>3, <2>4, <2>5, <2>6 DEF Next
<1> QED
  BY <1>1, <1>2, PTL DEF Spec

-----------------------------------------------------------------------------
(* The slot.  Every step leaves it alone, claims it or releases it, and    *)
(* the turn that is released is finished in the same step.                 *)

FinishActive == Finished' = Finished \cup ({activeCancel} \ {NoTurn})

LEMMA DispatchSlot ==
  ASSUME TypeOK, NEW h \in Handlers, DispatchStep(h)
  PROVE  \/ UNCHANGED slotVars /\ Finished' = Finished
         \/ ClaimSlot(h) /\ Finished' = Finished
         \/ ReleaseSlot /\ FinishActive
<1>1. pc \in [Handlers -> Places] /\ Sig \in Handlers
  BY DEF TypeOK, Handlers
<1>2. victim' = victim /\ (pc'[Sig] = "cancel" <=> pc[Sig] = "cancel")
  BY <1>1, DispatchFrame DEF Dispatching
<1>3. CASE UNCHANGED slotVars /\ cancelled' = cancelled
  BY <1>2, <1>3 DEF Finished
<1>4. CASE ReleaseSlot /\ CancelActive
  BY <1>2, <1>4 DEF Finished, CancelActive, FinishActive
<1>5. CASE ClaimSlot(h)
  BY <1>2, <1>5 DEF Finished, ClaimSlot
<1> QED
  BY <1>3, <1>4, <1>5 DEF DispatchStep, slotVars, clearActive, RejectError, RejectTerminator,
     AgentBusy, PublishAck, AckFails, OnPrompt, OnPromptFails, FailError, FailTerminator,
     FailClear, ArmWatchdog

LEMMA InterruptSlot ==
  ASSUME TypeOK, InterruptStep
  PROVE  \/ UNCHANGED slotVars /\ Finished' = Finished
         \/ ReleaseSlot /\ FinishActive
<1>1. pc \in [Handlers -> Places] /\ Sig \in Handlers
  BY DEF TypeOK, Handlers
<1>2. CASE InterruptRelease
  BY <1>1, <1>2 DEF InterruptRelease, FinishActive, Finished, Goto
<1>3. CASE InterruptCancel
  BY <1>1, <1>3 DEF InterruptCancel, Finished, Goto, slotVars
<1>4. CASE InterruptIdle \/ InterruptAbort \/ InterruptNote \/ InterruptTerminator
  BY <1>1, <1>4 DEF InterruptIdle, InterruptAbort, InterruptNote, InterruptTerminator,
     Finished, Goto, AfterInterrupt, slotVars
<1> QED
  BY <1>2, <1>3, <1>4 DEF InterruptStep

LEMMA WatchdogSlot ==
  ASSUME NEW t \in Turns, WatchdogStep(t)
  PROVE  \/ UNCHANGED slotVars /\ Finished' = Finished
         \/ ReleaseSlot /\ FinishActive
  BY DEF WatchdogStep, WatchdogFires, WatchdogMismatch, WatchdogTerminator, WatchdogShutdown,
     Finished, FinishActive, CancelActive, slotVars, handlerVars

LEMMA PumpSlot ==
  ASSUME PumpStep
  PROVE  \/ UNCHANGED slotVars /\ Finished' = Finished
         \/ ReleaseSlot /\ FinishActive
  BY DEF PumpStep, PumpExit, PumpDrop, PumpReceive, PumpLoadTrace, PumpPublish, PumpError,
     PumpTerminator, PumpClear, clearActive, Finished, FinishActive, CancelActive, slotVars,
     handlerVars

LEMMA EnvironmentSlot ==
  ASSUME TypeOK, Environment
  PROVE  UNCHANGED slotVars /\ Finished' = Finished
<1>1. pc \in [Handlers -> Places] /\ Sig \in Handlers
  BY DEF TypeOK, Handlers
<1>2. ASSUME NEW h \in Handlers, NEW t, NEW place \in {"reject", "dispatch", "interrupt"},
             Deliver(h, t, place)
      PROVE  UNCHANGED slotVars /\ Finished' = Finished
  BY <1>1, <1>2 DEF Deliver, Goto, Finished, slotVars
<1>3. ASSUME NEW h \in Endpoints, NEW t \in Prompts, HandlePrompt(h, t)
      PROVE  UNCHANGED slotVars /\ Finished' = Finished
  BY <1>2, <1>3 DEF HandlePrompt, Handlers
<1>4. ASSUME NEW t \in Redirects, HandleRedirect(t)
      PROVE  UNCHANGED slotVars /\ Finished' = Finished
  BY <1>1, <1>2, <1>4 DEF HandleRedirect
<1>5. CASE HandleInterrupt
  BY <1>1, <1>5 DEF HandleInterrupt, Goto, Finished, slotVars
<1>6. ASSUME UNCHANGED <<slotVars, cancelled, pc, victim>>
      PROVE  UNCHANGED slotVars /\ Finished' = Finished
  BY <1>6 DEF Finished
<1> QED
  BY <1>3, <1>4, <1>5, <1>6 DEF Environment, HandlePubPrompt, DropRedirect, AdapterResponse,
     AdapterEnds, AdapterRepeats, AdapterCloses, Shutdown, handlerVars

LEMMA SlotSteps ==
  ASSUME TypeOK, [Next]_vars
  PROVE  \/ UNCHANGED slotVars /\ Finished' = Finished
         \/ \E h \in Handlers : ClaimSlot(h) /\ Finished' = Finished
         \/ ReleaseSlot /\ FinishActive
<1>1. CASE UNCHANGED vars
  BY <1>1 DEF vars, slotVars, handlerVars, Finished
<1> QED
  BY <1>1, DispatchSlot, InterruptSlot, WatchdogSlot, PumpSlot, EnvironmentSlot DEF Next

LEMMA SlotAgreesStep ==
  ASSUME TypeOK, HandlerTurns, SlotAgrees, [Next]_vars
  PROVE  SlotAgrees'
<1>1. CASE UNCHANGED slotVars
  BY <1>1 DEF slotVars, SlotAgrees
<1>2. CASE ReleaseSlot
  BY <1>2 DEF ReleaseSlot, SlotAgrees
<1>3. ASSUME NEW h \in Handlers, ClaimSlot(h)
      PROVE  SlotAgrees'
  BY <1>3, ShimTurnAssumption DEF ClaimSlot, SlotAgrees, HandlerTurns, TypeOK
<1> QED
  BY <1>1, <1>2, <1>3, SlotSteps

(* The three fields of the slot always name one and the same turn. *)
THEOREM SlotAgreesCorrect == Spec => []SlotAgrees
<1>1. Init => SlotAgrees
  BY DEF Init, SlotAgrees
<1>2. TypeOK /\ HandlerTurns /\ SlotAgrees /\ [Next]_vars => SlotAgrees'
  BY SlotAgreesStep
<1> QED
  BY <1>1, <1>2, TypeCorrect, PTL DEF Spec

-----------------------------------------------------------------------------
(* Turns, from their delivery to the end of their context. *)

LEMMA StartedStable ==
  ASSUME TypeOK, HandlerTurns, [Next]_vars, NEW t \in Turns, Started(t)
  PROVE  Started(t)'
<1>1. /\ pc \in [Handlers -> Places] /\ turn \in [Handlers -> Turns \cup {NoTurn}]
      /\ Sig \in Handlers /\ NoTurn \notin Turns /\ Endpoints \subseteq Handlers
  BY ShimTurnAssumption DEF TypeOK, Handlers
<1>2. ASSUME UNCHANGED handlerVars
      PROVE  Started(t)'
  BY <1>2 DEF handlerVars, Started
<1>3. ASSUME NEW h \in Handlers, DispatchStep(h)
      PROVE  Started(t)'
  BY <1>1, <1>3, DispatchFrame DEF Started
<1>4. ASSUME NEW h \in Handlers, NEW u \in pending, NEW place, Deliver(h, u, place)
      PROVE  Started(t)'
  BY <1>1, <1>4 DEF Deliver, Goto, Started
<1>5. CASE InterruptStep
  <2>1. turn[Sig] # t
    BY <1>1, <1>5 DEF Started, Dispatching, InterruptStep, InterruptIdle, InterruptRelease,
       InterruptCancel, InterruptAbort, InterruptNote, InterruptTerminator
  <2>2. pending' = pending /\ turn' = turn /\ \A h \in Handlers \ {Sig} : pc'[h] = pc[h]
    BY <1>1, <1>5 DEF Goto, AfterInterrupt, InterruptStep, InterruptIdle, InterruptRelease,
       InterruptCancel, InterruptAbort, InterruptNote, InterruptTerminator
  <2> QED
    BY <2>1, <2>2 DEF Started
<1>6. CASE Environment
  <2>1. CASE HandleInterrupt
    BY <1>1, <2>1 DEF HandleInterrupt, Goto, Started, HandlerTurns
  <2>2. CASE \E h \in Endpoints, u \in Prompts : HandlePubPrompt(h, u)
    BY <2>2 DEF HandlePubPrompt, Started
  <2>3. CASE \E u \in Redirects : DropRedirect(u)
    BY <2>3 DEF DropRedirect, Started
  <2>4. CASE \E h \in Endpoints, u \in Prompts : HandlePrompt(h, u)
    BY <2>4, <1>1, <1>4 DEF HandlePrompt, Deliver
  <2>5. CASE \E u \in Redirects : HandleRedirect(u)
    BY <2>5, <1>1, <1>4 DEF HandleRedirect, Deliver
  <2> QED
    BY <1>2, <1>6, <2>1, <2>2, <2>3, <2>4, <2>5 DEF Environment, AdapterResponse,
       AdapterEnds, AdapterRepeats, AdapterCloses, Shutdown
<1>7. CASE UNCHANGED vars
  BY <1>2, <1>7 DEF vars
<1>8. CASE \E u \in Turns : WatchdogStep(u)
  BY <1>2, <1>8 DEF WatchdogStep, WatchdogFires, WatchdogMismatch, WatchdogTerminator,
     WatchdogShutdown
<1>9. CASE PumpStep
  BY <1>2, <1>9 DEF PumpStep, PumpExit, PumpDrop, PumpReceive, PumpLoadTrace, PumpPublish,
     PumpError, PumpTerminator, PumpClear
<1> QED
  BY <1>3, <1>5, <1>6, <1>7, <1>8, <1>9 DEF Next

(* Only a claim brings a turn to the goroutines that dispatch, watch or    *)
(* run it.                                                                 *)
LEMMA DispatchedStep ==
  ASSUME TypeOK, HandlerTurns, [Next]_vars, NEW t \in Turns, Dispatched(t)'
  PROVE  Dispatched(t) \/ \E h \in Handlers : ClaimSlot(h) /\ turn[h] = t
<1>1. /\ pc \in [Handlers -> Places] /\ turn \in [Handlers -> Turns \cup {NoTurn}]
      /\ Sig \in Handlers /\ NoTurn \notin Turns /\ Endpoints \subseteq Handlers
      /\ watchdog \in [Turns -> {"off", "armed", "closing", "done"}]
      /\ agent \in [Turns -> {"none", "working", "killed", "done", "repeated"}]
  BY ShimTurnAssumption DEF TypeOK, Handlers
<1>2. ASSUME NEW h \in Handlers, DispatchStep(h)
      PROVE  Dispatched(t) \/ (ClaimSlot(h) /\ turn[h] = t)
  <2>1. /\ \A g \in Handlers : g # h => pc'[g] = pc[g] /\ turn'[g] = turn[g]
        /\ turn'[h] = t => turn[h] = t /\ (pc[h] \in Dispatching => pc'[h] \in Dispatching)
    BY <1>1, <1>2, DispatchFrame
  <2>2. ASSUME NEW g \in Handlers, turn'[g] = t, pc'[g] \in Dispatching
        PROVE  Dispatched(t) \/ (ClaimSlot(h) /\ turn[h] = t)
    <3>1. CASE g # h
      BY <2>1, <2>2, <3>1 DEF Dispatched
    <3>2. CASE pc[h] \in Dispatching /\ g = h
      BY <2>1, <2>2, <3>2 DEF Dispatched
    <3>3. CASE pc[h] \notin Dispatching /\ g = h
      BY <1>1, <1>2, <2>1, <2>2, <3>3 DEF DispatchStep, Dispatching, Goto, Finish, RejectError,
         RejectTerminator, AgentBusy, PublishAck, AckFails, OnPrompt, OnPromptFails, FailError,
         FailTerminator, FailClear, ArmWatchdog
    <3> QED
      BY <3>1, <3>2, <3>3
  <2>3. ASSUME watchdog'[t] # "off" \/ agent'[t] # "none"
        PROVE  Dispatched(t)
    <3>1. CASE UNCHANGED <<watchdog, agent>>
      BY <2>3, <3>1 DEF Dispatched
    <3>2. CASE OnPrompt(h)
      BY <1>1, <2>3, <3>2 DEF OnPrompt, Dispatched, Dispatching
    <3>3. CASE ArmWatchdog(h)
      BY <1>1, <2>3, <3>3 DEF ArmWatchdog, Dispatched, Dispatching, adapterVars
    <3> QED
      BY <1>2, <3>1, <3>2, <3>3 DEF DispatchStep, adapterVars, RejectError, RejectTerminator,
         ClaimSlot, AgentBusy, PublishAck, AckFails, OnPromptFails, FailError, FailTerminator,
         FailClear
  <2> QED
    BY <2>2, <2>3 DEF Dispatched
<1>3. ASSUME NEW h \in Handlers, NEW u \in Turns, NEW place, place \notin Dispatching,
             Deliver(h, u, place)
      PROVE  Dispatched(t)
  BY <1>1, <1>3 DEF Deliver, Goto, Dispatched, Dispatching, adapterVars
<1>4. CASE InterruptStep
  BY <1>1, <1>4 DEF Dispatched, Dispatching, Goto, AfterInterrupt, InterruptStep, InterruptIdle,
     InterruptRelease, InterruptCancel, InterruptAbort, InterruptNote, InterruptTerminator,
     adapterVars
<1>5. CASE Environment
  <2>1. CASE HandleInterrupt
    BY <1>1, <2>1 DEF HandleInterrupt, Goto, Dispatched, Dispatching, adapterVars
  <2>2. CASE \E h \in Endpoints, u \in Prompts : HandlePrompt(h, u)
    BY <1>1, <1>3, <2>2 DEF HandlePrompt, Turns, Dispatching
  <2>3. CASE \E u \in Redirects : HandleRedirect(u)
    BY <1>1, <1>3, <2>3 DEF HandleRedirect, Turns, Dispatching
  <2>4. CASE \E u \in Turns : AdapterEnds(u) \/ AdapterRepeats(u)
    BY <1>1, <2>4 DEF AdapterEnds, AdapterRepeats, Dispatched, handlerVars
  <2>5. CASE UNCHANGED <<pc, turn, watchdog, agent>>
    BY <2>5 DEF Dispatched
  <2> QED
    BY <1>5, <2>1, <2>2, <2>3, <2>4, <2>5 DEF Environment, HandlePubPrompt, DropRedirect,
       AdapterResponse, AdapterCloses, Shutdown, handlerVars, adapterVars
<1>6. CASE UNCHANGED vars
  BY <1>6 DEF vars, handlerVars, adapterVars, Dispatched
<1>7. CASE \E u \in Turns : WatchdogStep(u)
  BY <1>1, <1>7 DEF WatchdogStep, WatchdogFires, WatchdogMismatch, WatchdogTerminator,
     WatchdogShutdown, Dispatched, handlerVars, adapterVars
<1>8. CASE PumpStep
  BY <1>8 DEF PumpStep, PumpExit, PumpDrop, PumpReceive, PumpLoadTrace, PumpPublish,
     PumpError, PumpTerminator, PumpClear, Dispatched, handlerVars, adapterVars
<1> QED
  BY <1>2, <1>4, <1>5, <1>6, <1>7, <1>8 DEF Next

LEMMA TurnsAccountedStep ==
  ASSUME TypeOK, HandlerTurns, SlotAgrees, TurnsAccounted, [Next]_vars, TypeOK'
  PROVE  TurnsAccounted'
<1>1. /\ pc \in [Handlers -> Places] /\ turn \in [Handlers -> Turns \cup {NoTurn}]
      /\ NoTurn \notin Turns /\ activeCancel \in Turns \cup {NoTurn}
      /\ cancelled \subseteq Turns /\ victim \in Victim
  BY ShimTurnAssumption DEF TypeOK
<1>2. NoTurn \notin Finished
  BY <1>1 DEF Finished
<1>3. CASE UNCHANGED slotVars /\ Finished' = Finished
  BY <1>3, StartedStable, DispatchedStep DEF TurnsAccounted, slotVars, ClaimSlot
<1>4. CASE ReleaseSlot /\ FinishActive
  BY <1>1, <1>2, <1>4, StartedStable, DispatchedStep
  DEF TurnsAccounted, ReleaseSlot, FinishActive, ClaimSlot
<1>5. ASSUME NEW h \in Handlers, ClaimSlot(h), Finished' = Finished
      PROVE  TurnsAccounted'
  <2>1. /\ turn[h] \in Turns /\ ~Started(turn[h]) /\ turn[h] \notin Finished
        /\ activeCancel' = turn[h]
    BY <1>1, <1>5 DEF ClaimSlot, HandlerTurns, Started, TurnsAccounted, Dispatching
  <2>2. Started(turn[h])'
    BY <1>1, <1>5, <2>1 DEF ClaimSlot, Goto, HandlerTurns, Started, Dispatching
  <2>3. activeCancel = NoTurn
    BY <1>5 DEF ClaimSlot, SlotAgrees
  <2>4. \A g \in Handlers : ClaimSlot(g) => activeCancel' = turn[g]
    BY DEF ClaimSlot
  <2>5. ASSUME NEW t \in Turns, activeCancel' = t \/ t \in Finished'
        PROVE  Started(t)'
    <3>1. CASE t \in Finished
      BY <3>1, StartedStable DEF TurnsAccounted
    <3>2. CASE t = turn[h]
      <4>1. t = turn'[h]
        BY <1>5, <3>2 DEF ClaimSlot
      <4> QED
        BY <2>2, <4>1
    <3> QED
      BY <1>5, <2>1, <2>5, <3>1, <3>2
  <2>6. ASSUME NEW t \in Turns, Dispatched(t)'
        PROVE  activeCancel' = t \/ t \in Finished'
    <3>1. CASE Dispatched(t)
      BY <1>1, <1>5, <2>3, <2>6, <3>1 DEF TurnsAccounted
    <3>2. CASE \E g \in Handlers : ClaimSlot(g) /\ turn[g] = t
      BY <2>4, <3>2
    <3> QED
      BY <2>6, <3>1, <3>2, DispatchedStep
  <2> QED
    BY <1>5, <2>1, <2>5, <2>6 DEF TurnsAccounted
<1> QED
  BY <1>3, <1>4, <1>5, SlotSteps

LEMMA TurnsAccountedInit == Init => TurnsAccounted
  BY ShimTurnAssumption DEF Init, TurnsAccounted, Finished, Dispatched, Dispatching, Handlers

LEMMA Accounted == Spec => []TurnsAccounted
<1>1. TypeOK /\ HandlerTurns /\ SlotAgrees /\ TurnsAccounted /\ [Next]_vars /\ TypeOK'
        => TurnsAccounted'
  BY TurnsAccountedStep
<1> QED
  BY <1>1, TurnsAccountedInit, TypeCorrect, SlotAgreesCorrect, PTL DEF Spec

(* The inductive invariant. *)
THEOREM IndInvCorrect == Spec => []IndInv
  BY TypeCorrect, SlotAgreesCorrect, Accounted, PTL DEF IndInv

(* A dispatched turn holds the slot with a live context, or lost it and    *)
(* its context is cancelled.                                               *)
THEOREM ContextFollowsSlotCorrect == Spec => []ContextFollowsSlot
<1>1. TurnsAccounted => ContextFollowsSlot
  BY DEF TurnsAccounted, ContextFollowsSlot
<1> QED
  BY <1>1, Accounted, PTL

(* The shim's slot implements TurnSlot: one turn at a time, and a turn     *)
(* that ended never starts again.                                          *)
THEOREM SlotImplementsTurnSlot == Spec => SlotSpec
<1>1. Init => Slot!Init
  BY ShimTurnAssumption DEF Init, Slot!Init, Finished, Handlers
<1>2. TypeOK /\ HandlerTurns /\ SlotAgrees /\ TurnsAccounted /\ [Next]_vars
        => [Slot!Next]_(Slot!slotSpecVars)
  <2> SUFFICES ASSUME TypeOK, HandlerTurns, SlotAgrees, TurnsAccounted, [Next]_vars
               PROVE  Slot!Next \/ UNCHANGED <<activeCancel, Finished>>
    BY DEF Slot!slotSpecVars
  <2>1. CASE UNCHANGED slotVars /\ Finished' = Finished
    BY <2>1 DEF slotVars
  <2>2. CASE ReleaseSlot /\ FinishActive
    BY <2>2 DEF ReleaseSlot, FinishActive, Slot!Next, Slot!Release
  <2>3. ASSUME NEW h \in Handlers, ClaimSlot(h), Finished' = Finished
        PROVE  Slot!Next
    <3>1. turn[h] \in Turns /\ ~Started(turn[h])
      BY <2>3 DEF ClaimSlot, HandlerTurns, Started, Dispatching, TypeOK
    <3>2. turn[h] \notin Finished
      BY <3>1 DEF TurnsAccounted
    <3> QED
      BY <2>3, <3>1, <3>2 DEF ClaimSlot, SlotAgrees, Slot!Next, Slot!Claim
  <2> QED
    BY <2>1, <2>2, <2>3, SlotSteps
<1> QED
  BY <1>1, <1>2, TypeCorrect, SlotAgreesCorrect, Accounted, PTL DEF Spec, SlotSpec, Slot!Spec

-----------------------------------------------------------------------------
(* Who releases the slot. *)

LEMMA OwnerStep ==
  ASSUME TypeOK, HandlerTurns, SlotAgrees, SlotAgrees', BusySlotHasOwner, [Next]_vars
  PROVE  BusySlotHasOwner'
<1> SUFFICES ASSUME NEW t \in Turns, activeCancel' = t
             PROVE  (\/ \E h \in Handlers : turn[h] = t /\ pc[h] \in Dispatching
                     \/ watchdog[t] = "armed"
                     \/ ~running)'
  BY DEF BusySlotHasOwner
<1> DEFINE Owned == \/ \E h \in Handlers : turn[h] = t /\ pc[h] \in Dispatching
                    \/ watchdog[t] = "armed"
                    \/ ~running
<1>1. /\ pc \in [Handlers -> Places] /\ turn \in [Handlers -> Turns \cup {NoTurn}]
      /\ NoTurn \notin Turns /\ Sig \in Handlers /\ Endpoints \subseteq Handlers
      /\ watchdog \in [Turns -> {"off", "armed", "closing", "done"}]
  BY ShimTurnAssumption DEF TypeOK, Handlers
<1>2. CASE \E h \in Handlers : ClaimSlot(h)
  <2>1. PICK h \in Handlers : ClaimSlot(h)
    BY <1>2
  <2>2. turn'[h] = t /\ pc'[h] \in Dispatching
    BY <1>1, <2>1 DEF ClaimSlot, Goto, Dispatching
  <2> QED
    BY <2>2
<1>3. CASE UNCHANGED slotVars
  <2>1. Owned /\ activeReply = ReplyOf[t] /\ activeReply # NoReply
    BY <1>3, ShimTurnAssumption DEF BusySlotHasOwner, slotVars, SlotAgrees
  <2>2. ASSUME NEW h \in Handlers, DispatchStep(h)
        PROVE  Owned'
    <3>1. CASE \E g \in Handlers : g # h /\ turn[g] = t /\ pc[g] \in Dispatching
      BY <1>1, <2>2, <3>1, DispatchFrame
    <3>2. CASE turn[h] = t /\ pc[h] \in Dispatching /\ pc'[h] \in Dispatching
      BY <1>1, <2>2, <3>2, DispatchFrame DEF Dispatching
    <3>3. CASE turn[h] = t /\ pc[h] \in Dispatching /\ pc'[h] \notin Dispatching
      <4>1. ArmWatchdog(h) \/ AckFails(h) \/ FailClear(h)
        BY <1>1, <2>2, <3>3 DEF DispatchStep, Dispatching, Goto, RejectError, RejectTerminator,
           ClaimSlot, AgentBusy, PublishAck, OnPrompt, OnPromptFails, FailError, FailTerminator
      <4>2. CASE ArmWatchdog(h)
        BY <1>1, <3>3, <4>2 DEF ArmWatchdog
      <4>3. CASE AckFails(h) \/ FailClear(h)
        BY <1>1, <1>3, <2>1, <3>3, <4>3 DEF AckFails, FailClear, clearActive, ReleaseSlot, slotVars
      <4> QED
        BY <4>1, <4>2, <4>3
    <3>4. CASE watchdog[t] = "armed" \/ ~running
      BY <1>1, <2>2, <3>4 DEF DispatchStep, RejectError, RejectTerminator, ClaimSlot, AgentBusy,
         PublishAck, AckFails, OnPrompt, OnPromptFails, FailError, FailTerminator, FailClear,
         ArmWatchdog
    <3> QED
      BY <2>1, <3>1, <3>2, <3>3, <3>4
  <2>3. ASSUME NEW u \in Turns, WatchdogStep(u)
        PROVE  Owned'
    <3>1. CASE WatchdogFires(u)
      BY <1>3, <2>1, <3>1 DEF WatchdogFires, ReleaseSlot, slotVars
    <3>2. CASE WatchdogMismatch(u)
      BY <1>1, <2>1, <3>2 DEF WatchdogMismatch, handlerVars
    <3>3. CASE WatchdogTerminator(u)
      BY <1>1, <2>1, <3>3 DEF WatchdogTerminator, handlerVars
    <3>4. CASE WatchdogShutdown(u)
      BY <1>1, <2>1, <3>4 DEF WatchdogShutdown, handlerVars
    <3> QED
      BY <2>3, <3>1, <3>2, <3>3, <3>4 DEF WatchdogStep
  <2>4. ASSUME UNCHANGED <<pc, turn, watchdog>>, running' = running \/ ~running'
        PROVE  Owned'
    BY <2>1, <2>4
  <2>5. CASE InterruptStep
    BY <1>1, <2>1, <2>5 DEF Dispatching, Goto, AfterInterrupt, InterruptStep, InterruptIdle,
       InterruptRelease, InterruptCancel, InterruptAbort, InterruptNote, InterruptTerminator
  <2>6. CASE PumpStep
    BY <2>4, <2>6 DEF PumpStep, PumpExit, PumpDrop, PumpReceive, PumpLoadTrace, PumpPublish,
       PumpError, PumpTerminator, PumpClear, handlerVars
  <2>7. ASSUME NEW h \in Handlers, NEW u, NEW place, pc[h] = "idle",
               pc' = [pc EXCEPT ![h] = place],
               turn' = [turn EXCEPT ![h] = u] \/ turn' = turn,
               UNCHANGED <<watchdog, running>>
        PROVE  Owned'
    BY <1>1, <2>1, <2>7 DEF Dispatching
  <2>8. CASE Environment
    <3>1. CASE \E h \in Endpoints, u \in Prompts : HandlePrompt(h, u)
      BY <1>1, <2>7, <3>1 DEF HandlePrompt, Deliver, Goto
    <3>2. CASE \E u \in Redirects : HandleRedirect(u)
      BY <1>1, <2>7, <3>2 DEF HandleRedirect, Deliver, Goto
    <3>3. CASE HandleInterrupt
      BY <1>1, <2>7, <3>3 DEF HandleInterrupt, Goto
    <3> QED
      BY <2>4, <2>8, <3>1, <3>2, <3>3 DEF Environment, HandlePubPrompt, DropRedirect,
         AdapterResponse, AdapterEnds, AdapterRepeats, AdapterCloses, Shutdown, handlerVars
  <2>9. CASE UNCHANGED vars
    BY <2>4, <2>9 DEF vars, handlerVars
  <2> QED
    BY <2>2, <2>3, <2>5, <2>6, <2>8, <2>9 DEF Next
<1>4. CASE ReleaseSlot
  BY <1>1, <1>4 DEF ReleaseSlot
<1> QED
  BY <1>2, <1>3, <1>4, SlotSteps

(* A busy slot always has a goroutine left that will release it. *)
THEOREM BusySlotHasOwnerCorrect == Spec => []BusySlotHasOwner
<1>1. Init => BusySlotHasOwner
  BY ShimTurnAssumption DEF Init, BusySlotHasOwner
<1>2. TypeOK /\ HandlerTurns /\ SlotAgrees /\ SlotAgrees' /\ BusySlotHasOwner /\ [Next]_vars
        => BusySlotHasOwner'
  BY OwnerStep
<1> QED
  BY <1>1, <1>2, TypeCorrect, SlotAgreesCorrect, PTL DEF Spec

LEMMA NoStaleReleaseStep ==
  ASSUME TypeOK, HandlerTurns, SlotAgrees, DistinctReplies, [Next]_vars,
         activeCancel # NoTurn, activeCancel' # activeCancel
  PROVE  LosesSlotToOwnCloser
<1>1. /\ activeCancel \in Turns /\ activeReply = ReplyOf[activeCancel]
      /\ activeReply # NoReply
      /\ \A t \in Turns : ReplyOf[t] = activeReply => t = activeCancel
      /\ turn \in [Handlers -> Turns \cup {NoTurn}]
      /\ pc \in [Handlers -> Places]
      /\ watchdog \in [Turns -> {"off", "armed", "closing", "done"}]
  BY DEF SlotAgrees, DistinctReplies, TypeOK
<1>2. ASSUME NEW h \in Handlers, DispatchStep(h)
      PROVE  LosesSlotToOwnCloser
  <2>1. ReleaseSlot /\ activeReply = ReplyOf[turn[h]] /\ (AckFails(h) \/ FailClear(h))
    BY <1>1, <1>2 DEF DispatchStep, slotVars, clearActive, RejectError, RejectTerminator,
       ClaimSlot, AgentBusy, PublishAck, AckFails, OnPrompt, OnPromptFails, FailError,
       FailTerminator, FailClear, ArmWatchdog
  <2>2. turn[h] \in Turns /\ pc[h] \in {"ack", "failClear"} /\ pc'[h] = "idle"
    BY <1>1, <2>1 DEF AckFails, FailClear, Finish, Goto, HandlerTurns, Dispatching
  <2>3. turn[h] = activeCancel
    BY <1>1, <2>1, <2>2
  <2> QED
    BY <2>1, <2>2, <2>3 DEF LosesSlotToOwnCloser, ReleaseSlot
<1>3. CASE InterruptStep
  BY <1>1, <1>3 DEF LosesSlotToOwnCloser, InterruptStep, slotVars, ReleaseSlot, InterruptIdle,
     InterruptRelease, InterruptCancel, InterruptAbort, InterruptNote, InterruptTerminator
<1>4. ASSUME NEW t \in Turns, WatchdogStep(t)
      PROVE  LosesSlotToOwnCloser
  <2>1. WatchdogFires(t)
    BY <1>4 DEF WatchdogStep, WatchdogMismatch, WatchdogTerminator, WatchdogShutdown, slotVars
  <2> QED
    BY <1>1, <2>1 DEF WatchdogFires, ReleaseSlot, LosesSlotToOwnCloser
<1>5. CASE PumpStep
  BY <1>5 DEF PumpStep, PumpExit, PumpDrop, PumpReceive, PumpLoadTrace, PumpPublish,
     PumpError, PumpTerminator, PumpClear, clearActive, ReleaseSlot, slotVars,
     LosesSlotToOwnCloser
<1>6. CASE Environment
  BY <1>6, EnvironmentSlot DEF slotVars
<1>7. CASE UNCHANGED vars
  BY <1>7 DEF vars, slotVars
<1> QED
  BY <1>2, <1>3, <1>4, <1>5, <1>6, <1>7 DEF Next

(* When no two requests carry the same reply subject, a turn loses the     *)
(* slot only to the interrupt, to the pump serving its stream, to its own  *)
(* watchdog or to its own handler.                                         *)
THEOREM NoStaleReleaseCorrect == Spec => NoStaleRelease
<1>1. TypeOK /\ HandlerTurns /\ SlotAgrees /\ [Next]_vars
        => [DistinctReplies => LosesSlotToOwnCloser]_vars
  BY NoStaleReleaseStep DEF LosesSlotToOwnCloser
<1> QED
  BY <1>1, TypeCorrect, SlotAgreesCorrect, PTL DEF Spec, NoStaleRelease
=============================================================================
