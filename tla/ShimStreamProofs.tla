-------------------------- MODULE ShimStreamProofs --------------------------
(***************************************************************************)
(* Proofs about what the shim publishes on the reply subjects.             *)
(*                                                                         *)
(* A turn is claimed from the moment it takes the slot, for good.  Every   *)
(* publish but the two that refuse a request goes to the stream of a turn  *)
(* that is claimed; a request waits with an empty stream until it is       *)
(* claimed or refused.  With a reply subject of its own for every request  *)
(* the streams cannot meet, and each closer can be followed by itself:     *)
(* the handler by its place, the pump by the reply it holds, the watchdog  *)
(* and the interrupts by the slot, which only one of them finds busy.      *)
(*                                                                         *)
(* That no stream is left open does not need distinct reply subjects: who  *)
(* takes a turn from the slot is, from that step on, a goroutine on its way*)
(* to publish the terminator, or has published it.                         *)
(***************************************************************************)
EXTENDS ShimTurnProofs, FiniteSetTheorems

Claimed(t) == activeCancel = t \/ t \in Finished

(* Delivered or not, and neither claimed nor refused. *)
Waiting(t) ==
  \/ t \in pending
  \/ \E h \in Handlers : turn[h] = t /\ pc[h] \notin Dispatching \cup {"rejectTerm"}

Interrupting == pc[Sig] \in {"cancel", "abort", "note", "noteTerm"}

(* Whom the pump and the interrupt publish for. *)
Served ==
  /\ pump.at \in {"trace", "publish", "term", "clear"} =>
       /\ pump.reply \in Replies
       /\ \E t \in Turns : Claimed(t) /\ ReplyOf[t] = pump.reply
  /\ Interrupting =>
       /\ victim.reply \in Replies /\ victim.cancel \in Turns
       /\ Claimed(victim.cancel) /\ ReplyOf[victim.cancel] = victim.reply

Known == IndInv /\ Served

-----------------------------------------------------------------------------
(* Claims. *)

LEMMA ClaimedStable ==
  ASSUME IndInv, [Next]_vars, NEW t \in Turns, Claimed(t)
  PROVE  Claimed(t)'
<1> USE DEF IndInv
<1>1. CASE UNCHANGED slotVars /\ Finished' = Finished
  BY <1>1 DEF slotVars, Claimed
<1>2. CASE ReleaseSlot /\ FinishActive
  BY <1>2, ShimTurnAssumption DEF ReleaseSlot, FinishActive, Claimed
<1>3. ASSUME NEW h \in Handlers, ClaimSlot(h), Finished' = Finished
      PROVE  Claimed(t)'
  <2>1. activeCancel = NoTurn
    BY <1>3 DEF ClaimSlot, SlotAgrees
  <2> QED BY <1>3, <2>1, ShimTurnAssumption DEF Claimed
<1> QED BY <1>1, <1>2, <1>3, SlotSteps

LEMMA ClaimedByWaiting ==
  ASSUME IndInv, [Next]_vars, NEW t \in Turns, Claimed(t)'
  PROVE  Claimed(t) \/ \E h \in Handlers : ClaimSlot(h) /\ turn[h] = t
<1> USE DEF IndInv
<1>1. CASE UNCHANGED slotVars /\ Finished' = Finished
  BY <1>1 DEF slotVars, Claimed
<1>2. CASE ReleaseSlot /\ FinishActive
  BY <1>2, ShimTurnAssumption DEF ReleaseSlot, FinishActive, Claimed
<1>3. ASSUME NEW h \in Handlers, ClaimSlot(h), Finished' = Finished
      PROVE  Claimed(t) \/ turn[h] = t
  BY <1>3 DEF ClaimSlot, Claimed
<1> QED BY <1>1, <1>2, <1>3, SlotSteps

(* A claimed turn is past waiting, and is not being refused. *)
LEMMA ClaimedIsStarted ==
  ASSUME IndInv, NEW t \in Turns, Claimed(t)
  PROVE  /\ ~Waiting(t) /\ t \notin pending
         /\ \A h \in Handlers : turn[h] = t => pc[h] \in Dispatching
  BY DEF IndInv, TurnsAccounted, Started, Claimed, Waiting

LEMMA DispatchingIsClaimed ==
  ASSUME IndInv, NEW h \in Handlers, pc[h] \in Dispatching
  PROVE  turn[h] \in Turns /\ Claimed(turn[h]) /\ ReplyOf[turn[h]] \in Replies
<1>1. turn[h] \in Turns /\ ReplyOf[turn[h]] \in Replies
  BY DEF IndInv, HandlerTurns, TypeOK
<1> QED BY <1>1 DEF IndInv, TurnsAccounted, Dispatched, Claimed

(* Nobody comes to wait who was not pending before. *)
LEMMA WaitingStep ==
  ASSUME IndInv, [Next]_vars, NEW t \in Turns, Waiting(t)'
  PROVE  Waiting(t)
<1> USE DEF IndInv
<1>1. /\ pc \in [Handlers -> Places] /\ turn \in [Handlers -> Turns \cup {NoTurn}]
      /\ Sig \in Handlers /\ NoTurn \notin Turns /\ Endpoints \subseteq Handlers
  BY ShimTurnAssumption DEF TypeOK, Handlers
<1>2. ASSUME UNCHANGED handlerVars
      PROVE  Waiting(t)
  BY <1>2 DEF handlerVars, Waiting
<1>3. ASSUME NEW h \in Handlers, DispatchStep(h)
      PROVE  Waiting(t)
  <2>1. /\ pending' = pending
        /\ \A g \in Handlers : g # h => pc'[g] = pc[g] /\ turn'[g] = turn[g]
        /\ turn'[h] = t => turn[h] = t
    BY <1>1, <1>3, DispatchFrame
  <2>2. turn'[h] = t /\ pc'[h] \notin Dispatching \cup {"rejectTerm"} =>
          pc[h] \notin Dispatching \cup {"rejectTerm"}
    BY <1>1, <1>3 DEF DispatchStep, Goto, Finish, Dispatching, RejectError, RejectTerminator,
       ClaimSlot, AgentBusy, PublishAck, AckFails, OnPrompt, OnPromptFails, FailError,
       FailTerminator, FailClear, ArmWatchdog
  <2> QED BY <2>1, <2>2 DEF Waiting
<1>4. ASSUME NEW h \in Handlers, NEW u \in pending, NEW place, Deliver(h, u, place)
      PROVE  Waiting(t)
  BY <1>1, <1>4 DEF Deliver, Goto, Waiting
<1>5. CASE InterruptStep
  <2>1. pending' = pending /\ turn' = turn /\ \A h \in Handlers \ {Sig} : pc'[h] = pc[h]
    BY <1>1, <1>5 DEF Goto, AfterInterrupt, InterruptStep, InterruptIdle, InterruptRelease,
       InterruptCancel, InterruptAbort, InterruptNote, InterruptTerminator
  <2>2. pc[Sig] \notin Dispatching \cup {"rejectTerm"}
    BY <1>5 DEF Dispatching, InterruptStep, InterruptIdle, InterruptRelease,
       InterruptCancel, InterruptAbort, InterruptNote, InterruptTerminator
  <2> QED BY <2>1, <2>2 DEF Waiting
<1>6. CASE Environment
  <2>1. CASE HandleInterrupt
    BY <1>1, <2>1 DEF HandleInterrupt, Goto, Waiting, HandlerTurns
  <2>2. CASE \E h \in Endpoints, u \in Prompts : HandlePubPrompt(h, u)
    BY <2>2 DEF HandlePubPrompt, Waiting
  <2>3. CASE \E u \in Redirects : DropRedirect(u)
    BY <2>3 DEF DropRedirect, Waiting
  <2>4. CASE \E h \in Endpoints, u \in Prompts : HandlePrompt(h, u)
    BY <2>4, <1>1, <1>4 DEF HandlePrompt, Deliver
  <2>5. CASE \E u \in Redirects : HandleRedirect(u)
    BY <2>5, <1>1, <1>4 DEF HandleRedirect, Deliver
  <2> QED
    BY <1>2, <1>6, <2>1, <2>2, <2>3, <2>4, <2>5 DEF Environment, AdapterResponse,
       AdapterEnds, AdapterRepeats, AdapterCloses, Shutdown
<1>7. CASE UNCHANGED vars
  BY <1>2, <1>7 DEF vars
<1>8. CASE \E u \in Turns : WatchdogStep(u)
  BY <1>2, <1>8 DEF WatchdogStep, WatchdogFires, WatchdogMismatch, WatchdogTerminator,
     WatchdogShutdown
<1>9. CASE PumpStep
  BY <1>2, <1>9 DEF PumpStep, PumpExit, PumpDrop, PumpReceive, PumpLoadTrace, PumpPublish,
     PumpError, PumpTerminator, PumpClear
<1> QED
  BY <1>3, <1>5, <1>6, <1>7, <1>8, <1>9 DEF Next

(* Nobody is refused but by RejectError. *)
LEMMA RefusedStep ==
  ASSUME IndInv, [Next]_vars, NEW h \in Handlers, pc'[h] = "rejectTerm", ~RejectError(h)
  PROVE  pc[h] = "rejectTerm" /\ turn'[h] = turn[h]
<1> USE DEF IndInv
<1>1. /\ pc \in [Handlers -> Places] /\ turn \in [Handlers -> Turns \cup {NoTurn}]
      /\ Sig \in Handlers /\ Endpoints \subseteq Handlers
  BY DEF TypeOK, Handlers
<1>2. ASSUME UNCHANGED handlerVars
      PROVE  pc[h] = "rejectTerm" /\ turn'[h] = turn[h]
  BY <1>2 DEF handlerVars
<1>3. ASSUME NEW g \in Handlers, DispatchStep(g)
      PROVE  pc[h] = "rejectTerm" /\ turn'[h] = turn[h]
  <2>1. CASE g = h
    BY <1>1, <1>3, <2>1 DEF DispatchStep, Goto, Finish, RejectTerminator,
       ClaimSlot, AgentBusy, PublishAck, AckFails, OnPrompt, OnPromptFails, FailError,
       FailTerminator, FailClear, ArmWatchdog
  <2>2. CASE g # h
    BY <1>1, <1>3, <2>2, DispatchFrame
  <2> QED BY <2>1, <2>2
<1>4. ASSUME NEW g \in Handlers, NEW u, NEW place \in {"reject", "dispatch", "interrupt"},
             Deliver(g, u, place)
      PROVE  pc[h] = "rejectTerm" /\ turn'[h] = turn[h]
  BY <1>1, <1>4 DEF Deliver, Goto
<1>5. CASE InterruptStep
  BY <1>1, <1>5 DEF Goto, AfterInterrupt, InterruptStep, InterruptIdle, InterruptRelease,
     InterruptCancel, InterruptAbort, InterruptNote, InterruptTerminator
<1>6. CASE Environment
  <2>1. CASE HandleInterrupt
    BY <1>1, <2>1 DEF HandleInterrupt, Goto
  <2>2. CASE \E g \in Endpoints, u \in Prompts : HandlePubPrompt(g, u)
    BY <2>2 DEF HandlePubPrompt
  <2>3. CASE \E u \in Redirects : DropRedirect(u)
    BY <2>3 DEF DropRedirect
  <2>4. CASE \E g \in Endpoints, u \in Prompts : HandlePrompt(g, u)
    BY <2>4, <1>1, <1>4 DEF HandlePrompt
  <2>5. CASE \E u \in Redirects : HandleRedirect(u)
    BY <2>5, <1>1, <1>4 DEF HandleRedirect
  <2> QED
    BY <1>2, <1>6, <2>1, <2>2, <2>3, <2>4, <2>5 DEF Environment, AdapterResponse,
       AdapterEnds, AdapterRepeats, AdapterCloses, Shutdown
<1>7. CASE UNCHANGED vars
  BY <1>2, <1>7 DEF vars
<1>8. CASE \E u \in Turns : WatchdogStep(u)
  BY <1>2, <1>8 DEF WatchdogStep, WatchdogFires, WatchdogMismatch, WatchdogTerminator,
     WatchdogShutdown
<1>9. CASE PumpStep
  BY <1>2, <1>9 DEF PumpStep, PumpExit, PumpDrop, PumpReceive, PumpLoadTrace, PumpPublish,
     PumpError, PumpTerminator, PumpClear
<1> QED
  BY <1>3, <1>5, <1>6, <1>7, <1>8, <1>9 DEF Next

-----------------------------------------------------------------------------
(* Whom the pump and the interrupt serve. *)

LEMMA ServedStep ==
  ASSUME IndInv, Served, [Next]_vars
  PROVE  Served'
<1>0. /\ \A t \in Turns : Claimed(t) => Claimed(t)'
      /\ pc \in [Handlers -> Places] /\ Sig \in Handlers /\ Endpoints \subseteq Handlers
      /\ pump \in PumpState /\ Sig \notin Endpoints
  BY ClaimedStable, ShimTurnAssumption DEF IndInv, TypeOK, Handlers
<1>1. activeReply # NoReply =>
        /\ activeReply \in Replies /\ activeCancel \in Turns
        /\ Claimed(activeCancel) /\ ReplyOf[activeCancel] = activeReply
  BY DEF IndInv, SlotAgrees, TypeOK, Claimed
<1>2. ASSUME pump' = pump \/ pump'.at \notin {"trace", "publish", "term", "clear"}
             \/ (pump'.reply = pump.reply /\ pump.at \in {"trace", "publish", "term"}),
             victim' = victim, Interrupting' => Interrupting
      PROVE  Served'
  BY <1>0, <1>2 DEF Served
<1>3. CASE \E h \in Handlers : DispatchStep(h)
  <2>1. PICK h \in Handlers : DispatchStep(h)
    BY <1>3
  <2>2. victim' = victim /\ (Interrupting' => Interrupting)
    BY <1>0, <2>1, DispatchFrame DEF Interrupting, Dispatching
  <2>3. pump' = pump
    BY <2>1 DEF DispatchStep, RejectError, RejectTerminator, ClaimSlot, AgentBusy, PublishAck,
       AckFails, OnPrompt, OnPromptFails, FailError, FailTerminator, FailClear, ArmWatchdog
  <2> QED BY <1>2, <2>2, <2>3
<1>4. CASE InterruptStep
  <2>1. CASE InterruptRelease
    <3>1. /\ victim'.reply = activeReply /\ victim'.cancel = activeCancel
          /\ activeReply # NoReply /\ pump' = pump
      BY <2>1 DEF InterruptRelease
    <3> QED BY <1>0, <1>1, <3>1 DEF Served
  <2>2. CASE InterruptTerminator
    <3>1. pump' = pump /\ ~Interrupting'
      BY <1>0, <2>2 DEF InterruptTerminator, AfterInterrupt, Goto, Interrupting
    <3> QED BY <1>0, <3>1 DEF Served
  <2>3. CASE InterruptIdle \/ InterruptCancel \/ InterruptAbort \/ InterruptNote
    <3>1. pump' = pump /\ victim' = victim /\ (Interrupting' => Interrupting)
      BY <1>0, <2>3 DEF InterruptIdle, InterruptCancel, InterruptAbort, InterruptNote,
         AfterInterrupt, Goto, Interrupting
    <3> QED BY <1>2, <3>1
  <2> QED BY <1>4, <2>1, <2>2, <2>3 DEF InterruptStep
<1>5. CASE \E t \in Turns : WatchdogStep(t)
  <2>1. pump' = pump /\ victim' = victim /\ (Interrupting' => Interrupting)
    BY <1>5 DEF WatchdogStep, WatchdogFires, WatchdogMismatch, WatchdogTerminator,
       WatchdogShutdown, handlerVars, Interrupting
  <2> QED BY <1>2, <2>1
<1>6. CASE PumpStep
  <2>1. CASE PumpReceive
    <3>1. /\ pump'.reply = activeReply /\ activeReply # NoReply
          /\ victim' = victim /\ Interrupting' = Interrupting
      BY <2>1 DEF PumpReceive, Pump, handlerVars, Interrupting
    <3> QED BY <1>0, <1>1, <3>1 DEF Served
  <2>2. CASE ~PumpReceive
    <3>1. /\ \/ pump' = pump
             \/ pump'.at \notin {"trace", "publish", "term", "clear"}
             \/ pump'.reply = pump.reply /\ pump.at \in {"trace", "publish", "term"}
          /\ UNCHANGED handlerVars
      BY <1>6, <2>2 DEF PumpStep, PumpExit, PumpDrop, PumpLoadTrace, PumpPublish, PumpError,
         PumpTerminator, PumpClear, Pump, PumpAt
    <3> QED BY <1>2, <3>1 DEF handlerVars, Interrupting
  <2> QED BY <2>1, <2>2
<1>7. CASE Environment
  <2>1. pump' = pump /\ victim' = victim
    BY <1>7 DEF Environment, HandlePubPrompt, HandlePrompt, Deliver, HandleInterrupt,
       HandleRedirect, DropRedirect, AdapterResponse, AdapterEnds, AdapterRepeats,
       AdapterCloses, Shutdown, handlerVars
  <2>2. Interrupting' => Interrupting
    BY <1>0, <1>7 DEF Environment, HandlePubPrompt, HandlePrompt, Deliver, HandleInterrupt,
       HandleRedirect, DropRedirect, AdapterResponse, AdapterEnds, AdapterRepeats,
       AdapterCloses, Shutdown, handlerVars, Goto, Interrupting
  <2> QED BY <1>2, <2>1, <2>2
<1>8. CASE UNCHANGED vars
  BY <1>2, <1>8 DEF vars, handlerVars, Interrupting
<1> QED BY <1>3, <1>4, <1>5, <1>6, <1>7, <1>8 DEF Next

LEMMA KnownCorrect == Spec => []Known
<1>1. Init => Served
  BY DEF Init, Served, Interrupting, PumpAt, Pump, Handlers
<1>2. IndInv /\ Served /\ [Next]_vars => Served'
  BY ServedStep
<1> QED BY <1>1, <1>2, IndInvCorrect, PTL DEF Spec, Known

-----------------------------------------------------------------------------
(* What a step publishes. *)

Publishes(r, m) ==
  /\ r \in Replies /\ m \in Published
  /\ out' = [out EXCEPT ![r] = Append(@, m)]

(* The step publishes a terminator on r, and who does it. *)
Closes(by, r) ==
  \/ /\ by = "handler"
     /\ \E h \in Handlers : (FailTerminator(h) \/ RejectTerminator(h)) /\ ReplyOf[turn[h]] = r
  \/ by = "pump" /\ PumpTerminator /\ pump.reply = r
  \/ by = "watchdog" /\ \E t \in Turns : WatchdogTerminator(t) /\ ReplyOf[t] = r
  \/ by = "signal" /\ InterruptTerminator /\ victim.reply = r

LEMMA MessageIsPublished ==
  ASSUME NEW type \in {"ack", "response", "aborted", "error", "reject", "term"},
         NEW t \in Turns \cup {NoTurn}, NEW trace \in Turns \cup {NoTurn},
         NEW by \in {"handler", "signal", "watchdog", "pump"}
  PROVE  /\ Message(type, t, trace, by) \in Published
         /\ Message(type, t, trace, by).type = type
         /\ Message(type, t, trace, by).turn = t
         /\ Message(type, t, trace, by).by = by
  BY DEF Message, Published

LEMMA RejectErrorPublishes ==
  ASSUME IndInv, NEW h \in Handlers, RejectError(h)
  PROVE  /\ turn[h] \in Turns /\ pc[h] = "reject"
         /\ turn' = turn /\ pc' = [pc EXCEPT ![h] = "rejectTerm"]
         /\ \E m \in Published : /\ m.type = "reject" /\ m.by = "handler"
                                 /\ Publishes(ReplyOf[turn[h]], m)
<1>1. turn[h] \in Turns /\ ReplyOf[turn[h]] \in Replies
  BY DEF IndInv, HandlerTurns, TypeOK, RejectError
<1>2. \E m \in Published : /\ m.type = "reject" /\ m.by = "handler"
                           /\ Publishes(ReplyOf[turn[h]], m)
  <2> DEFINE m == Message("reject", turn[h], IF h = Sig THEN NoTurn ELSE turn[h], "handler")
  <2>1. m \in Published /\ m.type = "reject" /\ m.by = "handler"
    BY <1>1, MessageIsPublished
  <2>2. out' = [out EXCEPT ![ReplyOf[turn[h]]] = Append(@, m)]
    BY DEF RejectError, publishErrorOnReply
  <2> QED BY <1>1, <2>1, <2>2 DEF Publishes
<1> QED BY <1>1, <1>2 DEF RejectError, Goto

LEMMA RejectTerminatorPublishes ==
  ASSUME IndInv, NEW h \in Handlers, RejectTerminator(h)
  PROVE  /\ turn[h] \in Turns /\ pc[h] = "rejectTerm"
         /\ turn' = [turn EXCEPT ![h] = NoTurn] /\ pc' = [pc EXCEPT ![h] = "idle"]
         /\ \E m \in Published : /\ m.type = "term" /\ m.by = "handler"
                                 /\ Publishes(ReplyOf[turn[h]], m)
<1>1. turn[h] \in Turns /\ ReplyOf[turn[h]] \in Replies
  BY DEF IndInv, HandlerTurns, TypeOK, RejectTerminator
<1>2. \E m \in Published : /\ m.type = "term" /\ m.by = "handler"
                           /\ Publishes(ReplyOf[turn[h]], m)
  <2> DEFINE m == Message("term", turn[h], NoTurn, "handler")
  <2>1. m \in Published /\ m.type = "term" /\ m.by = "handler"
    BY <1>1, MessageIsPublished
  <2>2. out' = [out EXCEPT ![ReplyOf[turn[h]]] = Append(@, m)]
    BY DEF RejectTerminator, publishTerminator
  <2> QED BY <1>1, <2>1, <2>2 DEF Publishes
<1> QED BY <1>1, <1>2 DEF RejectTerminator, Goto, Finish

(* What any other step publishes goes to a claimed turn. *)
ServesClaimed ==
  \E t \in Turns, m \in Published :
    /\ Claimed(t) /\ ReplyOf[t] \in Replies /\ Publishes(ReplyOf[t], m)
    /\ m.type # "reject"
    /\ m.type = "term" => Closes(m.by, ReplyOf[t])
    /\ m.type \in {"error", "aborted"} => Owed(ReplyOf[t])'
    /\ m.type = "ack" => m.turn = t /\ \E h \in Handlers : PublishAck(h) /\ turn[h] = t
    /\ m.by = "pump" => /\ pump.at \in {"publish", "term"} /\ m.turn = pump.chunk.turn
                        /\ ReplyOf[t] = pump.reply

LEMMA OutStep ==
  ASSUME Known, [Next]_vars
  PROVE  \/ out' = out
         \/ \E h \in Handlers : RejectError(h) \/ RejectTerminator(h)
         \/ ServesClaimed
<1>0. /\ turn \in [Handlers -> Turns \cup {NoTurn}] /\ victim \in Victim /\ pump \in PumpState
      /\ activeTrace \in Turns \cup {NoTurn} /\ Sig \in Handlers
  BY DEF Known, IndInv, TypeOK, Handlers
<1>p. pc \in [Handlers -> Places]
  BY DEF Known, IndInv, TypeOK
<1>1. ASSUME NEW t \in Turns, Claimed(t), ReplyOf[t] \in Replies,
             NEW type \in {"ack", "response", "aborted", "error", "term"},
             NEW u \in Turns \cup {NoTurn}, NEW trace \in Turns \cup {NoTurn},
             NEW by \in {"handler", "signal", "watchdog", "pump"},
             out' = [out EXCEPT ![ReplyOf[t]] = Append(@, Message(type, u, trace, by))],
             type = "term" => Closes(by, ReplyOf[t]),
             type \in {"error", "aborted"} => Owed(ReplyOf[t])',
             type = "ack" => u = t /\ \E h \in Handlers : PublishAck(h) /\ turn[h] = t,
             by = "pump" => /\ pump.at \in {"publish", "term"} /\ u = pump.chunk.turn
                            /\ ReplyOf[t] = pump.reply
      PROVE  ServesClaimed
  <2> DEFINE m == Message(type, u, trace, by)
  <2>1. m \in Published /\ m.type = type /\ m.turn = u /\ m.by = by
    BY <1>1 DEF Message, Published
  <2>2. Publishes(ReplyOf[t], m)
    BY <1>1, <2>1 DEF Publishes
  <2> HIDE DEF m
  <2> QED BY <1>1, <2>1, <2>2 DEF ServesClaimed
<1>2. ASSUME NEW h \in Handlers, DispatchStep(h)
      PROVE  out' = out \/ RejectError(h) \/ RejectTerminator(h) \/ ServesClaimed
  <2>1. pc[h] \in Dispatching => /\ turn[h] \in Turns /\ Claimed(turn[h])
                                 /\ ReplyOf[turn[h]] \in Replies
    BY DispatchingIsClaimed DEF Known
  <2>2. CASE PublishAck(h)
    <3>1. pc[h] \in Dispatching
      BY <2>2 DEF PublishAck, Dispatching
    <3>2. out' = [out EXCEPT ![ReplyOf[turn[h]]]
                    = Append(@, Message("ack", turn[h], turn[h], "handler"))]
      BY <2>2 DEF PublishAck, publishChunk
    <3>3. PICK t \in Turns : t = turn[h]
      BY <2>1, <3>1
    <3> QED BY <1>1, <2>1, <2>2, <3>1, <3>2, <3>3
  <2>3. CASE FailError(h)
    <3>1. pc[h] \in Dispatching
      BY <2>3 DEF FailError, Dispatching
    <3>2. out' = [out EXCEPT ![ReplyOf[turn[h]]]
                    = Append(@, Message("error", turn[h], turn[h], "handler"))]
      BY <2>3 DEF FailError, publishErrorOnReply
    <3>3. pc'[h] = "failTerm" /\ turn' = turn
      BY <1>p, <2>3 DEF FailError, Goto
    <3>4. PICK t \in Turns : t = turn[h]
      BY <2>1, <3>1
    <3>5. Owed(ReplyOf[t])'
      BY <3>3, <3>4 DEF Owed
    <3> QED BY <1>1, <2>1, <3>1, <3>2, <3>4, <3>5
  <2>4. CASE FailTerminator(h)
    <3>1. pc[h] \in Dispatching
      BY <2>4 DEF FailTerminator, Dispatching
    <3>2. out' = [out EXCEPT ![ReplyOf[turn[h]]]
                    = Append(@, Message("term", turn[h], NoTurn, "handler"))]
      BY <2>4 DEF FailTerminator, publishTerminator
    <3>3. Closes("handler", ReplyOf[turn[h]])
      BY <2>4 DEF Closes
    <3> QED BY <1>1, <2>1, <3>1, <3>2, <3>3
  <2> QED
    BY <1>2, <2>2, <2>3, <2>4 DEF DispatchStep, ClaimSlot, AgentBusy, AckFails, OnPrompt,
       OnPromptFails, FailClear, ArmWatchdog, adapterVars
<1>3. CASE InterruptStep
  <2>1. Interrupting => /\ victim.reply \in Replies /\ victim.cancel \in Turns
                        /\ Claimed(victim.cancel) /\ ReplyOf[victim.cancel] = victim.reply
    BY DEF Known, Served
  <2>2. victim.trace \in Turns \cup {NoTurn}
    BY <1>0 DEF Victim
  <2>3. CASE InterruptNote
    <3>1. Interrupting
      BY <2>3 DEF InterruptNote, Interrupting
    <3>2. out' = [out EXCEPT ![victim.reply]
                    = Append(@, Message("aborted", victim.cancel, victim.trace, "signal"))]
      BY <2>3 DEF InterruptNote, publishChunk
    <3>3. PICK t \in Turns : t = victim.cancel
      BY <2>1, <3>1
    <3>4. Owed(ReplyOf[t])'
      BY <1>0, <1>p, <2>1, <2>3, <3>1, <3>3 DEF InterruptNote, Goto, Owed
    <3> QED BY <1>1, <2>1, <2>2, <3>1, <3>2, <3>3, <3>4
  <2>4. CASE InterruptTerminator
    <3>1. Interrupting
      BY <2>4 DEF InterruptTerminator, Interrupting
    <3>2. out' = [out EXCEPT ![victim.reply]
                    = Append(@, Message("term", victim.cancel, NoTurn, "signal"))]
      BY <2>4 DEF InterruptTerminator, publishTerminator
    <3>3. Closes("signal", victim.reply)
      BY <2>4 DEF Closes
    <3> QED BY <1>1, <2>1, <3>1, <3>2, <3>3
  <2> QED
    BY <1>3, <2>3, <2>4 DEF InterruptStep, InterruptIdle, InterruptRelease, InterruptCancel,
       InterruptAbort, adapterVars
<1>4. ASSUME NEW t \in Turns, WatchdogStep(t)
      PROVE  out' = out \/ ServesClaimed
  <2>1. CASE WatchdogTerminator(t)
    <3>1. Claimed(t)
      BY <2>1 DEF WatchdogTerminator, Known, IndInv, TurnsAccounted, Dispatched, Claimed
    <3>2. out' = [out EXCEPT ![ReplyOf[t]] = Append(@, Message("term", t, NoTurn, "watchdog"))]
      BY <2>1 DEF WatchdogTerminator, publishTerminator
    <3>3. Closes("watchdog", ReplyOf[t])
      BY <2>1 DEF Closes
    <3>4. CASE ReplyOf[t] \in Replies
      BY <1>1, <3>1, <3>2, <3>3, <3>4
    <3>5. CASE ReplyOf[t] \notin Replies
      BY <3>2, <3>5 DEF Known, IndInv, TypeOK
    <3> QED BY <3>4, <3>5
  <2> QED
    BY <1>4, <2>1 DEF WatchdogStep, WatchdogFires, WatchdogMismatch, WatchdogShutdown
<1>5. CASE PumpStep
  <2>1. pump.at \in {"trace", "publish", "term", "clear"} =>
          /\ pump.reply \in Replies
          /\ \E t \in Turns : Claimed(t) /\ ReplyOf[t] = pump.reply
    BY DEF Known, Served
  <2>2. pump.chunk.turn \in Turns \cup {NoTurn} /\ pump.trace \in Turns \cup {NoTurn}
    BY <1>0 DEF PumpState, Chunk
  <2>3. CASE PumpPublish
    <3>1. pump.at = "publish"
      BY <2>3 DEF PumpPublish
    <3>2. out' = [out EXCEPT ![pump.reply]
                    = Append(@, Message("response", pump.chunk.turn, pump.trace, "pump"))]
      BY <2>3 DEF PumpPublish, publishChunk
    <3> QED BY <1>1, <2>1, <2>2, <3>1, <3>2
  <2>4. CASE PumpError
    <3>1. pump.at = "publish"
      BY <2>4 DEF PumpError
    <3>2. out' = [out EXCEPT ![pump.reply]
                    = Append(@, Message("error", pump.chunk.turn, pump.trace, "pump"))]
      BY <2>4 DEF PumpError, publishErrorOnReply
    <3>3. PICK t \in Turns : Claimed(t) /\ ReplyOf[t] = pump.reply
      BY <2>1, <3>1
    <3>4. Owed(ReplyOf[t])'
      BY <2>4, <3>3 DEF PumpError, Pump, Owed
    <3> QED BY <1>1, <2>1, <2>2, <3>1, <3>2, <3>3, <3>4
  <2>5. CASE PumpTerminator
    <3>1. pump.at = "term"
      BY <2>5 DEF PumpTerminator
    <3>2. out' = [out EXCEPT ![pump.reply]
                    = Append(@, Message("term", pump.chunk.turn, NoTurn, "pump"))]
      BY <2>5 DEF PumpTerminator, publishTerminator
    <3>3. Closes("pump", pump.reply)
      BY <2>5 DEF Closes
    <3> QED BY <1>1, <2>1, <2>2, <3>1, <3>2, <3>3
  <2> QED
    BY <1>5, <2>3, <2>4, <2>5 DEF PumpStep, PumpExit, PumpDrop, PumpReceive, PumpLoadTrace,
       PumpClear
<1>6. CASE Environment
  BY <1>6 DEF Environment, HandlePubPrompt, HandlePrompt, Deliver, HandleInterrupt,
     HandleRedirect, DropRedirect, AdapterResponse, AdapterEnds, AdapterRepeats,
     AdapterCloses, Shutdown
<1>7. CASE UNCHANGED vars
  BY <1>7 DEF vars
<1> QED BY <1>2, <1>3, <1>4, <1>5, <1>6, <1>7 DEF Next

(* What a publish does to the streams. *)
LEMMA PublishGrows ==
  ASSUME TypeOK, NEW r \in Replies, NEW m \in Published, Publishes(r, m)
  PROVE  /\ out[r] \in Seq(Published) /\ Len(out[r]) \in Nat
         /\ out'[r] = Append(out[r], m) /\ Len(out'[r]) = Len(out[r]) + 1
         /\ \A i \in 1..Len(out[r]) : out'[r][i] = out[r][i]
         /\ out'[r][Len(out[r]) + 1] = m
         /\ \A i \in 1..Len(out'[r]) : i \in 1..Len(out[r]) \/ i = Len(out[r]) + 1
         /\ \A q \in Replies \ {r} : out'[q] = out[q]
<1>1. out[r] \in Seq(Published) /\ out'[r] = Append(out[r], m)
      /\ \A q \in Replies \ {r} : out'[q] = out[q]
  BY DEF TypeOK, Publishes
<1>2. /\ Len(out[r]) \in Nat /\ Len(Append(out[r], m)) = Len(out[r]) + 1
      /\ \A i \in 1..Len(out[r]) : Append(out[r], m)[i] = out[r][i]
      /\ Append(out[r], m)[Len(out[r]) + 1] = m
  BY <1>1
<1>3. \A i \in 1..(Len(out[r]) + 1) : i \in 1..Len(out[r]) \/ i = Len(out[r]) + 1
  BY <1>2
<1> QED BY <1>1, <1>2, <1>3

-----------------------------------------------------------------------------
(* Who is refused. *)

Stream(t) == out[ReplyOf[t]]

CleanStream(s) ==
  (\E i \in 1..Len(s) : s[i].type = "reject") =>
    /\ Len(s) <= 2
    /\ s[1].type = "reject"
    /\ Len(s) = 2 => s[2].type = "term"

Refused(t) == \E h \in Handlers : turn[h] = t /\ pc[h] = "rejectTerm"

(* A stream is empty while its request waits, holds the error alone until  *)
(* its terminator, and no error of that kind once the turn is claimed.     *)
StreamOfTurn(t) ==
  /\ Waiting(t) => Len(Stream(t)) = 0
  /\ Refused(t) => Len(Stream(t)) = 1 /\ Stream(t)[1].type = "reject"
  /\ Claimed(t) => \A i \in 1..Len(Stream(t)) : Stream(t)[i].type # "reject"
  /\ CleanStream(Stream(t))

StreamsInv ==
  /\ \A t \in Turns : ReplyOf[t] \in Replies => StreamOfTurn(t)
  /\ \A r \in Replies : (\A t \in Turns : ReplyOf[t] # r) => Len(out[r]) = 0

LEMMA InitStreams == Init => StreamsInv
<1> SUFFICES ASSUME Init PROVE StreamsInv
  OBVIOUS
<1>1. \A r \in Replies : out[r] = << >> /\ Len(out[r]) = 0
  BY DEF Init
<1>2. \A h \in Handlers : pc[h] # "rejectTerm"
  BY DEF Init
<1>3. 1..0 = {}
  OBVIOUS
<1> QED BY <1>1, <1>2, <1>3 DEF StreamsInv, StreamOfTurn, Stream, Refused, CleanStream

(* A step that leaves the stream of t alone. *)
LEMMA StreamUntouched ==
  ASSUME Known, [Next]_vars, NEW t \in Turns, ReplyOf[t] \in Replies,
         StreamOfTurn(t), Stream(t)' = Stream(t),
         \A h \in Handlers : RejectError(h) => turn[h] # t
  PROVE  StreamOfTurn(t)'
<1> USE DEF Known
<1>1. Waiting(t)' => Waiting(t)
  BY WaitingStep
<1>2. Refused(t)' => Refused(t)
  <2> SUFFICES ASSUME NEW h \in Handlers, turn'[h] = t, pc'[h] = "rejectTerm"
               PROVE  Refused(t)
    BY DEF Refused
  <2>1. CASE RejectError(h)
    BY <2>1, RejectErrorPublishes
  <2>2. CASE ~RejectError(h)
    BY <2>2, RefusedStep DEF Refused
  <2> QED BY <2>1, <2>2
<1>3. Claimed(t)' => Claimed(t) \/ Waiting(t)
  BY ClaimedByWaiting DEF ClaimSlot, Waiting, Dispatching
<1>4. Waiting(t) => \A i \in 1..Len(Stream(t)) : Stream(t)[i].type # "reject"
  <2>1. 1..0 = {}
    OBVIOUS
  <2> QED BY <2>1 DEF StreamOfTurn
<1> QED BY <1>1, <1>2, <1>3, <1>4 DEF StreamOfTurn

LEMMA StreamsStep ==
  ASSUME Known, Known', DistinctReplies, StreamsInv, [Next]_vars
  PROVE  StreamsInv'
<1> USE DEF Known
<1>0. TypeOK /\ IndInv /\ IndInv'
  BY DEF IndInv
<1>1. CASE out' = out
  <2>1. \A h \in Handlers : ~RejectError(h)
    <3> SUFFICES ASSUME NEW h \in Handlers, RejectError(h) PROVE FALSE
      OBVIOUS
    <3>1. PICK m \in Published : Publishes(ReplyOf[turn[h]], m)
      BY <1>0, RejectErrorPublishes
    <3>2. ReplyOf[turn[h]] \in Replies
      BY <3>1 DEF Publishes
    <3>3. /\ Len(out'[ReplyOf[turn[h]]]) = Len(out[ReplyOf[turn[h]]]) + 1
          /\ Len(out[ReplyOf[turn[h]]]) \in Nat
      BY <1>0, <3>1, <3>2, PublishGrows
    <3> QED BY <1>1, <3>3
  <2>2. \A t \in Turns : Stream(t)' = Stream(t)
    BY <1>1 DEF Stream
  <2> QED BY <1>1, <2>1, <2>2, StreamUntouched DEF StreamsInv
<1>2. ASSUME NEW t \in Turns, NEW m \in Published, Publishes(ReplyOf[t], m),
             StreamOfTurn(t)',
             \A h \in Handlers : RejectError(h) => turn[h] = t
      PROVE  StreamsInv'
  <2>1. ReplyOf[t] \in Replies
    BY <1>2 DEF Publishes
  <2>2. \A q \in Replies \ {ReplyOf[t]} : out'[q] = out[q]
    BY <1>0, <1>2, <2>1, PublishGrows
  <2>3. ASSUME NEW u \in Turns, ReplyOf[u] \in Replies
        PROVE  StreamOfTurn(u)'
    <3>1. CASE u = t
      BY <1>2, <3>1
    <3>2. CASE u # t
      <4>1. ReplyOf[u] # ReplyOf[t]
        BY <3>2 DEF DistinctReplies
      <4>2. Stream(u)' = Stream(u)
        BY <2>2, <2>3, <4>1 DEF Stream
      <4> QED BY <1>2, <2>3, <3>2, <4>2, StreamUntouched DEF StreamsInv
    <3> QED BY <3>1, <3>2
  <2> QED BY <2>1, <2>2, <2>3 DEF StreamsInv
<1>3. ASSUME NEW h \in Handlers, RejectError(h)
      PROVE  StreamsInv'
  <2>1. /\ turn[h] \in Turns /\ pc[h] = "reject"
        /\ turn' = turn /\ pc' = [pc EXCEPT ![h] = "rejectTerm"]
    BY <1>0, <1>3, RejectErrorPublishes
  <2>a. PICK t \in Turns : t = turn[h]
    BY <2>1
  <2>2. PICK m \in Published : m.type = "reject" /\ Publishes(ReplyOf[t], m)
    BY <1>0, <1>3, <2>a, RejectErrorPublishes
  <2>3. ReplyOf[t] \in Replies
    BY <2>2 DEF Publishes
  <2>4. Waiting(t) /\ Len(Stream(t)) = 0
    BY <2>1, <2>a, <2>3 DEF StreamsInv, StreamOfTurn, Waiting, Dispatching
  <2>5. Len(Stream(t)') = 1 /\ Stream(t)'[1] = m
    <3>1. /\ Len(out'[ReplyOf[t]]) = Len(out[ReplyOf[t]]) + 1
          /\ out'[ReplyOf[t]][Len(out[ReplyOf[t]]) + 1] = m
      BY <1>0, <2>2, <2>3, PublishGrows
    <3> QED BY <2>4, <3>1 DEF Stream
  <2>6. pc'[h] = "rejectTerm" /\ turn'[h] = t
    BY <1>0, <2>1, <2>a DEF TypeOK
  <2>7. ~Claimed(t)'
    <3> SUFFICES ASSUME Claimed(t)' PROVE FALSE
      OBVIOUS
    <3>1. pc'[h] \in Dispatching
      BY <2>1, <2>a, <2>6 DEF IndInv, TurnsAccounted, Started, Claimed
    <3> QED BY <2>6, <3>1 DEF Dispatching
  <2>8. ~Waiting(t)'
    <3>1. t \notin pending'
      BY <1>0, <2>1, <2>a, <2>6, ShimTurnAssumption DEF IndInv, HandlerTurns
    <3>2. \A g \in Handlers : turn'[g] = t => g = h
      BY <1>0, <2>1, <2>a, <2>6, ShimTurnAssumption DEF IndInv, HandlerTurns
    <3> QED BY <2>6, <3>1, <3>2 DEF Waiting
  <2>9. StreamOfTurn(t)'
    BY <2>2, <2>5, <2>7, <2>8 DEF StreamOfTurn, CleanStream
  <2>10. \A g \in Handlers : RejectError(g) => turn[g] = t
    <3> SUFFICES ASSUME NEW g \in Handlers, RejectError(g) PROVE g = h
      BY <2>a
    <3>1. pc' = [pc EXCEPT ![g] = "rejectTerm"] /\ pc[g] = "reject"
      BY <1>0, RejectErrorPublishes
    <3> QED BY <1>0, <2>1, <2>a, <3>1 DEF TypeOK
  <2> QED BY <1>2, <2>1, <2>a, <2>2, <2>9, <2>10
<1>4. ASSUME NEW h \in Handlers, RejectTerminator(h)
      PROVE  StreamsInv'
  <2>1. /\ turn[h] \in Turns /\ pc[h] = "rejectTerm"
        /\ turn' = [turn EXCEPT ![h] = NoTurn] /\ pc' = [pc EXCEPT ![h] = "idle"]
    BY <1>0, <1>4, RejectTerminatorPublishes
  <2>a. PICK t \in Turns : t = turn[h]
    BY <2>1
  <2>2. PICK m \in Published : m.type = "term" /\ Publishes(ReplyOf[t], m)
    BY <1>0, <1>4, <2>a, RejectTerminatorPublishes
  <2>3. ReplyOf[t] \in Replies
    BY <2>2 DEF Publishes
  <2>4. Len(Stream(t)) = 1 /\ Stream(t)[1].type = "reject"
    BY <2>1, <2>a, <2>3 DEF StreamsInv, StreamOfTurn, Refused
  <2>5. Len(Stream(t)') = 2 /\ Stream(t)'[1].type = "reject" /\ Stream(t)'[2].type = "term"
    <3>1. /\ Len(out'[ReplyOf[t]]) = Len(out[ReplyOf[t]]) + 1
          /\ \A i \in 1..Len(out[ReplyOf[t]]) : out'[ReplyOf[t]][i] = out[ReplyOf[t]][i]
          /\ out'[ReplyOf[t]][Len(out[ReplyOf[t]]) + 1] = m
      BY <1>0, <2>2, <2>3, PublishGrows
    <3>2. 1 \in 1..1
      OBVIOUS
    <3> QED BY <2>2, <2>4, <3>1, <3>2 DEF Stream
  <2>6. \A g \in Handlers : turn[g] = t => g = h
    BY <1>0, <2>1, <2>a, ShimTurnAssumption DEF IndInv, HandlerTurns
  <2>7. \A g \in Handlers : turn'[g] # t
    BY <1>0, <2>1, <2>a, <2>6, ShimTurnAssumption DEF TypeOK
  <2>8. ~Claimed(t)
    <3> SUFFICES ASSUME Claimed(t) PROVE FALSE
      OBVIOUS
    <3>1. pc[h] \in Dispatching
      BY <1>0, <2>1, <2>a, ClaimedIsStarted
    <3> QED BY <2>1, <2>a, <3>1 DEF Dispatching
  <2>9. ~Claimed(t)'
    <3>1. \A g \in Handlers : ClaimSlot(g) => turn[g] # t
      BY <2>1, <2>a, <2>6 DEF ClaimSlot
    <3> QED BY <1>0, <2>1, <2>a, <2>8, <3>1, ClaimedByWaiting
  <2>10. ~Waiting(t)'
    <3>1. t \notin pending
      BY <1>0, <2>1, <2>a, ShimTurnAssumption DEF IndInv, HandlerTurns
    <3>2. pending' = pending
      BY <1>4 DEF RejectTerminator
    <3> QED BY <2>7, <3>1, <3>2 DEF Waiting
  <2>11. StreamOfTurn(t)'
    BY <2>5, <2>7, <2>9, <2>10 DEF StreamOfTurn, CleanStream, Refused
  <2>12. \A g \in Handlers : ~RejectError(g)
    <3> SUFFICES ASSUME NEW g \in Handlers, RejectError(g) PROVE FALSE
      OBVIOUS
    <3>1. turn' = turn
      BY <1>0, RejectErrorPublishes
    <3> QED BY <2>1, <2>a, <2>7, <3>1
  <2> QED BY <1>2, <2>1, <2>a, <2>2, <2>11, <2>12
<1>5. CASE ServesClaimed /\ \A h \in Handlers : ~RejectError(h)
  <2>1. PICK t \in Turns, m \in Published :
          /\ Claimed(t) /\ ReplyOf[t] \in Replies /\ Publishes(ReplyOf[t], m)
          /\ m.type # "reject"
    BY <1>5 DEF ServesClaimed
  <2>2. Claimed(t)'
    BY <1>0, <2>1, ClaimedStable
  <2>3. ~Waiting(t)' /\ ~Refused(t)'
    BY <2>2 DEF IndInv, TurnsAccounted, Started, Claimed, Waiting, Refused, Dispatching
  <2>4. \A i \in 1..Len(Stream(t)) : Stream(t)[i].type # "reject"
    BY <2>1 DEF StreamsInv, StreamOfTurn
  <2>5. \A i \in 1..Len(Stream(t)') : Stream(t)'[i].type # "reject"
    <3> SUFFICES ASSUME NEW i \in 1..Len(out'[ReplyOf[t]])
                 PROVE  out'[ReplyOf[t]][i].type # "reject"
      BY DEF Stream
    <3>1. \/ i \in 1..Len(out[ReplyOf[t]]) /\ out'[ReplyOf[t]][i] = out[ReplyOf[t]][i]
          \/ out'[ReplyOf[t]][i] = m
      BY <1>0, <2>1, PublishGrows
    <3> QED BY <2>1, <2>4, <3>1 DEF Stream
  <2>6. StreamOfTurn(t)'
    BY <2>3, <2>5 DEF StreamOfTurn, CleanStream
  <2> QED BY <1>2, <1>5, <2>1, <2>6
<1> QED BY <1>1, <1>3, <1>4, <1>5, OutStep

LEMMA StreamsCorrect == Spec => [](DistinctReplies => StreamsInv)
<1>1. Known /\ Known' /\ DistinctReplies /\ StreamsInv /\ [Next]_vars => StreamsInv'
  BY StreamsStep
<1>2. DistinctReplies' <=> DistinctReplies
  BY DEF DistinctReplies
<1> QED BY <1>1, <1>2, InitStreams, KnownCorrect, PTL DEF Spec

(* Every reply subject a request's own, who is refused reads the error and *)
(* the terminator and nothing else, for any number of requests and of      *)
(* endpoints that dispatch together.                                       *)
THEOREM RejectedStreamsAreCleanCorrect == Spec => []RejectedStreamsAreClean
<1>1. TypeOK /\ (DistinctReplies => StreamsInv) => RejectedStreamsAreClean
  <2> SUFFICES ASSUME TypeOK, DistinctReplies, StreamsInv, NEW r \in Replies
               PROVE  (\E i \in DOMAIN out[r] : out[r][i].type = "reject") =>
                        /\ Len(out[r]) <= 2
                        /\ out[r][1].type = "reject"
                        /\ Len(out[r]) = 2 => out[r][2].type = "term"
    BY DEF RejectedStreamsAreClean
  <2>1. DOMAIN out[r] = 1..Len(out[r])
    BY DEF TypeOK
  <2>2. CASE \E t \in Turns : ReplyOf[t] = r
    BY <2>1, <2>2 DEF StreamsInv, StreamOfTurn, CleanStream, Stream
  <2>3. CASE \A t \in Turns : ReplyOf[t] # r
    <3>1. Len(out[r]) = 0 /\ 1..0 = {}
      BY <2>3 DEF StreamsInv
    <3> QED BY <2>1, <3>1
  <2> QED BY <2>2, <2>3
<1> QED BY <1>1, StreamsCorrect, TypeCorrect, PTL

-----------------------------------------------------------------------------
(* The ack comes first. *)

HasAck(r) == \E i \in 1..Len(out[r]) : out[r][i].type = "ack"

AckFirst ==
  \A r \in Replies : \A i \in 1..Len(out[r]) :
    (out[r][i].by = "pump" /\ ReplyOf[out[r][i].turn] = r) =>
      \E j \in 1..(i - 1) : out[r][j].type = "ack"

(* The agent gets a turn after its ack, and chunks come from the agent. *)
AgentIsAcked ==
  /\ \A h \in Handlers : pc[h] \in {"onPrompt", "arm"} => HasAck(ReplyOf[turn[h]])
  /\ \A t \in Turns : agent[t] # "none" => ReplyOf[t] \in Replies /\ HasAck(ReplyOf[t])

ChunksAreOfAgent ==
  /\ \A i \in 1..Len(events) : events[i].turn \in Turns /\ agent[events[i].turn] # "none"
  /\ pump.at \in {"trace", "publish", "term", "clear"} =>
       pump.chunk.turn \in Turns /\ agent[pump.chunk.turn] # "none"

AckInv == AckFirst /\ AgentIsAcked /\ ChunksAreOfAgent

LEMMA InitAck == Init => AckInv
<1> SUFFICES ASSUME Init PROVE AckInv
  OBVIOUS
<1>1. 1..0 = {} /\ Len(<< >>) = 0
  OBVIOUS
<1>2. AckFirst
  BY <1>1 DEF Init, AckFirst
<1>3. AgentIsAcked
  BY DEF Init, AgentIsAcked
<1>4. ChunksAreOfAgent
  BY <1>1 DEF Init, ChunksAreOfAgent, PumpAt, Pump
<1> QED BY <1>2, <1>3, <1>4 DEF AckInv

(* A step leaves a stream alone or appends a message to it. *)
LEMMA OutGrows ==
  ASSUME Known, [Next]_vars
  PROVE  out' = out \/ \E r \in Replies, m \in Published : Publishes(r, m)
<1>1. ASSUME NEW h \in Handlers, RejectError(h) \/ RejectTerminator(h)
      PROVE  \E r \in Replies, m \in Published : Publishes(r, m)
  BY <1>1, RejectErrorPublishes, RejectTerminatorPublishes DEF Known, Publishes
<1>2. ServesClaimed => \E r \in Replies, m \in Published : Publishes(r, m)
  BY DEF ServesClaimed
<1> QED BY <1>1, <1>2, OutStep

LEMMA HasAckStable ==
  ASSUME Known, [Next]_vars, NEW r \in Replies, HasAck(r)
  PROVE  HasAck(r)'
<1>1. CASE out' = out
  BY <1>1 DEF HasAck
<1>2. ASSUME NEW q \in Replies, NEW m \in Published, Publishes(q, m)
      PROVE  HasAck(r)'
  <2>1. TypeOK
    BY DEF Known, IndInv
  <2>2. CASE q = r
    <3>1. /\ Len(out[r]) \in Nat /\ Len(out'[r]) = Len(out[r]) + 1
          /\ \A i \in 1..Len(out[r]) : out'[r][i] = out[r][i]
      BY <1>2, <2>1, <2>2, PublishGrows
    <3>2. PICK i \in 1..Len(out[r]) : out[r][i].type = "ack"
      BY DEF HasAck
    <3>3. i \in 1..Len(out'[r])
      BY <3>1
    <3> QED BY <3>1, <3>2, <3>3 DEF HasAck
  <2>3. CASE q # r
    <3>1. out'[r] = out[r]
      BY <1>2, <2>1, <2>3, PublishGrows
    <3> QED BY <3>1 DEF HasAck
  <2> QED BY <2>2, <2>3
<1> QED BY <1>1, <1>2, OutGrows

LEMMA AckFirstStep ==
  ASSUME Known, AckInv, [Next]_vars
  PROVE  AckFirst'
<1>0. TypeOK /\ IndInv
  BY DEF Known, IndInv
<1>1. CASE out' = out
  BY <1>1 DEF AckFirst, AckInv
<1>2. ASSUME NEW q \in Replies, NEW m \in Published, Publishes(q, m),
             m.by = "pump" => pump.at \in {"publish", "term"} /\ m.turn = pump.chunk.turn
      PROVE  AckFirst'
  <2> SUFFICES ASSUME NEW r \in Replies, NEW i \in 1..Len(out'[r]),
                      out'[r][i].by = "pump", ReplyOf[out'[r][i].turn] = r
               PROVE  \E j \in 1..(i - 1) : out'[r][j].type = "ack"
    BY DEF AckFirst
  <2>1. CASE q # r
    <3>1. out'[r] = out[r]
      BY <1>0, <1>2, <2>1, PublishGrows
    <3> QED BY <3>1 DEF AckFirst, AckInv
  <2>2. CASE q = r
    <3>1. /\ Len(out[r]) \in Nat /\ Len(out'[r]) = Len(out[r]) + 1
          /\ \A j \in 1..Len(out[r]) : out'[r][j] = out[r][j]
          /\ out'[r][Len(out[r]) + 1] = m
          /\ i \in 1..Len(out[r]) \/ i = Len(out[r]) + 1
      BY <1>0, <1>2, <2>2, PublishGrows
    <3>2. CASE i \in 1..Len(out[r])
      <4>1. PICK j \in 1..(i - 1) : out[r][j].type = "ack"
        BY <3>1, <3>2 DEF AckFirst, AckInv
      <4>2. j \in 1..Len(out[r])
        BY <3>1, <3>2
      <4> QED BY <3>1, <4>1, <4>2
    <3>3. CASE i = Len(out[r]) + 1
      <4>1. m.by = "pump" /\ ReplyOf[m.turn] = r
        BY <3>1, <3>3
      <4>2. m.turn \in Turns /\ agent[m.turn] # "none"
        BY <1>2, <4>1 DEF AckInv, ChunksAreOfAgent
      <4>3. HasAck(r)
        BY <4>1, <4>2 DEF AckInv, AgentIsAcked
      <4>4. PICK j \in 1..Len(out[r]) : out[r][j].type = "ack"
        BY <4>3 DEF HasAck
      <4>5. j \in 1..(i - 1)
        BY <3>1, <3>3
      <4> QED BY <3>1, <4>4, <4>5
    <3> QED BY <3>1, <3>2, <3>3
  <2> QED BY <2>1, <2>2
<1>3. ASSUME NEW h \in Handlers, RejectError(h) \/ RejectTerminator(h)
      PROVE  AckFirst'
  <2>1. \E m \in Published : m.by = "handler" /\ Publishes(ReplyOf[turn[h]], m)
    BY <1>0, <1>3, RejectErrorPublishes, RejectTerminatorPublishes
  <2>2. ReplyOf[turn[h]] \in Replies
    BY <2>1 DEF Publishes
  <2> QED BY <1>2, <2>1, <2>2
<1>4. CASE ServesClaimed
  BY <1>2, <1>4 DEF ServesClaimed
<1> QED BY <1>1, <1>3, <1>4, OutStep

LEMMA AgentIsAckedStep ==
  ASSUME Known, AckInv, [Next]_vars
  PROVE  AgentIsAcked'
<1>0. /\ pc \in [Handlers -> Places] /\ turn \in [Handlers -> Turns \cup {NoTurn}]
      /\ agent \in [Turns -> {"none", "working", "killed", "done", "repeated"}]
      /\ Sig \in Handlers /\ Endpoints \subseteq Handlers /\ TypeOK /\ IndInv
  BY DEF Known, IndInv, TypeOK, Handlers
<1>1. \A r \in Replies : HasAck(r) => HasAck(r)'
  BY HasAckStable
<1>2. \A h \in Handlers : pc[h] \in Dispatching =>
        turn[h] \in Turns /\ ReplyOf[turn[h]] \in Replies
  BY <1>0, DispatchingIsClaimed
<1>3. ASSUME NEW h \in Handlers, pc'[h] \in {"onPrompt", "arm"}
      PROVE  \/ pc[h] \in {"onPrompt", "arm"} /\ turn'[h] = turn[h]
             \/ PublishAck(h) /\ turn'[h] = turn[h]
  <2>1. ASSUME NEW g \in Handlers, DispatchStep(g)
        PROVE  \/ pc[h] \in {"onPrompt", "arm"} /\ turn'[h] = turn[h]
               \/ PublishAck(h) /\ turn'[h] = turn[h]
    <3>1. CASE g # h
      BY <1>0, <1>3, <2>1, <3>1, DispatchFrame
    <3>2. CASE g = h
      BY <1>0, <1>3, <2>1, <3>2 DEF DispatchStep, Goto, Finish, RejectError, RejectTerminator,
         ClaimSlot, AgentBusy, PublishAck, AckFails, OnPrompt, OnPromptFails, FailError,
         FailTerminator, FailClear, ArmWatchdog
    <3> QED BY <3>1, <3>2
  <2>2. CASE UNCHANGED <<pc, turn>>
    BY <1>3, <2>2
  <2>3. CASE InterruptStep
    BY <1>0, <1>3, <2>3 DEF Goto, AfterInterrupt, InterruptStep, InterruptIdle,
       InterruptRelease, InterruptCancel, InterruptAbort, InterruptNote, InterruptTerminator
  <2>4. CASE Environment
    BY <1>0, <1>3, <2>4 DEF Environment, HandlePubPrompt, HandlePrompt, Deliver,
       HandleInterrupt, HandleRedirect, DropRedirect, AdapterResponse, AdapterEnds,
       AdapterRepeats, AdapterCloses, Shutdown, handlerVars, Goto
  <2>5. (\E t \in Turns : WatchdogStep(t)) => UNCHANGED <<pc, turn>>
    BY DEF WatchdogStep, WatchdogFires, WatchdogMismatch, WatchdogTerminator,
       WatchdogShutdown, handlerVars
  <2>6. PumpStep => UNCHANGED <<pc, turn>>
    BY DEF PumpStep, PumpExit, PumpDrop, PumpReceive, PumpLoadTrace, PumpPublish, PumpError,
       PumpTerminator, PumpClear, handlerVars
  <2> QED BY <2>1, <2>2, <2>3, <2>4, <2>5, <2>6 DEF Next, vars, handlerVars
<1>4. ASSUME NEW h \in Handlers, PublishAck(h)
      PROVE  HasAck(ReplyOf[turn[h]])'
  <2>a. PICK r \in Replies : r = ReplyOf[turn[h]] /\ turn[h] \in Turns
    BY <1>2, <1>4 DEF PublishAck, Dispatching
  <2>b. PICK m : m = Message("ack", turn[h], turn[h], "handler")
    OBVIOUS
  <2>c. turn' = turn
    BY <1>4 DEF PublishAck
  <2>1. m \in Published /\ m.type = "ack"
    BY <2>a, <2>b DEF Message, Published
  <2>2. Publishes(r, m)
    BY <1>4, <2>a, <2>b, <2>1 DEF PublishAck, publishChunk, Publishes
  <2>3. /\ Len(out[r]) \in Nat /\ Len(out'[r]) = Len(out[r]) + 1
        /\ out'[r][Len(out[r]) + 1] = m
    BY <1>0, <2>1, <2>2, PublishGrows
  <2>4. Len(out[r]) + 1 \in 1..Len(out'[r])
    BY <2>3
  <2>5. HasAck(r)'
    BY <2>1, <2>3, <2>4 DEF HasAck
  <2> QED BY <2>a, <2>c, <2>5 DEF HasAck
<1>5. ASSUME NEW h \in Handlers, pc'[h] \in {"onPrompt", "arm"}
      PROVE  HasAck(ReplyOf[turn[h]])'
  <2>1. CASE PublishAck(h) /\ turn'[h] = turn[h]
    BY <1>4, <2>1
  <2>2. CASE pc[h] \in {"onPrompt", "arm"} /\ turn'[h] = turn[h]
    <3>1. HasAck(ReplyOf[turn[h]]) /\ ReplyOf[turn[h]] \in Replies
      BY <1>2, <2>2 DEF AckInv, AgentIsAcked, Dispatching
    <3>2. PICK r \in Replies : r = ReplyOf[turn[h]]
      BY <3>1
    <3>3. HasAck(r)'
      BY <1>1, <3>1, <3>2
    <3> QED BY <2>2, <3>2, <3>3 DEF HasAck
  <2> QED BY <1>3, <1>5, <2>1, <2>2
<1>6. ASSUME NEW t \in Turns, agent'[t] # "none"
      PROVE  ReplyOf[t] \in Replies /\ HasAck(ReplyOf[t])'
  <2>1. CASE agent[t] # "none"
    <3>1. ReplyOf[t] \in Replies /\ HasAck(ReplyOf[t])
      BY <2>1 DEF AckInv, AgentIsAcked
    <3> QED BY <1>1, <3>1
  <2>2. ASSUME NEW h \in Handlers, OnPrompt(h), turn[h] = t
        PROVE  ReplyOf[t] \in Replies /\ HasAck(ReplyOf[t])'
    <3>1. pc[h] = "onPrompt"
      BY <2>2 DEF OnPrompt
    <3>2. HasAck(ReplyOf[t]) /\ ReplyOf[t] \in Replies
      BY <1>2, <2>2, <3>1 DEF AckInv, AgentIsAcked, Dispatching
    <3> QED BY <1>1, <3>2
  <2>3. CASE agent[t] = "none"
    <3>1. ASSUME NEW h \in Handlers, DispatchStep(h)
          PROVE  OnPrompt(h) /\ turn[h] = t
      BY <1>0, <1>6, <2>3, <3>1 DEF DispatchStep, RejectError, RejectTerminator,
         ClaimSlot, AgentBusy, PublishAck, AckFails, OnPrompt, OnPromptFails, FailError,
         FailTerminator, FailClear, ArmWatchdog, adapterVars
    <3>2. ~InterruptStep
      BY <1>0, <1>6, <2>3 DEF InterruptStep, InterruptIdle, InterruptRelease, InterruptCancel,
         InterruptAbort, InterruptNote, InterruptTerminator, adapterVars
    <3>3. ~(\E u \in Turns : WatchdogStep(u)) /\ ~PumpStep
      BY <1>6, <2>3 DEF WatchdogStep, WatchdogFires, WatchdogMismatch, WatchdogTerminator,
         WatchdogShutdown, PumpStep, PumpExit, PumpDrop, PumpReceive, PumpLoadTrace,
         PumpPublish, PumpError, PumpTerminator, PumpClear, adapterVars
    <3>4. ~Environment
      BY <1>0, <1>6, <2>3 DEF Environment, HandlePubPrompt, HandlePrompt, Deliver,
         HandleInterrupt, HandleRedirect, DropRedirect, AdapterResponse, AdapterEnds,
         AdapterRepeats, AdapterCloses, Shutdown, adapterVars
    <3> QED BY <1>6, <2>2, <2>3, <3>1, <3>2, <3>3, <3>4 DEF Next, vars, adapterVars
  <2> QED BY <2>1, <2>3
<1> QED BY <1>5, <1>6 DEF AgentIsAcked

LEMMA ChunksStep ==
  ASSUME TypeOK, ChunksAreOfAgent, [Next]_vars
  PROVE  ChunksAreOfAgent'
<1>0. /\ agent \in [Turns -> {"none", "working", "killed", "done", "repeated"}]
      /\ events \in Seq(Chunk)
  BY DEF TypeOK
<1>1. ASSUME \A t \in Turns : agent[t] # "none" => agent'[t] # "none",
             \/ events' = events
             \/ \E c : c.turn \in Turns /\ agent[c.turn] # "none" /\ c \in Chunk
                       /\ events' = Append(events, c),
             pump' = pump
      PROVE  ChunksAreOfAgent'
  <2>1. CASE events' = events
    BY <1>1, <2>1 DEF ChunksAreOfAgent
  <2>2. ASSUME NEW c \in Chunk, c.turn \in Turns, agent[c.turn] # "none",
               events' = Append(events, c)
        PROVE  ChunksAreOfAgent'
    <3>1. /\ Len(events') = Len(events) + 1 /\ Len(events) \in Nat
          /\ \A i \in 1..Len(events) : events'[i] = events[i]
          /\ events'[Len(events) + 1] = c
      BY <1>0, <2>2
    <3>2. \A i \in 1..Len(events') : i \in 1..Len(events) \/ i = Len(events) + 1
      BY <3>1
    <3> QED BY <1>1, <2>2, <3>1, <3>2 DEF ChunksAreOfAgent
  <2> QED BY <1>1, <2>1, <2>2
<1>2. ASSUME agent' = agent, events' = events,
             \/ pump' = pump
             \/ pump'.at \notin {"trace", "publish", "term", "clear"}
             \/ pump'.chunk = pump.chunk /\ pump.at \in {"trace", "publish", "term"}
      PROVE  ChunksAreOfAgent'
  BY <1>2 DEF ChunksAreOfAgent
<1>3. ASSUME events # << >>
      PROVE  /\ Head(events) = events[1] /\ 1 \in 1..Len(events)
             /\ \A i \in 1..Len(Tail(events)) :
                  i + 1 \in 1..Len(events) /\ Tail(events)[i] = events[i + 1]
  BY <1>0, <1>3
<1>4. CASE PumpStep
  <2>1. CASE PumpReceive
    BY <1>3, <2>1 DEF PumpReceive, Pump, ChunksAreOfAgent
  <2>2. CASE PumpDrop
    BY <1>3, <2>2 DEF PumpDrop, ChunksAreOfAgent
  <2>3. CASE ~PumpReceive /\ ~PumpDrop
    <3>1. /\ \/ pump' = pump
             \/ pump'.at \notin {"trace", "publish", "term", "clear"}
             \/ pump'.chunk = pump.chunk /\ pump.at \in {"trace", "publish", "term"}
          /\ agent' = agent /\ events' = events
      BY <1>4, <2>3 DEF PumpStep, PumpExit, PumpLoadTrace, PumpPublish, PumpError,
         PumpTerminator, PumpClear, Pump, PumpAt, adapterVars
    <3> QED BY <1>2, <3>1
  <2> QED BY <2>1, <2>2, <2>3
<1>5. CASE \E h \in Handlers : DispatchStep(h)
  <2>1. /\ \A t \in Turns : agent[t] # "none" => agent'[t] # "none"
        /\ pump' = pump /\ events' = events
    BY <1>0, <1>5 DEF DispatchStep, RejectError, RejectTerminator,
       ClaimSlot, AgentBusy, PublishAck, AckFails, OnPrompt, OnPromptFails, FailError,
       FailTerminator, FailClear, ArmWatchdog, adapterVars
  <2> QED BY <1>1, <2>1
<1>6. CASE InterruptStep
  <2>1. /\ \A t \in Turns : agent[t] # "none" => agent'[t] # "none"
        /\ pump' = pump /\ events' = events
    BY <1>0, <1>6 DEF InterruptStep, InterruptIdle, InterruptRelease, InterruptCancel,
       InterruptAbort, InterruptNote, InterruptTerminator, adapterVars
  <2> QED BY <1>1, <2>1
<1>7. CASE (\E u \in Turns : WatchdogStep(u)) \/ UNCHANGED vars
  BY <1>2, <1>7 DEF WatchdogStep, WatchdogFires, WatchdogMismatch, WatchdogTerminator,
     WatchdogShutdown, vars, adapterVars
<1>8. CASE Environment
  <2>1. ASSUME NEW t \in Turns, AdapterResponse(t) \/ AdapterEnds(t) \/ AdapterRepeats(t)
        PROVE  ChunksAreOfAgent'
    <3>1. PICK kind \in {"response", "term", "error"} : Send(kind, t)
      BY <2>1 DEF AdapterResponse, AdapterEnds, AdapterRepeats
    <3>2. PICK c : c = [kind |-> kind, turn |-> t]
      OBVIOUS
    <3>3. c \in Chunk /\ c.turn = t /\ events' = Append(events, c)
      BY <3>1, <3>2 DEF Chunk, Send
    <3>4. /\ \A u \in Turns : agent[u] # "none" => agent'[u] # "none"
          /\ pump' = pump /\ agent[t] # "none"
      BY <1>0, <2>1 DEF AdapterResponse, AdapterEnds, AdapterRepeats
    <3> QED BY <1>1, <3>3, <3>4
  <2>2. CASE UNCHANGED <<agent, events, pump>>
    BY <1>2, <2>2
  <2> QED
    BY <1>8, <2>1, <2>2 DEF Environment, HandlePubPrompt, HandlePrompt, Deliver,
       HandleInterrupt, HandleRedirect, DropRedirect, AdapterCloses, Shutdown, adapterVars
<1> QED BY <1>4, <1>5, <1>6, <1>7, <1>8 DEF Next

LEMMA AckInvCorrect == Spec => []AckInv
<1>1. Known /\ AckInv /\ [Next]_vars => AckInv'
  BY AckFirstStep, AgentIsAckedStep, ChunksStep DEF AckInv, Known, IndInv
<1> QED BY <1>1, InitAck, KnownCorrect, PTL DEF Spec

(* Whatever the agent does with a turn, its stream has the ack before what *)
(* the pump publishes of it.                                               *)
THEOREM AckBeforeOwnWorkCorrect == Spec => []AckBeforeOwnWork
<1>1. TypeOK /\ AckInv => AckBeforeOwnWork
  <2> SUFFICES ASSUME TypeOK, AckInv, NEW r \in Replies, NEW i \in DOMAIN out[r],
                      out[r][i].by = "pump", ReplyOf[out[r][i].turn] = r
               PROVE  \E j \in 1..(i - 1) : out[r][j].type = "ack"
    BY DEF AckBeforeOwnWork
  <2>1. DOMAIN out[r] = 1..Len(out[r])
    BY DEF TypeOK
  <2> QED BY <2>1 DEF AckInv, AckFirst
<1> QED BY <1>1, AckInvCorrect, TypeCorrect, PTL

-----------------------------------------------------------------------------
(* Where output goes.  The pump holds a chunk for the stream of its turn,  *)
(* or the turn had lost the slot when it took the chunk, for good.         *)

PumpServesItsTurn ==
  pump.at \in {"trace", "publish", "term", "clear"} =>
    pump.chunk.turn \in Finished \/ pump.reply = ReplyOf[pump.chunk.turn]

OutputInv ==
  /\ PumpServesItsTurn
  /\ \A r \in Replies : \A i \in 1..Len(out[r]) :
       Strays(r, i) => out[r][i].turn \in Finished

LEMMA InitOutput == Init => OutputInv
<1>1. 1..0 = {} /\ Len(<< >>) = 0
  OBVIOUS
<1> QED BY <1>1 DEF Init, OutputInv, PumpServesItsTurn, PumpAt, Pump

LEMMA FinishedGrows ==
  ASSUME TypeOK, [Next]_vars
  PROVE  Finished \subseteq Finished'
  BY SlotSteps DEF FinishActive

(* A turn the agent works on holds the slot, or has lost it.               *)
LEMMA ChunkOfSlot ==
  ASSUME IndInv, ChunksAreOfAgent, events # << >>
  PROVE  /\ Head(events).turn \in Turns
         /\ Head(events).turn \notin Finished =>
              activeReply = ReplyOf[Head(events).turn] /\ activeReply # NoReply
<1>1. events \in Seq(Chunk)
  BY DEF IndInv, TypeOK
<1>2. Head(events) = events[1] /\ 1 \in 1..Len(events)
  BY <1>1
<1>3. PICK t \in Turns : t = Head(events).turn /\ agent[t] # "none"
  BY <1>2 DEF ChunksAreOfAgent
<1>4. t \notin Finished => activeCancel = t
  BY <1>3 DEF IndInv, TurnsAccounted, Dispatched
<1> QED BY <1>3, <1>4, ShimTurnAssumption DEF IndInv, SlotAgrees

LEMMA LiveOutputStep ==
  ASSUME IndInv, ChunksAreOfAgent, [Next]_vars
  PROVE  LiveOutputIsTaken
<1> SUFFICES ASSUME NEW t \in Turns \ Finished, events # << >>, Head(events).turn = t,
                    events' = Tail(events)
             PROVE  pump'.reply = ReplyOf[t]
  BY DEF LiveOutputIsTaken
<1>1. events \in Seq(Chunk)
  BY DEF IndInv, TypeOK
<1>2. activeReply = ReplyOf[t] /\ activeReply # NoReply
  BY ChunkOfSlot
<1>3. Len(events') < Len(events)
  BY <1>1
<1>4. PumpReceive
  <2>1. ASSUME events' = events
        PROVE  FALSE
    BY <1>1, <1>3, <2>1
  <2>2. ASSUME NEW c \in Chunk, events' = Append(events, c)
        PROVE  FALSE
    BY <1>1, <1>3, <2>2
  <2>3. ASSUME NEW u \in Turns, AdapterResponse(u) \/ AdapterEnds(u) \/ AdapterRepeats(u)
        PROVE  FALSE
    <3>1. PICK kind \in {"response", "term", "error"} : Send(kind, u)
      BY <2>3 DEF AdapterResponse, AdapterEnds, AdapterRepeats
    <3>2. [kind |-> kind, turn |-> u] \in Chunk
      BY DEF Chunk
    <3> QED BY <2>2, <3>1, <3>2 DEF Send
  <2>4. ~PumpDrop
    BY <1>2 DEF PumpDrop
  <2>5. CASE PumpStep
    BY <2>1, <2>4, <2>5 DEF PumpStep, PumpExit, PumpLoadTrace, PumpPublish, PumpError,
       PumpTerminator, PumpClear, adapterVars
  <2>6. ASSUME NEW h \in Handlers, DispatchStep(h)
        PROVE  FALSE
    BY <2>1, <2>6 DEF DispatchStep, RejectError, RejectTerminator, ClaimSlot, AgentBusy,
       PublishAck, AckFails, OnPrompt, OnPromptFails, FailError, FailTerminator, FailClear,
       ArmWatchdog, adapterVars
  <2>7. CASE InterruptStep
    BY <2>1, <2>7 DEF InterruptStep, InterruptIdle, InterruptRelease, InterruptCancel,
       InterruptAbort, InterruptNote, InterruptTerminator, adapterVars
  <2>8. CASE (\E u \in Turns : WatchdogStep(u)) \/ UNCHANGED vars
    BY <2>1, <2>8 DEF WatchdogStep, WatchdogFires, WatchdogMismatch, WatchdogTerminator,
       WatchdogShutdown, vars, adapterVars
  <2>9. CASE Environment
    BY <2>1, <2>3, <2>9 DEF Environment, HandlePubPrompt, HandlePrompt, Deliver,
       HandleInterrupt, HandleRedirect, DropRedirect, AdapterCloses, Shutdown, adapterVars
  <2> QED BY <2>5, <2>6, <2>7, <2>8, <2>9 DEF Next
<1> QED BY <1>2, <1>4 DEF PumpReceive, Pump

LEMMA PumpServesStep ==
  ASSUME IndInv, ChunksAreOfAgent, PumpServesItsTurn, [Next]_vars
  PROVE  PumpServesItsTurn'
<1>1. Finished \subseteq Finished'
  BY FinishedGrows DEF IndInv
<1>2. ASSUME \/ pump' = pump
             \/ pump'.at \notin {"trace", "publish", "term", "clear"}
             \/ /\ pump'.chunk = pump.chunk /\ pump'.reply = pump.reply
                /\ pump.at \in {"trace", "publish", "term"}
      PROVE  PumpServesItsTurn'
  BY <1>1, <1>2 DEF PumpServesItsTurn
<1>3. CASE PumpReceive
  <2>1. Head(events).turn \notin Finished => activeReply = ReplyOf[Head(events).turn]
    BY <1>3, ChunkOfSlot DEF PumpReceive
  <2> QED BY <1>1, <1>3, <2>1 DEF PumpReceive, Pump, PumpServesItsTurn
<1>4. CASE PumpStep /\ ~PumpReceive
  BY <1>2, <1>4 DEF PumpStep, PumpExit, PumpDrop, PumpLoadTrace, PumpPublish, PumpError,
     PumpTerminator, PumpClear, Pump, PumpAt
<1>5. ASSUME ~PumpStep
      PROVE  pump' = pump
  BY <1>5 DEF Next, DispatchStep, RejectError, RejectTerminator, ClaimSlot, AgentBusy,
     PublishAck, AckFails, OnPrompt, OnPromptFails, FailError, FailTerminator, FailClear,
     ArmWatchdog, InterruptStep, InterruptIdle, InterruptRelease, InterruptCancel,
     InterruptAbort, InterruptNote, InterruptTerminator, WatchdogStep, WatchdogFires,
     WatchdogMismatch, WatchdogTerminator, WatchdogShutdown, Environment, HandlePubPrompt,
     HandlePrompt, Deliver, HandleInterrupt, HandleRedirect, DropRedirect, AdapterResponse,
     AdapterEnds, AdapterRepeats, AdapterCloses, Shutdown, vars
<1> QED BY <1>2, <1>3, <1>4, <1>5

LEMMA OutputStep ==
  ASSUME Known, AckInv, OutputInv, [Next]_vars
  PROVE  OutputInv'
<1>0. TypeOK /\ IndInv
  BY DEF Known, IndInv
<1>1. PumpServesItsTurn'
  BY <1>0, PumpServesStep DEF OutputInv, AckInv
<1>2. Finished \subseteq Finished'
  BY <1>0, FinishedGrows
<1>3. ASSUME NEW q \in Replies, NEW m \in Published, Publishes(q, m),
             m.by = "pump" => /\ pump.at \in {"publish", "term"} /\ m.turn = pump.chunk.turn
                              /\ q = pump.reply
      PROVE  OutputInv'
  <2> SUFFICES ASSUME NEW r \in Replies, NEW i \in 1..Len(out'[r]),
                      out'[r][i].by = "pump", ReplyOf[out'[r][i].turn] # r
               PROVE  out'[r][i].turn \in Finished'
    BY <1>1 DEF OutputInv, Strays
  <2>1. CASE i \in 1..Len(out[r]) /\ out'[r][i] = out[r][i]
    BY <1>2, <2>1 DEF OutputInv, Strays
  <2>2. CASE r = q /\ out'[r][i] = m
    BY <1>2, <1>3, <2>2 DEF OutputInv, PumpServesItsTurn
  <2>3. CASE r # q
    <3>1. out'[r] = out[r]
      BY <1>0, <1>3, <2>3, PublishGrows
    <3> QED BY <2>1, <3>1
  <2>4. CASE r = q
    BY <1>0, <1>3, <2>1, <2>2, <2>4, PublishGrows
  <2> QED BY <2>3, <2>4
<1>4. CASE out' = out
  BY <1>1, <1>2, <1>4 DEF OutputInv, Strays
<1>5. ASSUME NEW h \in Handlers, RejectError(h) \/ RejectTerminator(h)
      PROVE  OutputInv'
  <2>1. PICK m \in Published : m.by = "handler" /\ Publishes(ReplyOf[turn[h]], m)
    BY <1>0, <1>5, RejectErrorPublishes, RejectTerminatorPublishes
  <2>2. PICK q \in Replies : q = ReplyOf[turn[h]]
    BY <2>1 DEF Publishes
  <2> QED BY <1>3, <2>1, <2>2
<1>6. CASE ServesClaimed
  <2>1. PICK t \in Turns, m \in Published :
          /\ ReplyOf[t] \in Replies /\ Publishes(ReplyOf[t], m)
          /\ m.by = "pump" => /\ pump.at \in {"publish", "term"} /\ m.turn = pump.chunk.turn
                              /\ ReplyOf[t] = pump.reply
    BY <1>6 DEF ServesClaimed
  <2> QED BY <1>3, <2>1
<1> QED BY <1>4, <1>5, <1>6, OutStep

(* What the agent writes for a turn in flight is neither dropped nor       *)
(* published to another caller: only the output of a turn that has lost    *)
(* the slot goes astray; also when two requests carry one reply subject.   *)
THEOREM LiveOutputFindsItsStreamCorrect == Spec => LiveOutputFindsItsStream
<1>1. TypeOK /\ OutputInv => OnlyLateOutputStrays
  <2> SUFFICES ASSUME TypeOK, OutputInv, NEW r \in Replies, NEW i \in DOMAIN out[r],
                      Strays(r, i)
               PROVE  out[r][i].turn \in Finished
    BY DEF OnlyLateOutputStrays
  <2>1. DOMAIN out[r] = 1..Len(out[r])
    BY DEF TypeOK
  <2> QED BY <2>1 DEF OutputInv
<1>2. Known /\ AckInv /\ [Next]_vars => [LiveOutputIsTaken]_vars
  BY LiveOutputStep DEF Known, AckInv
<1>3. Known /\ AckInv /\ OutputInv /\ [Next]_vars => OutputInv'
  BY OutputStep
<1>4. Known => TypeOK
  BY DEF Known, IndInv
<1> QED
  BY <1>1, <1>2, <1>3, <1>4, InitOutput, KnownCorrect, AckInvCorrect, PTL
     DEF Spec, LiveOutputFindsItsStream

-----------------------------------------------------------------------------
(* One terminator per closer. *)

IsTerm(s, i, closers) == s[i].type = "term" /\ s[i].by \in closers

NoTerm(s, closers) == \A i \in 1..Len(s) : ~IsTerm(s, i, closers)

OneTerm(s, closers) ==
  \A i, j \in 1..Len(s) : IsTerm(s, i, closers) /\ IsTerm(s, j, closers) => i = j

Racers == {"watchdog", "signal"}

(* The watchdog of a turn of r, or the interrupt, has r to terminate.      *)
WatchdogHas(r) == \E t \in Turns : watchdog[t] = "closing" /\ ReplyOf[t] = r
InterruptHas(r) == Interrupting /\ victim.reply = r

HandlerClosesOnce ==
  \A h \in Handlers : pc[h] \in {"ack", "onPrompt", "arm", "fail", "failTerm"} =>
    NoTerm(out[ReplyOf[turn[h]]], {"handler"})

PumpClosesOnce ==
  /\ \A r \in Replies : activeReply = r =>
       NoTerm(out[r], {"pump"}) \/ (pump.at = "clear" /\ pump.reply = r)
  /\ pump.at \in {"trace", "publish", "term"} => NoTerm(out[pump.reply], {"pump"})

(* The slot is what the watchdog and the interrupt race for. *)
RacersCloseOnce ==
  \A r \in Replies :
    /\ activeReply = r => NoTerm(out[r], Racers) /\ ~WatchdogHas(r) /\ ~InterruptHas(r)
    /\ WatchdogHas(r) => NoTerm(out[r], Racers) /\ ~InterruptHas(r)
    /\ InterruptHas(r) => NoTerm(out[r], Racers)

TermInv ==
  /\ HandlerClosesOnce /\ PumpClosesOnce /\ RacersCloseOnce
  /\ \A r \in Replies : \A closers \in {{"handler"}, {"pump"}, Racers} :
       OneTerm(out[r], closers)

LEMMA InitTerm == Init => TermInv
<1> SUFFICES ASSUME Init PROVE TermInv
  OBVIOUS
<1>1. 1..0 = {} /\ Len(<< >>) = 0
  OBVIOUS
<1>2. \A r \in Replies : out[r] = << >>
  BY DEF Init
<1>3. HandlerClosesOnce /\ PumpClosesOnce
  BY <1>1, <1>2 DEF Init, HandlerClosesOnce, PumpClosesOnce, NoTerm, PumpAt, Pump
<1>4. RacersCloseOnce
  BY <1>1, <1>2 DEF Init, RacersCloseOnce, NoTerm, WatchdogHas, InterruptHas, Interrupting,
     Handlers
<1>5. \A r \in Replies : \A closers \in {{"handler"}, {"pump"}, Racers} : OneTerm(out[r], closers)
  BY <1>1, <1>2 DEF OneTerm
<1> QED BY <1>3, <1>4, <1>5 DEF TermInv

(* A stream that none of the closers closes in this step keeps what it has *)
(* of their terminators, and gets at most one more.                        *)
LEMMA TermsKept ==
  ASSUME Known, [Next]_vars, NEW r \in Replies, NEW closers
  PROVE  /\ NoTerm(out[r], closers) => OneTerm(out'[r], closers)
         /\ \/ \E by \in closers : Closes(by, r)
            \/ /\ NoTerm(out[r], closers) => NoTerm(out'[r], closers)
               /\ OneTerm(out[r], closers) => OneTerm(out'[r], closers)
<1>0. TypeOK /\ IndInv
  BY DEF Known, IndInv
<1> DEFINE Kept == /\ NoTerm(out[r], closers) => NoTerm(out'[r], closers)
                   /\ OneTerm(out[r], closers) => OneTerm(out'[r], closers)
<1>1. CASE out'[r] = out[r]
  BY <1>1 DEF NoTerm, OneTerm, IsTerm
<1>2. ASSUME NEW m \in Published, Publishes(r, m)
      PROVE  /\ NoTerm(out[r], closers) => OneTerm(out'[r], closers)
             /\ m.type # "term" \/ m.by \notin closers => Kept
  <2>1. /\ Len(out[r]) \in Nat /\ Len(out'[r]) = Len(out[r]) + 1
        /\ \A i \in 1..Len(out[r]) : out'[r][i] = out[r][i]
        /\ out'[r][Len(out[r]) + 1] = m
        /\ \A i \in 1..Len(out'[r]) : i \in 1..Len(out[r]) \/ i = Len(out[r]) + 1
    BY <1>0, <1>2, PublishGrows
  <2>2. \A i \in 1..Len(out[r]) : IsTerm(out'[r], i, closers) <=> IsTerm(out[r], i, closers)
    BY <2>1 DEF IsTerm
  <2>3. NoTerm(out[r], closers) => OneTerm(out'[r], closers)
    <3> SUFFICES ASSUME NoTerm(out[r], closers), NEW i \in 1..Len(out'[r]),
                        IsTerm(out'[r], i, closers)
                 PROVE  i = Len(out[r]) + 1
      BY DEF OneTerm
    <3> QED BY <2>1, <2>2 DEF NoTerm
  <2>4. ASSUME m.type # "term" \/ m.by \notin closers
        PROVE  Kept
    <3>1. \A i \in 1..Len(out'[r]) : IsTerm(out'[r], i, closers) =>
            i \in 1..Len(out[r]) /\ IsTerm(out[r], i, closers)
      BY <2>1, <2>2, <2>4 DEF IsTerm
    <3> QED BY <3>1 DEF NoTerm, OneTerm
  <2> QED BY <2>3, <2>4
<1>3. NoTerm(out[r], closers) => OneTerm(out[r], closers)
  BY DEF NoTerm, OneTerm
<1>4. ASSUME NEW q \in Replies, NEW m \in Published, Publishes(q, m),
             m.type = "term" => Closes(m.by, q)
      PROVE  /\ NoTerm(out[r], closers) => OneTerm(out'[r], closers)
             /\ (\E by \in closers : Closes(by, r)) \/ Kept
  <2>1. CASE q = r
    BY <1>2, <1>4, <2>1
  <2>2. CASE q # r
    <3>1. out'[r] = out[r]
      BY <1>0, <1>4, <2>2, PublishGrows
    <3> QED BY <1>1, <1>3, <3>1
  <2> QED BY <2>1, <2>2
<1>5. ASSUME NEW h \in Handlers, RejectError(h) \/ RejectTerminator(h)
      PROVE  /\ NoTerm(out[r], closers) => OneTerm(out'[r], closers)
             /\ (\E by \in closers : Closes(by, r)) \/ Kept
  <2>1. CASE RejectError(h)
    <3>1. PICK m \in Published : m.type = "reject" /\ Publishes(ReplyOf[turn[h]], m)
      BY <1>0, <2>1, RejectErrorPublishes
    <3>2. PICK q \in Replies : q = ReplyOf[turn[h]]
      BY <3>1 DEF Publishes
    <3> QED BY <1>4, <3>1, <3>2
  <2>2. CASE RejectTerminator(h)
    <3>1. PICK m \in Published : /\ m.type = "term" /\ m.by = "handler"
                                 /\ Publishes(ReplyOf[turn[h]], m)
      BY <1>0, <2>2, RejectTerminatorPublishes
    <3>2. PICK q \in Replies : q = ReplyOf[turn[h]]
      BY <3>1 DEF Publishes
    <3>3. Closes("handler", q)
      BY <2>2, <3>2 DEF Closes
    <3> QED BY <1>4, <3>1, <3>2, <3>3
  <2> QED BY <1>5, <2>1, <2>2
<1>6. CASE ServesClaimed
  BY <1>4, <1>6 DEF ServesClaimed
<1>7. CASE out' = out
  BY <1>1, <1>3, <1>7
<1> QED BY <1>5, <1>6, <1>7, OutStep

(* An empty stream has no terminator. *)
LEMMA EmptyHasNone ==
  ASSUME NEW s, Len(s) = 0, NEW closers
  PROVE  NoTerm(s, closers)
<1>1. 1..0 = {}
  OBVIOUS
<1> QED BY <1>1 DEF NoTerm

LEMMA WaitingHasNone ==
  ASSUME StreamsInv, NEW t \in Turns, Waiting(t), ReplyOf[t] \in Replies, NEW closers
  PROVE  NoTerm(out[ReplyOf[t]], closers)
  BY EmptyHasNone DEF StreamsInv, StreamOfTurn, Stream

-----------------------------------------------------------------------------
(* The handler: its place says what it has published. *)

LEMMA HandlerStep ==
  ASSUME Known, DistinctReplies, StreamsInv, TermInv, [Next]_vars
  PROVE  /\ HandlerClosesOnce'
         /\ \A r \in Replies : OneTerm(out'[r], {"handler"})
<1>0. /\ pc \in [Handlers -> Places] /\ turn \in [Handlers -> Turns \cup {NoTurn}]
      /\ Sig \in Handlers /\ Endpoints \subseteq Handlers /\ TypeOK /\ IndInv
      /\ NoTurn \notin Turns
  BY ShimTurnAssumption DEF Known, IndInv, TypeOK, Handlers
<1>1. \A g, h \in Handlers : turn[g] = turn[h] /\ turn[g] \in Turns => g = h
  BY <1>0 DEF IndInv, HandlerTurns
<1>2. ASSUME NEW h \in Handlers, FailTerminator(h)
      PROVE  /\ turn[h] \in Turns /\ ReplyOf[turn[h]] \in Replies
             /\ NoTerm(out[ReplyOf[turn[h]]], {"handler"})
             /\ pc' = [pc EXCEPT ![h] = "failClear"] /\ turn' = turn
  <2>1. pc[h] = "failTerm"
    BY <1>2 DEF FailTerminator
  <2>2. turn[h] \in Turns /\ ReplyOf[turn[h]] \in Replies
    BY <1>0, <2>1, DispatchingIsClaimed DEF Dispatching
  <2> QED BY <1>2, <2>1, <2>2 DEF FailTerminator, Goto, TermInv, HandlerClosesOnce
<1>3. ASSUME NEW h \in Handlers, RejectTerminator(h)
      PROVE  /\ turn[h] \in Turns /\ ReplyOf[turn[h]] \in Replies
             /\ NoTerm(out[ReplyOf[turn[h]]], {"handler"})
             /\ pc' = [pc EXCEPT ![h] = "idle"]
             /\ turn' = [turn EXCEPT ![h] = NoTurn]
  <2>1. /\ turn[h] \in Turns /\ pc[h] = "rejectTerm"
        /\ turn' = [turn EXCEPT ![h] = NoTurn] /\ pc' = [pc EXCEPT ![h] = "idle"]
        /\ ReplyOf[turn[h]] \in Replies
    BY <1>0, <1>3, RejectTerminatorPublishes DEF Publishes
  <2>2. Len(Stream(turn[h])) = 1 /\ Stream(turn[h])[1].type = "reject"
    BY <2>1 DEF StreamsInv, StreamOfTurn, Refused
  <2>3. 1..1 = {1}
    OBVIOUS
  <2>4. NoTerm(out[ReplyOf[turn[h]]], {"handler"})
    BY <2>2, <2>3 DEF NoTerm, IsTerm, Stream
  <2> QED BY <2>1, <2>4
<1>4. ASSUME NEW r \in Replies, Closes("handler", r)
      PROVE  /\ NoTerm(out[r], {"handler"})
             /\ \A h \in Handlers :
                  pc'[h] \in {"ack", "onPrompt", "arm", "fail", "failTerm"} /\ turn[h] \in Turns
                    => ReplyOf[turn[h]] # r
  <2>1. PICK g \in Handlers : /\ FailTerminator(g) \/ RejectTerminator(g)
                              /\ ReplyOf[turn[g]] = r
    BY <1>4 DEF Closes
  <2>2. /\ turn[g] \in Turns /\ NoTerm(out[r], {"handler"})
        /\ pc'[g] \in {"failClear", "idle"}
    BY <1>0, <1>2, <1>3, <2>1
  <2>3. ASSUME NEW h \in Handlers, pc'[h] \in {"ack", "onPrompt", "arm", "fail", "failTerm"},
               turn[h] \in Turns, ReplyOf[turn[h]] = r
        PROVE  FALSE
    <3>1. turn[h] = turn[g]
      BY <2>1, <2>2, <2>3 DEF DistinctReplies
    <3>2. h = g
      BY <1>1, <2>2, <3>1
    <3> QED BY <2>2, <2>3, <3>2
  <2> QED BY <2>2, <2>3
<1>5. \A r \in Replies : OneTerm(out'[r], {"handler"})
  <2> SUFFICES ASSUME NEW r \in Replies PROVE OneTerm(out'[r], {"handler"})
    OBVIOUS
  <2>1. CASE Closes("handler", r)
    BY <1>4, <2>1, TermsKept
  <2>2. CASE ~Closes("handler", r)
    BY <2>2, TermsKept DEF TermInv
  <2> QED BY <2>1, <2>2
<1>6. ASSUME NEW h \in Handlers,
             pc'[h] \in {"ack", "onPrompt", "arm", "fail", "failTerm"}
      PROVE  /\ turn'[h] = turn[h]
             /\ pc[h] \in {"ack", "onPrompt", "arm", "fail", "failTerm", "dispatch"}
  <2>1. ASSUME NEW g \in Handlers, DispatchStep(g)
        PROVE  /\ turn'[h] = turn[h]
               /\ pc[h] \in {"ack", "onPrompt", "arm", "fail", "failTerm", "dispatch"}
    <3>1. CASE g # h
      BY <1>0, <1>6, <2>1, <3>1, DispatchFrame
    <3>2. CASE g = h
      BY <1>0, <1>6, <2>1, <3>2 DEF DispatchStep, Goto, Finish, RejectError, RejectTerminator,
         ClaimSlot, AgentBusy, PublishAck, AckFails, OnPrompt, OnPromptFails, FailError,
         FailTerminator, FailClear, ArmWatchdog
    <3> QED BY <3>1, <3>2
  <2>2. CASE UNCHANGED <<pc, turn>>
    BY <1>6, <2>2
  <2>3. CASE InterruptStep
    BY <1>0, <1>6, <2>3 DEF Goto, AfterInterrupt, InterruptStep, InterruptIdle,
       InterruptRelease, InterruptCancel, InterruptAbort, InterruptNote, InterruptTerminator
  <2>4. CASE Environment
    BY <1>0, <1>6, <2>4 DEF Environment, HandlePubPrompt, HandlePrompt, Deliver,
       HandleInterrupt, HandleRedirect, DropRedirect, AdapterResponse, AdapterEnds,
       AdapterRepeats, AdapterCloses, Shutdown, handlerVars, Goto
  <2>5. (\E t \in Turns : WatchdogStep(t)) => UNCHANGED <<pc, turn>>
    BY DEF WatchdogStep, WatchdogFires, WatchdogMismatch, WatchdogTerminator,
       WatchdogShutdown, handlerVars
  <2>6. PumpStep => UNCHANGED <<pc, turn>>
    BY DEF PumpStep, PumpExit, PumpDrop, PumpReceive, PumpLoadTrace, PumpPublish, PumpError,
       PumpTerminator, PumpClear, handlerVars
  <2> QED BY <2>1, <2>2, <2>3, <2>4, <2>5, <2>6 DEF Next, vars, handlerVars
<1>7. ASSUME NEW h \in Handlers,
             pc'[h] \in {"ack", "onPrompt", "arm", "fail", "failTerm"}
      PROVE  NoTerm(out'[ReplyOf[turn'[h]]], {"handler"})
  <2>1. turn[h] \in Turns /\ ReplyOf[turn[h]] \in Replies
    BY <1>0, <1>6, <1>7 DEF IndInv, HandlerTurns, Dispatching
  <2>2. NoTerm(out[ReplyOf[turn[h]]], {"handler"})
    <3>1. CASE pc[h] = "dispatch"
      BY <2>1, <3>1, WaitingHasNone DEF Waiting, Dispatching
    <3>2. CASE pc[h] # "dispatch"
      BY <1>6, <1>7, <3>2 DEF TermInv, HandlerClosesOnce
    <3> QED BY <3>1, <3>2
  <2>3. ~Closes("handler", ReplyOf[turn[h]])
    BY <1>4, <1>7, <2>1
  <2> QED BY <1>6, <1>7, <2>1, <2>2, <2>3, TermsKept
<1> QED BY <1>5, <1>7 DEF HandlerClosesOnce

-----------------------------------------------------------------------------
(* What the slot may become. *)

LEMMA SlotReply ==
  ASSUME Known, StreamsInv, [Next]_vars, NEW r \in Replies, activeReply' = r
  PROVE  \/ activeReply = r
         \/ /\ \E t \in Turns : ReplyOf[t] = r /\ Waiting(t)
            /\ \A closers : NoTerm(out[r], closers)
            /\ UNCHANGED <<out, pump, watchdog, victim>>
            /\ Interrupting' => Interrupting
<1>0. /\ pc \in [Handlers -> Places] /\ TypeOK /\ IndInv /\ NoReply \notin Replies
      /\ Sig \in Handlers
  BY ShimTurnAssumption DEF Known, IndInv, TypeOK, Handlers
<1>1. CASE UNCHANGED slotVars
  BY <1>1 DEF slotVars
<1>2. ~ReleaseSlot
  BY <1>0 DEF ReleaseSlot
<1>3. ASSUME NEW h \in Handlers, ClaimSlot(h)
      PROVE  /\ \E t \in Turns : ReplyOf[t] = r /\ Waiting(t)
             /\ \A closers : NoTerm(out[r], closers)
             /\ UNCHANGED <<out, pump, watchdog, victim>>
             /\ Interrupting' => Interrupting
  <2>1. pc[h] = "dispatch" /\ ReplyOf[turn[h]] = r
    BY <1>3 DEF ClaimSlot
  <2>2. turn[h] \in Turns
    BY <1>0, <2>1 DEF IndInv, HandlerTurns, TypeOK
  <2>3. Waiting(turn[h])
    BY <2>1 DEF Waiting, Dispatching
  <2>4. \A closers : NoTerm(out[r], closers)
    BY <2>1, <2>2, <2>3, WaitingHasNone
  <2>5. UNCHANGED <<out, pump, watchdog, victim>>
    BY <1>3 DEF ClaimSlot
  <2>6. Interrupting' => Interrupting
    BY <1>0, <1>3 DEF ClaimSlot, Goto, Interrupting
  <2> QED BY <2>1, <2>2, <2>3, <2>4, <2>5, <2>6
<1> QED BY <1>0, <1>1, <1>2, <1>3, SlotSteps

(* The pump: it takes up a reply from the slot, and has let go of the slot *)
(* before it takes up another.                                             *)
LEMMA PumpClosesStep ==
  ASSUME Known, DistinctReplies, StreamsInv, TermInv, [Next]_vars
  PROVE  /\ PumpClosesOnce'
         /\ \A r \in Replies : OneTerm(out'[r], {"pump"})
<1>0. TypeOK /\ IndInv /\ NoReply \notin Replies /\ PumpClosesOnce
  BY ShimTurnAssumption DEF Known, IndInv, TermInv
<1>1. ASSUME NEW r \in Replies, Closes("pump", r)
      PROVE  NoTerm(out[r], {"pump"}) /\ pump'.at = "clear" /\ pump'.reply = r
  BY <1>0, <1>1 DEF Closes, PumpTerminator, Pump, PumpClosesOnce
<1>2. \A r \in Replies : OneTerm(out'[r], {"pump"})
  <2> SUFFICES ASSUME NEW r \in Replies PROVE OneTerm(out'[r], {"pump"})
    OBVIOUS
  <2>1. CASE Closes("pump", r)
    BY <1>1, <2>1, TermsKept
  <2>2. CASE ~Closes("pump", r)
    BY <2>2, TermsKept DEF TermInv
  <2> QED BY <2>1, <2>2
<1>3. ~PumpStep => pump' = pump
  <2>1. (\E h \in Handlers : DispatchStep(h)) => pump' = pump
    BY DEF DispatchStep, RejectError, RejectTerminator, ClaimSlot, AgentBusy, PublishAck,
       AckFails, OnPrompt, OnPromptFails, FailError, FailTerminator, FailClear, ArmWatchdog
  <2>2. InterruptStep => pump' = pump
    BY DEF InterruptStep, InterruptIdle, InterruptRelease, InterruptCancel, InterruptAbort,
       InterruptNote, InterruptTerminator
  <2>3. (\E t \in Turns : WatchdogStep(t)) => pump' = pump
    BY DEF WatchdogStep, WatchdogFires, WatchdogMismatch, WatchdogTerminator, WatchdogShutdown
  <2>4. Environment => pump' = pump
    BY DEF Environment, HandlePubPrompt, HandlePrompt, Deliver, HandleInterrupt,
       HandleRedirect, DropRedirect, AdapterResponse, AdapterEnds, AdapterRepeats,
       AdapterCloses, Shutdown
  <2> QED BY <2>1, <2>2, <2>3, <2>4 DEF Next, vars
<1>4. ASSUME NEW r \in Replies, activeReply' = r
      PROVE  NoTerm(out'[r], {"pump"}) \/ (pump'.at = "clear" /\ pump'.reply = r)
  <2>1. CASE activeReply = r
    <3>1. CASE NoTerm(out[r], {"pump"})
      BY <1>1, <3>1, TermsKept
    <3>2. CASE pump.at = "clear" /\ pump.reply = r
      <4>1. CASE PumpStep
        <5>1. activeReply' = NoReply
          BY <2>1, <3>2, <4>1 DEF PumpStep, PumpExit, PumpDrop, PumpReceive, PumpLoadTrace,
             PumpPublish, PumpError, PumpTerminator, PumpClear, clearActive, ReleaseSlot
        <5> QED BY <1>0, <1>4, <5>1
      <4>2. CASE ~PumpStep
        BY <1>3, <3>2, <4>2
      <4> QED BY <4>1, <4>2
    <3> QED BY <1>0, <2>1, <3>1, <3>2 DEF PumpClosesOnce
  <2>2. CASE activeReply # r
    <3>1. out' = out /\ NoTerm(out[r], {"pump"})
      BY <1>4, <2>2, SlotReply
    <3> QED BY <3>1
  <2> QED BY <2>1, <2>2
<1>5. ASSUME pump'.at \in {"trace", "publish", "term"}
      PROVE  NoTerm(out'[pump'.reply], {"pump"})
  <2>1. CASE PumpReceive
    <3>1. /\ pump.at = "recv" /\ pump'.reply = activeReply /\ activeReply # NoReply
          /\ out' = out
      BY <2>1 DEF PumpReceive, Pump
    <3>2. activeReply \in Replies
      BY <1>0, <3>1 DEF TypeOK
    <3> QED BY <1>0, <3>1, <3>2 DEF PumpClosesOnce
  <2>2. CASE ~PumpReceive
    <3>1. pump'.reply = pump.reply /\ pump.at \in {"trace", "publish", "term"}
      <4>1. CASE PumpStep
        BY <1>5, <2>2, <4>1 DEF PumpStep, PumpExit, PumpDrop, PumpLoadTrace, PumpPublish,
           PumpError, PumpTerminator, PumpClear, Pump, PumpAt
      <4>2. CASE ~PumpStep
        BY <1>3, <1>5, <4>2
      <4> QED BY <4>1, <4>2
    <3>2. pump.reply \in Replies
      BY <3>1 DEF Known, Served
    <3>3. ~Closes("pump", pump.reply)
      BY <1>1, <1>5, <3>2
    <3>4. NoTerm(out[pump.reply], {"pump"})
      BY <1>0, <3>1 DEF PumpClosesOnce
    <3> QED BY <3>1, <3>2, <3>3, <3>4, TermsKept
  <2> QED BY <2>1, <2>2
<1> QED BY <1>2, <1>4, <1>5 DEF PumpClosesOnce

(* The watchdog and the interrupts: only one of them finds the slot busy.  *)
LEMMA RacersStep ==
  ASSUME Known, DistinctReplies, StreamsInv, TermInv, [Next]_vars
  PROVE  /\ RacersCloseOnce'
         /\ \A r \in Replies : OneTerm(out'[r], Racers)
<1>0. /\ TypeOK /\ IndInv /\ RacersCloseOnce /\ NoReply \notin Replies
      /\ pc \in [Handlers -> Places] /\ Sig \in Handlers
      /\ Endpoints \subseteq Handlers /\ Sig \notin Endpoints
      /\ watchdog \in [Turns -> {"off", "armed", "closing", "done"}]
      /\ activeReply \in Replies \cup {NoReply}
  BY ShimTurnAssumption DEF Known, IndInv, TermInv, TypeOK, Handlers
<1>1. \A t \in Turns : watchdog[t] = "closing" => Claimed(t)
  BY DEF Known, IndInv, TurnsAccounted, Dispatched, Claimed
<1>w. ASSUME NEW t \in Turns, WatchdogTerminator(t)
      PROVE  watchdog[t] = "closing" /\ watchdog'[t] = "done" /\ watchdog' # watchdog
  <2>1. watchdog[t] = "closing" /\ watchdog' = [watchdog EXCEPT ![t] = "done"]
    BY <1>w DEF WatchdogTerminator
  <2> QED BY <1>0, <2>1
<1>i. InterruptTerminator => pc[Sig] = "noteTerm" /\ victim' # victim
  <2> SUFFICES ASSUME InterruptTerminator PROVE pc[Sig] = "noteTerm" /\ victim' # victim
    OBVIOUS
  <2>1. pc[Sig] = "noteTerm" /\ victim' = NoVictim
    BY DEF InterruptTerminator
  <2>2. victim.reply \in Replies
    BY <2>1 DEF Known, Served, Interrupting
  <2>3. NoVictim.reply = NoReply
    BY DEF NoVictim
  <2> QED BY <1>0, <2>1, <2>2, <2>3
<1>2. ASSUME NEW r \in Replies, \E by \in Racers : Closes(by, r)
      PROVE  (WatchdogHas(r) \/ InterruptHas(r)) /\ NoTerm(out[r], Racers)
  <2>1. CASE Closes("watchdog", r)
    <3>1. WatchdogHas(r)
      BY <2>1 DEF Closes, WatchdogTerminator, WatchdogHas
    <3> QED BY <1>0, <3>1 DEF RacersCloseOnce
  <2>2. CASE Closes("signal", r)
    <3>1. InterruptHas(r)
      BY <2>2 DEF Closes, InterruptTerminator, InterruptHas, Interrupting
    <3> QED BY <1>0, <3>1 DEF RacersCloseOnce
  <2> QED BY <1>2, <2>1, <2>2 DEF Racers
<1>3. \A r \in Replies : OneTerm(out'[r], Racers)
  <2> SUFFICES ASSUME NEW r \in Replies PROVE OneTerm(out'[r], Racers)
    OBVIOUS
  <2>1. CASE \E by \in Racers : Closes(by, r)
    BY <1>2, <2>1, TermsKept
  <2>2. CASE ~\E by \in Racers : Closes(by, r)
    BY <2>2, TermsKept DEF TermInv
  <2> QED BY <2>1, <2>2
(* A claim starts afresh. *)
<1>4. ASSUME NEW r \in Replies, activeReply' = r, activeReply # r
      PROVE  NoTerm(out'[r], Racers) /\ ~WatchdogHas(r)' /\ ~InterruptHas(r)'
  <2>1. PICK t \in Turns : ReplyOf[t] = r /\ Waiting(t)
    BY <1>4, SlotReply
  <2>2. /\ NoTerm(out[r], Racers) /\ UNCHANGED <<out, watchdog, victim>>
        /\ Interrupting' => Interrupting
    BY <1>4, SlotReply
  <2>3. ~Claimed(t)
    BY <1>0, <2>1, ClaimedIsStarted
  <2>4. ~WatchdogHas(r)
    BY <1>1, <2>1, <2>3 DEF WatchdogHas, DistinctReplies
  <2>5. ~InterruptHas(r)
    BY <2>1, <2>3 DEF InterruptHas, Known, Served, DistinctReplies
  <2> QED BY <2>2, <2>4, <2>5 DEF WatchdogHas, InterruptHas
(* A step that gives the stream to neither of them, and closes it for none.*)
<1>5. ASSUME NEW r \in Replies,
             WatchdogHas(r)' => WatchdogHas(r), InterruptHas(r)' => InterruptHas(r),
             ~\E by \in Racers : Closes(by, r)
      PROVE  /\ activeReply' = r =>
                  NoTerm(out'[r], Racers) /\ ~WatchdogHas(r)' /\ ~InterruptHas(r)'
             /\ WatchdogHas(r)' => NoTerm(out'[r], Racers) /\ ~InterruptHas(r)'
             /\ InterruptHas(r)' => NoTerm(out'[r], Racers)
  <2>1. NoTerm(out[r], Racers) => NoTerm(out'[r], Racers)
    BY <1>5, TermsKept
  <2>2. CASE activeReply = r
    BY <1>0, <1>5, <2>1, <2>2 DEF RacersCloseOnce
  <2>3. CASE activeReply # r
    BY <1>0, <1>4, <1>5, <2>1, <2>3 DEF RacersCloseOnce
  <2> QED BY <2>2, <2>3
<1>6. ASSUME UNCHANGED watchdog, UNCHANGED victim, Interrupting' => Interrupting,
             ~InterruptTerminator, ~\E t \in Turns : WatchdogTerminator(t)
      PROVE  RacersCloseOnce'
  <2>1. \A r \in Replies : WatchdogHas(r)' => WatchdogHas(r)
    BY <1>6 DEF WatchdogHas
  <2>2. \A r \in Replies : InterruptHas(r)' => InterruptHas(r)
    BY <1>6 DEF InterruptHas
  <2>3. \A r \in Replies : ~\E by \in Racers : Closes(by, r)
    BY <1>6 DEF Closes, Racers
  <2> QED BY <1>5, <2>1, <2>2, <2>3 DEF RacersCloseOnce
<1>7. ASSUME PumpStep \/ Environment \/ UNCHANGED vars
      PROVE  RacersCloseOnce'
  <2>1. UNCHANGED <<watchdog, victim>>
    BY <1>7 DEF PumpStep, PumpExit, PumpDrop, PumpReceive, PumpLoadTrace, PumpPublish,
       PumpError, PumpTerminator, PumpClear, Environment, HandlePubPrompt, HandlePrompt, Deliver,
       HandleInterrupt, HandleRedirect, DropRedirect, AdapterResponse, AdapterEnds,
       AdapterRepeats, AdapterCloses, Shutdown, vars, handlerVars
  <2>2. Interrupting' => Interrupting
    BY <1>0, <1>7 DEF PumpStep, PumpExit, PumpDrop, PumpReceive, PumpLoadTrace, PumpPublish,
       PumpError, PumpTerminator, PumpClear, Environment, HandlePubPrompt, HandlePrompt, Deliver,
       HandleInterrupt, HandleRedirect, DropRedirect, AdapterResponse, AdapterEnds,
       AdapterRepeats, AdapterCloses, Shutdown, vars, handlerVars, Goto, Interrupting
  <2>3. ~InterruptTerminator
    BY <1>i, <2>1
  <2>4. ~\E t \in Turns : WatchdogTerminator(t)
    BY <1>w, <2>1
  <2> QED BY <1>6, <2>1, <2>2, <2>3, <2>4
<1>8. ASSUME NEW h \in Handlers, DispatchStep(h)
      PROVE  RacersCloseOnce'
  <2>1. victim' = victim /\ (Interrupting' => Interrupting)
    BY <1>0, <1>8, DispatchFrame DEF Interrupting, Dispatching
  <2>2. ~InterruptTerminator
    BY <1>i, <2>1
  <2>3. watchdog' = watchdog \/ \E u : watchdog' = [watchdog EXCEPT ![u] = "armed"]
    BY <1>8 DEF DispatchStep, RejectError, RejectTerminator, ClaimSlot, AgentBusy,
       PublishAck, AckFails, OnPrompt, OnPromptFails, FailError, FailTerminator, FailClear,
       ArmWatchdog
  <2>4. ~\E t \in Turns : WatchdogTerminator(t)
    BY <1>0, <1>w, <2>3
  <2>5. \A r \in Replies : WatchdogHas(r)' => WatchdogHas(r)
    BY <1>0, <2>3 DEF WatchdogHas
  <2>6. \A r \in Replies : InterruptHas(r)' => InterruptHas(r)
    BY <2>1 DEF InterruptHas
  <2>7. \A r \in Replies : ~\E by \in Racers : Closes(by, r)
    BY <2>2, <2>4 DEF Closes, Racers
  <2> QED BY <1>5, <2>5, <2>6, <2>7 DEF RacersCloseOnce
<1>9. ASSUME InterruptStep
      PROVE  RacersCloseOnce'
  <2>0. watchdog' = watchdog /\ ~\E t \in Turns : WatchdogTerminator(t)
    <3>1. watchdog' = watchdog
      BY <1>9 DEF InterruptStep, InterruptIdle, InterruptRelease, InterruptCancel,
         InterruptAbort, InterruptNote, InterruptTerminator
    <3> QED BY <1>w, <3>1
  <2>a. \A r : WatchdogHas(r)' <=> WatchdogHas(r)
    BY <2>0 DEF WatchdogHas
  <2>1. CASE InterruptRelease
    <3>1. /\ activeReply # NoReply /\ victim'.reply = activeReply /\ activeReply' = NoReply
          /\ out' = out /\ pc[Sig] = "interrupt"
      BY <2>1 DEF InterruptRelease, ReleaseSlot
    <3>2. ASSUME NEW r \in Replies, InterruptHas(r)'
          PROVE  activeReply = r
      BY <3>1, <3>2 DEF InterruptHas
    <3>4. ASSUME NEW r \in Replies
          PROVE  /\ activeReply' # r
                 /\ WatchdogHas(r)' => NoTerm(out'[r], Racers) /\ ~InterruptHas(r)'
                 /\ InterruptHas(r)' => NoTerm(out'[r], Racers)
      BY <1>0, <2>a, <3>1, <3>2 DEF RacersCloseOnce
    <3> QED BY <3>4 DEF RacersCloseOnce
  <2>2. CASE InterruptTerminator
    <3>1. /\ \A r \in Replies : ~InterruptHas(r)'
          /\ InterruptHas(victim.reply) /\ victim.reply \in Replies
      BY <1>0, <2>2 DEF InterruptTerminator, AfterInterrupt, Goto, InterruptHas, Interrupting,
         Known, Served
    <3>2. ASSUME NEW r \in Replies, r # victim.reply
          PROVE  ~\E by \in Racers : Closes(by, r)
      BY <2>0, <3>2 DEF Closes, Racers
    <3>3. ASSUME NEW r \in Replies, r = victim.reply
          PROVE  ~WatchdogHas(r)' /\ activeReply' # r
      <4>1. ~WatchdogHas(r) /\ activeReply # r
        BY <1>0, <3>1, <3>3 DEF RacersCloseOnce
      <4>2. activeReply' = activeReply
        BY <2>2 DEF InterruptTerminator, slotVars
      <4> QED BY <2>a, <4>1, <4>2
    <3>4. ASSUME NEW r \in Replies
          PROVE  /\ activeReply' = r =>
                      NoTerm(out'[r], Racers) /\ ~WatchdogHas(r)' /\ ~InterruptHas(r)'
                 /\ WatchdogHas(r)' => NoTerm(out'[r], Racers) /\ ~InterruptHas(r)'
                 /\ InterruptHas(r)' => NoTerm(out'[r], Racers)
      <4>1. CASE r = victim.reply
        BY <3>1, <3>3, <4>1
      <4>2. CASE r # victim.reply
        BY <1>5, <2>a, <3>1, <3>2, <4>2
      <4> QED BY <4>1, <4>2
    <3> QED BY <3>4 DEF RacersCloseOnce
  <2>3. CASE InterruptIdle \/ InterruptCancel \/ InterruptAbort \/ InterruptNote
    <3>1. /\ UNCHANGED victim /\ (Interrupting' => Interrupting)
          /\ pc[Sig] # "noteTerm"
      BY <1>0, <2>3 DEF InterruptIdle, InterruptCancel, InterruptAbort, InterruptNote,
         AfterInterrupt, Goto, Interrupting
    <3>2. ~InterruptTerminator
      BY <1>i, <3>1
    <3> QED BY <1>6, <2>0, <3>1, <3>2
  <2> QED BY <1>9, <2>1, <2>2, <2>3 DEF InterruptStep
<1>10. ASSUME NEW t \in Turns, WatchdogStep(t)
       PROVE  RacersCloseOnce'
  <2>0. victim' = victim /\ Interrupting' = Interrupting
    BY <1>10 DEF WatchdogStep, WatchdogFires, WatchdogMismatch, WatchdogTerminator,
       WatchdogShutdown, handlerVars, Interrupting
  <2>a. \A r : InterruptHas(r)' <=> InterruptHas(r)
    BY <2>0 DEF InterruptHas
  <2>b. ~InterruptTerminator
    BY <1>i, <2>0
  <2>1. CASE WatchdogFires(t)
    <3>1. /\ activeReply = ReplyOf[t] /\ activeReply' = NoReply /\ out' = out
          /\ watchdog' = [watchdog EXCEPT ![t] = "closing"]
      BY <2>1 DEF WatchdogFires, ReleaseSlot
    <3>2. ASSUME NEW r \in Replies, WatchdogHas(r)'
          PROVE  WatchdogHas(r) \/ activeReply = r
      BY <1>0, <3>1, <3>2 DEF WatchdogHas
    <3> QED BY <1>0, <2>a, <3>1, <3>2 DEF RacersCloseOnce
  <2>2. CASE WatchdogTerminator(t)
    <3>1. watchdog[t] = "closing" /\ watchdog' = [watchdog EXCEPT ![t] = "done"]
      BY <2>2 DEF WatchdogTerminator
    <3>2. \A r \in Replies : WatchdogHas(r)' => WatchdogHas(r)
      BY <1>0, <3>1 DEF WatchdogHas
    <3>3. ASSUME NEW r \in Replies, r # ReplyOf[t]
          PROVE  ~\E by \in Racers : Closes(by, r)
      <4>1. ASSUME NEW u \in Turns, WatchdogTerminator(u) PROVE u = t
        <5>1. watchdog' = [watchdog EXCEPT ![u] = "done"] /\ watchdog[u] = "closing"
          BY <4>1 DEF WatchdogTerminator
        <5> QED BY <1>0, <3>1, <5>1
      <4> QED BY <2>b, <3>3, <4>1 DEF Closes, Racers
    <3>4. ASSUME NEW r \in Replies, r = ReplyOf[t]
          PROVE  ~WatchdogHas(r)' /\ ~InterruptHas(r)' /\ activeReply' # r
      <4>1. WatchdogHas(r)
        BY <3>1, <3>4 DEF WatchdogHas
      <4>2. ~InterruptHas(r) /\ activeReply # r
        BY <1>0, <4>1 DEF RacersCloseOnce
      <4>3. activeReply' = activeReply
        BY <2>2 DEF WatchdogTerminator, slotVars
      <4>4. ~WatchdogHas(r)'
        BY <1>0, <3>1, <3>4 DEF WatchdogHas, DistinctReplies
      <4> QED BY <2>a, <4>2, <4>3, <4>4
    <3>5. ASSUME NEW r \in Replies
          PROVE  /\ activeReply' = r =>
                      NoTerm(out'[r], Racers) /\ ~WatchdogHas(r)' /\ ~InterruptHas(r)'
                 /\ WatchdogHas(r)' => NoTerm(out'[r], Racers) /\ ~InterruptHas(r)'
                 /\ InterruptHas(r)' => NoTerm(out'[r], Racers)
      BY <1>5, <2>a, <3>2, <3>3, <3>4
    <3> QED BY <3>5 DEF RacersCloseOnce
  <2>3. CASE WatchdogMismatch(t) \/ WatchdogShutdown(t)
    <3>1. watchdog[t] = "armed" /\ watchdog' = [watchdog EXCEPT ![t] = "done"]
      BY <2>3 DEF WatchdogMismatch, WatchdogShutdown
    <3>2. \A r \in Replies : WatchdogHas(r)' => WatchdogHas(r)
      BY <1>0, <3>1 DEF WatchdogHas
    <3>3. ~\E u \in Turns : WatchdogTerminator(u)
      <4> SUFFICES ASSUME NEW u \in Turns, WatchdogTerminator(u) PROVE FALSE
        OBVIOUS
      <4>1. watchdog[u] = "closing" /\ watchdog'[u] = "done"
        BY <1>0 DEF WatchdogTerminator
      <4> QED BY <1>0, <3>1, <4>1
    <3>4. \A r \in Replies : ~\E by \in Racers : Closes(by, r)
      BY <2>b, <3>3 DEF Closes, Racers
    <3> QED BY <1>5, <2>a, <3>2, <3>4 DEF RacersCloseOnce
  <2> QED BY <1>10, <2>1, <2>2, <2>3 DEF WatchdogStep
<1>11. RacersCloseOnce'
  BY <1>7, <1>8, <1>9, <1>10 DEF Next
<1> QED BY <1>3, <1>11

LEMMA TermsCorrect == Spec => [](DistinctReplies => TermInv)
<1>1. Known /\ DistinctReplies /\ StreamsInv /\ TermInv /\ [Next]_vars => TermInv'
  <2> SUFFICES ASSUME Known, DistinctReplies, StreamsInv, TermInv, [Next]_vars
               PROVE  TermInv'
    OBVIOUS
  <2>1. HandlerClosesOnce' /\ PumpClosesOnce' /\ RacersCloseOnce'
    BY HandlerStep, PumpClosesStep, RacersStep
  <2>2. \A r \in Replies : /\ OneTerm(out'[r], {"handler"}) /\ OneTerm(out'[r], {"pump"})
                           /\ OneTerm(out'[r], Racers)
    BY HandlerStep, PumpClosesStep, RacersStep
  <2> QED BY <2>1, <2>2 DEF TermInv, Racers
<1>2. DistinctReplies' <=> DistinctReplies
  BY DEF DistinctReplies
<1> QED BY <1>1, <1>2, InitTerm, KnownCorrect, StreamsCorrect, PTL DEF Spec

(* Every reply subject a request's own, the handler and the pump each      *)
(* terminate a stream at most once, and of the watchdog and the interrupts *)
(* one does, at most once, in every order they can meet.                   *)
THEOREM OneTerminatorPerCloserCorrect == Spec => []OneTerminatorPerCloser
<1>1. TypeOK /\ (DistinctReplies => TermInv) => OneTerminatorPerCloser
  <2> SUFFICES ASSUME TypeOK, DistinctReplies, TermInv, NEW r \in Replies,
                      NEW closers \in {{"handler"}, {"pump"}, {"watchdog", "signal"}}
               PROVE  Cardinality(Terminators(r, closers)) <= 1
    BY DEF OneTerminatorPerCloser
  <2>1. DOMAIN out[r] = 1..Len(out[r])
    BY DEF TypeOK
  <2>2. \A i, j \in Terminators(r, closers) : i = j
    BY <2>1 DEF TermInv, OneTerm, IsTerm, Racers, Terminators
  <2>3. CASE Terminators(r, closers) = {}
    BY <2>3, FS_EmptySet
  <2>4. CASE Terminators(r, closers) # {}
    <3>1. PICK i : Terminators(r, closers) = {i}
      BY <2>2, <2>4
    <3> QED BY <3>1, FS_Singleton
  <2> QED BY <2>3, <2>4
<1> QED BY <1>1, TermsCorrect, TypeCorrect, PTL

-----------------------------------------------------------------------------
(* Nobody is forgotten.  Here two requests may carry one reply subject.    *)

Ended(r) == \E i \in 1..Len(out[r]) : out[r][i].type = "term"

OwedOrEnded(r) == Owed(r) \/ Ended(r)

AckedBy(t) == \E i \in 1..Len(out[ReplyOf[t]]) :
  out[ReplyOf[t]][i].type = "ack" /\ out[ReplyOf[t]][i].turn = t

(* A turn that was acked, or that its handler still dispatches. *)
InFlight(t) == AckedBy(t) \/ \E h \in Handlers : turn[h] = t /\ pc[h] \in Dispatching

(* A watchdog is armed once, when its handler is done. *)
WatchdogComesLast == \A h \in Handlers : turn[h] \in Turns => watchdog[turn[h]] = "off"

(* Acks belong to claimed turns, and a handler at its ack has not acked. *)
AcksAreClaimed ==
  /\ \A r \in Replies : \A i \in 1..Len(out[r]) : out[r][i].type = "ack" =>
       /\ out[r][i].turn \in Turns /\ Claimed(out[r][i].turn)
       /\ ReplyOf[out[r][i].turn] = r
  /\ \A h \in Handlers : pc[h] = "ack" => ~AckedBy(turn[h])

(* Who took the slot from a turn answers for its stream. *)
LosersAreOwed ==
  \A t \in Turns : t \in Finished /\ ReplyOf[t] \in Replies /\ InFlight(t) =>
    OwedOrEnded(ReplyOf[t])

(* The handler and the pump clear the slot after the terminator. *)
ClearedAfterEnd ==
  /\ pump.at = "clear" => Ended(pump.reply)
  /\ \A h \in Handlers : pc[h] = "failClear" => Ended(ReplyOf[turn[h]])

NoticesAreOwed ==
  \A r \in Replies : \A i \in 1..Len(out[r]) :
    out[r][i].type \in {"error", "reject", "aborted"} =>
      Owed(r) \/ \E j \in 1..Len(out[r]) : j > i /\ out[r][j].type = "term"

ClosersInv ==
  WatchdogComesLast /\ AcksAreClaimed /\ LosersAreOwed /\ ClearedAfterEnd /\ NoticesAreOwed

LEMMA InitClosers == Init => ClosersInv
<1> SUFFICES ASSUME Init PROVE ClosersInv
  OBVIOUS
<1>1. 1..0 = {} /\ Len(<< >>) = 0
  OBVIOUS
<1>2. \A r \in Replies : out[r] = << >>
  BY DEF Init
<1>3. Finished = {} /\ pump.at = "recv" /\ \A h \in Handlers : pc[h] = "idle" /\ turn[h] = NoTurn
  BY DEF Init, Finished, PumpAt, Pump, Handlers
<1> QED
  BY <1>1, <1>2, <1>3, ShimTurnAssumption DEF ClosersInv, WatchdogComesLast, AcksAreClaimed,
     LosersAreOwed, ClearedAfterEnd, NoticesAreOwed

(* A step that closes a stream appends a terminator to it. *)
LEMMA ClosesAppends ==
  ASSUME Known, [Next]_vars, NEW r \in Replies, NEW by, Closes(by, r)
  PROVE  \E m \in Published : m.type = "term" /\ Publishes(r, m)
<1>0. /\ turn \in [Handlers -> Turns \cup {NoTurn}] /\ victim \in Victim /\ pump \in PumpState
      /\ IndInv
  BY DEF Known, IndInv, TypeOK
<1>1. ASSUME NEW t \in Turns \cup {NoTurn},
             NEW who \in {"handler", "signal", "watchdog", "pump"},
             out' = [out EXCEPT ![r] = Append(@, Message("term", t, NoTurn, who))]
      PROVE  \E m \in Published : m.type = "term" /\ Publishes(r, m)
  <2> DEFINE m == Message("term", t, NoTurn, who)
  <2>1. m \in Published /\ m.type = "term"
    BY MessageIsPublished
  <2> HIDE DEF m
  <2> QED BY <1>1, <2>1 DEF Publishes, m
<1>2. ASSUME NEW h \in Handlers, FailTerminator(h), ReplyOf[turn[h]] = r
      PROVE  \E m \in Published : m.type = "term" /\ Publishes(r, m)
  <2>1. turn[h] \in Turns \cup {NoTurn}
    BY <1>0
  <2> QED BY <1>1, <1>2, <2>1 DEF FailTerminator, publishTerminator
<1>3. ASSUME NEW h \in Handlers, RejectTerminator(h), ReplyOf[turn[h]] = r
      PROVE  \E m \in Published : m.type = "term" /\ Publishes(r, m)
  <2>1. turn[h] \in Turns \cup {NoTurn}
    BY <1>0
  <2> QED BY <1>1, <1>3, <2>1 DEF RejectTerminator, publishTerminator
<1>4. ASSUME PumpTerminator, pump.reply = r
      PROVE  \E m \in Published : m.type = "term" /\ Publishes(r, m)
  <2>1. pump.chunk.turn \in Turns \cup {NoTurn}
    BY <1>0 DEF PumpState, Chunk
  <2> QED BY <1>1, <1>4, <2>1 DEF PumpTerminator, publishTerminator
<1>5. ASSUME NEW t \in Turns, WatchdogTerminator(t), ReplyOf[t] = r
      PROVE  \E m \in Published : m.type = "term" /\ Publishes(r, m)
  BY <1>1, <1>5 DEF WatchdogTerminator, publishTerminator
<1>6. ASSUME InterruptTerminator, victim.reply = r
      PROVE  \E m \in Published : m.type = "term" /\ Publishes(r, m)
  <2>1. victim.cancel \in Turns \cup {NoTurn}
    BY <1>0 DEF Victim
  <2> QED BY <1>1, <1>6, <2>1 DEF InterruptTerminator, publishTerminator
<1> QED BY <1>2, <1>3, <1>4, <1>5, <1>6 DEF Closes

LEMMA ClosesEnds ==
  ASSUME Known, [Next]_vars, NEW r \in Replies, NEW by, Closes(by, r)
  PROVE  /\ Len(out[r]) \in Nat /\ Len(out[r]) + 1 \in 1..Len(out'[r])
         /\ out'[r][Len(out[r]) + 1].type = "term"
<1>1. PICK m \in Published : m.type = "term" /\ Publishes(r, m)
  BY ClosesAppends
<1>2. /\ Len(out[r]) \in Nat /\ Len(out'[r]) = Len(out[r]) + 1
      /\ out'[r][Len(out[r]) + 1] = m
  BY <1>1, PublishGrows DEF Known, IndInv
<1> QED BY <1>1, <1>2

(* What was published stays. *)
LEMMA StreamGrows ==
  ASSUME Known, [Next]_vars, NEW r \in Replies
  PROVE  /\ Len(out[r]) \in Nat /\ Len(out'[r]) \in Nat /\ Len(out[r]) <= Len(out'[r])
         /\ \A i \in 1..Len(out[r]) : i \in 1..Len(out'[r]) /\ out'[r][i] = out[r][i]
<1>0. TypeOK /\ Len(out[r]) \in Nat
  BY DEF Known, IndInv, TypeOK
<1>1. CASE out'[r] = out[r]
  BY <1>0, <1>1
<1>2. ASSUME NEW q \in Replies, NEW m \in Published, Publishes(q, m)
      PROVE  /\ Len(out'[r]) \in Nat /\ Len(out[r]) <= Len(out'[r])
             /\ \A i \in 1..Len(out[r]) : i \in 1..Len(out'[r]) /\ out'[r][i] = out[r][i]
  <2>1. CASE q = r
    <3>1. /\ Len(out'[r]) = Len(out[r]) + 1
          /\ \A i \in 1..Len(out[r]) : out'[r][i] = out[r][i]
      BY <1>0, <1>2, <2>1, PublishGrows
    <3> QED BY <1>0, <3>1
  <2>2. CASE q # r
    <3>1. out'[r] = out[r]
      BY <1>0, <1>2, <2>2, PublishGrows
    <3> QED BY <1>0, <3>1
  <2> QED BY <2>1, <2>2
<1> QED BY <1>0, <1>1, <1>2, OutGrows

LEMMA EndedStable ==
  ASSUME Known, [Next]_vars, NEW r \in Replies, Ended(r)
  PROVE  Ended(r)'
  BY StreamGrows DEF Ended

(* The last message of a stream that grew. *)
LEMMA NewMessage ==
  ASSUME Known, [Next]_vars, NEW r \in Replies,
         NEW i \in 1..Len(out'[r]), i \notin 1..Len(out[r])
  PROVE  /\ out'[r][i].type \in {"error", "reject", "aborted"} => Owed(r)'
         /\ out'[r][i].type = "ack" =>
              \E h \in Handlers : /\ PublishAck(h) /\ turn[h] = out'[r][i].turn
                                  /\ turn[h] \in Turns /\ ReplyOf[turn[h]] = r
<1>0. TypeOK /\ IndInv
  BY DEF Known, IndInv
<1>1. out' # out
  OBVIOUS
<1>2. ASSUME NEW q \in Replies, NEW m \in Published, Publishes(q, m)
      PROVE  q = r /\ out'[r][i] = m
  <2>1. q = r
    BY <1>0, <1>2, PublishGrows
  <2>2. /\ out'[r][Len(out[r]) + 1] = m
        /\ i \in 1..Len(out[r]) \/ i = Len(out[r]) + 1
    BY <1>0, <1>2, <2>1, PublishGrows
  <2> QED BY <2>1, <2>2
<1>3. ASSUME NEW h \in Handlers, RejectError(h)
      PROVE  Owed(r)' /\ out'[r][i].type = "reject"
  <2>1. PICK m \in Published : m.type = "reject" /\ Publishes(ReplyOf[turn[h]], m)
    BY <1>0, <1>3, RejectErrorPublishes
  <2>2. ReplyOf[turn[h]] = r /\ out'[r][i] = m
    BY <1>2, <2>1 DEF Publishes
  <2>3. turn' = turn /\ pc' = [pc EXCEPT ![h] = "rejectTerm"] /\ pc \in [Handlers -> Places]
    BY <1>0, <1>3, RejectErrorPublishes DEF TypeOK
  <2>4. Owed(r)'
    BY <2>2, <2>3 DEF Owed
  <2> QED BY <2>1, <2>2, <2>4
<1>4. ASSUME NEW h \in Handlers, RejectTerminator(h)
      PROVE  out'[r][i].type = "term"
  <2>1. PICK m \in Published : m.type = "term" /\ Publishes(ReplyOf[turn[h]], m)
    BY <1>0, <1>4, RejectTerminatorPublishes
  <2> QED BY <1>2, <2>1 DEF Publishes
<1>5. CASE ServesClaimed
  <2>1. PICK t \in Turns, m \in Published :
          /\ ReplyOf[t] \in Replies /\ Publishes(ReplyOf[t], m)
          /\ m.type # "reject"
          /\ m.type \in {"error", "aborted"} => Owed(ReplyOf[t])'
          /\ m.type = "ack" => m.turn = t /\ \E h \in Handlers : PublishAck(h) /\ turn[h] = t
    BY <1>5 DEF ServesClaimed
  <2>2. ReplyOf[t] = r /\ out'[r][i] = m
    BY <1>2, <2>1
  <2> QED BY <2>1, <2>2
<1> QED BY <1>1, <1>3, <1>4, <1>5, OutStep

LEMMA WatchdogLastStep ==
  ASSUME Known, WatchdogComesLast, [Next]_vars
  PROVE  WatchdogComesLast'
<1>0. /\ pc \in [Handlers -> Places] /\ turn \in [Handlers -> Turns \cup {NoTurn}]
      /\ watchdog \in [Turns -> {"off", "armed", "closing", "done"}]
      /\ NoTurn \notin Turns /\ Sig \in Handlers /\ Endpoints \subseteq Handlers
      /\ IndInv
  BY ShimTurnAssumption DEF Known, IndInv, TypeOK, Handlers
<1>1. \A t \in pending : t \in Turns => watchdog[t] = "off"
  BY <1>0, ClaimedIsStarted DEF IndInv, TurnsAccounted, Dispatched, Claimed
<1>2. ASSUME NEW h \in Handlers, DispatchStep(h)
      PROVE  WatchdogComesLast'
  <2>1. /\ \A g \in Handlers : g # h => turn'[g] = turn[g]
        /\ turn'[h] \in {turn[h], NoTurn}
    BY <1>0, <1>2 DEF DispatchStep, Goto, Finish, RejectError, RejectTerminator, ClaimSlot,
       AgentBusy, PublishAck, AckFails, OnPrompt, OnPromptFails, FailError, FailTerminator,
       FailClear, ArmWatchdog
  <2>2. CASE ArmWatchdog(h)
    <3>1. /\ turn' = [turn EXCEPT ![h] = NoTurn]
          /\ watchdog' = [watchdog EXCEPT ![turn[h]] = "armed"]
      BY <2>2 DEF ArmWatchdog, Finish
    <3>2. \A g \in Handlers : g # h /\ turn[g] \in Turns => turn[g] # turn[h]
      BY <1>0 DEF IndInv, HandlerTurns
    <3> QED BY <1>0, <3>1, <3>2 DEF WatchdogComesLast
  <2>3. CASE ~ArmWatchdog(h)
    <3>1. watchdog' = watchdog
      BY <1>2, <2>3 DEF DispatchStep, RejectError, RejectTerminator, ClaimSlot,
         AgentBusy, PublishAck, AckFails, OnPrompt, OnPromptFails, FailError, FailTerminator,
         FailClear
    <3> QED BY <1>0, <2>1, <3>1 DEF WatchdogComesLast
  <2> QED BY <2>2, <2>3
<1>3. ASSUME NEW t \in Turns, WatchdogStep(t)
      PROVE  WatchdogComesLast'
  <2>1. /\ watchdog[t] # "off" /\ turn' = turn
        /\ \A u \in Turns : u # t => watchdog'[u] = watchdog[u]
    BY <1>0, <1>3 DEF WatchdogStep, WatchdogFires, WatchdogMismatch, WatchdogTerminator,
       WatchdogShutdown, handlerVars
  <2> QED BY <2>1 DEF WatchdogComesLast
<1>4. ASSUME watchdog' = watchdog,
             \A h \in Handlers : turn'[h] \in Turns => turn'[h] = turn[h] \/ turn'[h] \in pending
      PROVE  WatchdogComesLast'
  BY <1>1, <1>4 DEF WatchdogComesLast
<1>5. CASE InterruptStep \/ PumpStep \/ UNCHANGED vars
  <2>1. watchdog' = watchdog /\ turn' = turn
    BY <1>5 DEF InterruptStep, InterruptIdle, InterruptRelease, InterruptCancel, InterruptAbort,
       InterruptNote, InterruptTerminator, PumpStep, PumpExit, PumpDrop, PumpReceive,
       PumpLoadTrace, PumpPublish, PumpError, PumpTerminator, PumpClear, vars, handlerVars
  <2> QED BY <1>4, <2>1
<1>6. CASE Environment
  <2>1. watchdog' = watchdog
    BY <1>6 DEF Environment, HandlePubPrompt, HandlePrompt, Deliver, HandleInterrupt,
       HandleRedirect, DropRedirect, AdapterResponse, AdapterEnds, AdapterRepeats,
       AdapterCloses, Shutdown
  <2>2. turn' = turn \/ \E h \in Handlers, t \in pending : turn' = [turn EXCEPT ![h] = t]
    BY <1>0, <1>6 DEF Environment, HandlePubPrompt, HandlePrompt, Deliver, HandleInterrupt,
       HandleRedirect, DropRedirect, AdapterResponse, AdapterEnds, AdapterRepeats,
       AdapterCloses, Shutdown, handlerVars
  <2> QED BY <1>0, <1>4, <2>1, <2>2
<1> QED BY <1>2, <1>3, <1>5, <1>6 DEF Next

(* Who owes a stream its terminator keeps owing it, or publishes it.       *)
LEMMA OwedStep ==
  ASSUME Known, WatchdogComesLast, [Next]_vars, NEW r \in Replies, Owed(r)
  PROVE  Owed(r)' \/ \E by : Closes(by, r)
<1>0. /\ pc \in [Handlers -> Places] /\ turn \in [Handlers -> Turns \cup {NoTurn}]
      /\ watchdog \in [Turns -> {"off", "armed", "closing", "done"}]
      /\ NoTurn \notin Turns /\ Sig \in Handlers /\ Endpoints \subseteq Handlers
      /\ Sig \notin Endpoints /\ pending \subseteq Turns
  BY ShimTurnAssumption DEF Known, IndInv, TypeOK, Handlers
<1>1. ASSUME NEW h \in Handlers, pc[h] \in {"rejectTerm", "failTerm"}, ReplyOf[turn[h]] = r
      PROVE  Owed(r)' \/ \E by : Closes(by, r)
  <2>1. ASSUME pc'[h] = pc[h], turn'[h] = turn[h]
        PROVE  Owed(r)'
    BY <1>1, <2>1 DEF Owed
  <2>2. ASSUME NEW g \in Handlers, DispatchStep(g)
        PROVE  Owed(r)' \/ \E by : Closes(by, r)
    <3>1. CASE g # h
      BY <1>0, <2>1, <2>2, <3>1, DispatchFrame
    <3>2. CASE g = h
      <4>1. FailTerminator(h) \/ RejectTerminator(h)
        BY <1>1, <2>2, <3>2 DEF DispatchStep, RejectError, ClaimSlot, AgentBusy, PublishAck,
           AckFails, OnPrompt, OnPromptFails, FailError, FailClear, ArmWatchdog
      <4>2. Closes("handler", r)
        BY <1>1, <4>1 DEF Closes
      <4> QED BY <4>2
    <3> QED BY <3>1, <3>2
  <2>3. CASE InterruptStep
    <3>1. h # Sig
      BY <1>1, <2>3 DEF InterruptStep, InterruptIdle, InterruptRelease, InterruptCancel,
         InterruptAbort, InterruptNote, InterruptTerminator
    <3>2. turn' = turn /\ pc'[h] = pc[h]
      BY <1>0, <2>3, <3>1 DEF InterruptStep, InterruptIdle, InterruptRelease, InterruptCancel,
         InterruptAbort, InterruptNote, InterruptTerminator, AfterInterrupt, Goto
    <3> QED BY <2>1, <3>2
  <2>4. CASE (\E t \in Turns : WatchdogStep(t)) \/ PumpStep \/ UNCHANGED vars
    <3>1. UNCHANGED <<pc, turn>>
      BY <2>4 DEF WatchdogStep, WatchdogFires, WatchdogMismatch, WatchdogTerminator,
         WatchdogShutdown, PumpStep, PumpExit, PumpDrop, PumpReceive, PumpLoadTrace, PumpPublish,
         PumpError, PumpTerminator, PumpClear, vars, handlerVars
    <3> QED BY <2>1, <3>1
  <2>5. CASE Environment
    <3>1. pc'[h] = pc[h] /\ turn'[h] = turn[h]
      BY <1>0, <1>1, <2>5 DEF Environment, HandlePubPrompt, HandlePrompt, Deliver,
         HandleInterrupt, HandleRedirect, DropRedirect, AdapterResponse, AdapterEnds,
         AdapterRepeats, AdapterCloses, Shutdown, handlerVars, Goto
    <3> QED BY <2>1, <3>1
  <2> QED BY <2>2, <2>3, <2>4, <2>5 DEF Next
<1>2. ASSUME pump.at = "term", pump.reply = r
      PROVE  Owed(r)' \/ \E by : Closes(by, r)
  <2>1. CASE PumpStep
    <3>1. PumpTerminator
      BY <1>2, <2>1 DEF PumpStep, PumpExit, PumpDrop, PumpReceive, PumpLoadTrace, PumpPublish,
         PumpError, PumpClear
    <3>2. Closes("pump", r)
      BY <1>2, <3>1 DEF Closes
    <3> QED BY <3>2
  <2>2. CASE ~PumpStep
    <3>1. pump' = pump
      BY <2>2 DEF Next, DispatchStep, RejectError, RejectTerminator, ClaimSlot, AgentBusy,
         PublishAck, AckFails, OnPrompt, OnPromptFails, FailError, FailTerminator, FailClear,
         ArmWatchdog, InterruptStep, InterruptIdle, InterruptRelease, InterruptCancel,
         InterruptAbort, InterruptNote, InterruptTerminator, WatchdogStep, WatchdogFires,
         WatchdogMismatch, WatchdogTerminator, WatchdogShutdown, Environment, HandlePubPrompt,
         HandlePrompt, Deliver, HandleInterrupt, HandleRedirect, DropRedirect, AdapterResponse,
         AdapterEnds, AdapterRepeats, AdapterCloses, Shutdown, vars
    <3> QED BY <1>2, <3>1 DEF Owed
  <2> QED BY <2>1, <2>2
<1>3. ASSUME Interrupting, victim.reply = r
      PROVE  Owed(r)' \/ \E by : Closes(by, r)
  <2>1. ASSUME Interrupting', victim' = victim
        PROVE  Owed(r)'
    BY <1>3, <2>1 DEF Owed, Interrupting
  <2>2. CASE InterruptStep
    <3>1. CASE InterruptTerminator
      <4>1. Closes("signal", r)
        BY <1>3, <3>1 DEF Closes
      <4> QED BY <4>1
    <3>2. CASE ~InterruptTerminator
      <4>1. Interrupting' /\ victim' = victim
        BY <1>0, <1>3, <2>2, <3>2 DEF InterruptStep, InterruptIdle, InterruptRelease,
           InterruptCancel, InterruptAbort, InterruptNote, Goto, Interrupting
      <4> QED BY <2>1, <4>1
    <3> QED BY <3>1, <3>2
  <2>3. ASSUME NEW h \in Handlers, DispatchStep(h)
        PROVE  Owed(r)'
    <3>1. victim' = victim /\ pc'[Sig] = pc[Sig]
      BY <1>0, <1>3, <2>3, DispatchFrame DEF Interrupting, Dispatching
    <3> QED BY <1>3, <2>1, <3>1 DEF Interrupting
  <2>4. CASE (\E t \in Turns : WatchdogStep(t)) \/ PumpStep \/ UNCHANGED vars
    <3>1. UNCHANGED <<pc, victim>>
      BY <2>4 DEF WatchdogStep, WatchdogFires, WatchdogMismatch, WatchdogTerminator,
         WatchdogShutdown, PumpStep, PumpExit, PumpDrop, PumpReceive, PumpLoadTrace, PumpPublish,
         PumpError, PumpTerminator, PumpClear, vars, handlerVars
    <3> QED BY <1>3, <2>1, <3>1 DEF Interrupting
  <2>5. CASE Environment
    <3>1. pc'[Sig] = pc[Sig] /\ victim' = victim
      BY <1>0, <1>3, <2>5 DEF Environment, HandlePubPrompt, HandlePrompt, Deliver,
         HandleInterrupt, HandleRedirect, DropRedirect, AdapterResponse, AdapterEnds,
         AdapterRepeats, AdapterCloses, Shutdown, handlerVars, Goto, Interrupting
    <3> QED BY <1>3, <2>1, <3>1 DEF Interrupting
  <2> QED BY <2>2, <2>3, <2>4, <2>5 DEF Next
<1>4. ASSUME NEW t \in Turns, watchdog[t] = "closing", ReplyOf[t] = r
      PROVE  Owed(r)' \/ \E by : Closes(by, r)
  <2>1. ASSUME watchdog'[t] = "closing"
        PROVE  Owed(r)'
    BY <1>4, <2>1 DEF Owed
  <2>2. ASSUME NEW u \in Turns, WatchdogStep(u)
        PROVE  Owed(r)' \/ \E by : Closes(by, r)
    <3>1. CASE WatchdogTerminator(t)
      <4>1. Closes("watchdog", r)
        BY <1>4, <3>1 DEF Closes
      <4> QED BY <4>1
    <3>2. CASE ~WatchdogTerminator(t)
      <4>1. watchdog'[t] = "closing"
        BY <1>0, <1>4, <2>2, <3>2 DEF WatchdogStep, WatchdogFires, WatchdogMismatch,
           WatchdogTerminator, WatchdogShutdown
      <4> QED BY <2>1, <4>1
    <3> QED BY <3>1, <3>2
  <2>3. ASSUME NEW h \in Handlers, DispatchStep(h)
        PROVE  Owed(r)'
    <3>1. CASE ArmWatchdog(h)
      <4>1. turn[h] # t
        BY <1>4 DEF WatchdogComesLast
      <4>2. watchdog' = [watchdog EXCEPT ![turn[h]] = "armed"]
        BY <3>1 DEF ArmWatchdog
      <4> QED BY <1>0, <1>4, <2>1, <4>1, <4>2
    <3>2. CASE ~ArmWatchdog(h)
      <4>1. watchdog' = watchdog
        BY <2>3, <3>2 DEF DispatchStep, RejectError, RejectTerminator, ClaimSlot, AgentBusy,
           PublishAck, AckFails, OnPrompt, OnPromptFails, FailError, FailTerminator, FailClear
      <4> QED BY <1>4, <2>1, <4>1
    <3> QED BY <3>1, <3>2
  <2>4. CASE InterruptStep \/ PumpStep \/ Environment \/ UNCHANGED vars
    <3>1. watchdog' = watchdog
      BY <2>4 DEF InterruptStep, InterruptIdle, InterruptRelease, InterruptCancel,
         InterruptAbort, InterruptNote, InterruptTerminator, PumpStep, PumpExit, PumpDrop,
         PumpReceive, PumpLoadTrace, PumpPublish, PumpError, PumpTerminator, PumpClear,
         Environment, HandlePubPrompt, HandlePrompt, Deliver, HandleInterrupt, HandleRedirect,
         DropRedirect, AdapterResponse, AdapterEnds, AdapterRepeats, AdapterCloses, Shutdown, vars
    <3> QED BY <1>4, <2>1, <3>1
  <2> QED BY <2>2, <2>3, <2>4 DEF Next
<1> QED BY <1>1, <1>2, <1>3, <1>4 DEF Owed, Interrupting

LEMMA OwedOrEndedStable ==
  ASSUME Known, WatchdogComesLast, [Next]_vars, NEW r \in Replies, OwedOrEnded(r)
  PROVE  OwedOrEnded(r)'
<1>1. ASSUME NEW by, Closes(by, r)
      PROVE  Ended(r)'
  BY <1>1, ClosesEnds DEF Ended
<1> QED BY <1>1, OwedStep, EndedStable DEF OwedOrEnded

(* A handler comes to dispatch a turn by claiming it only. *)
LEMMA HandlerPlace ==
  ASSUME Known, [Next]_vars, NEW h \in Handlers, pc'[h] \in Dispatching
  PROVE  /\ turn'[h] = turn[h] /\ turn[h] \in Turns
         /\ \/ pc[h] \in Dispatching /\ (pc'[h] = "ack" => pc[h] = "ack")
            \/ pc[h] = "dispatch" /\ pc'[h] = "ack" /\ ClaimSlot(h)
         /\ pc'[h] = "failClear" => pc[h] = "failClear" \/ FailTerminator(h)
<1>0. /\ pc \in [Handlers -> Places] /\ turn \in [Handlers -> Turns \cup {NoTurn}]
      /\ Sig \in Handlers /\ Endpoints \subseteq Handlers
  BY DEF Known, IndInv, TypeOK, Handlers
<1> DEFINE Goal == /\ turn'[h] = turn[h]
                   /\ \/ pc[h] \in Dispatching /\ (pc'[h] = "ack" => pc[h] = "ack")
                      \/ pc[h] = "dispatch" /\ pc'[h] = "ack" /\ ClaimSlot(h)
                   /\ pc'[h] = "failClear" => pc[h] = "failClear" \/ FailTerminator(h)
<1>1. ASSUME NEW g \in Handlers, DispatchStep(g)
      PROVE  Goal
  <2>1. CASE g # h
    BY <1>0, <1>1, <2>1, DispatchFrame
  <2>2. CASE g = h
    BY <1>0, <1>1, <2>2 DEF DispatchStep, Goto, Finish, RejectError, RejectTerminator,
       ClaimSlot, AgentBusy, PublishAck, AckFails, OnPrompt, OnPromptFails, FailError,
       FailTerminator, FailClear, ArmWatchdog, Dispatching
  <2> QED BY <2>1, <2>2
<1>2. ASSUME UNCHANGED <<pc, turn>>
      PROVE  Goal
  BY <1>2
<1>3. ASSUME InterruptStep
      PROVE  Goal
  <2>1. h # Sig /\ pc'[h] = pc[h] /\ turn' = turn
    BY <1>0, <1>3 DEF Goto, AfterInterrupt, InterruptStep, InterruptIdle, InterruptRelease,
       InterruptCancel, InterruptAbort, InterruptNote, InterruptTerminator, Dispatching
  <2> QED BY <2>1
<1>4. ASSUME Environment
      PROVE  Goal
  <2>1. pc'[h] = pc[h] /\ turn'[h] = turn[h]
    BY <1>0, <1>4 DEF Environment, HandlePubPrompt, HandlePrompt, Deliver, HandleInterrupt,
       HandleRedirect, DropRedirect, AdapterResponse, AdapterEnds, AdapterRepeats,
       AdapterCloses, Shutdown, handlerVars, Goto, Dispatching
  <2> QED BY <2>1
<1>5. (\E t \in Turns : WatchdogStep(t)) \/ PumpStep \/ UNCHANGED vars => UNCHANGED <<pc, turn>>
  BY DEF WatchdogStep, WatchdogFires, WatchdogMismatch, WatchdogTerminator,
     WatchdogShutdown, PumpStep, PumpExit, PumpDrop, PumpReceive, PumpLoadTrace, PumpPublish,
     PumpError, PumpTerminator, PumpClear, vars, handlerVars
<1>6. Goal
  BY <1>1, <1>2, <1>3, <1>4, <1>5 DEF Next
<1>7. pc[h] \in Dispatching \cup {"dispatch"} => turn[h] \in Turns
  BY <1>0 DEF Known, IndInv, HandlerTurns
<1> QED BY <1>6, <1>7

(* Nobody acks a turn that nobody dispatches. *)
LEMMA AckedByStep ==
  ASSUME Known, [Next]_vars, NEW t \in Turns, ReplyOf[t] \in Replies, AckedBy(t)'
  PROVE  AckedBy(t) \/ \E h \in Handlers : PublishAck(h) /\ turn[h] = t
<1>1. PICK r \in Replies : r = ReplyOf[t]
  OBVIOUS
<1>2. PICK i \in 1..Len(out'[r]) : out'[r][i].type = "ack" /\ out'[r][i].turn = t
  BY <1>1 DEF AckedBy
<1>3. CASE i \in 1..Len(out[r])
  BY <1>1, <1>2, <1>3, StreamGrows DEF AckedBy
<1>4. CASE i \notin 1..Len(out[r])
  BY <1>2, <1>4, NewMessage
<1> QED BY <1>3, <1>4

LEMMA InFlightStep ==
  ASSUME Known, [Next]_vars, NEW t \in Turns, Claimed(t), ReplyOf[t] \in Replies, InFlight(t)'
  PROVE  InFlight(t)
<1>1. ASSUME NEW h \in Handlers, turn'[h] = t, pc'[h] \in Dispatching
      PROVE  InFlight(t)
  BY <1>1, HandlerPlace, ClaimedIsStarted DEF InFlight, Known
<1>2. ASSUME NEW h \in Handlers, PublishAck(h), turn[h] = t
      PROVE  InFlight(t)
  BY <1>2 DEF InFlight, PublishAck, Dispatching
<1> QED BY <1>1, <1>2, AckedByStep DEF InFlight

LEMMA AcksStep ==
  ASSUME Known, ClosersInv, [Next]_vars
  PROVE  AcksAreClaimed'
<1>0. IndInv /\ AcksAreClaimed /\ \A t \in Turns : Claimed(t) => Claimed(t)'
  BY ClaimedStable DEF Known, ClosersInv
<1>1. ASSUME NEW r \in Replies, NEW i \in 1..Len(out'[r]), out'[r][i].type = "ack"
      PROVE  /\ out'[r][i].turn \in Turns /\ Claimed(out'[r][i].turn)
             /\ ReplyOf[out'[r][i].turn] = r
  <2>1. CASE i \in 1..Len(out[r])
    BY <1>0, <1>1, <2>1, StreamGrows DEF AcksAreClaimed
  <2>2. CASE i \notin 1..Len(out[r])
    <3>1. PICK h \in Handlers : /\ PublishAck(h) /\ turn[h] = out'[r][i].turn
                                /\ turn[h] \in Turns /\ ReplyOf[turn[h]] = r
      BY <1>1, <2>2, NewMessage
    <3>2. Claimed(turn[h])
      BY <1>0, <3>1, DispatchingIsClaimed DEF PublishAck, Dispatching
    <3> QED BY <3>1, <3>2
  <2> QED BY <2>1, <2>2
<1>2. \A r \in Replies : \A i \in 1..Len(out'[r]) : out'[r][i].type = "ack" =>
        /\ out'[r][i].turn \in Turns
        /\ activeCancel' = out'[r][i].turn \/ out'[r][i].turn \in Finished'
        /\ ReplyOf[out'[r][i].turn] = r
  <2> SUFFICES ASSUME NEW r \in Replies, NEW i \in 1..Len(out'[r]), out'[r][i].type = "ack"
               PROVE  /\ out'[r][i].turn \in Turns
                      /\ activeCancel' = out'[r][i].turn \/ out'[r][i].turn \in Finished'
                      /\ ReplyOf[out'[r][i].turn] = r
    OBVIOUS
  <2>1. PICK t \in Turns : t = out'[r][i].turn /\ Claimed(t) /\ ReplyOf[t] = r
    BY <1>1
  <2>2. Claimed(t)'
    BY <1>0, <2>1
  <2> QED BY <2>1, <2>2 DEF Claimed
<1>3. ASSUME NEW h \in Handlers, pc'[h] = "ack"
      PROVE  \A t \in Turns : t = turn'[h] => ~AckedBy(t)'
  <2> SUFFICES ASSUME NEW t \in Turns, t = turn'[h], AckedBy(t)'
               PROVE  FALSE
    OBVIOUS
  <2>1. turn[h] = t /\ (pc[h] = "ack" \/ ClaimSlot(h))
    BY <1>3, HandlerPlace DEF Dispatching
  <2>2. ReplyOf[t] \in Replies
    BY <1>0, <2>1, ShimTurnAssumption DEF IndInv, HandlerTurns
  <2>3. CASE AckedBy(t)
    <3>1. CASE pc[h] = "ack"
      BY <1>0, <2>1, <2>3, <3>1 DEF AcksAreClaimed
    <3>2. CASE pc[h] # "ack"
      <4>1. pc[h] = "dispatch"
        BY <2>1, <3>2 DEF ClaimSlot
      <4>2. Claimed(t)
        BY <1>0, <2>2, <2>3 DEF AckedBy, AcksAreClaimed
      <4> QED BY <1>0, <2>1, <4>1, <4>2, ClaimedIsStarted DEF Dispatching
    <3> QED BY <3>1, <3>2
  <2>4. ASSUME NEW g \in Handlers, PublishAck(g), turn[g] = t
        PROVE  FALSE
    <3>1. g = h
      BY <1>0, <2>1, <2>4, ShimTurnAssumption DEF IndInv, HandlerTurns
    <3>2. pc'[g] = "onPrompt"
      BY <1>0, <2>4 DEF PublishAck, Goto, IndInv, TypeOK
    <3> QED BY <1>3, <3>1, <3>2
  <2> QED BY <2>2, <2>3, <2>4, AckedByStep
<1>4. ASSUME NEW h \in Handlers, pc'[h] = "ack"
      PROVE  turn'[h] \in Turns
  BY <1>4, HandlerPlace DEF Dispatching
<1>5. ASSUME NEW h \in Handlers, pc'[h] = "ack"
      PROVE  ~(\E i \in 1..Len(out'[ReplyOf[turn'[h]]]) :
                  /\ out'[ReplyOf[turn'[h]]][i].type = "ack"
                  /\ out'[ReplyOf[turn'[h]]][i].turn = turn'[h])
  <2>1. PICK t \in Turns : t = turn'[h]
    BY <1>4, <1>5
  <2>2. ~AckedBy(t)'
    BY <1>3, <1>5, <2>1
  <2> QED BY <2>1, <2>2 DEF AckedBy
<1> QED BY <1>2, <1>5 DEF AcksAreClaimed, Claimed, AckedBy

LEMMA ClearedStep ==
  ASSUME Known, ClosersInv, [Next]_vars
  PROVE  ClearedAfterEnd'
<1>0. IndInv /\ ClearedAfterEnd
  BY DEF Known, ClosersInv
<1>1. ASSUME pump'.at = "clear", NEW r, r = pump'.reply
      PROVE  Ended(r)'
  <2>1. CASE PumpTerminator
    <3>1. pump.at = "term" /\ r = pump.reply
      BY <1>1, <2>1 DEF PumpTerminator, Pump
    <3>2. r \in Replies /\ Closes("pump", r)
      BY <2>1, <3>1 DEF Known, Served, Closes
    <3> QED BY <3>2, ClosesEnds DEF Ended
  <2>2. CASE ~PumpTerminator
    <3>1. pump' = pump
      BY <1>1, <2>2 DEF Next, DispatchStep, RejectError, RejectTerminator, ClaimSlot, AgentBusy,
         PublishAck, AckFails, OnPrompt, OnPromptFails, FailError, FailTerminator, FailClear,
         ArmWatchdog, InterruptStep, InterruptIdle, InterruptRelease, InterruptCancel,
         InterruptAbort, InterruptNote, InterruptTerminator, WatchdogStep, WatchdogFires,
         WatchdogMismatch, WatchdogTerminator, WatchdogShutdown, Environment, HandlePubPrompt,
         HandlePrompt, Deliver, HandleInterrupt, HandleRedirect, DropRedirect, AdapterResponse,
         AdapterEnds, AdapterRepeats, AdapterCloses, Shutdown, vars, PumpStep, PumpExit, PumpDrop,
         PumpReceive, PumpLoadTrace, PumpPublish, PumpError, PumpClear, Pump, PumpAt
    <3>2. r \in Replies /\ Ended(r)
      BY <1>0, <1>1, <3>1 DEF Known, Served, ClearedAfterEnd
    <3> QED BY <3>2, EndedStable
  <2> QED BY <2>1, <2>2
<1>2. ASSUME NEW h \in Handlers, pc'[h] = "failClear", NEW r, r = ReplyOf[turn'[h]]
      PROVE  Ended(r)'
  <2>1. /\ turn'[h] = turn[h] /\ turn[h] \in Turns
        /\ pc[h] = "failClear" \/ FailTerminator(h)
    BY <1>2, HandlerPlace DEF Dispatching
  <2>2. r \in Replies
    BY <1>0, <1>2, <2>1, ShimTurnAssumption DEF IndInv, HandlerTurns
  <2>3. CASE pc[h] = "failClear"
    BY <1>0, <1>2, <2>1, <2>2, <2>3, EndedStable DEF ClearedAfterEnd
  <2>4. CASE FailTerminator(h)
    <3>1. Closes("handler", r)
      BY <1>2, <2>1, <2>4 DEF Closes
    <3> QED BY <2>2, <3>1, ClosesEnds DEF Ended
  <2> QED BY <2>1, <2>3, <2>4
<1> QED BY <1>1, <1>2 DEF ClearedAfterEnd, Ended

LEMMA NoticesStep ==
  ASSUME Known, ClosersInv, [Next]_vars
  PROVE  NoticesAreOwed'
<1> SUFFICES ASSUME NEW r \in Replies, NEW i \in 1..Len(out'[r]),
                    out'[r][i].type \in {"error", "reject", "aborted"}
             PROVE  Owed(r)' \/ \E j \in 1..Len(out'[r]) : j > i /\ out'[r][j].type = "term"
  BY DEF NoticesAreOwed
<1>1. CASE i \notin 1..Len(out[r])
  BY <1>1, NewMessage
<1>2. CASE i \in 1..Len(out[r])
  <2>1. Owed(r) \/ \E j \in 1..Len(out[r]) : j > i /\ out[r][j].type = "term"
    BY <1>2, StreamGrows DEF ClosersInv, NoticesAreOwed
  <2>2. ASSUME NEW by, Closes(by, r)
        PROVE  \E j \in 1..Len(out'[r]) : j > i /\ out'[r][j].type = "term"
    <3>1. /\ Len(out[r]) \in Nat /\ Len(out[r]) + 1 \in 1..Len(out'[r])
          /\ out'[r][Len(out[r]) + 1].type = "term"
      BY <2>2, ClosesEnds
    <3>2. Len(out[r]) + 1 > i
      BY <1>2, <3>1
    <3> QED BY <3>1, <3>2
  <2>3. CASE Owed(r)
    BY <2>2, <2>3, OwedStep DEF ClosersInv
  <2>4. CASE ~Owed(r)
    BY <2>1, <2>4, StreamGrows
  <2> QED BY <2>3, <2>4
<1> QED BY <1>1, <1>2

(* Whoever releases the slot owes the stream its terminator, or it is out. *)
LEMMA ReleaseAnswers ==
  ASSUME Known, ClosersInv, [Next]_vars, ReleaseSlot,
         NEW t \in Turns, activeCancel = t, InFlight(t)'
  PROVE  ReplyOf[t] \in Replies /\ OwedOrEnded(ReplyOf[t])'
<1>0. /\ pc \in [Handlers -> Places] /\ turn \in [Handlers -> Turns \cup {NoTurn}]
      /\ watchdog \in [Turns -> {"off", "armed", "closing", "done"}]
      /\ IndInv /\ Sig \in Handlers /\ Endpoints \subseteq Handlers /\ NoTurn \notin Turns
      /\ NoReply \notin Replies
  BY ShimTurnAssumption DEF Known, IndInv, TypeOK, Handlers
<1>1. /\ activeReply = ReplyOf[t] /\ activeReply \in Replies /\ activeReply # NoReply
      /\ activeReply' = NoReply
  BY <1>0 DEF IndInv, SlotAgrees, TypeOK, ReleaseSlot
<1>2. PICK r \in Replies : r = activeReply
  BY <1>1
<1>3. OwedOrEnded(r) => OwedOrEnded(r)'
  BY OwedOrEndedStable DEF ClosersInv
<1>4. ASSUME NEW h \in Handlers, AckFails(h) \/ FailClear(h)
      PROVE  OwedOrEnded(r)'
  <2>1. /\ pc[h] \in {"ack", "failClear"} /\ ReplyOf[turn[h]] = r
        /\ turn' = [turn EXCEPT ![h] = NoTurn] /\ pc' = [pc EXCEPT ![h] = "idle"]
        /\ out' = out
    BY <1>1, <1>2, <1>4 DEF AckFails, FailClear, clearActive, slotVars, Finish, Goto
  <2>2. turn[h] \in Turns /\ Claimed(turn[h])
    BY <1>0, <2>1, DispatchingIsClaimed DEF Dispatching
  <2>3. CASE pc[h] = "failClear"
    BY <1>3, <2>1, <2>3 DEF ClosersInv, ClearedAfterEnd, OwedOrEnded
  <2>4. CASE pc[h] = "ack" /\ turn[h] = t
    <3>1. ~AckedBy(t)
      BY <2>4 DEF ClosersInv, AcksAreClaimed
    <3>2. ~AckedBy(t)'
      BY <2>1, <3>1 DEF AckedBy
    <3>3. \A g \in Handlers : turn'[g] # t
      BY <1>0, <2>1, <2>4 DEF IndInv, HandlerTurns
    <3> QED BY <3>2, <3>3 DEF InFlight
  <2>5. CASE pc[h] = "ack" /\ turn[h] # t
    <3>1. turn[h] \in Finished /\ InFlight(turn[h])
      BY <2>2, <2>5 DEF Claimed, InFlight, Dispatching
    <3>2. OwedOrEnded(r)
      BY <2>1, <2>2, <3>1 DEF ClosersInv, LosersAreOwed
    <3> QED BY <1>3, <3>2
  <2> QED BY <2>1, <2>3, <2>4, <2>5
<1>5. ASSUME NEW u \in Turns, WatchdogFires(u)
      PROVE  OwedOrEnded(r)'
  <2>1. watchdog'[u] = "closing" /\ ReplyOf[u] = r
    BY <1>0, <1>2, <1>5 DEF WatchdogFires
  <2> QED BY <2>1 DEF OwedOrEnded, Owed
<1>6. ASSUME PumpClear
      PROVE  OwedOrEnded(r)'
  <2>1. pump.at = "clear" /\ pump.reply = r
    BY <1>1, <1>2, <1>6 DEF PumpClear, clearActive, slotVars
  <2> QED BY <1>3, <2>1 DEF ClosersInv, ClearedAfterEnd, OwedOrEnded
<1>7. \/ \E h \in Handlers : AckFails(h) \/ FailClear(h)
      \/ InterruptRelease \/ PumpClear
      \/ \E u \in Turns : WatchdogFires(u)
  <2>1. ~UNCHANGED slotVars
    BY <1>1 DEF slotVars
  <2>2. ~Environment /\ ~UNCHANGED vars
    BY <1>0, <2>1, EnvironmentSlot DEF IndInv, vars
  <2>3. ~\E h \in Handlers : ClaimSlot(h)
    BY <1>1 DEF ClaimSlot
  <2>4. ASSUME NEW h \in Handlers, DispatchStep(h)
        PROVE  AckFails(h) \/ FailClear(h)
    BY <2>1, <2>3, <2>4 DEF DispatchStep, RejectError, RejectTerminator,
       AgentBusy, PublishAck, OnPrompt, OnPromptFails, FailError, FailTerminator, ArmWatchdog
  <2>5. InterruptStep => InterruptRelease
    BY <2>1 DEF InterruptStep, InterruptIdle, InterruptCancel, InterruptAbort, InterruptNote,
       InterruptTerminator
  <2>6. ASSUME NEW u \in Turns, WatchdogStep(u)
        PROVE  WatchdogFires(u)
    BY <2>1, <2>6 DEF WatchdogStep, WatchdogMismatch, WatchdogTerminator, WatchdogShutdown
  <2>7. PumpStep => PumpClear
    BY <2>1 DEF PumpStep, PumpExit, PumpDrop, PumpReceive, PumpLoadTrace, PumpPublish,
       PumpError, PumpTerminator
  <2> QED BY <2>2, <2>4, <2>5, <2>6, <2>7 DEF Next
<1>8. OwedOrEnded(r)'
  <2>1. CASE InterruptRelease
    <3>1. pc'[Sig] = "cancel" /\ victim'.reply = r
      BY <1>0, <1>2, <2>1 DEF InterruptRelease, Goto
    <3> QED BY <3>1 DEF OwedOrEnded, Owed
  <2> QED BY <1>4, <1>5, <1>6, <1>7, <2>1
<1> QED BY <1>1, <1>2, <1>8

LEMMA LosersStep ==
  ASSUME Known, ClosersInv, [Next]_vars
  PROVE  LosersAreOwed'
<1> SUFFICES ASSUME NEW t \in Turns, t \in Finished', ReplyOf[t] \in Replies, InFlight(t)'
             PROVE  OwedOrEnded(ReplyOf[t])'
  BY DEF LosersAreOwed
<1>0. IndInv /\ TypeOK
  BY DEF Known, IndInv
<1>1. PICK r \in Replies : r = ReplyOf[t]
  OBVIOUS
<1>2. CASE t \in Finished
  <2>1. InFlight(t)
    BY <1>2, InFlightStep DEF Claimed
  <2>2. OwedOrEnded(r)
    BY <1>1, <1>2, <2>1 DEF ClosersInv, LosersAreOwed
  <2>3. OwedOrEnded(r)'
    BY <2>2, OwedOrEndedStable DEF ClosersInv
  <2> QED BY <1>1, <2>3
<1>3. CASE t \notin Finished
  <2>1. ReleaseSlot /\ activeCancel = t
    BY <1>0, <1>3, SlotSteps DEF FinishActive
  <2> QED BY <2>1, ReleaseAnswers
<1> QED BY <1>2, <1>3

LEMMA ClosersCorrect == Spec => []ClosersInv
<1>1. Known /\ ClosersInv /\ [Next]_vars => ClosersInv'
  <2> SUFFICES ASSUME Known, ClosersInv, [Next]_vars
               PROVE  ClosersInv'
    OBVIOUS
  <2>1. WatchdogComesLast'
    BY WatchdogLastStep DEF ClosersInv
  <2>2. AcksAreClaimed' /\ LosersAreOwed' /\ ClearedAfterEnd' /\ NoticesAreOwed'
    BY AcksStep, LosersStep, ClearedStep, NoticesStep
  <2> QED BY <2>1, <2>2 DEF ClosersInv
<1> QED BY <1>1, InitClosers, KnownCorrect, PTL DEF Spec

(* No caller is left waiting on a stream that nobody will close, whatever  *)
(* the order in which the closers meet, and also when requests share their *)
(* reply subject.                                                          *)
THEOREM NoStreamIsForgottenCorrect == Spec => []NoStreamIsForgotten
<1>1. Known /\ ClosersInv => NoStreamIsForgotten
  <2> SUFFICES ASSUME Known, ClosersInv, NEW r \in Replies, NEW i \in 1..Len(out[r])
               PROVE  /\ out[r][i].type \in {"error", "reject", "aborted"} =>
                           \/ Owed(r)
                           \/ \E j \in 1..Len(out[r]) : j > i /\ out[r][j].type = "term"
                      /\ out[r][i].type = "ack" =>
                           \/ Owed(r) \/ activeCancel = out[r][i].turn
                           \/ \E j \in 1..Len(out[r]) : out[r][j].type = "term"
    <3>1. \A r \in Replies : DOMAIN out[r] = 1..Len(out[r])
      BY DEF Known, IndInv, TypeOK
    <3> QED BY <3>1 DEF NoStreamIsForgotten
  <2>1. ASSUME out[r][i].type = "ack", activeCancel # out[r][i].turn
        PROVE  Owed(r) \/ Ended(r)
    <3>1. PICK t \in Turns : t = out[r][i].turn /\ Claimed(t) /\ ReplyOf[t] = r
      BY <2>1 DEF ClosersInv, AcksAreClaimed
    <3>2. t \in Finished /\ InFlight(t)
      BY <2>1, <3>1 DEF Claimed, InFlight, AckedBy
    <3> QED BY <3>1, <3>2 DEF ClosersInv, LosersAreOwed, OwedOrEnded
  <2> QED BY <2>1 DEF ClosersInv, NoticesAreOwed, Ended
<1> QED BY <1>1, KnownCorrect, ClosersCorrect, PTL
=============================================================================
