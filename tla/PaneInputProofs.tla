--------------------------- MODULE PaneInputProofs ---------------------------
(***************************************************************************)
(* Proofs about the pane's input line, for any prompts, redirects and      *)
(* endpoints.  PaneInv says who works on which turn (HandlerTurns), that a *)
(* turn still being sent holds the slot or is cut (SlotInv), and where the *)
(* texts are (TextInv).                                                    *)
(***************************************************************************)
EXTENDS PaneInputProperties, TLAPS

InterruptPlaces == {"interrupt", "cancel", "abort"}
Working == Unsent \cup {"dispatch", "arm"}

(* Who works on which request. *)
HandlerTurns ==
  /\ \A h \in Handlers : pc[h] \in Working => turn[h] # NoTurn
  /\ \A h \in Handlers : pc[h] = "idle" => turn[h] = NoTurn
  /\ \A h \in Handlers : turn[h] # NoTurn => turn[h] \notin pending
  /\ \A h \in Endpoints : pc[h] \notin InterruptPlaces
  /\ \A g, h \in Handlers : turn[g] = turn[h] /\ turn[g] # NoTurn => g = h

(* A turn that has not asked for the slot yet. *)
Waiting(t) ==
  \/ t \in pending
  \/ \E h \in Handlers : turn[h] = t /\ pc[h] \in InterruptPlaces \cup {"dispatch"}

(* A turn of which nothing was typed yet. *)
Untyped(t) ==
  \/ Waiting(t)
  \/ \E h \in Handlers : turn[h] = t /\ pc[h] \in {"ack", "onPrompt", "type"}

(* A turn that waits for the slot never had it; a turn that is being sent  *)
(* has it or is cut; one that an interrupt took out of it is not in it.    *)
SlotInv ==
  /\ slot \notin cancelled
  /\ \A t \in Turns : Waiting(t) => t # slot /\ t \notin cancelled
  /\ \A h \in Handlers : pc[h] \in Unsent => slot = turn[h] \/ turn[h] \in cut
  /\ pc[Sig] \in {"cancel", "abort"} =>
       victim \in Turns /\ victim # slot /\ ~Waiting(victim)
  /\ pc[Sig] = "abort" => victim \in cancelled

(* A turn in the slot, waiting for it or about to get its Ctrl-C got none  *)
(* yet.                                                                    *)
AbortInv ==
  /\ OneCtrlCPerTurn
  /\ \A i \in 1..Len(aborts) : ~Waiting(aborts[i])
  /\ pc[Sig] \in {"cancel", "abort"} =>
       \A i \in 1..Len(aborts) : aborts[i] # victim

(* Where the texts are. *)
TextInv ==
  /\ LinesMixOnlyAfterACut
  /\ AcceptedIsSubmittedOnce
  /\ \A t \in Turns : Untyped(t) => ~OnLine(t) /\ ~Given(t)
  /\ \A t \in Turns : OnLine(t) => Sending(t) \/ t \in cut
  /\ \A h \in Handlers : pc[h] = "enter" =>
       /\ engine = "tmux"
       /\ OnLine(turn[h]) \/ Given(turn[h]) \/ turn[h] \in wiped
  /\ engine # "tmux" => line = << >>

PaneInv == TypeOK /\ HandlerTurns /\ SlotInv /\ AbortInv /\ TextInv

-----------------------------------------------------------------------------
LEMMA InitPane == Init => PaneInv
<1> SUFFICES ASSUME Init PROVE PaneInv
  OBVIOUS
<1> USE DEF Init
<1>1. TypeOK
  <2>1. << >> \in Seq(Turns) /\ << >> \in Seq(Seq(Turns))
    OBVIOUS
  <2> QED BY <2>1 DEF TypeOK, Places
<1>2. HandlerTurns
  BY DEF HandlerTurns, Working, Unsent, InterruptPlaces, Handlers
<1>3. SlotInv
  BY PaneInputAssumption DEF SlotInv, Handlers, Unsent
<1>4. AbortInv
  BY DEF AbortInv, OneCtrlCPerTurn, Handlers
<1>5. TextInv
  BY DEF TextInv, LinesMixOnlyAfterACut, AcceptedIsSubmittedOnce, OnLine, Given,
     Accepted, Handlers
<1> QED BY <1>1, <1>2, <1>3, <1>4, <1>5 DEF PaneInv

-----------------------------------------------------------------------------
(* How a handler moves in dispatchPrompt: forward, or back to idle. *)
Moves(h) ==
  /\ pc[h] \in Working
  /\ UNCHANGED pending
  /\ \/ \E q \in Working \ {"dispatch"} :
          /\ pc' = [pc EXCEPT ![h] = q] /\ turn' = turn
          /\ q \in {"ack", "onPrompt", "type"} =>
               pc[h] \in {"dispatch", "ack", "onPrompt"}
     \/ Finish(h)

(* Such a move brings nobody back to before the slot or before the text.   *)
LEMMA MovesForward ==
  ASSUME TypeOK, HandlerTurns, NEW h \in Handlers, Moves(h)
  PROVE  /\ HandlerTurns'
         /\ \A t \in Turns : (Waiting(t))' => Waiting(t)
         /\ \A t \in Turns : (Untyped(t))' => Untyped(t)
         /\ \A g \in Handlers \ {h} : pc'[g] = pc[g] /\ turn'[g] = turn[g]
<1>1. /\ pc \in [Handlers -> Places] /\ turn \in [Handlers -> Turns \cup {NoTurn}]
      /\ NoTurn \notin Turns /\ pending' = pending
  BY PaneInputAssumption DEF TypeOK, Moves
<1>2. \A g \in Handlers \ {h} : pc'[g] = pc[g] /\ turn'[g] = turn[g]
  BY <1>1 DEF Moves, Finish, Goto
<1>3. CASE Finish(h)
  <2>1. pc'[h] = "idle" /\ turn'[h] = NoTurn
    BY <1>1, <1>3 DEF Finish, Goto
  <2>2. HandlerTurns'
    BY <1>1, <1>2, <2>1 DEF HandlerTurns, Working, Unsent, InterruptPlaces, Handlers
  <2> QED BY <1>1, <1>2, <2>1, <2>2 DEF Waiting, Untyped
<1>4. CASE ~Finish(h)
  <2>1. PICK q \in Working \ {"dispatch"} :
          /\ pc' = [pc EXCEPT ![h] = q] /\ turn' = turn
          /\ q \in {"ack", "onPrompt", "type"} =>
               pc[h] \in {"dispatch", "ack", "onPrompt"}
    BY <1>4 DEF Moves
  <2>2. pc'[h] = q /\ turn'[h] = turn[h] /\ pc[h] \in Working
    BY <1>1, <2>1 DEF Moves
  <2>3. HandlerTurns'
    BY <1>1, <1>2, <2>1, <2>2 DEF HandlerTurns, Working, Unsent, InterruptPlaces, Handlers
  <2>4. \A t \in Turns : (Waiting(t))' => Waiting(t)
    BY <1>1, <1>2, <2>1, <2>2 DEF Waiting, Working, Unsent, InterruptPlaces
  <2>5. \A t \in Turns : (Untyped(t))' => Untyped(t)
    BY <1>1, <1>2, <2>1, <2>2, <2>4 DEF Untyped, Waiting, Working, Unsent, InterruptPlaces
  <2> QED BY <1>2, <2>3, <2>4, <2>5
<1> QED BY <1>2, <1>3, <1>4

(* The texts stay where they are when nobody types. *)
LEMMA NobodyTypes ==
  ASSUME TypeOK, TextInv, UNCHANGED <<engine, line, lines, wiped>>, cut \subseteq cut',
         \A t \in Turns : (Untyped(t))' => Untyped(t),
         \A t \in Turns : Sending(t) => (Sending(t))' \/ t \in cut' \/ ~OnLine(t),
         \A t \in Turns : (Accepted(t))' => Accepted(t),
         \A h \in Handlers : pc'[h] = "enter" => pc[h] = "enter" /\ turn'[h] = turn[h]
  PROVE  TextInv'
<1>1. \A t \in Turns : ((OnLine(t))' <=> OnLine(t)) /\ ((Given(t))' <=> Given(t))
  BY DEF OnLine, Given
<1>2. LinesMixOnlyAfterACut'
  BY DEF TextInv, LinesMixOnlyAfterACut
<1>3. AcceptedIsSubmittedOnce'
  BY <1>1 DEF TextInv, AcceptedIsSubmittedOnce
<1>4. \A h \in Handlers : pc'[h] = "enter" =>
        /\ engine' = "tmux"
        /\ (OnLine(turn[h]))' \/ (Given(turn[h]))' \/ turn'[h] \in wiped'
  BY DEF TextInv, OnLine, Given
<1> QED BY <1>1, <1>2, <1>3, <1>4 DEF TextInv, OnLine, Given

-----------------------------------------------------------------------------
(* Types. *)

LEMMA CtrlCTypes ==
  ASSUME TypeOK, CtrlC
  PROVE  /\ line' \in Seq(Turns) /\ lines' \in Seq(Seq(Turns)) /\ reading' \in Nat
         /\ generating' \in BOOLEAN /\ wiped' \subseteq Turns /\ terminators' \in Nat
<1>1. << >> \in Seq(Turns)
  OBVIOUS
<1>2. {line[i] : i \in DOMAIN line} \subseteq Turns
  BY DEF TypeOK
<1>3. line' \in Seq(Turns) /\ wiped' \subseteq Turns
  <2>1. CASE UNCHANGED <<line, wiped>>
    BY <2>1 DEF TypeOK
  <2>2. CASE line' = << >> /\ wiped' = wiped \cup {line[i] : i \in DOMAIN line}
    BY <1>1, <1>2, <2>2 DEF TypeOK
  <2> QED BY <2>1, <2>2 DEF CtrlC
<1>4. terminators' \in Nat
  BY DEF CtrlC, TypeOK
<1>5. generating' \in BOOLEAN
  BY DEF CtrlC
<1>6. lines' \in Seq(Seq(Turns)) /\ reading' \in Nat
  BY DEF CtrlC, TypeOK
<1> QED BY <1>3, <1>4, <1>5, <1>6

LEMMA SubmitTypes ==
  ASSUME TypeOK, NEW text \in Seq(Turns), Submit(text)
  PROVE  line' \in Seq(Turns) /\ lines' \in Seq(Seq(Turns))
<1>1. << >> \in Seq(Turns)
  OBVIOUS
<1>2. Append(lines, text) \in Seq(Seq(Turns))
  BY DEF TypeOK
<1> QED BY <1>1, <1>2 DEF Submit, TypeOK

LEMMA TypesKept ==
  ASSUME TypeOK, HandlerTurns, SlotInv, [Next]_vars
  PROVE  TypeOK'
<1> USE DEF slotVars, handlerVars, agentVars
<1>1. ASSUME NEW h \in Handlers, DispatchStep(h)
      PROVE  TypeOK'
  <2>1. CASE ClaimSlot(h) \/ AgentBusy(h) \/ PublishAck(h) \/ OnPrompt(h) \/ CommandFails(h)
             \/ ArmWatchdog(h)
    <3>1. turn[h] \in Turns
      BY <2>1 DEF TypeOK, HandlerTurns, Working, Unsent, ClaimSlot, AgentBusy, PublishAck,
         OnPrompt, CommandFails, ArmWatchdog
    <3> QED BY <2>1, <3>1 DEF TypeOK, ClaimSlot, AgentBusy, PublishAck, OnPrompt,
       CommandFails, ArmWatchdog, Goto, Finish, Places, Unsent
  <2>2. CASE AckFails(h) \/ FailClear(h)
    <3>1. slot' \in Turns \cup {NoTurn} /\ cut' \subseteq Turns /\ cancelled' \subseteq Turns
      BY <2>2 DEF TypeOK, AckFails, FailClear, clearActive, Leave
    <3> QED BY <2>2, <3>1 DEF TypeOK, AckFails, FailClear, Goto, Finish, Places
  <2>3. CASE TypeText(h)
    <3>1. turn[h] \in Turns
      BY <2>3 DEF TypeOK, HandlerTurns, Working, Unsent, TypeText
    <3>2. Append(line, turn[h]) \in Seq(Turns)
      BY <3>1 DEF TypeOK
    <3> QED BY <2>3, <3>2 DEF TypeOK, TypeText, Goto, Places, Unsent
  <2>4. CASE PressEnter(h)
    <3>1. line' \in Seq(Turns) /\ lines' \in Seq(Seq(Turns))
      BY <2>4, SubmitTypes DEF TypeOK, PressEnter
    <3> QED BY <2>4, <3>1 DEF TypeOK, PressEnter, Goto, Places
  <2>5. CASE SendLine(h)
    <3>1. turn[h] \in Turns
      BY <2>5 DEF TypeOK, HandlerTurns, Working, Unsent, SendLine
    <3>2. Append(line, turn[h]) \in Seq(Turns)
      BY <3>1 DEF TypeOK
    <3>3. line' \in Seq(Turns) /\ lines' \in Seq(Seq(Turns))
      BY <2>5, <3>2, SubmitTypes DEF SendLine
    <3> QED BY <2>5, <3>3 DEF TypeOK, SendLine, Goto, Places
  <2> QED BY <1>1, <2>1, <2>2, <2>3, <2>4, <2>5 DEF DispatchStep
<1>2. CASE InterruptStep
  <2>1. CASE InterruptAbort
    <3>1. victim \in Turns
      BY <2>1 DEF SlotInv, InterruptAbort
    <3>2. aborts' \in Seq(Turns)
      BY <2>1, <3>1 DEF TypeOK, InterruptAbort
    <3>3. pc' \in [Handlers -> Places] /\ victim' \in Turns \cup {NoTurn}
      BY <2>1 DEF TypeOK, InterruptAbort, AfterInterrupt, Goto, Places, Unsent
    <3>4. /\ line' \in Seq(Turns) /\ lines' \in Seq(Seq(Turns)) /\ reading' \in Nat
          /\ generating' \in BOOLEAN /\ wiped' \subseteq Turns /\ terminators' \in Nat
      BY <2>1, CtrlCTypes DEF InterruptAbort
    <3> QED BY <2>1, <3>2, <3>3, <3>4 DEF TypeOK, InterruptAbort
  <2>2. CASE InterruptIdle \/ InterruptRelease \/ InterruptCancel \/ InterruptAbortFails
    <3>1. pc' \in [Handlers -> Places]
      BY <2>2 DEF TypeOK, InterruptIdle, InterruptRelease, InterruptCancel,
         InterruptAbortFails, AfterInterrupt, Goto, Places, Unsent
    <3>2. /\ slot' \in Turns \cup {NoTurn} /\ victim' \in Turns \cup {NoTurn}
          /\ cancelled' \subseteq Turns /\ cut' \subseteq Turns
      BY <2>2 DEF TypeOK, SlotInv, InterruptIdle, InterruptRelease, InterruptCancel,
         InterruptAbortFails, Leave
    <3> QED BY <2>2, <3>1, <3>2 DEF TypeOK, InterruptIdle, InterruptRelease,
       InterruptCancel, InterruptAbortFails
  <2> QED BY <1>2, <2>1, <2>2 DEF InterruptStep
<1>3. CASE HandleInterrupt
  <2>1. pc' \in [Handlers -> Places]
    BY <1>3 DEF TypeOK, HandleInterrupt, Goto, Places, Handlers
  <2>3. interrupts' \in Nat
    BY <1>3 DEF TypeOK, HandleInterrupt
  <2>2. UNCHANGED <<engine, slotVars, pending, turn, victim, armed, terminators,
                    agentVars, aborts>>
    BY <1>3 DEF HandleInterrupt
  <2> QED BY <2>1, <2>2, <2>3 DEF TypeOK
<1>4. ASSUME NEW h \in Handlers, NEW t \in Turns,
             Deliver(h, t, "dispatch") \/ Deliver(h, t, "interrupt")
      PROVE  TypeOK'
  <2>1. /\ pc' \in [Handlers -> Places] /\ turn' \in [Handlers -> Turns \cup {NoTurn}]
        /\ pending' \subseteq Turns
    BY <1>4 DEF TypeOK, Deliver, Goto, Places
  <2> QED BY <1>4, <2>1 DEF TypeOK, Deliver
<1>5. CASE (\E t \in Turns : Watchdog(t)) \/ PumpEndsStream
  <2>1. slot' \in Turns \cup {NoTurn} /\ cancelled' \subseteq Turns /\ cut' \subseteq Turns
    BY <1>5 DEF TypeOK, Watchdog, PumpEndsStream, clearActive, Leave
  <2>2. armed' \subseteq Turns /\ terminators' \in Nat
    BY <1>5 DEF TypeOK, Watchdog, PumpEndsStream
  <2> QED BY <1>5, <2>1, <2>2 DEF TypeOK, Watchdog, PumpEndsStream
<1>6. CASE AgentTakesLine \/ AgentFinishes
  <2>1. generating' \in BOOLEAN
    BY <1>6 DEF AgentTakesLine, AgentFinishes
  <2>2. reading' \in Nat /\ terminators' \in Nat
    BY <1>6 DEF TypeOK, AgentTakesLine, AgentFinishes
  <2> QED BY <1>6, <2>1, <2>2 DEF TypeOK, AgentTakesLine, AgentFinishes
<1>7. CASE UNCHANGED vars
  BY <1>7 DEF TypeOK, vars
<1>8. CASE (\E h \in Endpoints, t \in Prompts : HandlePrompt(h, t))
           \/ (\E t \in Redirects : HandleRedirect(t))
  BY <1>4, <1>8 DEF HandlePrompt, HandleRedirect, Turns, Handlers
<1> QED BY <1>1, <1>2, <1>3, <1>5, <1>6, <1>7, <1>8 DEF Next
-----------------------------------------------------------------------------
(* Who works on what. *)

LEMMA DispatchMoves ==
  ASSUME TypeOK, NEW h \in Handlers, DispatchStep(h)
  PROVE  Moves(h)
<1> USE DEF Moves, Working, Unsent, handlerVars
<1>1. CASE ClaimSlot(h)
  BY <1>1 DEF ClaimSlot, Goto
<1>2. CASE PublishAck(h)
  BY <1>2 DEF PublishAck, Goto
<1>3. CASE OnPrompt(h)
  BY <1>3 DEF OnPrompt, Goto
<1>4. CASE TypeText(h) \/ PressEnter(h) \/ SendLine(h) \/ CommandFails(h)
  BY <1>4 DEF TypeText, PressEnter, SendLine, CommandFails, Goto
<1>5. CASE AgentBusy(h) \/ AckFails(h) \/ FailClear(h) \/ ArmWatchdog(h)
  BY <1>5 DEF AgentBusy, AckFails, FailClear, ArmWatchdog
<1> QED BY <1>1, <1>2, <1>3, <1>4, <1>5 DEF DispatchStep

(* The signal subscription moves inside an interrupt, or on from it. *)
SigMoves ==
  /\ UNCHANGED <<pending, turn>>
  /\ \/ /\ pc[Sig] = "idle"
        /\ pc' = [pc EXCEPT ![Sig] = "interrupt"]
     \/ /\ pc[Sig] \in InterruptPlaces
        /\ \/ \E q \in {"cancel", "abort"} : pc' = [pc EXCEPT ![Sig] = q]
           \/ AfterInterrupt

LEMMA InterruptMoves ==
  ASSUME InterruptStep \/ HandleInterrupt
  PROVE  SigMoves
BY DEF InterruptStep, HandleInterrupt, InterruptIdle, InterruptRelease, InterruptCancel,
   InterruptAbort, InterruptAbortFails, SigMoves, InterruptPlaces, Goto, handlerVars

LEMMA SigMovesForward ==
  ASSUME TypeOK, HandlerTurns, SigMoves
  PROVE  /\ HandlerTurns'
         /\ \A t \in Turns : (Waiting(t))' => Waiting(t)
         /\ \A t \in Turns : (Untyped(t))' => Untyped(t)
         /\ \A g \in Handlers \ {Sig} : pc'[g] = pc[g] /\ turn'[g] = turn[g]
<1>1. PICK q \in InterruptPlaces \cup {"idle", "dispatch"} :
        /\ pc' = [pc EXCEPT ![Sig] = q]
        /\ q = "idle" => turn[Sig] = NoTurn
        /\ q = "dispatch" => turn[Sig] # NoTurn
  BY DEF SigMoves, AfterInterrupt, Goto, InterruptPlaces
<1>2. /\ pc \in [Handlers -> Places] /\ turn \in [Handlers -> Turns \cup {NoTurn}]
      /\ NoTurn \notin Turns /\ pending' = pending /\ turn' = turn
      /\ Sig \in Handlers /\ Sig \notin Endpoints
  BY PaneInputAssumption DEF TypeOK, SigMoves, Handlers
<1>3. pc'[Sig] = q /\ \A g \in Handlers \ {Sig} : pc'[g] = pc[g] /\ turn'[g] = turn[g]
  BY <1>1, <1>2
<1>4. pc[Sig] \in InterruptPlaces \/ turn[Sig] = NoTurn
  BY <1>2 DEF SigMoves, HandlerTurns
<1>5. HandlerTurns'
  BY <1>1, <1>2, <1>3 DEF HandlerTurns, Working, Unsent, InterruptPlaces, Handlers
<1>6. \A t \in Turns : (Waiting(t))' => Waiting(t)
  BY <1>1, <1>2, <1>3, <1>4 DEF Waiting, InterruptPlaces
<1>7. \A t \in Turns : (Untyped(t))' => Untyped(t)
  BY <1>1, <1>2, <1>3, <1>6 DEF Untyped, InterruptPlaces
<1> QED BY <1>3, <1>5, <1>6, <1>7

LEMMA DeliverForward ==
  ASSUME TypeOK, HandlerTurns, NEW h \in Handlers, NEW t \in Turns,
         Deliver(h, t, "dispatch") \/ (h = Sig /\ Deliver(h, t, "interrupt"))
  PROVE  /\ HandlerTurns'
         /\ \A s \in Turns : (Waiting(s))' => Waiting(s)
         /\ \A s \in Turns : (Untyped(s))' => Untyped(s)
         /\ \A g \in Handlers \ {h} : pc'[g] = pc[g] /\ turn'[g] = turn[g]
         /\ pc[h] = "idle" /\ pc'[h] \in {"dispatch", "interrupt"}
<1>1. /\ pc \in [Handlers -> Places] /\ turn \in [Handlers -> Turns \cup {NoTurn}]
      /\ NoTurn \notin Turns /\ Sig \notin Endpoints
  BY PaneInputAssumption DEF TypeOK
<1>2. /\ pc[h] = "idle" /\ t \in pending /\ pending' = pending \ {t}
      /\ pc'[h] \in {"dispatch", "interrupt"} /\ turn'[h] = t
      /\ pc'[h] = "interrupt" => h = Sig
      /\ \A g \in Handlers \ {h} : pc'[g] = pc[g] /\ turn'[g] = turn[g]
  BY <1>1 DEF Deliver, Goto
<1>3. HandlerTurns'
  BY <1>1, <1>2 DEF HandlerTurns, Working, Unsent, InterruptPlaces, Handlers
<1>4. \A s \in Turns : (Waiting(s))' => Waiting(s)
  BY <1>2 DEF Waiting
<1>5. \A s \in Turns : (Untyped(s))' => Untyped(s)
  BY <1>2, <1>4 DEF Untyped
<1> QED BY <1>2, <1>3, <1>4, <1>5

(* Nobody goes back to before the slot, or to before the text. *)
LEMMA NobodyGoesBack ==
  ASSUME TypeOK, HandlerTurns, [Next]_vars
  PROVE  /\ HandlerTurns'
         /\ \A t \in Turns : (Waiting(t))' => Waiting(t)
         /\ \A t \in Turns : (Untyped(t))' => Untyped(t)
<1>1. ASSUME NEW h \in Handlers, DispatchStep(h)
      PROVE  /\ HandlerTurns'
             /\ \A t \in Turns : (Waiting(t))' => Waiting(t)
             /\ \A t \in Turns : (Untyped(t))' => Untyped(t)
  BY <1>1, DispatchMoves, MovesForward
<1>2. CASE InterruptStep \/ HandleInterrupt
  BY <1>2, InterruptMoves, SigMovesForward
<1>3. ASSUME NEW h \in Endpoints, NEW t \in Prompts, HandlePrompt(h, t)
      PROVE  /\ HandlerTurns'
             /\ \A s \in Turns : (Waiting(s))' => Waiting(s)
             /\ \A s \in Turns : (Untyped(s))' => Untyped(s)
  BY <1>3, DeliverForward DEF HandlePrompt, Turns, Handlers
<1>4. ASSUME NEW t \in Redirects, HandleRedirect(t)
      PROVE  /\ HandlerTurns'
             /\ \A s \in Turns : (Waiting(s))' => Waiting(s)
             /\ \A s \in Turns : (Untyped(s))' => Untyped(s)
  BY <1>4, DeliverForward DEF HandleRedirect, Turns, Handlers
<1>5. CASE UNCHANGED <<pending, pc, turn>>
  BY <1>5 DEF HandlerTurns, Waiting, Untyped
<1>6. CASE (\E t \in Turns : Watchdog(t)) \/ PumpEndsStream \/ AgentTakesLine \/ AgentFinishes
  BY <1>5, <1>6 DEF Watchdog, PumpEndsStream, AgentTakesLine, AgentFinishes, handlerVars
<1>7. CASE UNCHANGED vars
  BY <1>5, <1>7 DEF vars, handlerVars
<1> QED BY <1>1, <1>2, <1>3, <1>4, <1>6, <1>7 DEF Next

-----------------------------------------------------------------------------
(* Who holds the slot. *)

(* Who is still sending was so before, and on the same turn. *)
NobodyStartsSending ==
  \A h \in Handlers : pc'[h] \in Unsent => pc[h] \in Unsent /\ turn'[h] = turn[h]

KeepsVictim ==
  pc'[Sig] \in {"cancel", "abort"} => pc'[Sig] = pc[Sig] /\ victim' = victim

LEMMA SlotUntouched ==
  ASSUME SlotInv, UNCHANGED slotVars, NobodyStartsSending,
         KeepsVictim, \A t \in Turns : (Waiting(t))' => Waiting(t)
  PROVE  SlotInv'
BY DEF SlotInv, slotVars, NobodyStartsSending, KeepsVictim

LEMMA SlotCleared ==
  ASSUME TypeOK, SlotInv, slot # NoTurn, clearActive(slot), NobodyStartsSending,
         KeepsVictim, \A t \in Turns : (Waiting(t))' => Waiting(t)
  PROVE  SlotInv'
<1>1. /\ slot' = NoTurn /\ cancelled' = cancelled \cup {slot}
      /\ cut' = IF Sending(slot) THEN cut \cup {slot} ELSE cut
      /\ NoTurn \notin Turns /\ slot \in Turns
  BY PaneInputAssumption DEF clearActive, Leave, TypeOK
<1>2. slot' \notin cancelled'
  BY <1>1 DEF TypeOK
<1>3. \A t \in Turns : (Waiting(t))' => t # slot' /\ t \notin cancelled'
  BY <1>1 DEF SlotInv
<1>4. \A h \in Handlers : pc'[h] \in Unsent => slot' = turn'[h] \/ turn'[h] \in cut'
  BY <1>1 DEF SlotInv, NobodyStartsSending, Sending
<1>5. pc'[Sig] \in {"cancel", "abort"} =>
        victim' \in Turns /\ victim' # slot' /\ ~(Waiting(victim))'
  BY <1>1 DEF SlotInv, KeepsVictim
<1>6. pc'[Sig] = "abort" => victim' \in cancelled'
  BY <1>1 DEF SlotInv, KeepsVictim
<1> QED BY <1>2, <1>3, <1>4, <1>5, <1>6 DEF SlotInv

LEMMA ClearKeepsSlotInv ==
  ASSUME TypeOK, SlotInv, NEW t \in Turns \cup {NoTurn}, clearActive(t), NobodyStartsSending,
         KeepsVictim, \A s \in Turns : (Waiting(s))' => Waiting(s)
  PROVE  SlotInv'
BY SlotUntouched, SlotCleared DEF clearActive

LEMMA SlotKept ==
  ASSUME TypeOK, HandlerTurns, SlotInv, [Next]_vars
  PROVE  SlotInv'
<1> USE DEF slotVars, handlerVars
<1>1. /\ \A t \in Turns : (Waiting(t))' => Waiting(t)
      /\ HandlerTurns'
      /\ NoTurn \notin Turns /\ Sig \in Handlers
  BY NobodyGoesBack, PaneInputAssumption DEF Handlers
<1>2. ASSUME NEW h \in Handlers, DispatchStep(h)
      PROVE  SlotInv'
  <2>1. /\ \A g \in Handlers \ {h} : pc'[g] = pc[g] /\ turn'[g] = turn[g]
        /\ pc[h] \in Working /\ victim' = victim
    BY <1>2, DispatchMoves, MovesForward DEF Moves, DispatchStep, ClaimSlot, AgentBusy,
       PublishAck, AckFails, OnPrompt, TypeText, PressEnter, SendLine, CommandFails,
       FailClear, ArmWatchdog
  <2>2. KeepsVictim
    <3>1. pc'[h] \in Working \cup {"idle"}
      BY <1>2, DispatchMoves DEF TypeOK, Moves, Finish, Goto
    <3> QED BY <2>1, <3>1, <1>1 DEF KeepsVictim, Working, Unsent
  <2>3. CASE ClaimSlot(h)
    <3>1. /\ pc[h] = "dispatch" /\ slot = NoTurn /\ slot' = turn[h] /\ pc'[h] = "ack"
          /\ turn' = turn /\ pending' = pending /\ cancelled' = cancelled /\ cut' = cut
          /\ turn[h] \in Turns /\ victim' = victim
      BY <2>3 DEF ClaimSlot, Goto, TypeOK, HandlerTurns, Working
    <3>2. Waiting(turn[h]) /\ ~(Waiting(turn[h]))'
      BY <3>1, <2>1 DEF Waiting, HandlerTurns, InterruptPlaces
    <3>3. slot' \notin cancelled'
      BY <3>1, <3>2 DEF SlotInv
    <3>4. \A t \in Turns : (Waiting(t))' => t # slot' /\ t \notin cancelled'
      BY <1>1, <3>1, <3>2 DEF SlotInv
    <3>5. \A g \in Handlers : pc'[g] \in Unsent => slot' = turn'[g] \/ turn'[g] \in cut'
      BY <2>1, <3>1 DEF SlotInv, HandlerTurns, Working
    <3>6. pc'[Sig] \in {"cancel", "abort"} =>
            victim' \in Turns /\ victim' # slot' /\ ~(Waiting(victim))'
      BY <1>1, <2>2, <3>1, <3>2 DEF SlotInv, KeepsVictim
    <3>7. pc'[Sig] = "abort" => victim' \in cancelled'
      BY <2>2, <3>1 DEF SlotInv, KeepsVictim
    <3> QED BY <3>3, <3>4, <3>5, <3>6, <3>7 DEF SlotInv
  <2>4. CASE ~ClaimSlot(h)
    <3>1. pc'[h] \in Unsent => pc[h] \in Unsent /\ turn'[h] = turn[h]
      BY <1>2, <2>4 DEF TypeOK, DispatchStep, AgentBusy, PublishAck, AckFails, OnPrompt,
         TypeText, PressEnter, SendLine, CommandFails, FailClear, ArmWatchdog, Goto,
         Finish, Unsent
    <3>2. NobodyStartsSending
      BY <2>1, <3>1 DEF NobodyStartsSending
    <3>3. UNCHANGED slotVars \/ clearActive(turn[h])
      BY <1>2, <2>4 DEF DispatchStep, AgentBusy, PublishAck, AckFails, OnPrompt,
         TypeText, PressEnter, SendLine, CommandFails, FailClear, ArmWatchdog
    <3>4. turn[h] \in Turns \cup {NoTurn}
      BY DEF TypeOK
    <3> QED BY <1>1, <2>2, <3>2, <3>3, <3>4, SlotUntouched, ClearKeepsSlotInv
  <2> QED BY <2>3, <2>4
<1>3. CASE InterruptStep \/ HandleInterrupt
  <2>1. /\ turn' = turn
        /\ \A g \in Handlers \ {Sig} : pc'[g] = pc[g]
        /\ pc[Sig] \in InterruptPlaces \cup {"idle"}
    BY <1>3, InterruptMoves, SigMovesForward DEF SigMoves
  <2>2. pc'[Sig] \in InterruptPlaces \cup {"idle", "dispatch"}
    BY <1>1, <1>3, InterruptMoves DEF TypeOK, SigMoves, AfterInterrupt, Goto, InterruptPlaces
  <2>3. NobodyStartsSending
    BY <2>1, <2>2 DEF NobodyStartsSending, Unsent, InterruptPlaces
  <2>4. CASE InterruptRelease
    <3>1. /\ slot # NoTurn /\ slot \in Turns /\ victim' = slot /\ slot' = NoTurn
          /\ cut' = IF Sending(slot) THEN cut \cup {slot} ELSE cut
          /\ cancelled' = cancelled /\ pc'[Sig] = "cancel"
      BY <1>1, <2>4 DEF InterruptRelease, Leave, TypeOK, Goto
    <3>2. slot' \notin cancelled'
      BY <1>1, <3>1 DEF TypeOK
    <3>3. \A t \in Turns : (Waiting(t))' => t # slot' /\ t \notin cancelled'
      BY <1>1, <3>1 DEF SlotInv
    <3>4. \A g \in Handlers : pc'[g] \in Unsent => slot' = turn'[g] \/ turn'[g] \in cut'
      BY <2>3, <3>1 DEF SlotInv, NobodyStartsSending, Sending
    <3>5. victim' \in Turns /\ victim' # slot' /\ ~(Waiting(victim))'
      BY <1>1, <3>1 DEF SlotInv
    <3> QED BY <3>1, <3>2, <3>3, <3>4, <3>5 DEF SlotInv
  <2>5. CASE InterruptCancel
    <3>1. /\ pc[Sig] = "cancel" /\ pc'[Sig] = "abort" /\ victim' = victim /\ slot' = slot
          /\ cut' = cut /\ cancelled' = cancelled \cup {victim}
      BY <1>1, <2>5 DEF InterruptCancel, TypeOK, Goto
    <3>2. \A g \in Handlers : pc'[g] \in Unsent => slot' = turn'[g] \/ turn'[g] \in cut'
      BY <2>3, <3>1 DEF SlotInv, NobodyStartsSending
    <3>3. \A t \in Turns : (Waiting(t))' => t # slot' /\ t \notin cancelled'
      BY <1>1, <3>1 DEF SlotInv
    <3>4. ~(Waiting(victim))'
      BY <1>1, <3>1 DEF SlotInv
    <3> QED BY <3>1, <3>2, <3>3, <3>4 DEF SlotInv
  <2>6. CASE InterruptIdle \/ InterruptAbort \/ InterruptAbortFails \/ HandleInterrupt
    <3>1. UNCHANGED slotVars
      BY <2>6 DEF InterruptIdle, InterruptAbort, InterruptAbortFails, HandleInterrupt
    <3>2. KeepsVictim
      BY <1>1, <2>6 DEF InterruptIdle, InterruptAbort, InterruptAbortFails,
         HandleInterrupt, AfterInterrupt, Goto, TypeOK, KeepsVictim
    <3> QED BY <1>1, <2>3, <3>1, <3>2, SlotUntouched
  <2> QED BY <1>3, <2>4, <2>5, <2>6 DEF InterruptStep
<1>4. ASSUME NEW h \in Handlers, NEW t \in Turns,
             Deliver(h, t, "dispatch") \/ (h = Sig /\ Deliver(h, t, "interrupt"))
      PROVE  SlotInv'
  <2>1. NobodyStartsSending /\ KeepsVictim /\ UNCHANGED slotVars
    <3>1. UNCHANGED slotVars /\ victim' = victim
      BY <1>4 DEF Deliver
    <3>2. /\ \A g \in Handlers \ {h} : pc'[g] = pc[g] /\ turn'[g] = turn[g]
          /\ pc'[h] \in {"dispatch", "interrupt"}
      BY <1>4, DeliverForward
    <3> QED BY <1>1, <3>1, <3>2 DEF NobodyStartsSending, KeepsVictim, Unsent
  <2> QED BY <1>1, <2>1, SlotUntouched
<1>5. CASE (\E h \in Endpoints, t \in Prompts : HandlePrompt(h, t))
           \/ (\E t \in Redirects : HandleRedirect(t))
  BY <1>4, <1>5 DEF HandlePrompt, HandleRedirect, Turns, Handlers
<1>6. CASE UNCHANGED <<slotVars, pc, turn, victim>>
  <2>1. NobodyStartsSending /\ KeepsVictim
    BY <1>6 DEF NobodyStartsSending, KeepsVictim
  <2> QED BY <1>1, <1>6, <2>1, SlotUntouched
<1>7. ASSUME NEW t \in Turns \cup {NoTurn}, clearActive(t), UNCHANGED <<pc, turn, victim>>
      PROVE  SlotInv'
  <2>1. NobodyStartsSending /\ KeepsVictim
    BY <1>7 DEF NobodyStartsSending, KeepsVictim
  <2> QED BY <1>1, <1>7, <2>1, ClearKeepsSlotInv
<1>8. CASE (\E t \in Turns : Watchdog(t)) \/ PumpEndsStream
  <2>1. slot \in Turns \cup {NoTurn}
    BY DEF TypeOK
  <2> QED BY <1>6, <1>7, <1>8, <2>1 DEF Watchdog, PumpEndsStream
<1>9. CASE AgentTakesLine \/ AgentFinishes \/ UNCHANGED vars
  BY <1>6, <1>9 DEF AgentTakesLine, AgentFinishes, vars
<1> QED BY <1>2, <1>3, <1>5, <1>8, <1>9 DEF Next

-----------------------------------------------------------------------------
(* Who gets a Ctrl-C. *)

LEMMA OthersKeepVictim ==
  ASSUME TypeOK, HandlerTurns, [Next]_vars, ~InterruptRelease, ~InterruptCancel
  PROVE  KeepsVictim
<1> USE DEF handlerVars
<1>1. Sig \in Handlers
  BY DEF Handlers
<1>2. ASSUME NEW h \in Handlers, DispatchStep(h)
      PROVE  KeepsVictim
  <2>1. /\ \A g \in Handlers \ {h} : pc'[g] = pc[g]
        /\ pc'[h] \in Working \cup {"idle"}
    BY <1>2, DispatchMoves, MovesForward DEF TypeOK, Moves, Finish, Goto
  <2>2. victim' = victim
    BY <1>2 DEF DispatchStep, ClaimSlot, AgentBusy, PublishAck, AckFails, OnPrompt,
       TypeText, PressEnter, SendLine, CommandFails, FailClear, ArmWatchdog
  <2> QED BY <1>1, <2>1, <2>2 DEF KeepsVictim, Working, Unsent
<1>3. CASE InterruptIdle \/ InterruptAbort \/ InterruptAbortFails \/ HandleInterrupt
  BY <1>1, <1>3 DEF InterruptIdle, InterruptAbort, InterruptAbortFails,
     HandleInterrupt, AfterInterrupt, Goto, TypeOK, KeepsVictim
<1>4. ASSUME NEW h \in Handlers, NEW t \in Turns,
             Deliver(h, t, "dispatch") \/ (h = Sig /\ Deliver(h, t, "interrupt"))
      PROVE  KeepsVictim
  BY <1>1, <1>4, DeliverForward DEF KeepsVictim, Deliver
<1>5. CASE (\E h \in Endpoints, t \in Prompts : HandlePrompt(h, t))
           \/ (\E t \in Redirects : HandleRedirect(t))
  BY <1>4, <1>5 DEF HandlePrompt, HandleRedirect, Turns, Handlers
<1>6. CASE (\E t \in Turns : Watchdog(t)) \/ PumpEndsStream
           \/ AgentTakesLine \/ AgentFinishes \/ UNCHANGED vars
  BY <1>6 DEF Watchdog, PumpEndsStream, AgentTakesLine, AgentFinishes, vars, KeepsVictim
<1> QED BY <1>2, <1>3, <1>5, <1>6 DEF Next, InterruptStep

(* The slot is taken by dispatchPrompt, and otherwise kept or given up. *)
LEMMA OthersKeepOrGiveUp ==
  ASSUME [Next]_vars, \A h \in Handlers : ~ClaimSlot(h), ~InterruptRelease,
         ~InterruptCancel, ~InterruptAbort
  PROVE  /\ UNCHANGED aborts
         /\ cancelled \subseteq cancelled'
         /\ slot' = slot \/ slot' = NoTurn
<1> USE DEF slotVars, clearActive, Leave
<1>1. ASSUME NEW h \in Handlers, DispatchStep(h)
      PROVE  UNCHANGED aborts /\ cancelled \subseteq cancelled' /\ slot' \in {slot, NoTurn}
  BY <1>1 DEF DispatchStep, AgentBusy, PublishAck, AckFails, OnPrompt, TypeText,
     PressEnter, SendLine, CommandFails, FailClear, ArmWatchdog
<1>2. CASE InterruptStep \/ HandleInterrupt
  BY <1>2 DEF InterruptStep, InterruptIdle, InterruptAbortFails, HandleInterrupt
<1>3. CASE (\E h \in Endpoints, t \in Prompts : HandlePrompt(h, t))
           \/ (\E t \in Redirects : HandleRedirect(t))
  BY <1>3 DEF HandlePrompt, HandleRedirect, Deliver
<1>4. CASE (\E t \in Turns : Watchdog(t)) \/ PumpEndsStream
           \/ AgentTakesLine \/ AgentFinishes \/ UNCHANGED vars
  BY <1>4 DEF Watchdog, PumpEndsStream, AgentTakesLine, AgentFinishes, vars
<1> QED BY <1>1, <1>2, <1>3, <1>4 DEF Next

LEMMA AbortsKept ==
  ASSUME TypeOK, HandlerTurns, SlotInv, AbortInv, [Next]_vars
  PROVE  AbortInv'
<1>1. /\ \A t \in Turns : (Waiting(t))' => Waiting(t)
      /\ NoTurn \notin Turns /\ Sig \in Handlers
      /\ \A i \in 1..Len(aborts) : aborts[i] \in Turns
  BY NobodyGoesBack, PaneInputAssumption DEF Handlers, TypeOK
<1>2. ASSUME UNCHANGED aborts, cancelled \subseteq cancelled', KeepsVictim,
             \A i \in 1..Len(aborts) : aborts[i] # slot'
      PROVE  AbortInv'
  BY <1>1, <1>2 DEF AbortInv, OneCtrlCPerTurn, KeepsVictim
<1>3. ASSUME NEW h \in Handlers, ClaimSlot(h)
      PROVE  AbortInv'
  <2>1. /\ UNCHANGED <<aborts, cancelled>> /\ slot' = turn[h] /\ pc[h] = "dispatch"
        /\ turn[h] \in Turns
    BY <1>3 DEF ClaimSlot, TypeOK, HandlerTurns, Working
  <2>2. Waiting(turn[h])
    BY <2>1 DEF Waiting
  <2>3. \A i \in 1..Len(aborts) : aborts[i] # slot'
    BY <2>1, <2>2 DEF AbortInv
  <2>4. KeepsVictim
    BY <1>3, OthersKeepVictim DEF ClaimSlot, InterruptRelease, InterruptCancel, Goto, TypeOK,
       KeepsVictim
  <2> QED BY <1>2, <2>1, <2>3, <2>4
<1>4. CASE InterruptRelease
  <2>1. /\ UNCHANGED <<aborts, cancelled>> /\ victim' = slot /\ slot' = NoTurn
    BY <1>4 DEF InterruptRelease, Leave
  <2> QED BY <1>1, <2>1 DEF AbortInv, OneCtrlCPerTurn
<1>5. CASE InterruptCancel
  <2>1. /\ UNCHANGED <<aborts, slot, victim>> /\ cancelled' = cancelled \cup {victim}
        /\ pc[Sig] = "cancel"
    BY <1>5 DEF InterruptCancel
  <2> QED BY <1>1, <2>1 DEF AbortInv, OneCtrlCPerTurn
<1>6. CASE InterruptAbort
  <2>1. /\ aborts' = Append(aborts, victim) /\ UNCHANGED slotVars
        /\ pc[Sig] = "abort" /\ pc'[Sig] \in {"idle", "dispatch"}
    BY <1>1, <1>6 DEF InterruptAbort, AfterInterrupt, Goto, TypeOK
  <2>2. /\ victim \in Turns /\ victim \in cancelled /\ victim # slot /\ ~Waiting(victim)
        /\ \A i \in 1..Len(aborts) : aborts[i] # victim
    BY <2>1 DEF SlotInv, AbortInv
  <2>3. aborts \in Seq(Turns)
    BY DEF TypeOK
  <2>4. /\ Len(aborts') = Len(aborts) + 1 /\ aborts'[Len(aborts')] = victim
        /\ \A i \in 1..Len(aborts) : aborts'[i] = aborts[i]
    BY <2>1, <2>2, <2>3
  <2>5. \A i \in 1..Len(aborts') : i \in 1..Len(aborts) \/ i = Len(aborts')
    BY <2>3, <2>4
  <2>6. OneCtrlCPerTurn'
    BY <2>1, <2>2, <2>4, <2>5 DEF AbortInv, OneCtrlCPerTurn, slotVars
  <2>7. \A i \in 1..Len(aborts') : ~(Waiting(aborts[i]))'
    BY <1>1, <2>2, <2>4, <2>5 DEF AbortInv
  <2> QED BY <2>1, <2>6, <2>7 DEF AbortInv
<1>7. CASE /\ \A h \in Handlers : ~ClaimSlot(h)
           /\ ~InterruptRelease /\ ~InterruptCancel /\ ~InterruptAbort
  <2>1. /\ UNCHANGED aborts /\ cancelled \subseteq cancelled' /\ KeepsVictim
        /\ slot' = slot \/ slot' = NoTurn
    BY <1>7, OthersKeepVictim, OthersKeepOrGiveUp
  <2>2. \A i \in 1..Len(aborts) : aborts[i] # slot'
    BY <1>1, <2>1 DEF AbortInv, OneCtrlCPerTurn
  <2> QED BY <1>2, <2>1, <2>2
<1> QED BY <1>3, <1>4, <1>5, <1>6, <1>7

-----------------------------------------------------------------------------
(* Where the texts are. *)

LEMMA AppendAtTheEnd ==
  ASSUME NEW S, NEW s \in Seq(S), NEW e \in S
  PROVE  /\ Append(s, e) \in Seq(S) /\ Len(Append(s, e)) = Len(s) + 1 /\ Len(s) \in Nat
         /\ Append(s, e)[Len(s) + 1] = e
         /\ \A i \in 1..Len(s) : Append(s, e)[i] = s[i]
         /\ 1..Len(Append(s, e)) = 1..Len(s) \cup {Len(s) + 1}
         /\ Len(s) + 1 \notin 1..Len(s)
OBVIOUS

EachOnce(text) == \A i, j \in 1..Len(text) : text[i] = text[j] => i = j

GivenOnce ==
  \A i, k \in 1..Len(lines) : \A j \in 1..Len(lines[i]), l \in 1..Len(lines[k]) :
    lines[i][j] = lines[k][l] => i = k /\ j = l

(* Enter moves what is on the line to the agent. *)
LEMMA SubmitMoves ==
  ASSUME TypeOK, NEW text \in Seq(Turns), Submit(text), EachOnce(text), GivenOnce,
         \A i \in 1..Len(text) : ~Given(text[i])
  PROVE  /\ line' = << >> /\ \A t \in Turns : ~(OnLine(t))'
         /\ GivenOnce'
         /\ \A t \in Turns : (Given(t))' <=> Given(t) \/ \E i \in 1..Len(text) : text[i] = t
<1>1. line' = << >> /\ \A t \in Turns : ~(OnLine(t))'
  BY DEF Submit, OnLine
<1>2. CASE text = << >>
  <2>1. lines' = lines /\ Len(text) = 0
    BY <1>2 DEF Submit
  <2> QED BY <1>1, <2>1 DEF GivenOnce, Given
<1>3. CASE text # << >>
  <2> DEFINE n == Len(lines) + 1
  <2>1. lines' = Append(lines, text)
    BY <1>3 DEF Submit
  <2>2. lines \in Seq(Seq(Turns))
    BY DEF TypeOK
  <2>3. /\ lines'[n] = text
        /\ \A i \in 1..Len(lines) : lines'[i] = lines[i]
        /\ 1..Len(lines') = 1..Len(lines) \cup {n}
        /\ n \notin 1..Len(lines)
    BY <2>1, <2>2, AppendAtTheEnd
  <2> HIDE DEF n
  <2>4. \A t \in Turns : (Given(t))' <=> Given(t) \/ \E i \in 1..Len(text) : text[i] = t
    BY <2>3 DEF Given
  <2>5. GivenOnce'
    <3> SUFFICES ASSUME NEW i \in 1..Len(lines'), NEW k \in 1..Len(lines'),
                        NEW j \in 1..Len(lines'[i]), NEW l \in 1..Len(lines'[k]),
                        lines'[i][j] = lines'[k][l]
                 PROVE  i = k /\ j = l
      BY DEF GivenOnce
    <3>1. CASE i = n /\ k = n
      BY <2>3, <3>1 DEF EachOnce
    <3>2. CASE i \in 1..Len(lines) /\ k \in 1..Len(lines)
      <4>1. lines'[i] = lines[i] /\ lines'[k] = lines[k]
        BY <2>3, <3>2
      <4>2. /\ j \in 1..Len(lines[i]) /\ l \in 1..Len(lines[k])
            /\ lines[i][j] = lines[k][l]
        BY <4>1
      <4> QED BY <3>2, <4>2 DEF GivenOnce
    <3>3. CASE i = n /\ k \in 1..Len(lines)
      <4>1. ~Given(text[j])
        BY <2>3, <3>3
      <4>2. text[j] = lines[k][l] /\ l \in 1..Len(lines[k])
        BY <2>3, <3>3
      <4> QED BY <3>3, <4>1, <4>2 DEF Given
    <3>4. CASE k = n /\ i \in 1..Len(lines)
      <4>1. ~Given(text[l])
        BY <2>3, <3>4
      <4>2. text[l] = lines[i][j] /\ j \in 1..Len(lines[i])
        BY <2>3, <3>4
      <4> QED BY <3>4, <4>1, <4>2 DEF Given
    <3> QED BY <2>3, <3>1, <3>2, <3>3, <3>4
  <2> QED BY <1>1, <2>4, <2>5
<1> QED BY <1>2, <1>3

(* Two texts on the line: one of them is cut, since both turns cannot hold *)
(* the slot.                                                               *)
LEMMA MixedLineIsCut ==
  ASSUME TypeOK, SlotInv, TextInv, Len(line) > 1
  PROVE  \E j \in 1..Len(line) : line[j] \in cut
<1>1. line \in Seq(Turns)
  BY DEF TypeOK
<1>2. 1 \in 1..Len(line) /\ 2 \in 1..Len(line)
  BY <1>1
<1>3. line[1] \in Turns /\ line[2] \in Turns /\ line[1] # line[2]
  BY <1>1, <1>2 DEF TextInv, AcceptedIsSubmittedOnce
<1>4. OnLine(line[1]) /\ OnLine(line[2])
  BY <1>2 DEF OnLine
<1>5. \A t \in Turns : OnLine(t) => t = slot \/ t \in cut
  BY DEF TextInv, SlotInv, Sending
<1> QED BY <1>2, <1>3, <1>4, <1>5

LEMMA TypingKeepsText ==
  ASSUME PaneInv, [Next]_vars, NEW h \in Handlers, TypeText(h)
  PROVE  TextInv'
<1>1. /\ pc[h] = "type" /\ engine = "tmux" /\ line' = Append(line, turn[h])
      /\ pc' = [pc EXCEPT ![h] = "enter"] /\ turn' = turn
      /\ UNCHANGED <<engine, slot, cancelled, cut, armed, lines, wiped>>
  BY DEF TypeText, Goto, slotVars
<1>2. /\ TypeOK /\ HandlerTurns /\ TextInv /\ turn[h] \in Turns
      /\ pc'[h] = "enter" /\ \A g \in Handlers \ {h} : pc'[g] = pc[g]
  BY <1>1 DEF PaneInv, TypeOK, HandlerTurns, Working, Unsent
<1>3. /\ Untyped(turn[h])
      /\ \A t \in Turns : (Untyped(t))' => Untyped(t) /\ t # turn[h]
  <2>1. Untyped(turn[h])
    BY <1>1 DEF Untyped
  <2>2. turn[h] \notin pending'
    BY <1>1, <1>2, PaneInputAssumption DEF HandlerTurns, TypeText
  <2>3. \A t \in Turns : (Untyped(t))' => t # turn[h]
    BY <1>1, <1>2, <2>2, PaneInputAssumption
       DEF Untyped, Waiting, HandlerTurns, InterruptPlaces
  <2> QED BY <1>2, <2>1, <2>3, NobodyGoesBack
<1>4. /\ line \in Seq(Turns)
      /\ line'[Len(line) + 1] = turn[h]
      /\ \A i \in 1..Len(line) : line'[i] = line[i]
      /\ 1..Len(line') = 1..Len(line) \cup {Len(line) + 1}
      /\ Len(line) + 1 \notin 1..Len(line)
  <2>1. line \in Seq(Turns)
    BY <1>2 DEF TypeOK
  <2> QED BY <1>1, <1>2, <2>1, AppendAtTheEnd
<1>5. /\ \A t \in Turns : (OnLine(t))' <=> OnLine(t) \/ t = turn[h]
      /\ \A t \in Turns : (Given(t))' <=> Given(t)
  BY <1>1, <1>4 DEF OnLine, Given
<1>6. ~OnLine(turn[h]) /\ ~Given(turn[h])
  BY <1>2, <1>3 DEF TextInv
<1>7. LinesMixOnlyAfterACut'
  BY <1>1, <1>2 DEF TextInv, LinesMixOnlyAfterACut
<1>8. AcceptedIsSubmittedOnce'
  <2>1. (EachOnce(line))'
    BY <1>2, <1>4, <1>6 DEF TextInv, AcceptedIsSubmittedOnce, EachOnce, OnLine
  <2>2. GivenOnce'
    BY <1>1, <1>2 DEF TextInv, AcceptedIsSubmittedOnce, GivenOnce
  <2>3. \A t \in Turns : ~((OnLine(t))' /\ (Given(t))')
    BY <1>2, <1>5, <1>6 DEF TextInv, AcceptedIsSubmittedOnce
  <2>4. \A t \in Turns : (Accepted(t))' => Accepted(t)
    BY <1>1, <1>2 DEF Accepted
  <2>5. \A t \in Turns : (Accepted(t))' => (Given(t))' \/ t \in wiped'
    BY <1>1, <1>2, <1>5, <2>4 DEF TextInv, AcceptedIsSubmittedOnce
  <2> QED BY <2>1, <2>2, <2>3, <2>5 DEF AcceptedIsSubmittedOnce, EachOnce, GivenOnce
<1>9. \A t \in Turns : (Untyped(t))' => ~(OnLine(t))' /\ ~(Given(t))'
  BY <1>2, <1>3, <1>5 DEF TextInv
<1>10. \A t \in Turns : (OnLine(t))' => (Sending(t))' \/ t \in cut'
  <2>1. (Sending(turn[h]))'
    BY <1>1, <1>2 DEF Sending, Unsent
  <2>2. \A t \in Turns : Sending(t) => (Sending(t))'
    BY <1>1, <1>2 DEF Sending, Unsent
  <2> QED BY <1>1, <1>2, <1>5, <2>1, <2>2 DEF TextInv
<1>11. \A g \in Handlers : pc'[g] = "enter" =>
         /\ engine' = "tmux"
         /\ (OnLine(turn[g]))' \/ (Given(turn[g]))' \/ turn'[g] \in wiped'
  <2>1. \A g \in Handlers : pc'[g] = "enter" => turn[g] \in Turns
    BY <1>2 DEF TypeOK, HandlerTurns, Working, Unsent
  <2>2. \A g \in Handlers : pc'[g] = "enter" =>
          turn[g] = turn[h] \/ OnLine(turn[g]) \/ Given(turn[g]) \/ turn[g] \in wiped
    BY <1>2 DEF TextInv
  <2>3. (OnLine(turn[h]))'
    BY <1>1, <1>4 DEF OnLine
  <2>4. \A g \in Handlers :
          (OnLine(turn[g]) => (OnLine(turn[g]))') /\ (Given(turn[g]) => (Given(turn[g]))')
    BY <1>1, <1>4 DEF OnLine, Given
  <2>5. \A g \in Handlers : turn[g] = turn[h] => (OnLine(turn[g]))'
    BY <1>1, <2>3 DEF OnLine
  <2> QED BY <1>1, <2>2, <2>4, <2>5
<1>12. engine' # "tmux" => line' = << >>
  BY <1>1
<1> QED BY <1>7, <1>8, <1>9, <1>10, <1>11, <1>12 DEF TextInv

(* PressEnter sends what is on the line, SendLine its text and what may be *)
(* on the line before it, which is nothing.                                *)
LEMMA SubmittingKeepsText ==
  ASSUME PaneInv, [Next]_vars, NEW h \in Handlers, PressEnter(h) \/ SendLine(h)
  PROVE  TextInv'
<1> DEFINE text == IF PressEnter(h) THEN line ELSE Append(line, turn[h])
<1>1. /\ pc[h] \in {"type", "enter"} /\ Submit(text)
      /\ pc' = [pc EXCEPT ![h] = "arm"] /\ turn' = turn
      /\ UNCHANGED <<engine, slot, cancelled, cut, armed, wiped, pending>>
  BY DEF PressEnter, SendLine, Goto, slotVars
<1>2. /\ TypeOK /\ HandlerTurns /\ SlotInv /\ TextInv /\ turn[h] \in Turns
      /\ pc'[h] = "arm" /\ \A g \in Handlers \ {h} : pc'[g] = pc[g]
      /\ line \in Seq(Turns)
  BY <1>1 DEF PaneInv, TypeOK, HandlerTurns, Working, Unsent
<1>3. \A t \in Turns : (Untyped(t))' => Untyped(t) /\ t # turn[h]
  <2>1. \A t \in Turns : (Untyped(t))' => Untyped(t)
    BY <1>2, NobodyGoesBack
  <2>2. turn[h] \notin pending'
    BY <1>1, <1>2, PaneInputAssumption DEF HandlerTurns
  <2>3. \A t \in Turns : (Untyped(t))' => t # turn[h]
    BY <1>1, <1>2, <2>2, PaneInputAssumption
       DEF Untyped, Waiting, HandlerTurns, InterruptPlaces
  <2> QED BY <2>1, <2>3
<1>4. /\ text \in Seq(Turns) /\ EachOnce(text)
      /\ \A i \in 1..Len(text) : ~Given(text[i])
      /\ \A t \in Turns : (\E i \in 1..Len(text) : text[i] = t) =>
           OnLine(t) \/ (pc[h] = "type" /\ t = turn[h])
      /\ \A t \in Turns : OnLine(t) => \E i \in 1..Len(text) : text[i] = t
      /\ pc[h] = "type" => \E i \in 1..Len(text) : text[i] = turn[h]
      /\ Len(text) > 1 => engine = "tmux" /\ text = line
  <2>1. CASE PressEnter(h)
    <3>1. text = line /\ pc[h] = "enter"
      BY <2>1 DEF PressEnter
    <3>2. engine = "tmux"
      BY <1>2, <3>1 DEF TextInv
    <3>3. EachOnce(text)
      BY <1>2, <3>1 DEF TextInv, AcceptedIsSubmittedOnce, EachOnce
    <3>4. \A i \in 1..Len(text) : ~Given(text[i])
      BY <1>2, <3>1 DEF TextInv, AcceptedIsSubmittedOnce, OnLine
    <3> HIDE DEF text
    <3> QED BY <1>2, <3>1, <3>2, <3>3, <3>4 DEF OnLine
  <2>2. CASE ~PressEnter(h)
    <3>1. /\ text = Append(line, turn[h]) /\ pc[h] = "type" /\ engine # "tmux"
      BY <2>2 DEF SendLine
    <3>2. line = << >> /\ Untyped(turn[h])
      BY <1>2, <3>1 DEF TextInv, Untyped
    <3>3. /\ text \in Seq(Turns) /\ Len(text) = 1 /\ text[1] = turn[h]
      BY <1>2, <3>1, <3>2
    <3>4. ~Given(turn[h])
      BY <1>2, <3>2 DEF TextInv
    <3>5. \A t \in Turns : ~OnLine(t)
      BY <3>2 DEF OnLine
    <3> HIDE DEF text
    <3> QED BY <1>2, <3>1, <3>3, <3>4, <3>5 DEF EachOnce
  <2> QED BY <2>1, <2>2
<1> HIDE DEF text
<1>5. GivenOnce
  BY <1>2 DEF TextInv, AcceptedIsSubmittedOnce, GivenOnce
<1>6. /\ line' = << >> /\ \A t \in Turns : ~(OnLine(t))'
      /\ GivenOnce'
      /\ \A t \in Turns : (Given(t))' <=> Given(t) \/ \E i \in 1..Len(text) : text[i] = t
  BY <1>1, <1>2, <1>4, <1>5, SubmitMoves
<1>7. LinesMixOnlyAfterACut'
  <2>1. CASE text = << >>
    BY <1>1, <1>2, <2>1 DEF Submit, TextInv, LinesMixOnlyAfterACut
  <2>2. CASE text # << >>
    <3>1. lines' = Append(lines, text) /\ lines \in Seq(Seq(Turns))
      BY <1>1, <1>2, <2>2 DEF Submit, TypeOK
    <3>2. /\ lines'[Len(lines) + 1] = text
          /\ \A i \in 1..Len(lines) : lines'[i] = lines[i]
          /\ 1..Len(lines') = 1..Len(lines) \cup {Len(lines) + 1}
      BY <1>4, <3>1, AppendAtTheEnd
    <3>3. Len(text) > 1 => engine = "tmux" /\ \E j \in 1..Len(text) : text[j] \in cut
      BY <1>2, <1>4, MixedLineIsCut
    <3> QED BY <1>1, <1>2, <3>2, <3>3 DEF TextInv, LinesMixOnlyAfterACut
  <2> QED BY <2>1, <2>2
<1>8. \A g \in Handlers : pc[g] = "enter" => (Given(turn[g]))' \/ turn[g] \in wiped
  <2>1. \A g \in Handlers : pc[g] = "enter" => turn[g] \in Turns
    BY <1>2 DEF TypeOK, HandlerTurns, Working, Unsent
  <2>2. \A t \in Turns : OnLine(t) \/ Given(t) => (Given(t))'
    BY <1>4, <1>6
  <2>3. \A g \in Handlers : pc[g] = "enter" =>
          OnLine(turn[g]) \/ Given(turn[g]) \/ turn[g] \in wiped
    BY <1>2 DEF TextInv
  <2>4. \A g \in Handlers : pc[g] = "enter" =>
          \/ \E t \in Turns : t = turn[g] /\ (Given(t))'
          \/ turn[g] \in wiped
    BY <2>1, <2>2, <2>3
  <2> QED BY <1>1, <2>4 DEF Given
<1>9. AcceptedIsSubmittedOnce'
  <2>1. (EachOnce(line))'
    <3>1. Len(line') = 0
      BY <1>6
    <3> QED BY <3>1 DEF EachOnce
  <2>2. \A t \in Turns : (Accepted(t))' => Accepted(t) \/ t = turn[h]
    BY <1>1, <1>2 DEF Accepted
  <2>3. \E t \in Turns : t = turn[h] /\ ((Given(t))' \/ t \in wiped)
    <3>1. CASE pc[h] = "enter"
      BY <1>1, <1>2, <1>8, <3>1 DEF Given
    <3>2. CASE pc[h] = "type"
      BY <1>2, <1>4, <1>6, <3>2
    <3> QED BY <1>1, <3>1, <3>2
  <2>4. \A t \in Turns : (Accepted(t))' => (Given(t))' \/ t \in wiped'
    <3>1. \A t \in Turns : Accepted(t) => (Given(t))' \/ t \in wiped
      BY <1>2, <1>6 DEF TextInv, AcceptedIsSubmittedOnce
    <3> QED BY <1>1, <2>2, <2>3, <3>1
  <2> QED BY <1>6, <2>1, <2>4 DEF AcceptedIsSubmittedOnce, EachOnce, GivenOnce
<1>10. \A t \in Turns : (Untyped(t))' => ~(OnLine(t))' /\ ~(Given(t))'
  BY <1>2, <1>3, <1>4, <1>6 DEF TextInv
<1>11. \A g \in Handlers : pc'[g] = "enter" =>
         /\ engine' = "tmux"
         /\ (OnLine(turn[g]))' \/ (Given(turn[g]))' \/ turn'[g] \in wiped'
  <2>1. \A g \in Handlers : pc'[g] = "enter" => pc[g] = "enter"
    BY <1>2
  <2> QED BY <1>1, <1>2, <1>8, <2>1 DEF TextInv
<1> QED BY <1>6, <1>7, <1>9, <1>10, <1>11 DEF TextInv

LEMMA CtrlCKeepsText ==
  ASSUME PaneInv, [Next]_vars, InterruptAbort
  PROVE  TextInv'
<1>1. /\ CtrlC /\ UNCHANGED <<engine, cut, armed, turn, lines>>
      /\ TypeOK /\ HandlerTurns /\ TextInv /\ pc[Sig] = "abort" /\ Sig \in Handlers
  BY DEF InterruptAbort, CtrlC, PaneInv, slotVars, Handlers
<1>2. /\ \A g \in Handlers \ {Sig} : pc'[g] = pc[g]
      /\ pc'[Sig] \in {"idle", "dispatch"}
  BY <1>1 DEF InterruptAbort, AfterInterrupt, Goto, TypeOK
<1>3. \A t \in Turns : (Untyped(t))' => Untyped(t)
  BY <1>1, NobodyGoesBack
<1>4. /\ \A t \in Turns : Sending(t) => (Sending(t))'
      /\ \A t \in Turns : (Accepted(t))' => Accepted(t)
      /\ \A g \in Handlers : pc'[g] = "enter" => pc[g] = "enter"
  BY <1>1, <1>2 DEF Sending, Accepted, Unsent
<1>5. CASE UNCHANGED <<line, wiped>>
  BY <1>1, <1>3, <1>4, <1>5, NobodyTypes
<1>6. CASE line' = << >> /\ wiped' = wiped \cup {line[i] : i \in DOMAIN line}
  <2>1. /\ Len(line') = 0 /\ wiped \subseteq wiped'
        /\ \A t : OnLine(t) => t \in wiped'
    <3>1. DOMAIN line = 1..Len(line)
      BY <1>1 DEF TypeOK
    <3> QED BY <1>6, <3>1 DEF OnLine
  <2>2. /\ \A t : ~(OnLine(t))'
        /\ \A t : (Given(t))' <=> Given(t)
    BY <1>1, <2>1 DEF OnLine, Given
  <2>3. LinesMixOnlyAfterACut'
    BY <1>1 DEF TextInv, LinesMixOnlyAfterACut
  <2>4. AcceptedIsSubmittedOnce'
    <3>1. (EachOnce(line))'
      BY <2>1 DEF EachOnce
    <3>2. GivenOnce'
      BY <1>1 DEF TextInv, AcceptedIsSubmittedOnce, GivenOnce
    <3>3. \A t \in Turns : (Accepted(t))' => (Given(t))' \/ t \in wiped'
      BY <1>1, <1>4, <2>1, <2>2 DEF TextInv, AcceptedIsSubmittedOnce
    <3> QED BY <2>2, <3>1, <3>2, <3>3 DEF AcceptedIsSubmittedOnce, EachOnce, GivenOnce
  <2>5. \A t \in Turns : (Untyped(t))' => ~(OnLine(t))' /\ ~(Given(t))'
    BY <1>1, <1>3, <2>2 DEF TextInv
  <2>6. \A g \in Handlers : pc'[g] = "enter" =>
          engine' = "tmux" /\ ((Given(turn[g]))' \/ turn'[g] \in wiped')
    <3>1. \A g \in Handlers : pc'[g] = "enter" =>
            engine = "tmux" /\ (Given(turn[g]) \/ turn[g] \in wiped')
      BY <1>1, <1>4, <2>1 DEF TextInv
    <3> QED BY <1>1, <3>1 DEF Given
  <2> QED BY <1>6, <2>2, <2>3, <2>4, <2>5, <2>6 DEF TextInv
<1> QED BY <1>1, <1>5, <1>6 DEF CtrlC

(* Nothing is typed, and who stops sending is cut. *)
Quiet ==
  /\ UNCHANGED <<engine, line, lines, wiped>> /\ cut \subseteq cut'
  /\ \A t \in Turns : Sending(t) => (Sending(t))' \/ t \in cut'
  /\ \A t \in Turns : (Accepted(t))' => Accepted(t)
  /\ \A g \in Handlers : pc'[g] = "enter" => pc[g] = "enter" /\ turn'[g] = turn[g]

LEMMA OthersAreQuiet ==
  ASSUME PaneInv, [Next]_vars, ~InterruptAbort,
         \A h \in Handlers : ~TypeText(h) /\ ~PressEnter(h) /\ ~SendLine(h)
  PROVE  Quiet
<1> USE DEF slotVars, handlerVars, agentVars
<1>1. TypeOK /\ HandlerTurns /\ SlotInv /\ TextInv /\ Sig \in Handlers
  BY DEF PaneInv, Handlers
<1>2. ASSUME UNCHANGED <<engine, line, lines, wiped, pc, turn>>,
             cut \subseteq cut', armed' \subseteq armed
      PROVE  Quiet
  BY <1>2 DEF Quiet, Sending, Accepted
<1>3. ASSUME NEW h \in Handlers, DispatchStep(h)
      PROVE  Quiet
  <2>1. /\ \A g \in Handlers \ {h} : pc'[g] = pc[g] /\ turn'[g] = turn[g]
    BY <1>1, <1>3, DispatchMoves, MovesForward
  <2>2. /\ UNCHANGED <<engine, line, lines, wiped>> /\ cut \subseteq cut'
    BY <1>3 DEF DispatchStep, ClaimSlot, AgentBusy, PublishAck, AckFails, OnPrompt,
       CommandFails, FailClear, ArmWatchdog, clearActive, Leave
  <2>3. CASE ClaimSlot(h) \/ PublishAck(h) \/ OnPrompt(h) \/ CommandFails(h)
    <3>1. /\ turn' = turn /\ armed' = armed /\ pc'[h] \in {"ack", "onPrompt", "fail", "type"}
      BY <1>1, <2>3 DEF ClaimSlot, PublishAck, OnPrompt, CommandFails, Goto, TypeOK
    <3> QED BY <2>1, <2>2, <3>1 DEF Quiet, Sending, Accepted, Unsent
  <2>4. CASE AgentBusy(h) \/ AckFails(h) \/ FailClear(h) \/ ArmWatchdog(h)
    <3>1. pc'[h] = "idle" /\ turn[h] \in Turns /\ turn[h] # NoTurn
      BY <1>1, <2>4, PaneInputAssumption DEF AgentBusy, AckFails, FailClear, ArmWatchdog,
         Finish, Goto, TypeOK, HandlerTurns, Working, Unsent
    <3>2. pc[h] \in Unsent => turn[h] \in cut'
      <4>1. CASE AckFails(h) \/ FailClear(h)
        <5>1. Sending(turn[h]) /\ clearActive(turn[h])
          BY <4>1 DEF AckFails, FailClear, Sending, Unsent
        <5>2. slot = turn[h] \/ turn[h] \in cut
          BY <1>1, <4>1 DEF SlotInv, AckFails, FailClear, Unsent
        <5> QED BY <3>1, <5>1, <5>2 DEF clearActive, Leave
      <4>2. CASE AgentBusy(h) \/ ArmWatchdog(h)
        BY <4>2 DEF AgentBusy, ArmWatchdog, Unsent
      <4> QED BY <2>4, <4>1, <4>2
    <3>3. armed' = armed \/ (armed' = armed \cup {turn[h]} /\ pc[h] = "arm")
      BY <2>4 DEF AgentBusy, AckFails, FailClear, ArmWatchdog
    <3>4. \A t \in Turns : Sending(t) => (Sending(t))' \/ t \in cut'
      BY <2>1, <3>2 DEF Sending
    <3>5. \A t \in Turns : (Accepted(t))' => Accepted(t)
      BY <2>1, <3>1, <3>3 DEF Accepted
    <3> QED BY <2>1, <2>2, <3>1, <3>4, <3>5 DEF Quiet
  <2> QED BY <1>3, <2>3, <2>4 DEF DispatchStep
<1>4. CASE InterruptStep \/ HandleInterrupt
  <2>1. /\ turn' = turn
        /\ \A g \in Handlers \ {Sig} : pc'[g] = pc[g]
        /\ pc[Sig] \in InterruptPlaces \cup {"idle"}
    BY <1>1, <1>4, InterruptMoves, SigMovesForward DEF SigMoves
  <2>2. pc'[Sig] \in InterruptPlaces \cup {"idle", "dispatch"}
    BY <1>1, <1>4, InterruptMoves DEF TypeOK, SigMoves, AfterInterrupt, Goto, InterruptPlaces
  <2>3. UNCHANGED <<engine, line, lines, wiped, armed>> /\ cut \subseteq cut'
    BY <1>4 DEF InterruptStep, InterruptIdle, InterruptRelease, InterruptCancel,
       InterruptAbortFails, HandleInterrupt, Leave
  <2> QED BY <2>1, <2>2, <2>3 DEF Quiet, Sending, Accepted, Unsent, InterruptPlaces
<1>5. ASSUME NEW h \in Handlers, NEW t \in Turns,
             Deliver(h, t, "dispatch") \/ (h = Sig /\ Deliver(h, t, "interrupt"))
      PROVE  Quiet
  <2>1. /\ \A g \in Handlers \ {h} : pc'[g] = pc[g] /\ turn'[g] = turn[g]
        /\ pc[h] = "idle" /\ pc'[h] \in {"dispatch", "interrupt"}
    BY <1>1, <1>5, DeliverForward
  <2>2. UNCHANGED <<engine, line, lines, wiped, armed, cut>>
    BY <1>5 DEF Deliver
  <2> QED BY <2>1, <2>2 DEF Quiet, Sending, Accepted, Unsent
<1>6. CASE (\E h \in Endpoints, t \in Prompts : HandlePrompt(h, t))
           \/ (\E t \in Redirects : HandleRedirect(t))
  BY <1>5, <1>6 DEF HandlePrompt, HandleRedirect, Turns, Handlers
<1>7. CASE (\E t \in Turns : Watchdog(t)) \/ PumpEndsStream
  BY <1>2, <1>7 DEF Watchdog, PumpEndsStream, clearActive, Leave
<1>8. CASE AgentTakesLine \/ AgentFinishes \/ UNCHANGED vars
  BY <1>2, <1>8 DEF AgentTakesLine, AgentFinishes, vars
<1> QED BY <1>3, <1>4, <1>6, <1>7, <1>8 DEF Next

LEMMA QuietStepsKeepText ==
  ASSUME PaneInv, [Next]_vars, ~InterruptAbort,
         \A h \in Handlers : ~TypeText(h) /\ ~PressEnter(h) /\ ~SendLine(h)
  PROVE  TextInv'
<1>1. /\ TypeOK /\ TextInv /\ Quiet
      /\ \A t \in Turns : (Untyped(t))' => Untyped(t)
  BY OthersAreQuiet, NobodyGoesBack DEF PaneInv
<1> QED BY <1>1, NobodyTypes DEF Quiet

LEMMA TextKept ==
  ASSUME PaneInv, [Next]_vars
  PROVE  TextInv'
BY TypingKeepsText, SubmittingKeepsText, CtrlCKeepsText, QuietStepsKeepText

-----------------------------------------------------------------------------
(* The type invariant, and what the pane model's parts agree on. *)
THEOREM PaneInvariant == Spec => []PaneInv
<1>1. PaneInv /\ [Next]_vars => PaneInv'
  BY TypesKept, NobodyGoesBack, SlotKept, AbortsKept, TextKept DEF PaneInv
<1> QED BY InitPane, <1>1, PTL DEF Spec

(* Two prompts run together only on tmux, and only after one of them was   *)
(* out of the slot before its Enter.                                       *)
THEOREM LinesMixOnlyAfterACutCorrect == Spec => []LinesMixOnlyAfterACut
<1>1. PaneInv => LinesMixOnlyAfterACut
  BY DEF PaneInv, TextInv
<1> QED BY PaneInvariant, <1>1, PTL

(* An accepted prompt reaches the agent, or a Ctrl-C wiped it; no text     *)
(* reaches it twice.                                                       *)
THEOREM AcceptedIsSubmittedOnceCorrect == Spec => []AcceptedIsSubmittedOnce
<1>1. PaneInv => AcceptedIsSubmittedOnce
  BY DEF PaneInv, TextInv
<1> QED BY PaneInvariant, <1>1, PTL

(* Each Ctrl-C is for a turn of its own, which lost the slot. *)
THEOREM OneCtrlCPerTurnCorrect == Spec => []OneCtrlCPerTurn
<1>1. PaneInv => OneCtrlCPerTurn
  BY DEF PaneInv, AbortInv
<1> QED BY PaneInvariant, <1>1, PTL

(* With the adapter opened up, the slot still implements TurnSlot. *)
THEOREM PaneImplementsTurnSlot == Spec => SlotSpec
<1>1. Init => Slot!Init
  BY DEF Init, Slot!Init, Ended, Handlers
<1>2. PaneInv /\ [Next]_vars => [Slot!Next]_(Slot!slotSpecVars)
  <2> SUFFICES ASSUME PaneInv, [Next]_vars
               PROVE  Slot!Next \/ (slot' = slot /\ Ended' = Ended)
    BY DEF Slot!slotSpecVars
  <2> USE DEF slotVars, handlerVars
  <2>1. /\ TypeOK /\ HandlerTurns /\ SlotInv /\ Sig \in Handlers /\ NoTurn \notin Turns
    BY PaneInputAssumption DEF PaneInv, Handlers
  <2>2. ASSUME UNCHANGED slotVars, KeepsVictim, pc[Sig] = "cancel" => pc'[Sig] = "cancel"
        PROVE  slot' = slot /\ Ended' = Ended
    BY <2>2 DEF Ended, KeepsVictim
  <2>3. ASSUME slot # NoTurn, clearActive(slot), KeepsVictim,
               pc[Sig] = "cancel" => pc'[Sig] = "cancel"
        PROVE  Slot!Next
    BY <2>3 DEF clearActive, Leave, Ended, KeepsVictim, Slot!Next, Slot!Release
  <2>4. ASSUME NEW t \in Turns \cup {NoTurn}, clearActive(t), KeepsVictim,
               pc[Sig] = "cancel" => pc'[Sig] = "cancel"
        PROVE  Slot!Next \/ (slot' = slot /\ Ended' = Ended)
    BY <2>2, <2>3, <2>4 DEF clearActive
  <2>5. ASSUME NEW h \in Handlers, DispatchStep(h)
        PROVE  Slot!Next \/ (slot' = slot /\ Ended' = Ended)
    <3>1. /\ turn[h] \in Turns /\ pc[h] \in Working
          /\ \A g \in Handlers \ {h} : pc'[g] = pc[g]
      BY <2>1, <2>5, DispatchMoves, MovesForward DEF Moves, TypeOK, HandlerTurns
    <3>2. pc[Sig] = "cancel" => pc'[Sig] = "cancel"
      BY <2>1, <3>1 DEF Working, Unsent
    <3>3. KeepsVictim
      <4>1. ~InterruptRelease /\ ~InterruptCancel
        BY <2>1, <2>5, <3>1, DispatchMoves DEF InterruptRelease, InterruptCancel, Moves,
           Finish, Goto, TypeOK, Working, Unsent
      <4> QED BY <2>1, <4>1, OthersKeepVictim
    <3>4. CASE ClaimSlot(h)
      <4>1. /\ slot = NoTurn /\ slot' = turn[h] /\ cancelled' = cancelled
            /\ pc[h] = "dispatch" /\ victim' = victim
            /\ pc'[h] = "ack"
        BY <2>1, <3>4 DEF ClaimSlot, Goto, TypeOK
      <4>2. pc'[Sig] = "cancel" <=> pc[Sig] = "cancel"
        BY <3>1, <4>1, <2>1
      <4>3. Waiting(turn[h])
        BY <4>1 DEF Waiting
      <4>4. Ended' = Ended /\ turn[h] \notin Ended
        BY <2>1, <3>1, <4>1, <4>2, <4>3 DEF Ended, SlotInv
      <4> QED BY <3>1, <4>1, <4>4 DEF Slot!Next, Slot!Claim
    <3>5. CASE ~ClaimSlot(h)
      <4>1. UNCHANGED slotVars \/ clearActive(turn[h])
        BY <2>5, <3>5 DEF DispatchStep, AgentBusy, PublishAck, AckFails, OnPrompt,
           TypeText, PressEnter, SendLine, CommandFails, FailClear, ArmWatchdog
      <4> QED BY <2>2, <2>4, <3>1, <3>2, <3>3, <4>1
    <3> QED BY <3>4, <3>5
  <2>6. CASE InterruptRelease
    <3>1. /\ slot # NoTurn /\ slot' = NoTurn /\ victim' = slot /\ cancelled' = cancelled
          /\ pc[Sig] = "interrupt" /\ pc'[Sig] = "cancel"
      BY <2>1, <2>6 DEF InterruptRelease, Leave, Goto, TypeOK
    <3> QED BY <3>1 DEF Ended, Slot!Next, Slot!Release
  <2>7. CASE InterruptCancel
    <3>1. /\ slot' = slot /\ victim' = victim /\ cancelled' = cancelled \cup {victim}
          /\ pc[Sig] = "cancel" /\ pc'[Sig] = "abort"
      BY <2>1, <2>7 DEF InterruptCancel, Goto, TypeOK
    <3> QED BY <3>1 DEF Ended
  <2>8. CASE InterruptIdle \/ InterruptAbort \/ InterruptAbortFails \/ HandleInterrupt
    <3>1. UNCHANGED slotVars /\ pc[Sig] # "cancel" /\ pc'[Sig] # "cancel"
      BY <2>1, <2>8 DEF InterruptIdle, InterruptAbort, InterruptAbortFails,
         HandleInterrupt, AfterInterrupt, Goto, TypeOK
    <3> QED BY <3>1 DEF Ended
  <2>9. ASSUME NEW h \in Handlers, NEW t \in Turns,
               Deliver(h, t, "dispatch") \/ (h = Sig /\ Deliver(h, t, "interrupt"))
        PROVE  slot' = slot /\ Ended' = Ended
    BY <2>1, <2>9, DeliverForward DEF Deliver, Ended
  <2>10. CASE (\E h \in Endpoints, t \in Prompts : HandlePrompt(h, t))
              \/ (\E t \in Redirects : HandleRedirect(t))
    BY <2>9, <2>10 DEF HandlePrompt, HandleRedirect, Turns, Handlers
  <2>11. CASE (\E t \in Turns : Watchdog(t)) \/ PumpEndsStream
    <3>1. UNCHANGED <<pc, victim>> /\ slot \in Turns \cup {NoTurn}
      BY <2>1, <2>11 DEF Watchdog, PumpEndsStream, TypeOK
    <3>2. KeepsVictim
      BY <3>1 DEF KeepsVictim
    <3>3. \/ UNCHANGED slotVars
          \/ \E t \in Turns \cup {NoTurn} : clearActive(t)
      BY <2>11, <3>1 DEF Watchdog, PumpEndsStream
    <3> QED BY <2>2, <2>4, <3>1, <3>2, <3>3
  <2>12. CASE AgentTakesLine \/ AgentFinishes \/ UNCHANGED vars
    BY <2>12 DEF AgentTakesLine, AgentFinishes, vars, Ended
  <2> QED BY <2>5, <2>6, <2>7, <2>8, <2>10, <2>11, <2>12 DEF Next, InterruptStep
<1> QED BY PaneInvariant, <1>1, <1>2, PTL DEF Spec, SlotSpec, Slot!Spec
=============================================================================
