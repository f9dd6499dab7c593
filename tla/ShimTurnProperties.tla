------------------------- MODULE ShimTurnProperties -------------------------
(***************************************************************************)
(* What must hold of ShimTurn: the slot is handed from turn to turn without*)
(* being lost or stolen, every stream is closed, and what is published on  *)
(* it.  The last part states what a comment claims and the code does not   *)
(* keep.                                                                   *)
(***************************************************************************)
EXTENDS ShimTurn

Chunk == [kind : {"none", "response", "term", "error"}, turn : Turns \cup {NoTurn}]

Victim == [reply : Replies \cup {NoReply}, trace : Turns \cup {NoTurn},
           cancel : Turns \cup {NoTurn}]

PumpState == [at : {"recv", "trace", "publish", "term", "clear", "exit"},
              chunk : Chunk, reply : Replies \cup {NoReply},
              trace : Turns \cup {NoTurn}]

Places == {"idle", "reject", "rejectTerm", "dispatch", "ack", "onPrompt", "arm",
           "fail", "failTerm", "failClear", "interrupt", "cancel", "abort",
           "note", "noteTerm"}

Published == [type : {"ack", "response", "aborted", "error", "reject", "term"},
              turn : Turns \cup {NoTurn}, trace : Turns \cup {NoTurn},
              by : {"handler", "signal", "watchdog", "pump"}]

(* The type invariant. *)
TypeOK ==
  /\ activeReply \in Replies \cup {NoReply}
  /\ activeTrace \in Turns \cup {NoTurn}
  /\ activeCancel \in Turns \cup {NoTurn}
  /\ cancelled \subseteq Turns
  /\ running \in BOOLEAN
  /\ pending \subseteq Turns
  /\ interrupts \in Nat
  /\ pc \in [Handlers -> Places]
  /\ turn \in [Handlers -> Turns \cup {NoTurn}]
  /\ victim \in Victim
  /\ pump \in PumpState
  /\ watchdog \in [Turns -> {"off", "armed", "closing", "done"}]
  /\ agent \in [Turns -> {"none", "working", "killed", "done", "repeated"}]
  /\ emitted \in [Turns -> Nat]
  /\ events \in Seq(Chunk)
  /\ closed \in BOOLEAN
  /\ out \in [Replies -> Seq(Published)]

(* Where a callback goroutine is while its turn may hold the slot. *)
Dispatching == {"ack", "onPrompt", "arm", "fail", "failTerm", "failClear"}

(* A turn that got as far as the slot. *)
Dispatched(t) ==
  \/ \E h \in Handlers : turn[h] = t /\ pc[h] \in Dispatching
  \/ watchdog[t] # "off"
  \/ agent[t] # "none"

(* The turns whose context is cancelled, or about to be by the interrupt   *)
(* that released them.                                                     *)
Finished == cancelled \cup
            (IF pc[Sig] = "cancel" THEN {victim.cancel} \ {NoTurn} ELSE {})

(* The three fields of the slot are set and cleared together, whoever      *)
(* clears them, also when two requests carry one reply subject.            *)
SlotAgrees ==
  IF activeReply = NoReply
  THEN activeTrace = NoTurn /\ activeCancel = NoTurn
  ELSE /\ activeCancel \in Turns
       /\ activeReply = ReplyOf[activeCancel]
       /\ activeTrace = activeCancel

(* A busy slot always has a goroutine left that will release it: the       *)
(* handler still dispatching the turn, or its armed watchdog.  Without it  *)
(* the shim would answer "agent busy" until it is restarted.               *)
BusySlotHasOwner ==
  \A t \in Turns : activeCancel = t =>
    \/ \E h \in Handlers : turn[h] = t /\ pc[h] \in Dispatching
    \/ watchdog[t] = "armed"
    \/ ~running

(* A turn that was dispatched either holds the slot with a live context,   *)
(* or lost it and its context is (being) cancelled: no closer loses a      *)
(* cancel function, and none cancels the turn in flight and leaves it in.  *)
ContextFollowsSlot ==
  \A t \in Turns : Dispatched(t) => ((activeCancel = t) <=> (t \notin Finished))

(* The slot implements the abstract one. *)
Slot == INSTANCE TurnSlot WITH holder <- activeCancel, finished <- Finished
SlotSpec == Slot!Spec

DistinctReplies == \A s, t \in Turns : ReplyOf[s] = ReplyOf[t] => s = t

Terminators(r, closers) ==
  {i \in DOMAIN out[r] : out[r][i].type = "term" /\ out[r][i].by \in closers}

(* When no two requests share a reply subject, each of the closers (the    *)
(* handler, the pump, and whichever of the watchdog and the interrupts     *)
(* takes the slot first) terminates a stream at most once, and interrupts  *)
(* that come together close once.                                          *)
OneTerminatorPerCloser ==
  DistinctReplies => \A r \in Replies :
    \A closers \in {{"handler"}, {"pump"}, {"watchdog", "signal"}} :
      Cardinality(Terminators(r, closers)) <= 1

(* The caller of a prompt that was rejected (400 or 503) gets the error    *)
(* and then the terminator, and nothing of any turn of the agent.          *)
RejectedStreamsAreClean ==
  DistinctReplies => \A r \in Replies :
    (\E i \in DOMAIN out[r] : out[r][i].type = "reject") =>
      /\ Len(out[r]) <= 2
      /\ out[r][1].type = "reject"
      /\ Len(out[r]) = 2 => out[r][2].type = "term"

(* What the agent writes for a turn reaches the turn's own stream only     *)
(* after the ack.                                                          *)
AckBeforeOwnWork ==
  DistinctReplies => \A r \in Replies : \A i \in DOMAIN out[r] :
    (out[r][i].by = "pump" /\ ReplyOf[out[r][i].turn] = r) =>
      \E j \in 1..(i-1) : out[r][j].type = "ack"

(* A turn loses the slot only to the interrupt, to the pump serving its    *)
(* stream, to its own watchdog or to its own handler: the late watchdog or *)
(* handler of an earlier turn finds another reply subject and does nothing.*)
LosesSlotToOwnCloser ==
  (activeCancel # NoTurn /\ activeCancel' # activeCancel) =>
    /\ activeCancel' = NoTurn
    /\ \/ pc[Sig] = "interrupt" /\ victim'.cancel = activeCancel
       \/ watchdog[activeCancel] = "armed" /\ watchdog'[activeCancel] = "closing"
       \/ pump.at = "clear" /\ pump.reply = activeReply
       \/ \E h \in Handlers : /\ turn[h] = activeCancel
                              /\ pc[h] \in {"ack", "failClear"}
                              /\ pc'[h] = "idle"

NoStaleRelease == [][DistinctReplies => LosesSlotToOwnCloser]_vars

(* The pump published output of a turn on a stream that is not its own.    *)
Strays(r, i) == out[r][i].by = "pump" /\ ReplyOf[out[r][i].turn] # r

OnlyLateOutputStrays ==
  \A r \in Replies : \A i \in DOMAIN out[r] :
    Strays(r, i) => out[r][i].turn \in Finished

(* The step takes the output of a turn in flight from the channel, and     *)
(* holds it for that turn's stream.                                        *)
LiveOutputIsTaken ==
  \A t \in Turns \ Finished :
    (events # << >> /\ Head(events).turn = t /\ events' = Tail(events))
      => pump'.reply = ReplyOf[t]

(* Chunks carry no turn, and the pump goes by the slot, which it loads     *)
(* without the mutex.  Still, what the agent writes for a turn in flight is*)
(* not dropped, and not published to another caller, whoever claims or     *)
(* loses the slot between the load and the publish: only the output of a   *)
(* turn that has lost the slot can go astray.                              *)
LiveOutputFindsItsStream == []OnlyLateOutputStrays /\ [][LiveOutputIsTaken]_vars

(* Every turn leaves the slot, whatever the agent does, until the shim is  *)
(* shut down.                                                              *)
EveryTurnEnds ==
  \A t \in Turns : (activeCancel = t) ~> (activeCancel # t \/ ~running)

Acked(t) == \E i \in DOMAIN out[ReplyOf[t]] :
  out[ReplyOf[t]][i].type = "ack" /\ out[ReplyOf[t]][i].turn = t

Terminated(t) == \E i \in DOMAIN out[ReplyOf[t]] : out[ReplyOf[t]][i].type = "term"

(* Every stream that was acked is terminated, whatever the agent does,     *)
(* also when it closes its Events() channel, until the shim is shut down.  *)
EveryStreamTerminated ==
  \A t \in Turns : ReplyOf[t] # NoReply =>
    (Acked(t) ~> (Terminated(t) \/ ~running))

(* Every error message, of a rejected prompt or in the middle of a stream, *)
(* is followed by a terminator.                                            *)
ErrorThenTerminator ==
  \A r \in Replies : \A i \in 1..4 :
    (i \in DOMAIN out[r] /\ out[r][i].type \in {"error", "reject"})
      ~> (\E j \in DOMAIN out[r] : j > i /\ out[r][j].type = "term")

(* Somebody is on the way to terminate the stream: the handler that refuses*)
(* or fails the request, the pump, the interrupt, or a watchdog.           *)
Owed(r) ==
  \/ \E h \in Handlers : pc[h] \in {"rejectTerm", "failTerm"} /\ ReplyOf[turn[h]] = r
  \/ pump.at = "term" /\ pump.reply = r
  \/ pc[Sig] \in {"cancel", "abort", "note", "noteTerm"} /\ victim.reply = r
  \/ \E t \in Turns : watchdog[t] = "closing" /\ ReplyOf[t] = r

(* No caller is left waiting on a stream that nobody will close.  After an *)
(* error, a refusal or an abort notice a terminator is out or owed.  The   *)
(* stream of an acked turn is terminated, or owed it, or the turn still    *)
(* holds the slot: whoever takes it from there answers for the stream, also*)
(* when two requests carry one reply subject.                              *)
NoStreamIsForgotten ==
  \A r \in Replies : \A i \in DOMAIN out[r] :
    /\ out[r][i].type \in {"error", "reject", "aborted"} =>
         Owed(r) \/ \E j \in DOMAIN out[r] : j > i /\ out[r][j].type = "term"
    /\ out[r][i].type = "ack" =>
         \/ Owed(r) \/ activeCancel = out[r][i].turn
         \/ \E j \in DOMAIN out[r] : out[r][j].type = "term"

-----------------------------------------------------------------------------
(* The inductive invariant. *)

(* A turn that is neither waiting to be delivered nor on its way to the    *)
(* slot.                                                                   *)
Started(t) ==
  /\ t \notin pending
  /\ \A h \in Handlers : turn[h] = t => pc[h] \in Dispatching

(* Who works on which request. *)
HandlerTurns ==
  /\ \A h \in Handlers :
       /\ turn[h] # NoTurn => turn[h] \notin pending /\ ReplyOf[turn[h]] \in Replies
       /\ pc[h] \in Dispatching \cup {"reject", "rejectTerm", "dispatch"}
            => turn[h] # NoTurn
       /\ pc[h] = "idle" => turn[h] = NoTurn
  /\ \A h \in Endpoints :
       pc[h] \in Dispatching \cup {"idle", "reject", "rejectTerm", "dispatch"}
  /\ \A g, h \in Handlers : turn[g] = turn[h] /\ turn[g] # NoTurn => g = h

(* The turn in the slot and the turns that lost it were started, and are   *)
(* not the same; every turn known to the watchdogs or the agent is one of  *)
(* them.                                                                   *)
TurnsAccounted ==
  /\ \A t \in Turns : (activeCancel = t \/ t \in Finished) => Started(t)
  /\ activeCancel \notin Finished
  /\ \A t \in Turns : Dispatched(t) => activeCancel = t \/ t \in Finished

(* The invariant that a step of the shim preserves, and that implies that *)
(* the slot is handed from turn to turn as TurnSlot says.                  *)
IndInv == TypeOK /\ HandlerTurns /\ SlotAgrees /\ TurnsAccounted

-----------------------------------------------------------------------------
(* What a comment of the repository says, and the code does not keep.      *)

(* shim.go:1212: the watchdog is idempotent with the pump's terminator;    *)
(* whichever fires first wins, the other does nothing.                     *)
PumpOrWatchdogTerminates ==
  DistinctReplies => \A r \in Replies :
    Terminators(r, {"pump"}) = {} \/ Terminators(r, {"watchdog"}) = {}
=============================================================================
