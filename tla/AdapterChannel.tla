--------------------------- MODULE AdapterChannel ---------------------------
(***************************************************************************)
(* The Events() channel of a TUI adapter: watchers that emit into it, the  *)
(* event pump that drains it, and Close, which may be called from several  *)
(* goroutines (adapter/claudecode/cc.go; pi, codex and gemini have the     *)
(* same emit and Close).                                                   *)
(*                                                                         *)
(* A Go select takes any one of its ready cases, so a watcher may go on    *)
(* although its stop channel is closed; a send on a closed channel panics. *)
(* A select none of whose cases is ready parks; closing stopCh wakes every *)
(* parked sender, which then takes the stopCh case.  A receive that finds  *)
(* the buffer full and a sender parked takes over that sender's chunk.     *)
(***************************************************************************)
EXTENDS Naturals, Sequences, FiniteSets

CONSTANTS
  Watchers,    \* the goroutines that emit: file tailer, marker watcher, ...
  Closers,     \* the goroutines that call Close
  ChanCap,     \* capacity of the channel
  MaxChunks    \* bound: chunks a watcher emits

ASSUME AdapterChannelAssumption ==
  /\ ChanCap \in Nat \ {0}
  /\ MaxChunks \in Nat

VARIABLES
  at,        \* where each watcher is
  emitted,   \* chunks each watcher has tried to emit
  events,    \* the buffer: who sent the chunk and its number
  received,  \* what the pump took, in order
  stopped,   \* stopCh is closed
  closed,    \* events is closed
  closer,    \* where each call of Close is
  ctxDone    \* the context the watchers and the pump were started with

watcherVars == <<at, emitted>>
chanVars == <<events, received>>
closeVars == <<stopped, closed, closer>>
vars == <<watcherVars, chanVars, closeVars, ctxDone>>

Chunk(w, n) == [from |-> w, number |-> n]
Goto(w, place) == at' = [at EXCEPT ![w] = place]

Init ==
  /\ at = [w \in Watchers |-> "loop"]
  /\ emitted = [w \in Watchers |-> 0]
  /\ events = << >> /\ received = << >>
  /\ stopped = FALSE /\ closed = FALSE
  /\ closer = [c \in Closers |-> "idle"]
  /\ ctxDone = FALSE

-----------------------------------------------------------------------------
(* A watcher: its loop's select, then emit. *)

LoopExits(w) ==
  /\ at[w] = "loop" /\ (ctxDone \/ stopped)
  /\ Goto(w, "exited")
  /\ UNCHANGED <<emitted, chanVars, closeVars, ctxDone>>

(* A tick or a file event is ready: the watcher calls emit. *)
LoopEmits(w) ==
  /\ at[w] = "loop" /\ emitted[w] < MaxChunks
  /\ Goto(w, "check")
  /\ emitted' = [emitted EXCEPT ![w] = @ + 1]
  /\ UNCHANGED <<chanVars, closeVars, ctxDone>>

(* emit's first select: leave at once when stopCh is closed. *)
EmitCheck(w) ==
  /\ at[w] = "check"
  /\ Goto(w, IF stopped THEN "loop" ELSE "select")
  /\ UNCHANGED <<emitted, chanVars, closeVars, ctxDone>>

(* emit's second select, one action per outcome. *)
EmitSends(w) ==
  /\ at[w] = "select" /\ ~closed /\ Len(events) < ChanCap
  /\ Goto(w, "loop")
  /\ events' = Append(events, Chunk(w, emitted[w]))
  /\ UNCHANGED <<emitted, received, closeVars, ctxDone>>

EmitStops(w) ==
  /\ at[w] = "select" /\ stopped
  /\ Goto(w, "loop")
  /\ UNCHANGED <<emitted, chanVars, closeVars, ctxDone>>

EmitParks(w) ==
  /\ at[w] = "select" /\ ~closed /\ ~stopped /\ Len(events) = ChanCap
  /\ Goto(w, "parked")
  /\ UNCHANGED <<emitted, chanVars, closeVars, ctxDone>>

(* The send case is ready because events is closed: it panics. *)
EmitPanics(w) ==
  /\ at[w] = "select" /\ closed
  /\ Goto(w, "panicked")
  /\ UNCHANGED <<emitted, chanVars, closeVars, ctxDone>>

-----------------------------------------------------------------------------
(* The event pump. *)

Parked == {w \in Watchers : at[w] = "parked"}

(* The pump's select; when its context is done too it may return instead.  *)
Receive ==
  /\ events # << >>
  /\ received' = Append(received, Head(events))
  /\ IF Parked = {}
     THEN events' = Tail(events) /\ UNCHANGED watcherVars
     ELSE \E w \in Parked :
            /\ events' = Append(Tail(events), Chunk(w, emitted[w]))
            /\ Goto(w, "loop")
            /\ UNCHANGED emitted
  /\ UNCHANGED <<closeVars, ctxDone>>

-----------------------------------------------------------------------------
(* Close, under closeOnce: a second caller waits for the first to be done. *)

Closing == \E c \in Closers : closer[c] \in {"stop", "events", "done"}

(* Fault: a second caller goes straight on. *)
CloseReturnsEarly(c) ==
  /\ closer[c] = "idle" /\ Closing
  /\ closer' = [closer EXCEPT ![c] = "done"]
  /\ UNCHANGED <<watcherVars, chanVars, stopped, closed, ctxDone>>

CloseBegins(c) ==
  /\ closer[c] = "idle" /\ ~Closing
  /\ closer' = [closer EXCEPT ![c] = "stop"]
  /\ UNCHANGED <<watcherVars, chanVars, stopped, closed, ctxDone>>

CloseWaits(c) ==
  /\ closer[c] = "idle"
  /\ \E d \in Closers : closer[d] = "done"
  /\ closer' = [closer EXCEPT ![c] = "done"]
  /\ UNCHANGED <<watcherVars, chanVars, stopped, closed, ctxDone>>

(* Fault: events is closed first, under the parked senders. *)
CloseStopLate(c) ==
  /\ closer[c] = "stop"
  /\ closer' = [closer EXCEPT ![c] = "events"]
  /\ closed' = TRUE
  /\ UNCHANGED <<watcherVars, chanVars, stopped, ctxDone>>

(* Fault: the parked senders sleep on. *)
CloseStopSilently(c) ==
  /\ closer[c] = "stop"
  /\ closer' = [closer EXCEPT ![c] = "events"]
  /\ stopped' = TRUE
  /\ UNCHANGED <<watcherVars, chanVars, closed, ctxDone>>

(* close(stopCh) wakes every parked sender. *)
CloseStop(c) ==
  /\ closer[c] = "stop"
  /\ closer' = [closer EXCEPT ![c] = "events"]
  /\ stopped' = TRUE
  /\ at' = [w \in Watchers |-> IF at[w] = "parked" THEN "loop" ELSE at[w]]
  /\ UNCHANGED <<emitted, chanVars, closed, ctxDone>>

CloseEvents(c) ==
  /\ closer[c] = "events"
  /\ closer' = [closer EXCEPT ![c] = "done"]
  /\ closed' = TRUE
  /\ UNCHANGED <<watcherVars, chanVars, stopped, ctxDone>>

CtxCancelled ==
  /\ ~ctxDone /\ ctxDone' = TRUE
  /\ UNCHANGED <<watcherVars, chanVars, closeVars>>

-----------------------------------------------------------------------------
WatcherStep(w) ==
  \/ LoopExits(w) \/ LoopEmits(w) \/ EmitCheck(w)
  \/ EmitSends(w) \/ EmitStops(w) \/ EmitParks(w) \/ EmitPanics(w)

CloseStep(c) ==
  CloseBegins(c) \/ CloseWaits(c) \/ CloseStop(c) \/ CloseEvents(c)

Next ==
  \/ \E w \in Watchers : WatcherStep(w)
  \/ Receive
  \/ \E c \in Closers : CloseStep(c)
  \/ CtxCancelled

Spec == Init /\ [][Next]_vars

(* Every goroutine that can go on does, the pump as long as its context is *)
(* live.  Nobody need call Close or cancel the context, but a Close that   *)
(* began goes on.                                                          *)
FairSpec ==
  /\ Spec
  /\ \A w \in Watchers : WF_vars(WatcherStep(w))
  /\ WF_vars(~ctxDone /\ Receive)
  /\ \A c \in Closers : WF_vars(CloseWaits(c) \/ CloseStop(c) \/ CloseEvents(c))

-----------------------------------------------------------------------------
(* Properties. *)

(* Types. *)
TypeOK ==
  /\ at \in [Watchers -> {"loop", "check", "select", "parked", "exited", "panicked"}]
  /\ emitted \in [Watchers -> 0..MaxChunks]
  /\ events \in Seq([from : Watchers, number : 1..MaxChunks])
  /\ Len(events) <= ChanCap
  /\ received \in Seq([from : Watchers, number : 1..MaxChunks])
  /\ stopped \in BOOLEAN /\ closed \in BOOLEAN /\ ctxDone \in BOOLEAN
  /\ closer \in [Closers -> {"idle", "stop", "events", "done"}]

(* The chunks that entered the channel. *)
Log == received \o events

(* The channel is a queue as the shim relies on it, until Close is done    *)
(* and after: a receive hands the place of a chunk to a parked sender, and *)
(* that sender is none that Close has turned away.                         *)
Queue == INSTANCE EventQueue
  WITH Chunks <- [from : Watchers, number : 1..MaxChunks], Cap <- ChanCap,
       log <- Log, taken <- Len(received), shut <- closed

ChannelIsAQueue == Queue!Spec

(* Close wakes the parked senders before it closes the channel they are    *)
(* parked on: none is left that would panic.                               *)
NobodyParkedOnClosed == closed => Parked = {}

(* Close is idempotent, and whoever called it finds the adapter closed     *)
(* when it returns, the caller that did not do the work too.               *)
CloseIsDone ==
  /\ \A c \in Closers : closer[c] = "done" => stopped /\ closed
  /\ Cardinality({c \in Closers : closer[c] \in {"stop", "events"}}) <= 1

(* The window of the check: only a watcher that was past emit's first look *)
(* at stopCh when Close began can still reach the send, or panic there.    *)
LateEmitIsTurnedBack ==
  [][\A w \in Watchers :
       stopped /\ at[w] # "select" /\ at'[w] # at[w]
         => at'[w] \notin {"select", "panicked"}]_vars

(* Close ends every watcher, a sender that waits for room too.             *)
CloseEndsWatchers ==
  stopped ~> \A w \in Watchers : at[w] \in {"exited", "panicked"}

-----------------------------------------------------------------------------
(* What the repository says and the code does not do. *)

(* adapter/claudecode/cc.go, of emit: "Selecting on stopCh first           *)
(* guarantees we never send to a closed events channel".                   *)
NeverSendsOnClosed == \A w \in Watchers : at[w] # "panicked"
=============================================================================
